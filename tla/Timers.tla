------------------------------- MODULE Timers -------------------------------
(***************************************************************************)
(* The programs of timers/: timed_read.c (a read() with a time limit),     *)
(* real_timer.c (an interval timer and a flag), ptmr_sigev_signal.c and    *)
(* ptmr_null_evp.c (POSIX timers, a handler), ptmr_sigev_thread.c (POSIX   *)
(* timers, a thread for each notification), demo_timerfd.c,                *)
(* t_nanosleep.c, t_clock_nanosleep.c and itimerspec_from_str.c. They run  *)
(* against the kernel's timers: a notification that is not yet accepted    *)
(* when its timer expires again is not repeated but counted as an overrun. *)
(***************************************************************************)
EXTENDS Integers, Sequences, SequencesExt, FiniteSets, FiniteSetsExt, Functions

CONSTANTS
    None,
    N,             \* timers of the programs that take several
    Specs,         \* the arguments: records [value, interval] in ticks of the clock
    NSEC,          \* nanoseconds in a second, a nanosecond being a tick
    MaxTime,       \* bound: ticks of the clock
    MaxSignals,    \* bound: SIGINTs sent to a sleeper
    MaxThreads     \* bound: threads of ptmr_sigev_thread at a time

Apps == {"timed_read", "real_timer", "ptmr_signal", "ptmr_thread", "timerfd",
         "nanosleep", "clock_nanosleep"}
Ids == 1..N

VARIABLES
    app,
    spec,          \* the argument of each timer
    option,        \* SA_RESTART of timed_read, TIMER_ABSTIME of clock_nanosleep
    now,
    left,          \* ticks to the next expiration of each timer, 0 if it is not armed
    queued,        \* the notifications generated and not accepted
    overrun,       \* expirations since the notification was queued
    lastOverrun,   \* overrun at the last acceptance: what timer_getoverrun() returns
    expired,       \* expirations so far
    pc, j, count,  \* count: sigCnt, totalExp or expireCnt
    gotAlarm,
    handling,      \* the timer whose handler runs
    shown,         \* the expirations that the handler has shown, of each timer
    threads, main, printed, signalled,
    result,        \* of the read(); "overlap": two notifications of a timer in flight
    deadline, start, remain, awake, sent

timerVars == <<left, queued, overrun, lastOverrun, expired>>
readVars == <<gotAlarm, result>>
handlerVars == <<handling, shown>>
threadVars == <<threads, main, printed, signalled>>
sleepVars == <<deadline, start, remain, awake, sent>>
vars == <<app, spec, option, now, timerVars, pc, j, count, readVars, handlerVars, threadVars,
          sleepVars>>

Init ==
    /\ app \in Apps /\ spec \in [Ids -> Specs] /\ option \in BOOLEAN
    /\ now \in 0..(NSEC - 1)
    /\ left = [t \in Ids |-> 0] /\ queued = {} /\ overrun = left /\ lastOverrun = left
    /\ expired = left
    /\ pc = "begin" /\ j = 1 /\ count = 0 /\ gotAlarm = FALSE
    /\ handling = None /\ shown = left
    /\ threads = <<>> /\ main = "none" /\ printed = 0 /\ signalled = FALSE
    /\ result = None /\ deadline = 0 /\ start = 0 /\ remain = 0 /\ awake = 0 /\ sent = 0

-----------------------------------------------------------------------------
(* External: the kernel's timers. *)
Set(t, value) == left' = [left EXCEPT ![t] = value]
Fires(t) == left[t] = 1

Asleep == pc = "asleep"
Tick ==
    /\ now < MaxTime /\ pc \notin {"done", "failed"}
    /\ ~(Asleep /\ now >= deadline)    \* a sleeper is woken in time
    /\ now' = now + 1
    /\ left' = [t \in Ids |-> IF Fires(t) THEN spec[t].interval ELSE Max({left[t] - 1, 0})]
    /\ expired' = [t \in Ids |-> IF Fires(t) THEN expired[t] + 1 ELSE expired[t]]
    /\ overrun' = [t \in Ids |-> IF Fires(t) /\ t \in queued THEN overrun[t] + 1 ELSE overrun[t]]
    /\ queued' = queued \cup {t \in Ids : Fires(t)}
    /\ awake' = IF pc = "interrupted" THEN awake + 1 ELSE awake
    /\ UNCHANGED <<app, spec, option, lastOverrun, pc, j, count, readVars, handlerVars, threadVars,
                   deadline, start, remain, sent>>

Accept(t) ==
    /\ t \in queued /\ queued' = queued \ {t}
    /\ lastOverrun' = [lastOverrun EXCEPT ![t] = overrun[t]]
    /\ overrun' = [overrun EXCEPT ![t] = 0]
    /\ UNCHANGED <<left, expired>>

-----------------------------------------------------------------------------
(* timed_read.c: the handler is established (with SA_RESTART or not) and the alarm set. *)
TrAlarm ==
    /\ app = "timed_read" /\ pc = "begin" /\ pc' = "read" /\ Set(1, spec[1].value)
    /\ UNCHANGED <<app, spec, option, now, queued, overrun, lastOverrun, expired, j, count,
                   readVars, handlerVars, threadVars, sleepVars>>

(* The read() blocks until there is input, or fails. *)
TrRead ==
    /\ app = "timed_read" /\ pc \in {"read", "blocked"} /\ queued = {}
    /\ \/ pc = "read" /\ pc' = "blocked" /\ UNCHANGED result
       \/ pc' = "off" /\ result' \in {"data", "error"}
    /\ UNCHANGED <<app, spec, option, now, timerVars, j, count, gotAlarm, handlerVars,
                   threadVars, sleepVars>>

(* The handler. A blocked read() then fails with EINTR, or is restarted. *)
TrHandler ==
    /\ app = "timed_read" /\ Accept(1) /\ gotAlarm' = TRUE
    /\ \/ pc = "blocked" /\ ~option /\ pc' = "off" /\ result' = "timed out"
       \/ (pc # "blocked" \/ option) /\ UNCHANGED <<pc, result>>
    /\ UNCHANGED <<app, spec, option, now, j, count, handlerVars, threadVars, sleepVars>>

(* alarm(0), which leaves a signal alone that has been sent. *)
TrOff ==
    /\ app = "timed_read" /\ pc = "off" /\ queued = {} /\ pc' = "done" /\ Set(1, 0)
    /\ UNCHANGED <<app, spec, option, now, queued, overrun, lastOverrun, expired, j, count,
                   readVars, handlerVars, threadVars, sleepVars>>

-----------------------------------------------------------------------------
(* real_timer.c. *)
RtSetitimer ==
    /\ app = "real_timer" /\ pc = "begin" /\ pc' = "test" /\ Set(1, spec[1].value)
    /\ UNCHANGED <<app, spec, option, now, queued, overrun, lastOverrun, expired, j, count,
                   readVars, handlerVars, threadVars, sleepVars>>

sigalrmHandler ==
    /\ app = "real_timer" /\ Accept(1) /\ gotAlarm' = TRUE
    /\ UNCHANGED <<app, spec, option, now, pc, j, count, result, handlerVars, threadVars, sleepVars>>

maxSigs == IF spec[1].interval = 0 THEN 1 ELSE 3

(* The test of gotAlarm and its reset are two steps; the alarms so far are then noticed. *)
RtTest ==
    /\ app = "real_timer" /\ pc = "test" /\ queued = {} /\ gotAlarm /\ pc' = "reset"
    /\ UNCHANGED <<app, spec, option, now, timerVars, j, count, readVars, handlerVars, threadVars,
                   sleepVars>>
RtReset ==
    /\ app = "real_timer" /\ pc = "reset" /\ queued = {} /\ pc' = "count" /\ gotAlarm' = FALSE
    /\ shown' = [shown EXCEPT ![1] = expired[1]]
    /\ UNCHANGED <<app, spec, option, now, timerVars, j, count, result, handling, threadVars,
                   sleepVars>>

(* Mutant: the flag is reset when the alarm has been displayed. *)
RtCountResets ==
    /\ app = "real_timer" /\ pc = "count" /\ queued = {} /\ count' = count + 1
    /\ pc' = IF count' >= maxSigs THEN "done" ELSE "test"
    /\ gotAlarm' = FALSE
    /\ UNCHANGED <<app, spec, option, now, timerVars, j, result, handlerVars, threadVars, sleepVars>>

RtCount ==
    /\ app = "real_timer" /\ pc = "count" /\ queued = {} /\ count' = count + 1
    /\ pc' = IF count' >= maxSigs THEN "done" ELSE "test"
    /\ UNCHANGED <<app, spec, option, now, timerVars, j, readVars, handlerVars, threadVars,
                   sleepVars>>

real_timer == RtSetitimer \/ sigalrmHandler \/ RtTest \/ RtReset \/ RtCount

-----------------------------------------------------------------------------
(* ptmr_sigev_signal.c, ptmr_null_evp.c (with one timer) and ptmr_sigev_thread.c create and
   start a timer for each argument. *)
CreateTimer ==
    /\ app \in {"ptmr_signal", "ptmr_thread"} /\ pc = "begin"
    /\ app = "ptmr_signal" => queued = {} /\ handling = None
    /\ \/ /\ Set(j, spec[j].value) /\ j' = j + 1
          /\ pc' = IF j = N THEN "pause" ELSE pc
          /\ main' = IF j = N /\ app = "ptmr_thread" THEN "lock" ELSE main
       \/ pc' = "failed" /\ UNCHANGED <<left, j, main>>
    /\ UNCHANGED <<app, spec, option, now, queued, overrun, lastOverrun, expired, count, readVars,
                   handlerVars, threads, printed, signalled, sleepVars>>

(* The signal is blocked while its handler runs. *)
HandlerStarts(t) ==
    /\ app = "ptmr_signal" /\ pc # "failed" /\ handling = None /\ Accept(t) /\ handling' = t
    /\ UNCHANGED <<app, spec, option, now, pc, j, count, readVars, shown, threadVars, sleepVars>>

(* timer_getoverrun() gives the overruns at the last acceptance. *)
HandlerShows ==
    /\ app = "ptmr_signal" /\ handling # None /\ handling' = None
    /\ shown' = [shown EXCEPT ![handling] = @ + 1 + lastOverrun[handling]]
    /\ UNCHANGED <<app, spec, option, now, timerVars, pc, j, count, readVars, threadVars, sleepVars>>

(* External: the C library accepts the notification and runs threadFunc() in a new thread. *)
ThreadStarts(t) ==
    /\ app = "ptmr_thread" /\ pc # "failed" /\ Len(threads) < MaxThreads /\ Accept(t)
    /\ threads' = Append(threads, [timer |-> t, pc |-> "lock"])
    /\ result' = IF [timer |-> t, pc |-> "lock"] \in ToSet(threads) THEN "overlap" ELSE result
    /\ UNCHANGED <<app, spec, option, now, pc, j, count, gotAlarm, handlerVars, main, printed,
                   signalled, sleepVars>>

(* The mutex is free unless the main thread has it: threadFunc() adds in one step. *)
MutexFree == main # "print"

ThreadAdds(i) ==
    /\ threads[i].pc = "lock" /\ MutexFree
    /\ count' = count + 1 + lastOverrun[threads[i].timer]
    /\ threads' = [threads EXCEPT ![i].pc = "signal"]
    /\ UNCHANGED <<app, spec, option, now, timerVars, pc, j, readVars, handlerVars, main, printed,
                   signalled, sleepVars>>

(* pthread_cond_signal(), lost unless the main thread waits. *)
ThreadSignals(i) ==
    /\ threads[i].pc = "signal" /\ threads' = RemoveAt(threads, i)
    /\ main' = IF main = "wait" THEN "woken" ELSE main
    /\ signalled' = (signalled \/ main = "wait")
    /\ UNCHANGED <<app, spec, option, now, timerVars, pc, j, count, readVars, handlerVars, printed,
                   sleepVars>>

threadFunc == \E i \in 1..Len(threads) : ThreadAdds(i) \/ ThreadSignals(i)

(* The main thread locks the mutex and waits; woken, it locks the mutex and prints. *)
MainStep ==
    /\ \/ main = "lock" /\ main' = "wait" /\ UNCHANGED printed
       \/ main = "woken" /\ main' = "print" /\ UNCHANGED printed
       \/ main = "print" /\ main' = "wait" /\ printed' = count
    /\ UNCHANGED <<app, spec, option, now, timerVars, pc, j, count, readVars, handlerVars, threads,
                   signalled, sleepVars>>

(* External: pthread_cond_wait() may return although nobody has signalled. *)
SpuriousWakeup ==
    /\ main = "wait" /\ main' = "woken"
    /\ UNCHANGED <<app, spec, option, now, timerVars, pc, j, count, readVars, handlerVars, threads,
                   printed, signalled, sleepVars>>

-----------------------------------------------------------------------------
(* demo_timerfd.c; maxExp is 1 or the second argument. *)
maxExp == IF option THEN 3 ELSE 1

TfSettime ==
    /\ app = "timerfd" /\ pc = "begin" /\ pc' = "start" /\ Set(1, spec[1].value)
    /\ UNCHANGED <<app, spec, option, now, queued, overrun, lastOverrun, expired, j, count,
                   readVars, handlerVars, threadVars, sleepVars>>
TfStart ==
    /\ app = "timerfd" /\ pc = "start" /\ pc' = "read" /\ start' = now
    /\ UNCHANGED <<app, spec, option, now, timerVars, j, count, readVars, handlerVars, threadVars,
                   deadline, remain, awake, sent>>

(* The read() waits for an expiration and returns the number of them since the last. *)
TfRead ==
    /\ app = "timerfd" /\ pc = "read" /\ Accept(1) /\ count' = count + 1 + overrun[1]
    /\ pc' = "show"
    /\ UNCHANGED <<app, spec, option, now, j, readVars, handlerVars, threadVars, sleepVars>>

Sec(t) == t \div NSEC
Nsec(t) == t % NSEC

(* The difference of two times, with a borrow. *)
Elapsed(from, to) ==
    LET secs == Sec(to) - Sec(from)
        nanosecs == Nsec(to) - Nsec(from)
    IN IF nanosecs < 0 THEN <<secs - 1, nanosecs + NSEC>> ELSE <<secs, nanosecs>>

TfShow ==
    /\ app = "timerfd" /\ pc = "show" /\ pc' = IF count < maxExp THEN "read" ELSE "done"
    /\ UNCHANGED <<app, spec, option, now, timerVars, j, count, readVars, handlerVars, threadVars,
                   sleepVars>>

demo_timerfd == TfSettime \/ TfStart \/ TfRead \/ TfShow

-----------------------------------------------------------------------------
(* t_nanosleep.c and t_clock_nanosleep.c: the arguments are seconds and nanoseconds; those
   of an absolute sleep are added to the current time, with a carry. *)
secs == spec[1].value
nanosecs == spec[1].interval
Absolute == app = "clock_nanosleep" /\ option

Request ==
    LET sum == Nsec(now) + nanosecs
    IN IF ~Absolute THEN <<secs, nanosecs>>
       ELSE IF sum >= NSEC THEN <<Sec(now) + secs + Sec(sum), Nsec(sum)>>
       ELSE <<Sec(now) + secs, sum>>

(* The kernel refuses a second or more in nanoseconds. *)
SlStart ==
    /\ app \in {"nanosleep", "clock_nanosleep"} /\ pc = "begin"
    /\ pc' = IF Request[2] >= NSEC THEN "failed" ELSE "asleep"
    /\ deadline' = (IF Absolute THEN 0 ELSE now) + Request[1] * NSEC + Request[2]
    /\ start' = now
    /\ UNCHANGED <<app, spec, option, now, timerVars, j, count, readVars, handlerVars, threadVars,
                   remain, awake, sent>>
SlInterrupted ==
    /\ pc = "asleep" /\ now < deadline /\ sent < MaxSignals
    /\ sent' = sent + 1 /\ remain' = deadline - now /\ pc' = "interrupted"
    /\ UNCHANGED <<app, spec, option, now, timerVars, j, count, readVars, handlerVars, threadVars,
                   deadline, start, awake>>
SlAgain ==
    /\ pc = "interrupted" /\ pc' = "asleep"
    /\ deadline' = IF Absolute THEN deadline ELSE now + remain
    /\ UNCHANGED <<app, spec, option, now, timerVars, j, count, readVars, handlerVars, threadVars,
                   start, remain, awake, sent>>
SlWakes ==
    /\ pc = "asleep" /\ now >= deadline /\ pc' = "done"
    /\ UNCHANGED <<app, spec, option, now, timerVars, j, count, readVars, handlerVars, threadVars,
                   sleepVars>>

nanosleep == SlStart \/ SlAgain \/ SlWakes

-----------------------------------------------------------------------------
(* itimerspecFromStr(): a string is a sequence of numbers and separators. *)
Digit == [d \in {"1", "2", "3"} |-> CASE d = "1" -> 1 [] d = "2" -> 2 [] d = "3" -> 3]
atoi(s) == IF s # <<>> /\ s[1] \in DOMAIN Digit THEN Digit[s[1]] ELSE 0
strchr(s, c) == SelectInSeq(s, LAMBDA x : x = c)
Before(s, i) == IF i = 0 THEN s ELSE SubSeq(s, 1, i - 1)
After(s, i) == IF i = 0 THEN <<>> ELSE SubSeq(s, i + 1, Len(s))
timespec(s) == LET sptr == strchr(s, "/") IN <<atoi(Before(s, sptr)), atoi(After(s, sptr))>>

itimerspecFromStr(str) ==
    LET cptr == strchr(str, ":")
    IN [it_value |-> timespec(Before(str, cptr)), it_interval |-> timespec(After(str, cptr))]

-----------------------------------------------------------------------------
timed_read == TrAlarm \/ TrRead \/ TrHandler \/ TrOff
Handler == HandlerShows \/ \E t \in Ids : HandlerStarts(t)
Notification == threadFunc \/ \E t \in Ids : ThreadStarts(t)

Next ==
    \/ timed_read \/ real_timer \/ CreateTimer \/ Handler \/ Notification \/ MainStep
    \/ SpuriousWakeup \/ demo_timerfd \/ nanosleep \/ SlInterrupted \/ Tick

Spec == Init /\ [][Next]_vars

(* The clock goes on and every program and thread runs; the main thread of
   ptmr_sigev_thread, which takes the mutex again and again, does not keep the others from
   it for ever. *)
Main == timed_read \/ real_timer \/ demo_timerfd \/ nanosleep \/ CreateTimer \/ MainStep
Fairness == WF_vars(Tick) /\ WF_vars(Main) /\ WF_vars(Handler) /\ SF_vars(Notification)

-----------------------------------------------------------------------------
TypeOK ==
    /\ now \in 0..MaxTime /\ queued \subseteq Ids /\ handling \in Ids \cup {None}
    /\ \A t \in Ids : left[t] >= 0 /\ overrun[t] >= 0
    /\ pc \in {"begin", "read", "blocked", "off", "test", "reset", "count", "pause", "start",
               "show", "asleep", "interrupted", "done", "failed"}
    /\ main \in {"none", "lock", "wait", "woken", "print"}
    /\ result \in {None, "data", "error", "timed out", "overlap"}

Queued(t) == IF t \in queued THEN 1 + overrun[t] ELSE 0

(* "Read timed out" means that the time has passed and the read() is not restarted. When
   timed_read ends, no alarm is left. *)
TimedOutTruly ==
    /\ result = "timed out" => expired[1] > 0 /\ ~option
    /\ app = "timed_read" /\ pc = "done" => left[1] = 0 /\ queued = {}

(* real_timer notices every alarm, also one that comes between the test of gotAlarm and the
   end of the display, and counts no more alarms than there were. *)
AlarmsNoticed ==
    app = "real_timer" =>
        /\ expired[1] > shown[1] /\ pc # "reset" => gotAlarm \/ 1 \in queued
        /\ count <= expired[1] /\ count <= maxSigs

(* What the handler of ptmr_sigev_signal shows for a timer, one and the overruns each time,
   adds up to the expirations of the timer. *)
OverrunsExact ==
    app = "ptmr_signal" =>
        \A t \in Ids : shown[t] + (IF handling = t THEN 1 + lastOverrun[t] ELSE 0) + Queued(t)
                           = expired[t]

Adding(t) == {i \in 1..Len(threads) : threads[i] = [timer |-> t, pc |-> "lock"]}

(* expireCnt of ptmr_sigev_thread is the number of expirations, if no notification of a
   timer is accepted while the thread of an earlier one has still to add. *)
ExpireCntIfApart ==
    app = "ptmr_thread" /\ result # "overlap" =>
        count + MapThenSumSet(LAMBDA t : (IF Adding(t) # {} THEN 1 + lastOverrun[t] ELSE 0)
                                             + Queued(t), Ids)
            = MapThenSumSet(LAMBDA t : expired[t], Ids)

(* "Number of expirations of all timers", whenever nothing is on its way. *)
ExpireCntExact ==
    app = "ptmr_thread" /\ threads = <<>> /\ queued = {} =>
        count = MapThenSumSet(LAMBDA t : expired[t], Ids)

(* Once a thread has found the main thread of ptmr_sigev_thread waiting, what main() has
   printed last is the latest count whenever it waits and no thread is under way: a signal
   sent while it does not wait is not missed. *)
PrintedLatest == main = "wait" /\ threads = <<>> /\ signalled => printed = count

(* demo_timerfd counts every expiration, ends with the count asked for or more, and
   computes the elapsed time right. *)
TimerfdExact ==
    app = "timerfd" =>
        /\ count + Queued(1) = expired[1]
        /\ pc = "done" => count >= maxExp
        /\ pc = "show" => LET e == Elapsed(start, now)
                          IN e[2] \in 0..(NSEC - 1) /\ e[1] * NSEC + e[2] = now - start

(* A relative sleep takes what was asked for and the time spent outside it after each
   interruption; an absolute one ends at its time, or when it is called again after that,
   and accepts any number of nanoseconds. *)
SleepExact ==
    LET end == start + secs * NSEC + nanosecs
    IN app \in {"nanosleep", "clock_nanosleep"} =>
           /\ pc = "done" /\ ~Absolute => now = end + awake
           /\ pc = "done" /\ Absolute => now \in end..(end + awake)
           /\ pc = "failed" => nanosecs >= NSEC /\ ~Absolute

Optional == {"", "1", "2"}
Part(s, n) == (IF s = "" THEN <<>> ELSE <<s>>) \o (IF n = "" THEN <<>> ELSE <<"/", n>>)
Value(d) == IF d = "" THEN 0 ELSE Digit[d]

(* The programs' first step: itimerspecFromStr() reads every string of the form that its comment gives, and 0 for
   what is left out. *)
SpecParsed ==
    app = "timerfd" /\ pc = "begin" =>
        \A s, n, i, m \in Optional :
            LET str == Part(s, n) \o (IF i = "" THEN <<>> ELSE <<":">> \o Part(i, m))
            IN itimerspecFromStr(str) =
                   [it_value |-> <<Value(s), Value(n)>>,
                    it_interval |-> <<Value(i), IF i = "" THEN 0 ELSE Value(m)>>]

(* What the programs say about their timers is what the timers did. *)
TimersExact ==
    /\ TypeOK /\ TimedOutTruly /\ AlarmsNoticed /\ OverrunsExact /\ ExpireCntIfApart
    /\ PrintedLatest /\ TimerfdExact /\ SleepExact /\ SpecParsed

(* In the end, or when there is no more time: a read() that blocked before its alarm is over,
   if it is not restarted; real_timer has ended after the alarm of a timer without interval;
   every notification of a POSIX timer is shown or added; a sleep is over. *)
TimersEnd ==
    /\ pc = "blocked" /\ ~option /\ left[1] > 0 => now = MaxTime
    /\ app = "real_timer" /\ spec[1].interval = 0 /\ expired[1] > 0 => pc = "done"
    /\ app \in {"ptmr_signal", "ptmr_thread"} => queued = {} \/ pc = "failed"
    /\ pc = "asleep" => now = MaxTime
=============================================================================
