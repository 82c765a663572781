---------------------------- MODULE MCProcesses -----------------------------
(***************************************************************************)
(* Programs in which one of several does something first, and programs     *)
(* about processes, signals and waiting: one_time_init (OneTimeInit),      *)
(* svsem_*_init (SvsemInit), createPidFile() (PidFile), multi_SIGCHLD      *)
(* (MultiSigchld), becomeDaemon() (BecomeDaemon), daemon_SIGHUP            *)
(* (DaemonSighup), simple_init (SimpleInit) and system() (SystemCall).     *)
(* Each is an instance with variables of its own, with what is to hold of  *)
(* it and the proof, for any values of the constants that the assumptions  *)
(* allow. The last part is the specification that is model checked; it has *)
(* three more groups of programs.                                          *)
(***************************************************************************)
EXTENDS Integers, Sequences, FiniteSets, TLAPS

CONSTANTS
    SemProcs, SemOp, MAX_TRIES, Garbage,
    FileProcs, PidStr, Inodes, NoFile,
    numChildren,
    MaxFd, OpenMax, BD_MAX_CLOSE,
    SLEEP_TIME, MaxVersion, CountMod,
    MaxCmds, Orphans,
    Others, MaxInterrupts,
    Threads, NoThread, Calls

-----------------------------------------------------------------------------
(* system() *)

VARIABLES spc, blocked, sigchld, disp, orig, child, cdisp, cstatus, status, others, interrupts

systemVars == <<spc, blocked, sigchld, disp, orig, child, cdisp, cstatus, status, others, interrupts>>
Sys == INSTANCE SystemCall WITH pc <- spc

(* system() returns the status of its command, which the caller's handler never takes; no
   key kills the caller while the command exists; mask and dispositions are restored; the
   command has those an exec() would have given it; other children are noticed. *)
SystemSafe ==
    /\ Sys!StatusExact /\ Sys!CallerSurvives /\ Sys!Restored
    /\ Sys!CommandDispositions /\ Sys!NoForgottenChild /\ Sys!Inv

(* It holds when system() is called. *)
LEMMA SysInit == Sys!Init => Sys!Inv
<1>1. Sys!Init => blocked = FALSE /\ sigchld = FALSE /\ blocked \in BOOLEAN /\ sigchld \in BOOLEAN
  BY Zenon DEF Sys!Init
<1> QED
  BY <1>1
  DEF Sys!Init, Sys!Inv, Sys!TypeOK, Sys!CallerInv, Sys!Blocked, Sys!DispositionsInv, Sys!ChildInv,
      Sys!StatusExact, Sys!CallerSurvives, Sys!Restored, Sys!CommandDispositions,
      Sys!NoForgottenChild, Sys!Keys, Sys!Dispositions

(* Every step of the caller, of its handler, of the child and of the terminal preserves it. *)
LEMMA SysStep == ASSUME Sys!Inv, [Sys!Next]_systemVars PROVE Sys!Inv'
<1> USE DEF Sys!Inv, Sys!TypeOK, Sys!CallerInv, Sys!Blocked, Sys!DispositionsInv, Sys!ChildInv, Sys!Wanted,
        Sys!StatusExact, Sys!CallerSurvives, Sys!Restored, Sys!CommandDispositions,
        Sys!NoForgottenChild, Sys!Keys, Sys!Dispositions, Sys!callerVars, Sys!childVars
<1>1. CASE Sys!Block
  BY <1>1, Zenon DEF Sys!Block
<1>2. CASE Sys!Ignore
  BY <1>2 DEF Sys!Ignore, Sys!IgnoreAt
<1>3. CASE Sys!Fork
  BY <1>3 DEF Sys!Fork
<1>4. CASE Sys!ForkFails
  BY <1>4 DEF Sys!ForkFails
<1>5. CASE Sys!Wait
  BY <1>5 DEF Sys!Wait
<1>6. CASE Sys!Unblock
  <2>1. blocked' \in BOOLEAN /\ ~blocked'
    BY <1>6, Zenon DEF Sys!Unblock
  <2> QED
    BY <1>6, <2>1 DEF Sys!Unblock
<1>7. CASE Sys!Restore
  BY <1>7 DEF Sys!Restore, Sys!RestoreAt
<1>8. CASE Sys!CallerReaps
  <2>1. sigchld' \in BOOLEAN
    BY <1>8, Zenon DEF Sys!CallerReaps
  <2>2. ~blocked /\ spc # "killed" /\ child \in {"none", "reaped"} /\ child' = child
    BY <1>8, Zenon DEF Sys!CallerReaps
  <2>3. others' \in [Others -> {"run", "zombie", "reaped"}] /\ \A o \in Others : others'[o] # "zombie"
    BY <1>8 DEF Sys!CallerReaps
  <2>4. UNCHANGED <<spc, blocked, disp, orig, status, cdisp, cstatus>>
    BY <1>8 DEF Sys!CallerReaps
  <2> QED
    BY <2>1, <2>2, <2>3, <2>4
<1>9. CASE Sys!ChildSets
  BY <1>9 DEF Sys!ChildSets, Sys!ChildSetAt
<1>10. CASE Sys!ChildExec
  BY <1>10 DEF Sys!ChildExec
<1>11. CASE Sys!ChildExits
  BY <1>11, Zenon DEF Sys!ChildExits, Sys!ChildDies
<1>12. ASSUME NEW o \in Others, Sys!OtherExits(o) PROVE Sys!Inv'
  BY <1>12 DEF Sys!OtherExits
<1>13. ASSUME NEW k \in Sys!Keys, Sys!Interrupt(k) PROVE Sys!Inv'
  <2>1. CASE child \in {"setINT", "setQUIT", "exec", "run"} /\ cdisp[k] = "DFL"
    <3>1. spc = "wait" /\ disp[k] = "IGN"
      BY <2>1, <1>13
    <3>2. /\ child' = "zombie" /\ cstatus' = "signal" /\ sigchld' = TRUE
          /\ UNCHANGED <<spc, blocked, disp, orig, status, cdisp, others>>
      BY <1>13, <2>1, <3>1 DEF Sys!Interrupt, Sys!ChildDies
    <3> QED
      BY <3>1, <3>2
  <2>2. CASE ~ (child \in {"setINT", "setQUIT", "exec", "run"} /\ cdisp[k] = "DFL")
    BY <1>13, <2>2 DEF Sys!Interrupt
  <2> QED
    BY <2>1, <2>2
<1>14. CASE UNCHANGED systemVars
  BY <1>14 DEF systemVars
<1> QED
  BY <1>1, <1>2, <1>3, <1>4, <1>5, <1>6, <1>7, <1>8, <1>9, <1>10, <1>11, <1>12, <1>13, <1>14, Zenon
  DEF Sys!Next, Sys!system, Sys!Child

(* However many other children die and keys are typed: system() returns the status of its
   command, is not killed while the command exists, restores what it changed, and gives the
   command the dispositions that it should have. *)
THEOREM SysSafety == Sys!Spec => []SystemSafe
<1>1. Sys!Init => Sys!Inv
  BY SysInit
<1>2. Sys!Inv /\ [Sys!Next]_(Sys!vars) => Sys!Inv'
  BY SysStep DEF Sys!vars, Sys!callerVars, Sys!childVars, systemVars
<1>3. Sys!Inv => SystemSafe
  BY DEF SystemSafe, Sys!Inv
<1> QED
  BY <1>1, <1>2, <1>3, PTL DEF Sys!Spec

-----------------------------------------------------------------------------
(* simple_init *)

VARIABLES ipc, n, st, istatus, fg, ipending, ihandler

initVars == <<ipc, n, st, istatus, fg, ipending, ihandler>>
InitProg == INSTANCE SimpleInit WITH
                pc <- ipc, status <- istatus, pending <- ipending, handler <- ihandler

(* An orphan is no command of simple_init. *)
ASSUME InitAssumption == MaxCmds \in Nat /\ Orphans \cap (0 .. MaxCmds) = {}

(* Whatever dies in the namespace of simple_init is noticed, and simple_init is in the
   foreground while it reads a command, if it adopted no orphan. *)
InitSafe == InitProg!NoForgottenZombie /\ InitProg!PromptInForeground /\ InitProg!Inv

(* It holds when simple_init starts. *)
LEMMA InitProgInit == InitProg!Init => InitProg!Inv
<1>1. InitProg!Init => ~ipending /\ ~ihandler /\ ipending \in BOOLEAN /\ ihandler \in BOOLEAN
  BY Zenon DEF InitProg!Init
<1> QED
  BY <1>1, InitAssumption
  DEF InitProg!Init, InitProg!Inv, InitProg!TypeOK, InitProg!CommandsInv, InitProg!NoForgottenZombie,
      InitProg!PromptInForeground, InitProg!Gone, InitProg!Cmds

(* Every step of main(), of the handler and of a child preserves it. *)
LEMMA InitProgStep == ASSUME InitProg!Inv, [InitProg!Next]_initVars PROVE InitProg!Inv'
<1> USE InitAssumption
    DEF InitProg!Inv, InitProg!TypeOK, InitProg!CommandsInv, InitProg!NoForgottenZombie,
        InitProg!PromptInForeground, InitProg!Gone, InitProg!Cmds, InitProg!NoOrphans, InitProg!Init0
<1>1. CASE InitProg!BecomeForeground
  BY <1>1 DEF InitProg!BecomeForeground
<1>2. CASE InitProg!ReadCommand
  BY <1>2 DEF InitProg!ReadCommand
<1>3. CASE InitProg!ExitLoop
  BY <1>3 DEF InitProg!ExitLoop
<1>4. CASE InitProg!Fork
  BY <1>4 DEF InitProg!Fork
<1>5. CASE InitProg!Pause
  BY <1>5 DEF InitProg!Pause
<1>6. CASE InitProg!Retake
  BY <1>6 DEF InitProg!Retake
<1>7. CASE InitProg!HandlerStarts
  BY <1>7, Zenon DEF InitProg!HandlerStarts
<1>8. CASE InitProg!WaitChild
  BY <1>8 DEF InitProg!WaitChild, InitProg!Wait, InitProg!Waitable
<1>9. CASE InitProg!WaitNone
  BY <1>9, Zenon DEF InitProg!WaitNone, InitProg!Waitable
<1>10. ASSUME NEW c \in InitProg!Cmds, InitProg!ChildExec(c) PROVE InitProg!Inv'
  BY <1>10 DEF InitProg!ChildExec
<1>11. ASSUME NEW c \in InitProg!Cmds, InitProg!ChildStops(c) PROVE InitProg!Inv'
  BY <1>11 DEF InitProg!ChildStops
<1>12. ASSUME NEW c \in InitProg!Cmds \cup Orphans, InitProg!ChildExits(c) PROVE InitProg!Inv'
  BY <1>12 DEF InitProg!ChildExits, InitProg!Alive
<1>13. ASSUME NEW c \in Orphans, InitProg!Adopt(c) PROVE InitProg!Inv'
  BY <1>13 DEF InitProg!Adopt
<1>14. CASE UNCHANGED initVars
  BY <1>14 DEF initVars
<1> QED
  BY <1>1, <1>2, <1>3, <1>4, <1>5, <1>6, <1>7, <1>8, <1>9, <1>10, <1>11, <1>12, <1>13, <1>14, Zenon
  DEF InitProg!Next, InitProg!main, InitProg!child_handler

(* For any number of commands and orphans: simple_init notices whatever dies in its namespace,
   and is in the foreground while it reads a command if it has adopted no orphan. *)
THEOREM InitProgSafety == InitProg!Spec => []InitSafe
<1>1. InitProg!Init => InitProg!Inv
  BY InitProgInit
<1>2. InitProg!Inv /\ [InitProg!Next]_(InitProg!vars) => InitProg!Inv'
  BY InitProgStep DEF InitProg!vars, initVars
<1>3. InitProg!Inv => InitSafe
  BY DEF InitSafe, InitProg!Inv
<1> QED
  BY <1>1, <1>2, <1>3, PTL DEF InitProg!Spec

-----------------------------------------------------------------------------
(* becomeDaemon() *)

VARIABLES flags, maxfd, dpc, ret, alive, last, session, ctty, fds, mask0, root

daemonVars == <<flags, maxfd, dpc, ret, alive, last, session, ctty, fds, mask0, root>>
Daemon == INSTANCE BecomeDaemon WITH pc <- dpc

(* The standard descriptors are descriptors; the limits are numbers. *)
ASSUME DaemonAssumption ==
    MaxFd \in Nat /\ MaxFd >= 2 /\ OpenMax \subseteq Int /\ BD_MAX_CLOSE \in Int

(* The session of a daemon never has a controlling terminal, not even after the daemon has
   opened one; nothing its caller had open is left, and the standard descriptors refer to
   /dev/null, unless the flags of becomeDaemon() say otherwise. *)
DaemonDetached ==
    Daemon!NeverControlled /\ Daemon!StdFdsNull /\ Daemon!AllClosed /\ Daemon!Inv

(* It holds when becomeDaemon() is called. *)
LEMMA DaemonInit == Daemon!Init => Daemon!Inv
<1>1. Daemon!Init => mask0 \in BOOLEAN /\ root \in BOOLEAN
  BY Zenon DEF Daemon!Init
<1> QED
  BY <1>1, DaemonAssumption
  DEF Daemon!Init, Daemon!Inv, Daemon!TypeOK, Daemon!SessionInv, Daemon!FilesInv, Daemon!NeverControlled,
      Daemon!StdFdsNull, Daemon!AllClosed, Daemon!Success, Daemon!Fds, Daemon!Flags

(* Every step of becomeDaemon(), the end of a parent and the opening of a terminal preserve it. *)
LEMMA DaemonStep == ASSUME Daemon!Inv, [Daemon!Next]_daemonVars PROVE Daemon!Inv'
<1> USE DaemonAssumption
    DEF Daemon!Inv, Daemon!TypeOK, Daemon!SessionInv, Daemon!FilesInv, Daemon!NeverControlled,
        Daemon!StdFdsNull, Daemon!AllClosed, Daemon!Success, Daemon!Goto, Daemon!Return
<1>1. CASE Daemon!Fork1
  BY <1>1 DEF Daemon!Fork1, Daemon!Fork
<1>2. CASE Daemon!ForkFails
  BY <1>2 DEF Daemon!ForkFails
<1>3. CASE Daemon!ParentExits
  BY <1>3 DEF Daemon!ParentExits, Daemon!Limit
<1>4. CASE Daemon!Setsid
  BY <1>4 DEF Daemon!Setsid
<1>5. CASE Daemon!Fork2
  BY <1>5 DEF Daemon!Fork2, Daemon!Fork
<1>6. CASE Daemon!Attributes
  BY <1>6 DEF Daemon!Attributes
<1>7. CASE Daemon!CloseFiles
  BY <1>7 DEF Daemon!CloseFiles, Daemon!Limit
<1>8. CASE Daemon!ReopenStdFds
  BY <1>8 DEF Daemon!ReopenStdFds, Daemon!Fds, Daemon!Limit
<1>9. CASE Daemon!OpenTerminal
  BY <1>9 DEF Daemon!OpenTerminal, Daemon!Limit
<1>10. CASE UNCHANGED daemonVars
  BY <1>10 DEF daemonVars, Daemon!Limit
<1> QED
  BY <1>1, <1>2, <1>3, <1>4, <1>5, <1>6, <1>7, <1>8, <1>9, <1>10, Zenon DEF Daemon!Next, Daemon!Step

(* Whatever descriptors are open and whatever the limits are: the session of a daemon never
   has a controlling terminal, and the descriptors are closed, or refer to /dev/null, as the
   flags of becomeDaemon() say. *)
THEOREM DaemonSafety == Daemon!Spec => []DaemonDetached
<1>1. Daemon!Init => Daemon!Inv
  BY DaemonInit
<1>2. Daemon!Inv /\ [Daemon!Next]_(Daemon!vars) => Daemon!Inv'
  BY DaemonStep DEF Daemon!vars, daemonVars
<1>3. Daemon!Inv => DaemonDetached
  BY DEF DaemonDetached, Daemon!Inv
<1> QED
  BY <1>1, <1>2, <1>3, PTL DEF Daemon!Spec

-----------------------------------------------------------------------------
(* daemon_SIGHUP *)

VARIABLES hpc, hupReceived, unslept, count, logfp, confRead, hpending, conf, log, confAsked,
          logAsked, slept, cut, waited

hupVars == <<hpc, hupReceived, unslept, count, logfp, confRead, hpending,
             conf, log, confAsked, logAsked, slept, cut, waited>>
Hup == INSTANCE DaemonSighup WITH pc <- hpc, pending <- hpending

(* The interval is a number of seconds. *)
ASSUME HupAssumption == SLEEP_TIME \in Nat \ {0} /\ CountMod \in Nat \ {0} /\ MaxVersion \in Nat

(* daemon_SIGHUP forgets no SIGHUP, also one that arrives while another is honoured, lets
   none wait for more than an interval, counts an interval for every SLEEP_TIME seconds that
   were slept or cut short by a signal, and never writes to a closed log. *)
HupSafe == Hup!NoLostHup /\ Hup!DelayBounded /\ Hup!CountExact /\ Hup!LogUsable /\ Hup!Inv

(* a intervals of b seconds each, of c that there are. *)
LEMMA Intervals ==
    ASSUME NEW a \in Nat, NEW b \in Nat \ {0}, NEW c \in Nat \ {0}, a < c
    PROVE  /\ a * b \in Nat /\ b * c \in Nat \ {0} /\ a * b + b <= b * c
           /\ (a + 1) * b = a * b + b
           /\ a + 1 < c => a * b + b < b * c
           /\ a + 1 = c => a * b + b = b * c
  OBVIOUS

(* What % does to numbers up to the modulus. *)
LEMMA Remainder ==
    ASSUME NEW m \in Nat \ {0}
    PROVE  /\ (\A x \in 0 .. m - 1 : x % m = x) /\ m % m = 0
           /\ \A x \in m .. 2 * m - 1 : x % m = x - m
  OBVIOUS

(* Two counts that wrap: when one of them goes on by one, so does their sum. *)
LEMMA WrappedSum ==
    ASSUME NEW m \in Nat \ {0}, NEW a \in 0 .. m - 1, NEW b \in 0 .. m - 1
    PROVE  /\ (a + 1) % m \in 0 .. m - 1 /\ (a + b) % m \in 0 .. m - 1
           /\ (((a + 1) % m) + b) % m = (((a + b) % m) + 1) % m
           /\ (b + ((a + 1) % m)) % m = (((b + a) % m) + 1) % m
<1>1. /\ \A x \in 0 .. m - 1 : x % m = x
      /\ \A x \in m .. 2 * m - 1 : x % m = x - m
  BY Remainder
<1>2. (a + 1) % m = IF a + 1 < m THEN a + 1 ELSE 0
  BY <1>1
<1>3. (a + b) % m = IF a + b < m THEN a + b ELSE a + b - m
  BY <1>1
<1>4. (((a + 1) % m) + b) % m = (((a + b) % m) + 1) % m
  <2>1. CASE a + 1 < m /\ a + b < m
    BY <1>2, <1>3, <2>1
  <2>2. CASE a + 1 < m /\ a + b >= m
    BY <1>1, <1>2, <1>3, <2>2
  <2>3. CASE a + 1 = m
    BY <1>1, <1>2, <1>3, <2>3
  <2> QED
    BY <2>1, <2>2, <2>3
<1> QED
  BY <1>2, <1>3, <1>4

(* It holds when becomeDaemon() has returned. *)
LEMMA HupInit == Hup!Init => Hup!Inv
<1> SUFFICES ASSUME Hup!Init PROVE Hup!Inv
  OBVIOUS
<1>1. hupReceived \in BOOLEAN /\ hpending \in BOOLEAN
  BY Zenon DEF Hup!Init
<1>2. SLEEP_TIME * CountMod \in Nat \ {0} /\ 0 * SLEEP_TIME = 0
  BY Intervals, HupAssumption
<1>3. Hup!TypeOK
  BY <1>1, <1>2, HupAssumption DEF Hup!Init, Hup!TypeOK, Hup!Versions
<1>4. Hup!CountExact
  <2> DEFINE m == SLEEP_TIME * CountMod
  <2>1. 0 % m = 0
    BY <1>2, Remainder
  <2>2. count * SLEEP_TIME + SLEEP_TIME - unslept = 0 /\ slept + cut = 0
    BY <1>2, HupAssumption DEF Hup!Init
  <2> QED
    BY <2>1, <2>2 DEF Hup!CountExact
<1> QED
  BY <1>3, <1>4, HupAssumption
  DEF Hup!Init, Hup!Inv, Hup!VersionsInv, Hup!WaitInv, Hup!NoLostHup, Hup!DelayBounded, Hup!LogUsable

(* The count stays exact when a second of sleep goes by or is cut short, and when an
   interval is over. *)
LEMMA HupCount ==
    ASSUME Hup!Inv, Hup!Sleep \/ Hup!sighupHandler \/ Hup!Interval
    PROVE  Hup!CountExact' /\ slept' \in 0 .. SLEEP_TIME * CountMod - 1 /\ cut' \in 0 .. SLEEP_TIME * CountMod - 1
<1> DEFINE m == SLEEP_TIME * CountMod
           c == count * SLEEP_TIME
           t == (slept + cut) % m
<1>0. /\ count \in 0 .. CountMod - 1 /\ unslept \in 0 .. SLEEP_TIME
      /\ slept \in 0 .. m - 1 /\ cut \in 0 .. m - 1
      /\ t = (c + SLEEP_TIME - unslept) % m
  BY DEF Hup!Inv, Hup!TypeOK, Hup!CountExact
<1>1. /\ c \in Nat /\ m \in Nat \ {0} /\ c + SLEEP_TIME <= m
      /\ (count + 1) * SLEEP_TIME = c + SLEEP_TIME
      /\ count + 1 < CountMod => c + SLEEP_TIME < m
      /\ count + 1 = CountMod => c + SLEEP_TIME = m
  BY <1>0, Intervals, HupAssumption
<1>2. (\A x \in 0 .. m - 1 : x % m = x) /\ m % m = 0
  BY <1>1, Remainder, SMTT(30)
<1>3. ASSUME unslept > 0, unslept' = unslept - 1, count' = count,
             \/ slept' = (slept + 1) % m /\ cut' = cut
             \/ cut' = (cut + 1) % m /\ slept' = slept
      PROVE  Hup!CountExact' /\ slept' \in 0 .. m - 1 /\ cut' \in 0 .. m - 1
  <2> HIDE DEF c, m, t
  <2>1. (slept' + cut') % m = (t + 1) % m /\ slept' \in 0 .. m - 1 /\ cut' \in 0 .. m - 1
    <3>1. CASE slept' = (slept + 1) % m /\ cut' = cut
      BY <1>0, <1>1, <3>1, WrappedSum DEF t
    <3>2. CASE cut' = (cut + 1) % m /\ slept' = slept
      BY <1>0, <1>1, <3>2, WrappedSum DEF t
    <3> QED
      BY <1>3, <3>1, <3>2, Zenon
  <2>2. t = c + SLEEP_TIME - unslept
    BY <1>0, <1>1, <1>2, <1>3, HupAssumption
  <2>3. (t + 1) % m = (c + SLEEP_TIME - unslept') % m
    BY <1>0, <1>1, <1>3, <2>2, HupAssumption
  <2> QED
    BY <1>3, <2>1, <2>3 DEF Hup!CountExact, c, m
<1>4. CASE Hup!Sleep
  <2>1. unslept > 0 /\ unslept' = unslept - 1 /\ count' = count /\ slept' = (slept + 1) % m /\ cut' = cut
    BY <1>4 DEF Hup!Sleep, Hup!OneMore, Hup!Inv, Hup!WaitInv
  <2> QED
    BY <1>3, <2>1
<1>5. CASE Hup!sighupHandler
  <2>1. CASE UNCHANGED <<unslept, Hup!timeVars>>
    BY <1>0, <1>5, <2>1 DEF Hup!sighupHandler, Hup!timeVars, Hup!CountExact
  <2>2. CASE hpc = "sleep" /\ unslept' = unslept - 1 /\ cut' = Hup!OneMore(cut) /\ slept' = slept
    <3>1. unslept > 0 /\ count' = count /\ cut' = (cut + 1) % m
      BY <1>5, <2>2 DEF Hup!sighupHandler, Hup!OneMore, Hup!Inv, Hup!WaitInv
    <3> QED
      BY <1>3, <2>2, <3>1
  <2> QED
    BY <1>5, <2>1, <2>2 DEF Hup!sighupHandler
<1>6. CASE Hup!Interval /\ unslept = 0
  <2>1. count' = (count + 1) % CountMod /\ unslept' = SLEEP_TIME /\ slept' = slept /\ cut' = cut
    BY <1>6 DEF Hup!Interval, Hup!timeVars
  <2>0. (\A x \in 0 .. CountMod - 1 : x % CountMod = x) /\ CountMod % CountMod = 0
    BY Remainder, HupAssumption, Zenon
  <2>2. CASE count + 1 < CountMod
    <3>1. count' = count + 1
      BY <1>0, <2>0, <2>1, <2>2, HupAssumption
    <3>2. count' * SLEEP_TIME = c + SLEEP_TIME
      BY <1>1, <3>1
    <3> HIDE DEF c, m, t
    <3>3. t = (count' * SLEEP_TIME + SLEEP_TIME - unslept') % m
      BY <1>0, <1>1, <1>6, <2>1, <3>2, HupAssumption
    <3> QED
      BY <1>0, <2>1, <3>3 DEF Hup!CountExact, m, t
  <2>3. CASE count + 1 = CountMod
    <3>1. count' = 0
      BY <1>0, <2>0, <2>1, <2>3, HupAssumption
    <3>2. count' * SLEEP_TIME = 0
      BY <3>1, HupAssumption
    <3> HIDE DEF c, m, t
    <3>3. t = 0
      BY <1>0, <1>1, <1>2, <1>6, <2>3, HupAssumption
    <3>4. t = (count' * SLEEP_TIME + SLEEP_TIME - unslept') % m
      BY <1>1, <1>2, <2>1, <3>2, <3>3, HupAssumption
    <3> QED
      BY <1>0, <2>1, <3>4 DEF Hup!CountExact, m, t
  <2> QED
    BY <1>0, <2>2, <2>3, HupAssumption
<1>7. CASE Hup!Interval /\ unslept # 0
  BY <1>0, <1>7 DEF Hup!Interval, Hup!CountExact, Hup!timeVars
<1> QED
  BY <1>4, <1>5, <1>6, <1>7

(* Every step of the daemon, of its handler and of the administrator preserves it. *)
LEMMA HupStep == ASSUME Hup!Inv, [Hup!Next]_hupVars PROVE Hup!Inv'
<1> USE HupAssumption
    DEF Hup!Inv, Hup!TypeOK, Hup!Versions, Hup!VersionsInv, Hup!WaitInv, Hup!NoLostHup, Hup!DelayBounded,
        Hup!CountExact, Hup!LogUsable, Hup!Outstanding, Hup!daemonVars, Hup!envVars, Hup!timeVars
<1>1. CASE Hup!EditConfig
  BY <1>1 DEF Hup!EditConfig
<1>2. CASE Hup!RotateLog
  BY <1>2 DEF Hup!RotateLog
<1>3. CASE Hup!SendSighup
  BY <1>3 DEF Hup!SendSighup
<1>4. CASE Hup!sighupHandler
  <2>1. Hup!CountExact' /\ slept' \in 0 .. SLEEP_TIME * CountMod - 1 /\ cut' \in 0 .. SLEEP_TIME * CountMod - 1
    BY <1>4, HupCount, Zenon
  <2>2. hpending' = FALSE /\ hupReceived' = TRUE /\ UNCHANGED <<count, logfp, confRead, Hup!envVars>>
    BY <1>4, Zenon DEF Hup!sighupHandler
  <2>3. hpending' \in BOOLEAN /\ hupReceived' \in BOOLEAN /\ Hup!Outstanding'
    BY <2>2, Zenon
  <2>4. UNCHANGED <<unslept, Hup!timeVars>> \/ (hpc = "sleep" /\ unslept' = unslept - 1 /\ waited' \in {waited, waited + 1})
    BY <1>4, Zenon DEF Hup!sighupHandler
  <2>5. hpc' = IF hpc = "sleep" THEN "check" ELSE hpc
    BY <1>4, Zenon DEF Hup!sighupHandler
  <2> QED
    BY <2>1, <2>2, <2>3, <2>4, <2>5, SMTT(30)
<1>5. CASE Hup!Sleep
  BY <1>5, HupCount, SMTT(30) DEF Hup!Sleep
<1>6. CASE Hup!Check
  <2>1. hupReceived' \in BOOLEAN /\ ~hupReceived'
    BY <1>6, Zenon DEF Hup!Check
  <2>2. CASE hupReceived
    BY <1>6, <2>1, <2>2, SMTT(30) DEF Hup!Check
  <2>3. CASE ~hupReceived
    BY <1>6, <2>1, <2>3, SMTT(30) DEF Hup!Check
  <2> QED
    BY <2>2, <2>3
<1>7. CASE Hup!logClose
  BY <1>7, SMTT(30) DEF Hup!logClose
<1>8. CASE Hup!logOpen
  BY <1>8 DEF Hup!logOpen
<1>9. CASE Hup!logOpenFails
  BY <1>9, Zenon DEF Hup!logOpenFails
<1>10. CASE Hup!readConfigFile
  BY <1>10, SMTT(30) DEF Hup!readConfigFile
<1>11. CASE Hup!Interval
  BY <1>11, HupCount, SMTT(30) DEF Hup!Interval
<1>12. CASE UNCHANGED hupVars
  BY <1>12, SMTT(30) DEF hupVars
<1> QED
  BY <1>1, <1>2, <1>3, <1>4, <1>5, <1>6, <1>7, <1>8, <1>9, <1>10, <1>11, <1>12, Zenon
  DEF Hup!Next, Hup!main

(* Whatever the interval is and whenever signals arrive: daemon_SIGHUP.c forgets no SIGHUP,
   lets none wait for more than an interval, counts an interval for every SLEEP_TIME seconds
   slept or cut short by a signal, and never writes to a closed log. *)
THEOREM HupSafety == Hup!Spec => []HupSafe
<1>1. Hup!Init => Hup!Inv
  BY HupInit
<1>2. Hup!Inv /\ [Hup!Next]_(Hup!vars) => Hup!Inv'
  BY HupStep DEF Hup!vars, Hup!daemonVars, Hup!envVars, Hup!timeVars, hupVars
<1>3. Hup!Inv => HupSafe
  BY DEF HupSafe, Hup!Inv
<1> QED
  BY <1>1, <1>2, <1>3, PTL DEF Hup!Spec

-----------------------------------------------------------------------------
(* one_time_init() *)

VARIABLES mtx, called, opc, calls, inits, initDone

onceVars == <<mtx, called, opc, calls, inits, initDone>>
Once == INSTANCE OneTimeInit WITH pc <- opc, None <- NoThread
ASSUME OnceAssumption == NoThread \notin Threads /\ Calls \in Nat

(* init_func() is called once, and is finished when a call of one_time_init() returns, as
   the inductive invariant explains. *)
OnceSafe == Once!IInv /\ Once!InitOnce /\ Once!ReturnsAfterInit

(* The state before the threads are created satisfies the invariant. *)
LEMMA OnceInit == Once!Init => Once!IInv
<1> USE OnceAssumption DEF Once!TypeOK, Once!InRegion, Once!MutexExact, Once!Progress, Once!IInv
<1> SUFFICES ASSUME Once!Init PROVE Once!IInv
  OBVIOUS
<1>1. /\ opc \in [Threads -> {"ready"}] /\ \A t \in Threads : opc[t] = "ready"
      /\ calls \in [Threads -> {0}] /\ \A t \in Threads : calls[t] = 0
  BY DEF Once!Init
<1>2. Once!TypeOK
  BY <1>1, Zenon DEF Once!Init
<1>3. Once!MutexExact
  BY <1>1 DEF Once!Init
<1>4. Once!Progress
  BY <1>1 DEF Once!Init
<1> QED
  BY <1>2, <1>3, <1>4, SMTT(30)

(* Every step of one_time_init(), and pthread_join(), preserves it. *)
LEMMA OnceStep == Once!IInv /\ [Once!Next]_(Once!vars) => Once!IInv'
<1> USE OnceAssumption DEF Once!TypeOK, Once!InRegion, Once!MutexExact, Once!Progress, Once!IInv
<1> SUFFICES ASSUME Once!IInv, [Once!Next]_(Once!vars) PROVE Once!IInv'
  OBVIOUS
<1>1. ASSUME NEW t \in Threads, Once!Lock(t) PROVE Once!IInv'
  BY <1>1, SMTT(30) DEF Once!Lock
<1>2. ASSUME NEW t \in Threads, Once!Test(t) PROVE Once!IInv'
  BY <1>2, SMTT(30) DEF Once!Test
<1>3. ASSUME NEW t \in Threads, Once!CallInit(t) PROVE Once!IInv'
  <2>1. Once!TypeOK' /\ Once!MutexExact'
    BY <1>3 DEF Once!CallInit
  <2>2. ~called /\ \A u \in Threads : opc[u] = "set" => FALSE
    BY <1>3, Zenon DEF Once!CallInit
  <2> QED
  BY <2>1, <2>2, <1>3, SMTT(30) DEF Once!CallInit
<1>4. ASSUME NEW t \in Threads, Once!SetCalled(t) PROVE Once!IInv'
  <2>1. Once!TypeOK' /\ Once!MutexExact'
    BY <1>4 DEF Once!SetCalled
  <2>2. \A u \in Threads : opc[u] \in {"init", "set"} => u = t
    BY <1>4, Zenon DEF Once!SetCalled
  <2> QED
  BY <2>1, <2>2, <1>4, Zenon DEF Once!SetCalled
<1>5. ASSUME NEW t \in Threads, Once!Unlock(t) PROVE Once!IInv'
  BY <1>5 DEF Once!Unlock
<1>6. ASSUME NEW t \in Threads, Once!Join(t) PROVE Once!IInv'
  BY <1>6, Zenon DEF Once!Join
<1>7. CASE UNCHANGED Once!vars
  BY <1>7, SMTT(30) DEF Once!vars
<1> QED
  BY <1>1, <1>2, <1>3, <1>4, <1>5, <1>6, <1>7, ZenonT(30) DEF Once!Next, Once!one_time_init

(* For any number of threads and of calls: init_func() is called at most once, "no matter how
   many times one_time_init() is called", and whoever returns finds it finished. *)
THEOREM OnceSafety == Once!Spec => []OnceSafe
<1>1. Once!IInv => OnceSafe
  BY DEF Once!IInv, Once!TypeOK, Once!Progress, Once!InitOnce, Once!ReturnsAfterInit, OnceSafe
<1> QED
  BY OnceInit, OnceStep, <1>1, PTL DEF Once!Spec

-----------------------------------------------------------------------------
(* createPidFile() *)

VARIABLES deletes, name, content, lock, fd, fpc

fileVars == <<deletes, name, content, lock, fd, fpc>>
File == INSTANCE PidFile WITH Procs <- FileProcs, None <- NoFile, pc <- fpc

(* A process ID is a text; NoFile is neither a process nor a file. *)
ASSUME FileAssumption == File!PidAssumption

(* After ftruncate(), write() at offset 0 leaves exactly the text written. *)
LEMMA WriteEmpty ==
    ASSUME NEW S, NEW s \in Seq(S)
    PROVE  s \o SubSeq(<< >>, Len(s) + 1, Len(<< >>)) = s
  OBVIOUS

(* It holds before anybody has started the program. *)
LEMMA FileInit == File!Init => File!Inv
  BY FileAssumption DEF File!PidAssumption, File!Init, File!Inv, File!TypeOK, File!LockInv, File!NameInv

(* Every call of createPidFile(), the deletion of the file and the end of a process preserve it. *)
LEMMA FileStep == ASSUME File!Inv, [File!Next]_fileVars PROVE File!Inv'
<1> USE FileAssumption
    DEF File!Inv, File!TypeOK, File!LockInv, File!NameInv, File!PidAssumption, File!Goto
<1>1. ASSUME NEW p \in FileProcs, File!OpenFile(p) PROVE File!Inv'
  <2>1. name' \in Inodes /\ fd' = [fd EXCEPT ![p] = name']
    BY <1>1, Zenon DEF File!OpenFile, File!Free
  <2>2. CASE name # NoFile
    BY <1>1, <2>1, <2>2, Zenon DEF File!OpenFile
  <2>3. CASE name = NoFile
    BY <1>1, <2>1, <2>3, ZenonT(30) DEF File!OpenFile
  <2> QED
    BY <2>2, <2>3, Zenon
<1>2. ASSUME NEW p \in FileProcs, File!lockRegion(p) PROVE File!Inv'
  BY <1>2, SMTT(30) DEF File!lockRegion
<1>3. ASSUME NEW p \in FileProcs, File!AlreadyRunning(p) PROVE File!Inv'
  BY <1>3, SMTT(30) DEF File!AlreadyRunning, File!Release
<1>4. ASSUME NEW p \in FileProcs, File!Truncate(p) PROVE File!Inv'
  BY <1>4, SMTT(30) DEF File!Truncate
<1>5. ASSUME NEW p \in FileProcs, File!WritePid(p) PROVE File!Inv'
  <2>1. PidStr[p] \o SubSeq(content[fd[p]], Len(PidStr[p]) + 1, Len(content[fd[p]])) = PidStr[p]
    BY <1>5, WriteEmpty, ZenonT(30) DEF File!WritePid
  <2>2. /\ fpc[p] = "write" /\ fpc' = [fpc EXCEPT ![p] = "running"]
        /\ content' = [content EXCEPT ![fd[p]] = PidStr[p]]
        /\ UNCHANGED <<deletes, name, lock, fd>>
    BY <1>5, <2>1, Zenon DEF File!WritePid
  <2> QED
    BY <2>2
<1>6. ASSUME NEW p \in FileProcs, File!Delete(p) PROVE File!Inv'
  BY <1>6 DEF File!Delete
<1>7. ASSUME NEW p \in FileProcs, File!Terminate(p) PROVE File!Inv'
  BY <1>7, ZenonT(30) DEF File!Terminate, File!Release
<1>8. CASE UNCHANGED fileVars
  BY <1>8, Zenon DEF fileVars
<1> QED
  BY <1>1, <1>2, <1>3, <1>4, <1>5, <1>6, <1>7, <1>8, ZenonT(30) DEF File!Next

-----------------------------------------------------------------------------
(* svsem_good_init and svsem_bad_init *)

VARIABLES good, exists, semval, sem_otime, sempc, tries, done, lost, undone

semVars == <<good, exists, semval, sem_otime, sempc, tries, done, lost, undone>>
Sem == INSTANCE SvsemInit WITH Procs <- SemProcs, pc <- sempc, j <- tries

(* Each process has an operation; a new semaphore has some value; a process polls at least
   once (MAX_TRIES). *)
ASSUME SemAssumption ==
    SemOp \in [SemProcs -> Int] /\ Garbage \subseteq Nat /\ MAX_TRIES \in Nat \ {0}

(* It holds before the first semget(). *)
LEMMA SemInit == Sem!Init => Sem!Inv
<1>1. Sem!Init => ~exists /\ ~sem_otime /\ exists \in BOOLEAN /\ sem_otime \in BOOLEAN
  BY Zenon DEF Sem!Init
<1> QED
  BY <1>1, SemAssumption
  DEF Sem!Init, Sem!Inv, Sem!TypeOK, Sem!CreatorInv, Sem!NoLostOp, Sem!NullOpNeverWaits, Sem!Initializing

(* Every step of a process preserves it. *)
LEMMA SemStep == ASSUME Sem!Inv, [Sem!Next]_semVars PROVE Sem!Inv'
<1> USE SemAssumption DEF Sem!Inv, Sem!TypeOK, Sem!CreatorInv, Sem!NullOpNeverWaits, Sem!Initializing,
        Sem!NoLostOp, Sem!Goto, Sem!histVars
<1>1. ASSUME NEW p \in SemProcs, Sem!Create(p) PROVE Sem!Inv'
  <2>1. Sem!TypeOK' /\ Sem!NullOpNeverWaits'
    BY <1>1, ZenonT(30) DEF Sem!Create
  <2>2. Sem!CreatorInv'
    BY <1>1, SMTT(30) DEF Sem!Create
  <2>3. Sem!NoLostOp'
    BY <1>1 DEF Sem!Create
  <2> QED
    BY <1>1, <2>1, <2>2, <2>3, Zenon DEF Sem!Create
<1>2. ASSUME NEW p \in SemProcs, Sem!Find(p) PROVE Sem!Inv'
  <2>1. Sem!TypeOK' /\ Sem!NullOpNeverWaits'
    BY <1>2, ZenonT(30) DEF Sem!Find
  <2>2. Sem!CreatorInv'
    BY <1>2, SMTT(30) DEF Sem!Find
  <2>3. Sem!NoLostOp'
    BY <1>2 DEF Sem!Find
  <2> QED
    BY <1>2, <2>1, <2>2, <2>3, Zenon DEF Sem!Find
<1>3. ASSUME NEW p \in SemProcs, Sem!SetVal(p) PROVE Sem!Inv'
  <2>1. Sem!TypeOK' /\ Sem!NullOpNeverWaits'
    BY <1>3, ZenonT(30) DEF Sem!SetVal
  <2>2. Sem!CreatorInv'
    BY <1>3, SMTT(30) DEF Sem!SetVal
  <2>3. Sem!NoLostOp'
    BY <1>3 DEF Sem!SetVal
  <2> QED
    BY <1>3, <2>1, <2>2, <2>3, Zenon DEF Sem!SetVal
<1>4. ASSUME NEW p \in SemProcs, Sem!NullOp(p) PROVE Sem!Inv'
  <2>1. Sem!TypeOK' /\ Sem!NullOpNeverWaits'
    BY <1>4, ZenonT(30) DEF Sem!NullOp
  <2>2. Sem!CreatorInv'
    BY <1>4, SMTT(30) DEF Sem!NullOp
  <2>3. Sem!NoLostOp'
    BY <1>4 DEF Sem!NullOp
  <2> QED
    BY <1>4, <2>1, <2>2, <2>3, Zenon DEF Sem!NullOp
<1>5. ASSUME NEW p \in SemProcs, Sem!Stat(p) PROVE Sem!Inv'
  <2>1. Sem!TypeOK' /\ Sem!NullOpNeverWaits'
    BY <1>5 DEF Sem!Stat
  <2>2. CASE sem_otime
    <3>1. Sem!CreatorInv'
      BY <1>5, <2>2 DEF Sem!Stat
    <3>2. Sem!NoLostOp'
      BY <1>5, <2>2, ZenonT(30) DEF Sem!Stat
    <3> QED
      BY <1>5, <2>1, <3>1, <3>2, ZenonT(30) DEF Sem!Stat
  <2>3. CASE ~sem_otime
    <3>1. Sem!CreatorInv'
      BY <1>5, <2>3, SMTT(30) DEF Sem!Stat
    <3>2. Sem!NoLostOp'
      BY <1>5, <2>3 DEF Sem!Stat
    <3> QED
      BY <1>5, <2>1, <3>1, <3>2, Zenon DEF Sem!Stat
  <2> QED
    BY <2>2, <2>3, ZenonT(30)
<1>6. ASSUME NEW p \in SemProcs, Sem!DoOp(p) PROVE Sem!Inv'
  <2>1. /\ sempc[p] = "semop" /\ sempc' = [sempc EXCEPT ![p] = "exit"] /\ sem_otime' = TRUE
        /\ UNCHANGED <<good, exists, tries, lost, undone>> /\ exists
    BY <1>6, Zenon DEF Sem!DoOp
  <2>2. semval' \in Nat /\ semval' = semval + Sem!Op(p) /\ done' = done + Sem!Op(p) /\ Sem!Op(p) \in Int
    BY <1>6, SMTT(30) DEF Sem!DoOp, Sem!Op
  <2>3. Sem!TypeOK' /\ Sem!CreatorInv'
    <3>1. Sem!TypeOK'
      BY <2>1, <2>2, SMTT(30)
    <3> QED
      BY <2>1, <2>2, <3>1, SMTT(30)
  <2>4. Sem!NoLostOp'
    BY <2>1, <2>2, SMTT(30)
  <2>5. Sem!NullOpNeverWaits'
    BY <2>1
  <2> QED
    BY <2>1, <2>3, <2>4, <2>5, Zenon
<1>7. ASSUME NEW p \in SemProcs, Sem!Killed(p) PROVE Sem!Inv'
  <2>1. Sem!TypeOK' /\ Sem!NullOpNeverWaits'
    BY <1>7, ZenonT(30) DEF Sem!Killed
  <2>2. Sem!CreatorInv'
    BY <1>7, SMTT(30) DEF Sem!Killed
  <2>3. Sem!NoLostOp'
    BY <1>7 DEF Sem!Killed
  <2> QED
    BY <1>7, <2>1, <2>2, <2>3, Zenon DEF Sem!Killed
<1>8. CASE UNCHANGED semVars
  BY <1>8, Zenon DEF semVars
<1> QED
  BY <1>1, <1>2, <1>3, <1>4, <1>5, <1>6, <1>7, <1>8, ZenonT(30) DEF Sem!Next, Sem!Step

(* A process of svsem_good_init that gives up has found sem_otime unset, and so the creator not done. *)
LEMMA SemFatalStep ==
    ASSUME Sem!Inv, [Sem!Next]_semVars, NEW p \in SemProcs, sempc[p] = "stat", sempc'[p] = "fatal"
    PROVE  \E q \in SemProcs : sempc[q] \in {"setval", "noop", "killed"}
<1>1. Sem!Stat(p) /\ ~sem_otime
  BY ZenonT(30) DEF Sem!Next, Sem!Step, Sem!Inv, Sem!TypeOK, Sem!Goto, semVars, Sem!Create, Sem!Find, Sem!SetVal, Sem!NullOp,
         Sem!Stat, Sem!DoOp, Sem!Killed
<1>2. good /\ exists
  BY DEF Sem!Inv, Sem!CreatorInv
<1> QED
  BY <1>1, <1>2, Zenon DEF Sem!Inv, Sem!CreatorInv, Sem!Initializing

(* For any number of processes, operations and polls: a process of svsem_good_init.c gives up
   only while the creator has not finished, or because it was killed. *)
THEOREM SemFatal == Sem!Spec => Sem!FatalMeansLate
<1>1. Sem!Init => Sem!Inv
  BY SemInit
<1>2. Sem!Inv /\ [Sem!Next]_(Sem!vars) => Sem!Inv'
  BY SemStep DEF Sem!vars, Sem!histVars, semVars
<1>3. Sem!Inv /\ [Sem!Next]_(Sem!vars) =>
          [\A p \in SemProcs : sempc[p] = "stat" /\ sempc'[p] = "fatal" =>
              \E q \in SemProcs : sempc[q] \in {"setval", "noop", "killed"}]_(Sem!vars)
  BY SemFatalStep, Zenon DEF Sem!vars, Sem!histVars, semVars
<1> QED
  BY <1>1, <1>2, <1>3, PTL DEF Sem!Spec, Sem!FatalMeansLate

-----------------------------------------------------------------------------
(* multi_SIGCHLD *)

VARIABLES mpc, handler, j, numLiveChildren, sigCnt, zombies, reaped, pending

multiVars == <<mpc, handler, j, numLiveChildren, sigCnt, zombies, reaped, pending>>
Multi == INSTANCE MultiSigchld WITH N <- numChildren, pc <- mpc

(* multi_SIGCHLD refuses to run without an argument. *)
ASSUME MultiAssumption == numChildren \in Nat \ {0}

(* multi_SIGCHLD counts its children exactly, forgets none although signals merge, and has
   reaped all when it ends. *)
ChildrenCounted == Multi!ChildrenCounted /\ Multi!Inv

(* It holds before the first fork(). *)
LEMMA MultiInit == Multi!Init => Multi!Inv
<1> SUFFICES ASSUME Multi!Init PROVE Multi!Inv
  OBVIOUS
<1>1. pending = FALSE /\ pending \in BOOLEAN
  BY Zenon DEF Multi!Init
<1> QED
  BY <1>1, MultiAssumption
  DEF Multi!Init, Multi!Inv, Multi!TypeOK, Multi!ChildrenCounted, Multi!CountIsExact, Multi!AllReaped,
      Multi!NoForgottenChild, Multi!CaughtAtMostOnce, Multi!Created

(* Every step of main(), of the handler and of a child preserves it. *)
LEMMA MultiStep == ASSUME Multi!Inv, [Multi!Next]_multiVars PROVE Multi!Inv'
<1> USE MultiAssumption
    DEF Multi!Inv, Multi!ChildrenCounted, Multi!TypeOK, Multi!CountIsExact, Multi!AllReaped,
        Multi!NoForgottenChild, Multi!CaughtAtMostOnce, Multi!Created
<1>1. CASE Multi!Fork
  BY <1>1 DEF Multi!Fork
<1>2. CASE Multi!ForkFails
  BY <1>2, ZenonT(30) DEF Multi!ForkFails
<1>3. CASE Multi!ChildExits
  BY <1>3, SMTT(30) DEF Multi!ChildExits
<1>4. CASE Multi!Test
  BY <1>4, SMTT(30) DEF Multi!Test
<1>5. CASE Multi!Suspend
  BY <1>5 DEF Multi!Suspend
<1>6. CASE Multi!HandlerStarts
  <2>1. pending = TRUE /\ pending' = FALSE
    BY <1>6, Zenon DEF Multi!HandlerStarts
  <2>2. Multi!CaughtAtMostOnce'
    BY <1>6, <2>1, SMTT(30) DEF Multi!HandlerStarts
  <2> QED
    BY <1>6, <2>1, <2>2, Zenon DEF Multi!HandlerStarts, Multi!Delivers
<1>7. CASE Multi!Reap
  BY <1>7, SMTT(30) DEF Multi!Reap
<1>8. CASE Multi!ReapDone
  BY <1>8, SMTT(30) DEF Multi!ReapDone
<1>9. CASE Multi!HandlerReturns
  BY <1>9 DEF Multi!HandlerReturns
<1>10. CASE UNCHANGED multiVars
  BY <1>10, Zenon DEF multiVars
<1> QED
  BY <1>1, <1>2, <1>3, <1>4, <1>5, <1>6, <1>7, <1>8, <1>9, <1>10, ZenonT(30) DEF Multi!Next, Multi!Parent

(* For any number of children: multi_SIGCHLD.c counts them exactly, forgets none although
   signals merge, ends only when it has reaped all, and catches at most one signal for each. *)
THEOREM MultiSafety == Multi!Spec => []ChildrenCounted
<1>1. Multi!Init => Multi!Inv
  BY MultiInit
<1>2. Multi!Inv /\ [Multi!Next]_(Multi!vars) => Multi!Inv'
  BY MultiStep DEF Multi!vars, multiVars
<1>3. Multi!Inv => ChildrenCounted
  BY DEF ChildrenCounted, Multi!Inv
<1> QED
  BY <1>1, <1>2, <1>3, PTL DEF Multi!Spec

-----------------------------------------------------------------------------
(* The value of the semaphore is the sum of the operations that were done: none is lost
   under a late SETVAL of svsem_good_init and none starts from the garbage of creation, while
   svsem_bad_init loses those done before SETVAL; the null operation of the creator never
   waits. So long as nobody deletes the PID file,
   createPidFile() succeeds in one process at a time and the file holds exactly the process
   ID of that one; deleted or not, the file an instance has open keeps its process ID and
   its lock. *)
FirstOneSafe ==
    /\ Sem!NoLostOp /\ Sem!NullOpNeverWaits /\ Sem!Inv
    /\ File!OneInstance /\ File!PidOfRunner /\ File!OwnFileKept /\ File!Inv

(* For any processes, operations, garbage and process IDs: no operation on the semaphore of
   svsem_good_init.c is lost, and createPidFile() keeps its promises. *)
THEOREM FirstOneSafety == Sem!Spec /\ File!Spec => []FirstOneSafe
<1>1. Sem!Init => Sem!Inv
  BY SemInit
<1>2. Sem!Inv /\ [Sem!Next]_(Sem!vars) => Sem!Inv'
  BY SemStep DEF Sem!vars, Sem!histVars, semVars
<1>3. File!Init => File!Inv
  BY FileInit
<1>4. File!Inv /\ [File!Next]_(File!vars) => File!Inv'
  BY FileStep DEF File!vars, fileVars
<1>5. ASSUME File!Inv PROVE File!OneInstance /\ File!PidOfRunner /\ File!OwnFileKept
  <2>1. File!OwnFileKept
    BY <1>5, Zenon DEF File!Inv, File!LockInv, File!OwnFileKept
  <2>2. ASSUME ~deletes, NEW p \in FileProcs, fpc[p] = "running" PROVE fd[p] = name /\ name # NoFile
    BY <1>5, <2>2, FileAssumption, ZenonT(30) DEF File!Inv, File!TypeOK, File!NameInv, File!PidAssumption
  <2>3. File!OneInstance /\ File!PidOfRunner
    BY <2>1, <2>2 DEF File!OneInstance, File!PidOfRunner, File!OwnFileKept
  <2> QED
    BY <2>1, <2>3, Zenon
<1>6. Sem!Inv /\ File!Inv => FirstOneSafe
  BY <1>5 DEF FirstOneSafe, Sem!Inv
<1> QED
  BY <1>1, <1>2, <1>3, <1>4, <1>6, PTL DEF Sem!Spec, File!Spec

-----------------------------------------------------------------------------
(* What is model checked: one of these programs is run, or one of timers/ (Timers), of
   namespaces/ (Namespaces) or one about job control (JobControl). *)

VARIABLES
    program,
    tm_app, tm_spec, tm_option, tm_now, tm_left, tm_queued, tm_overrun, tm_lastOverrun, tm_expired,
    tm_pc, tm_j, tm_count, tm_gotAlarm, tm_handling, tm_shown, tm_threads, tm_main, tm_printed,
    tm_signalled, tm_result, tm_deadline, tm_start, tm_remain, tm_awake, tm_sent,
    ns_prog, ns_opts, ns_pc, ns_status, ns_failed, ns_ns, ns_pidnsForChildren, ns_isInit, ns_caps,
    ns_mounts, ns_wr, ns_maps, ns_denied, ns_mapErrors, ns_host, ns_shown, ns_table, ns_attr,
    ns_kills, ns_killed,
    job_app, job_arg, job_text, job_state, job_pgrp, job_handled, job_pending, job_paused,
    job_alarmed, job_caught, job_end, job_event, job_reports, job_cmdNum, job_pipe, job_sent,
    job_early, job_late

tmVars == <<tm_app, tm_spec, tm_option, tm_now, tm_left, tm_queued, tm_overrun, tm_lastOverrun,
           tm_expired, tm_pc, tm_j, tm_count, tm_gotAlarm, tm_handling, tm_shown, tm_threads,
           tm_main, tm_printed, tm_signalled, tm_result, tm_deadline, tm_start, tm_remain, tm_awake,
           tm_sent>>
nsVars == <<ns_prog, ns_opts, ns_pc, ns_status, ns_failed, ns_ns, ns_pidnsForChildren, ns_isInit,
           ns_caps, ns_mounts, ns_wr, ns_maps, ns_denied, ns_mapErrors, ns_host, ns_shown, ns_table,
           ns_attr, ns_kills, ns_killed>>
jobVars == <<job_app, job_arg, job_text, job_state, job_pgrp, job_handled, job_pending, job_paused,
            job_alarmed, job_caught, job_end, job_event, job_reports, job_cmdNum, job_pipe,
            job_sent, job_early, job_late>>
oldVars == <<onceVars, semVars, fileVars, multiVars, daemonVars, hupVars, initVars, systemVars>>
newVars == <<tmVars, nsVars, jobVars>>
allVars == <<program, oldVars, newVars>>

(* Two processes that add, one that subtracts and one that waits for zero; process IDs of
   different lengths. *)
MCSemOp == [p \in SemProcs |-> CASE p = "p1" -> 1 [] p = "p2" -> 2 [] p = "p3" -> -1 [] p = "p4" -> 0]
MCPidStr == [p \in FileProcs |-> CASE p = "p1" -> <<1>> [] p = "p2" -> <<2, 2>> [] p = "p3" -> <<3>>]

(* Two timers: one that is armed once or again and again, with notifications on time and
   late, beside one with an interval of a tick; and a second of two ticks. *)
Timer(value, interval) == [value |-> value, interval |-> interval]
TimerArguments ==
    {Timer(0, 0), Timer(1, 0), Timer(1, 1), Timer(2, 1), Timer(1, 2), Timer(0, 3)}
Tm == INSTANCE Timers WITH
           None <- NoThread, N <- 2, Specs <- TimerArguments, NSEC <- 2, MaxTime <- 4,
           MaxSignals <- 2, MaxThreads <- 2, app <- tm_app, spec <- tm_spec, option <- tm_option, now <- tm_now,
           left <- tm_left, queued <- tm_queued, overrun <- tm_overrun,
           lastOverrun <- tm_lastOverrun, expired <- tm_expired, pc <- tm_pc, j <- tm_j,
           count <- tm_count, gotAlarm <- tm_gotAlarm, handling <- tm_handling, shown <- tm_shown,
           threads <- tm_threads, main <- tm_main, printed <- tm_printed, signalled <- tm_signalled,
           result <- tm_result, deadline <- tm_deadline, start <- tm_start, remain <- tm_remain,
           awake <- tm_awake, sent <- tm_sent

(* Three nested PID namespaces, and a process that is killed at any time. *)
Ns == INSTANCE Namespaces WITH
           Levels <- 3, MaxKills <- 1, prog <- ns_prog, opts <- ns_opts, pc <- ns_pc,
           status <- ns_status, failed <- ns_failed, ns <- ns_ns,
           pidnsForChildren <- ns_pidnsForChildren, isInit <- ns_isInit, caps <- ns_caps,
           mounts <- ns_mounts, wr <- ns_wr, maps <- ns_maps, denied <- ns_denied,
           mapErrors <- ns_mapErrors, host <- ns_host, shown <- ns_shown, table <- ns_table,
           attr <- ns_attr, kills <- ns_kills, killed <- ns_killed

(* Two children; a hang-up, two keys, or four signals to the child of child_status. *)
Job == INSTANCE JobControl WITH
           N <- 2, Statuses <- {0, 7, 259},
           MaxSent <- [disc_SIGHUP |-> 1, child_status |-> 4, catch_SIGHUP |-> 2, job_mon |-> 2,
                                  orphan |-> 0, orphaned_pgrp_SIGHUP |-> 0], app <- job_app,
           arg <- job_arg, text <- job_text, state <- job_state, pgrp <- job_pgrp,
           handled <- job_handled, pending <- job_pending, paused <- job_paused,
           alarmed <- job_alarmed, caught <- job_caught, end <- job_end, event <- job_event,
           reports <- job_reports, cmdNum <- job_cmdNum, pipe <- job_pipe, sent <- job_sent,
           early <- job_early, late <- job_late

(* The program that runs is in one of its initial states, the others are in one only. *)
MCInit ==
    /\ program \in {"one_time_init", "svsem_init", "pid_file", "multi_SIGCHLD", "become_daemon",
                    "daemon_SIGHUP", "simple_init", "system", "timers", "namespaces", "jobs"}
    /\ tm_app \in IF program = "timers" THEN Tm!Apps ELSE {"nanosleep"}
    /\ tm_option \in IF program = "timers" /\ tm_app \in {"timed_read", "timerfd", "nanosleep", "clock_nanosleep"}
                       THEN BOOLEAN ELSE {FALSE}
    /\ tm_now \in IF program = "timers" /\ tm_app \in {"timed_read", "timerfd", "nanosleep", "clock_nanosleep"}
                    THEN 0..1 ELSE {0}
    /\ tm_spec \in CASE program # "timers" -> {<<Timer(1, 1), Timer(1, 1)>>}
                      [] tm_app = "ptmr_signal" -> {<<Timer(1, 1), Timer(1, 0)>>, <<Timer(1, 1), Timer(1, 2)>>}
                      [] tm_app = "ptmr_thread" -> {<<Timer(1, 1), Timer(1, 0)>>}
                      [] OTHER -> {<<t, Timer(1, 1)>> : t \in TimerArguments}
    /\ \/ program = "namespaces"
       \/ program # "namespaces" /\ ns_prog = "demo_userns"
    /\ job_app \in IF program = "jobs" THEN Job!Apps ELSE {"orphan"}
    /\ job_arg \in CASE job_app = "catch_SIGHUP" -> {<<x, x>> : x \in {"d", "s"}}
                      [] job_app = "disc_SIGHUP" -> {<<"d", "s">>}
                      [] job_app = "orphaned_pgrp_SIGHUP" -> {<<"s", "p">>, <<"p", "s">>}
                      [] job_app = "child_status" -> {<<x, x>> : x \in {"none", "exit"}}
                      [] OTHER -> {<<"none", "none">>}
    /\ flags \in IF program = "become_daemon" THEN SUBSET Daemon!Flags ELSE {{}}
    /\ Once!Init /\ Sem!Init /\ File!Init /\ Multi!Init /\ Daemon!Init /\ Hup!Init /\ InitProg!Init /\ Sys!Init
    /\ program # "svsem_init" => good
    /\ program # "pid_file" => ~deletes
    /\ program # "become_daemon" => maxfd = 4 /\ \A f \in 0..3 : fds[f] = "none"
    /\ program # "system" => \A k \in Sys!Keys : disp[k] = "DFL"
    /\ Tm!Init /\ Ns!Init /\ Job!Init

MCNext ==
    \/ /\ program = "one_time_init" /\ Once!Next
       /\ UNCHANGED <<program, semVars, fileVars, multiVars, daemonVars, hupVars, initVars, systemVars, newVars>>
    \/ /\ program = "svsem_init" /\ Sem!Next
       /\ UNCHANGED <<program, onceVars, fileVars, multiVars, daemonVars, hupVars, initVars, systemVars, newVars>>
    \/ /\ program = "pid_file" /\ File!Next
       /\ UNCHANGED <<program, onceVars, semVars, multiVars, daemonVars, hupVars, initVars, systemVars, newVars>>
    \/ /\ program = "multi_SIGCHLD" /\ Multi!Next
       /\ UNCHANGED <<program, onceVars, semVars, fileVars, daemonVars, hupVars, initVars, systemVars, newVars>>
    \/ /\ program = "become_daemon" /\ Daemon!Next
       /\ UNCHANGED <<program, onceVars, semVars, fileVars, multiVars, hupVars, initVars, systemVars, newVars>>
    \/ /\ program = "daemon_SIGHUP" /\ Hup!Next
       /\ UNCHANGED <<program, onceVars, semVars, fileVars, multiVars, daemonVars, initVars, systemVars, newVars>>
    \/ /\ program = "simple_init" /\ InitProg!Next
       /\ UNCHANGED <<program, onceVars, semVars, fileVars, multiVars, daemonVars, hupVars, systemVars, newVars>>
    \/ /\ program = "system" /\ Sys!Next
       /\ UNCHANGED <<program, onceVars, semVars, fileVars, multiVars, daemonVars, hupVars, initVars, newVars>>
    \/ program = "timers" /\ Tm!Next /\ UNCHANGED <<program, oldVars, nsVars, jobVars>>
    \/ program = "namespaces" /\ Ns!Next /\ UNCHANGED <<program, oldVars, tmVars, jobVars>>
    \/ program = "jobs" /\ Job!Next /\ UNCHANGED <<program, oldVars, tmVars, nsVars>>

(* What is scheduled: threads and processes run, one in each set since only one program runs,
   signals are delivered, the clock goes on, and children and commands end some day unless
   they are stopped. No thread can starve another of the mutex of one_time_init() for ever,
   since each calls it finitely often; that of ptmr_sigev_thread is taken again and again. *)
Scheduled(i) ==
    UNCHANGED program /\
    CASE i = 1 -> \/ program = "svsem_init" /\ Sem!Step("p1")
                  \/ program = "multi_SIGCHLD" /\ Multi!Parent
                  \/ program = "become_daemon" /\ Daemon!Step
                  \/ program = "daemon_SIGHUP" /\ Hup!main
                  \/ program = "simple_init" /\ InitProg!HandlerStarts
                  \/ program = "system" /\ Sys!system
                  \/ program = "timers" /\ Tm!Tick
                  \/ program = "namespaces" /\ Ns!Scheduled(0)
                  \/ program = "jobs" /\ Job!Scheduled
      [] i = 2 -> \/ program = "svsem_init" /\ Sem!Step("p2")
                  \/ program = "multi_SIGCHLD" /\ Multi!ChildExits
                  \/ program = "become_daemon" /\ Daemon!ParentExits
                  \/ program = "daemon_SIGHUP" /\ Hup!sighupHandler
                  \/ program = "simple_init" /\ InitProg!child_handler
                  \/ program = "system" /\ Sys!CallerReaps
                  \/ program = "timers" /\ Tm!Main
                  \/ program = "namespaces" /\ Ns!Scheduled(1)
      [] i = 3 -> \/ program = "svsem_init" /\ Sem!Step("p3")
                  \/ program = "system" /\ Sys!Child
                  \/ program = "timers" /\ Tm!Handler
                  \/ program = "namespaces" /\ Ns!Scheduled(2)
      [] i = 4 -> \/ program = "svsem_init" /\ Sem!Step("p4")
                  \/ program = "namespaces" /\ Ns!Scheduled(3)
runVars ==
    CASE program = "svsem_init" -> semVars [] program = "multi_SIGCHLD" -> multiVars
      [] program = "become_daemon" -> daemonVars [] program = "daemon_SIGHUP" -> hupVars
      [] program = "simple_init" -> initVars [] program = "system" -> systemVars
      [] program = "timers" -> tmVars [] program = "namespaces" -> nsVars [] program = "jobs" -> jobVars
      [] OTHER -> <<onceVars, fileVars>>

MCSpec ==
    /\ MCInit /\ [][MCNext]_allVars
    /\ \A t \in Threads : WF_onceVars(program = "one_time_init" /\ (Once!one_time_init(t) \/ Once!Join(t)))
    /\ \A i \in 1..4 : WF_runVars(Scheduled(i))
    /\ SF_tmVars(program = "timers" /\ Tm!Notification)

-----------------------------------------------------------------------------
(* The programs of timers/ count the expirations of their timers, overruns included, tell a
   timeout from input, and sleep no less than they were asked to, however often a signal
   interrupts them. *)
TimersExact == Tm!TimersExact

(* A child has its user and group maps before it executes its command, unless the parent
   failed or was killed; the command and the mounts are in the namespaces asked for; what one
   namespace or table changes, the others do not see, and what is shared they do. *)
NamespacesSafe == Ns!NamespacesSafe

(* A hang-up reaches the foreground group only; no member of an orphaned group stays stopped
   but one that stopped after it was orphaned; child_status reports the child's end as it
   was, and the commands of job_mon know their place. *)
JobsSafe == Job!TypeOK /\ Job!JobsSafe

(* ptmr_sigev_thread.c:23 says that expireCnt is the "Number of expirations of all timers". *)
ExpireCntExact == Tm!ExpireCntExact

(* What every program comes to, and stays with unless it is asked for more: all callers of one_time_init() have ended; nobody polls
   sem_otime, also if the creator died; the parent of multi_SIGCHLD does not sleep; one
   process of becomeDaemon() is left; every SIGHUP is honoured or the daemon has exited;
   simple_init has reaped every child that died; system() has returned, unless its caller was
   killed; the timers have expired and their programs noticed, the children in namespaces are
   waited for, and alarms have ended the programs about job control. *)
Settled ==
    CASE program = "one_time_init" -> Once!AllJoined
      [] program = "svsem_init" -> Sem!Settles
      [] program = "multi_SIGCHLD" -> Multi!Terminates
      [] program = "become_daemon" -> Daemon!OneProcess
      [] program = "daemon_SIGHUP" -> Hup!HupHonoured
      [] program = "simple_init" -> InitProg!Reaped
      [] program = "system" -> Sys!Returns
      [] program = "timers" -> Tm!TimersEnd
      [] program = "namespaces" -> Ns!ChildrenWaitedFor
      [] program = "jobs" -> Job!JobsEnd
      [] OTHER -> TRUE

(* Every program settles, again and again; and a process of svsem_good_init gives up only when the creator has
   not finished or was killed. *)
ProcessesSettle == Sem!FatalMeansLate /\ []<>Settled
=============================================================================
