---------------------------- MODULE DaemonSighup ----------------------------
(***************************************************************************)
(* daemons/daemon_SIGHUP.c: a daemon that reopens its log file and rereads *)
(* its configuration after SIGHUP, and logs a message every SLEEP_TIME     *)
(* seconds. The model starts when becomeDaemon() has returned. Versions of *)
(* the two files are numbers that their owner increases.                   *)
(***************************************************************************)
EXTENDS Integers

CONSTANTS
    SLEEP_TIME,
    MaxVersion,   \* bound on the versions of the configuration and of the log
    CountMod      \* count wraps at this number

VARIABLES
    pc, hupReceived, unslept, count,
    logfp,              \* version of the log file that is open, -1: none
    confRead,           \* version of the configuration read last, -1: none
    pending,            \* SIGHUP is pending
    conf, log,          \* versions of the files that the names refer to
    confAsked, logAsked,\* their versions when the last SIGHUP was sent
    slept,              \* seconds slept to their end, in all
    cut,                \* seconds during which a sleep was interrupted, in all
    waited              \* seconds since the oldest SIGHUP not yet honoured

daemonVars == <<pc, hupReceived, unslept, count, logfp, confRead>>
envVars == <<conf, log, confAsked, logAsked>>
timeVars == <<slept, cut, waited>>
vars == <<daemonVars, pending, envVars, timeVars>>

Init ==
    /\ pc = "logOpen" /\ hupReceived = FALSE /\ unslept = SLEEP_TIME /\ count = 0
    /\ logfp = -1 /\ confRead = -1 /\ pending = FALSE
    /\ conf = 0 /\ log = 0 /\ confAsked = -1 /\ logAsked = -1
    /\ slept = 0 /\ cut = 0 /\ waited = 0

-----------------------------------------------------------------------------
(* The administrator *)

EditConfig == /\ conf < MaxVersion
              /\ conf' = conf + 1
              /\ UNCHANGED <<daemonVars, pending, log, confAsked, logAsked, timeVars>>

RotateLog == /\ log < MaxVersion
             /\ log' = log + 1
             /\ UNCHANGED <<daemonVars, pending, conf, confAsked, logAsked, timeVars>>

SendSighup == /\ pending' = TRUE
              /\ confAsked' = conf /\ logAsked' = log
              /\ UNCHANGED <<daemonVars, conf, log, timeVars>>

-----------------------------------------------------------------------------
(* The daemon *)

Outstanding == pending \/ hupReceived

(* The count of the seconds slept, or cut, wraps when count does. *)
OneMore(seconds) == (seconds + 1) % (SLEEP_TIME * CountMod)

(* The handler; if the daemon sleeps, sleep() returns what is left in whole seconds: of a
   second that was interrupted nothing is left. *)
sighupHandler ==
    /\ pending
    /\ pending' = FALSE
    /\ hupReceived' = TRUE
    /\ pc' = IF pc = "sleep" THEN "check" ELSE pc
    /\ \/ UNCHANGED <<unslept, timeVars>>
       \/ /\ pc = "sleep"
          /\ unslept' = unslept - 1
          /\ cut' = OneMore(cut)
          /\ waited' = IF hupReceived THEN waited + 1 ELSE waited
          /\ UNCHANGED slept
    /\ UNCHANGED <<count, logfp, confRead, envVars>>

(* One second of sleep(unslept) goes by. *)
Sleep == /\ pc = "sleep" /\ ~pending
         /\ unslept' = unslept - 1
         /\ slept' = OneMore(slept)
         /\ waited' = IF Outstanding THEN waited + 1 ELSE 0
         /\ pc' = IF unslept = 1 THEN "check" ELSE "sleep"
         /\ UNCHANGED <<hupReceived, count, logfp, confRead, pending, envVars, cut>>

Check == /\ pc = "check"
         /\ hupReceived' = FALSE
         /\ waited' = 0
         /\ pc' = IF hupReceived THEN "logClose" ELSE "interval"
         /\ UNCHANGED <<unslept, count, logfp, confRead, pending, envVars, slept, cut>>

logClose == /\ pc = "logClose"
            /\ logfp' = -1
            /\ pc' = "logOpen"
            /\ UNCHANGED <<hupReceived, unslept, count, confRead, pending, envVars, timeVars>>

logOpen == /\ pc = "logOpen"
           /\ logfp' = log
           /\ pc' = "readConfigFile"
           /\ UNCHANGED <<hupReceived, unslept, count, confRead, pending, envVars, timeVars>>

(* "If opening the log fails we can't display a message": the daemon exits. *)
logOpenFails == /\ pc = "logOpen"
                /\ pc' = "exited"
                /\ UNCHANGED <<hupReceived, unslept, count, logfp, confRead,
                               pending, envVars, timeVars>>

(* Mutant: hupReceived is reset when the request has been honoured. *)
readConfigFileThenReset ==
    /\ pc = "readConfigFile"
    /\ confRead' = conf
    /\ hupReceived' = FALSE
    /\ pc' = "interval"
    /\ UNCHANGED <<unslept, count, logfp, pending, envVars, timeVars>>

readConfigFile == /\ pc = "readConfigFile"
                  /\ confRead' = conf
                  /\ pc' = "interval"
                  /\ UNCHANGED <<hupReceived, unslept, count, logfp, pending, envVars, timeVars>>

Interval == /\ pc = "interval"
            /\ IF unslept = 0
               THEN count' = (count + 1) % CountMod /\ unslept' = SLEEP_TIME
               ELSE UNCHANGED <<count, unslept>>
            /\ pc' = "sleep"
            /\ UNCHANGED <<hupReceived, logfp, confRead, pending, envVars, timeVars>>

main == Sleep \/ Check \/ logClose \/ logOpen \/ readConfigFile \/ Interval
Next == EditConfig \/ RotateLog \/ SendSighup \/ sighupHandler \/ main \/ logOpenFails

Spec == Init /\ [][Next]_vars

-----------------------------------------------------------------------------
Versions == -1 .. MaxVersion

TypeOK ==
    /\ pc \in {"logOpen", "readConfigFile", "sleep", "check", "logClose", "interval", "exited"}
    /\ hupReceived \in BOOLEAN /\ pending \in BOOLEAN
    /\ unslept \in 0 .. SLEEP_TIME /\ count \in 0 .. CountMod - 1
    /\ logfp \in Versions /\ confRead \in Versions
    /\ conf \in Versions /\ log \in Versions /\ confAsked \in Versions /\ logAsked \in Versions
    /\ slept \in 0 .. SLEEP_TIME * CountMod - 1 /\ cut \in 0 .. SLEEP_TIME * CountMod - 1
    /\ waited \in Nat

(* A request is never forgotten: if the files as they were at the last SIGHUP have
   not been read, it is pending, recorded or being honoured (hupReceived is reset
   before the log and the configuration are read, not after). *)
NoLostHup ==
    /\ confRead < confAsked =>
          Outstanding \/ pc \in {"logClose", "logOpen", "readConfigFile", "exited"}
    /\ logfp < logAsked => Outstanding \/ pc \in {"logClose", "logOpen", "exited"}

(* A request waits for at most one interval, also if the signal arrives after the
   test of hupReceived and before the daemon sleeps. *)
DelayBounded == waited <= SLEEP_TIME

(* count is the number of SLEEP_TIME intervals that have gone by, whatever interrupted
   sleep(): an interval is SLEEP_TIME seconds that were slept to their end, or cut short by
   a SIGHUP, since sleep() returns whole seconds. No other time is gained or lost. *)
CountExact ==
    (slept + cut) % (SLEEP_TIME * CountMod)
       = (count * SLEEP_TIME + SLEEP_TIME - unslept) % (SLEEP_TIME * CountMod)

(* Messages are never written to a log file that is closed. *)
LogUsable == pc \in {"readConfigFile", "sleep", "check", "interval", "logClose"} => logfp # -1

(* In the end every request is honoured, or the daemon exits because it cannot open its log. *)
HupHonoured ==
    pc = "exited" \/ (confRead >= confAsked /\ logfp >= logAsked)

-----------------------------------------------------------------------------
(* Why: versions only grow, and what was asked for is no newer than the files; a request
   that the sleeping daemon has not noticed waits for no longer than the sleep lasts. *)
VersionsInv == conf >= 0 /\ log >= 0 /\ confAsked <= conf /\ logAsked <= log
WaitInv ==
    /\ pc = "sleep" => unslept > 0 /\ waited + unslept <= SLEEP_TIME
    /\ pc \notin {"sleep", "check"} => waited = 0
Inv == /\ TypeOK /\ VersionsInv /\ WaitInv
       /\ NoLostHup /\ DelayBounded /\ CountExact /\ LogUsable
=============================================================================
