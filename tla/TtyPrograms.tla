---------------------------- MODULE TtyPrograms -----------------------------
(***************************************************************************)
(* Programs that change the settings of the terminal and must put them     *)
(* back: tty/test_tty_functions.c in cbreak and in raw mode, with          *)
(* tty/tty_functions.c, and tty/no_echo.c; and pgsjc/handling_SIGTSTP.c,   *)
(* whose handler for SIGTSTP is the one of test_tty_functions without the  *)
(* terminal. Signals interrupt main() and each other's handlers. While the *)
(* program is stopped or in the background, somebody else may change the   *)
(* settings.                                                               *)
(***************************************************************************)
EXTENDS Integers, Sequences, SequencesExt

CONSTANTS
    Settings,     \* settings that a user may choose: sets of flags
    MaxSignals    \* bound: signals sent

Apps == {"handling_SIGTSTP", "cbreak", "raw", "no_echo"}
Keys == {"SIGINT", "SIGQUIT", "SIGTSTP"}
Signals == Keys \cup {"SIGTERM"}

VARIABLES
    app, ign,      \* the program; the signals that it was told to ignore
    tty,           \* the settings of the terminal
    user, hist,    \* the settings last chosen by the user; all chosen so far
    userTermios,
    frames,        \* the stack: main() and the handlers that interrupted it and each other
    disp, mask, pending,
    errno,         \* whose it is: "main" or "handler"
    status,        \* "running", "stopped", "exited", "killed"
    fg,            \* the program is in the foreground
    sent,
    caught,        \* tstpHandler() has been called and the program has not yet stopped
    raced          \* why the program may not know the latest settings of the user

ttyVars == <<tty, userTermios>>
userVars == <<user, hist, sent>>
signalVars == <<disp, mask, pending>>
ghostVars == <<caught, raced>>
vars == <<app, ign, ttyVars, userVars, frames, signalVars, errno, status, fg, ghostVars>>

Frame(fn, pc, old) ==
    [fn |-> fn, pc |-> pc, old |-> old, our |-> {}, prevMask |-> {}, savedErrno |-> "main"]

Init ==
    /\ app \in Apps /\ ign \in SUBSET Keys
    /\ user \in Settings /\ hist = {user} /\ tty = user /\ userTermios = {}
    /\ frames = <<Frame("main", IF app = "handling_SIGTSTP" THEN "sigaction" ELSE "get", {})>>
    /\ disp = [s \in Signals |-> IF s \in ign THEN "IGN" ELSE "DFL"]
    /\ mask = {} /\ pending = {} /\ errno = "main"
    /\ status = "running" /\ fg = TRUE /\ sent = 0
    /\ caught = FALSE /\ raced = {}

Top == Last(frames)
Deliverable == pending \ mask

(* What is pending and not blocked is delivered before the program goes on. *)
At(fn, l) == status = "running" /\ Deliverable = {} /\ Top.fn = fn /\ Top.pc = l
Goto(l) == frames' = [frames EXCEPT ![Len(frames)].pc = l]

-----------------------------------------------------------------------------
(* The terminal *)

ttySetCbreak(t) == (t \ {"ICANON", "ECHO", "ICRNL"}) \cup {"ISIG"}
ttySetRaw(t) == t \ {"ICANON", "ISIG", "IEXTEN", "ECHO", "ICRNL", "IXON", "OPOST"}

OurSettings(t) ==
    CASE app = "cbreak" -> ttySetCbreak(t)
      [] app = "raw" -> ttySetRaw(t)
      [] app = "no_echo" -> t \ {"ECHO"}

(* A program in the background that sets attributes or reads is stopped, by SIGTTOU or
   SIGTTIN; the call is repeated when it is continued. *)
Foreground(l) ==
    IF fg THEN Goto(l) /\ UNCHANGED status ELSE status' = "stopped" /\ UNCHANGED frames
tcsetattr(t, l) ==
    /\ Foreground(l)
    /\ tty' = IF fg THEN t ELSE tty

-----------------------------------------------------------------------------
(* main() *)

(* The first half of ttySetCbreak(), of ttySetRaw() and of no_echo. *)
GetSettings ==
    /\ At("main", "get")
    /\ userTermios' = tty
    /\ Goto("set")
    /\ UNCHANGED <<app, ign, tty, userVars, signalVars, errno, status, fg, ghostVars>>

(* The second half; what follows is the first sigaction(), or the input. *)
SetSettings ==
    /\ At("main", "set")
    /\ tcsetattr(OurSettings(userTermios),
                 CASE app = "cbreak" -> "SIGQUIT" [] app = "raw" -> "SIGTERM" [] OTHER -> "read")
    /\ UNCHANGED <<app, ign, userTermios, userVars, signalVars, errno, fg, ghostVars>>

Establish(s, f) == disp' = [disp EXCEPT ![s] = f]

(* Handlers for the signals of the keyboard, "only if the signals are not being ignored",
   and for SIGTERM in any case. *)
Handles(s, f, l) ==
    /\ At("main", s)
    /\ IF s \in Keys /\ disp[s] = "IGN" THEN UNCHANGED disp ELSE Establish(s, f)
    /\ Goto(l)
    /\ UNCHANGED <<app, ign, ttyVars, userVars, mask, pending, errno, status, fg, ghostVars>>

Handlers ==
    \/ Handles("SIGQUIT", "handler", "SIGINT") \/ Handles("SIGINT", "handler", "SIGTSTP")
    \/ Handles("SIGTSTP", "tstpHandler", "SIGTERM") \/ Handles("SIGTERM", "handler", "read")

(* main() of handling_SIGTSTP, up to its pause(). *)
EstablishTstp ==
    /\ At("main", "sigaction")
    /\ IF disp["SIGTSTP"] = "IGN" THEN UNCHANGED disp ELSE Establish("SIGTSTP", "tstpHandler")
    /\ Goto("pause")
    /\ UNCHANGED <<app, ign, ttyVars, userVars, mask, pending, errno, status, fg, ghostVars>>

(* A character is read, and echoed by test_tty_functions: it may be the 'q' that ends the
   loop. End of file and errors end it too. no_echo reads one line. *)
Reads ==
    /\ At("main", "read")
    /\ \E more \in BOOLEAN : Foreground(IF more /\ app # "no_echo" THEN "read" ELSE "restore")
    /\ UNCHANGED <<app, ign, ttyVars, userVars, signalVars, errno, fg, ghostVars>>

Restores ==
    /\ At("main", "restore")
    /\ tcsetattr(userTermios, "exit")
    /\ UNCHANGED <<app, ign, userTermios, userVars, signalVars, errno, fg, ghostVars>>

Exits ==
    /\ At("main", "exit") \/ At("handler", "exit")
    /\ status' = "exited"
    /\ UNCHANGED <<app, ign, ttyVars, userVars, frames, signalVars, errno, fg, ghostVars>>

Main == GetSettings \/ SetSettings \/ Handlers \/ EstablishTstp \/ Reads \/ Restores \/ Exits

-----------------------------------------------------------------------------
(* The handlers *)

HandlerRestores ==
    /\ At("handler", "start")
    /\ tcsetattr(userTermios, "exit")
    /\ UNCHANGED <<app, ign, userTermios, userVars, signalVars, errno, fg, ghostVars>>

SaveOurs ==
    /\ At("tstpHandler", "start")
    /\ frames' = [frames EXCEPT ![Len(frames)].our = tty, ![Len(frames)].savedErrno = errno,
                                ![Len(frames)].pc = IF app = "cbreak" THEN "setUser" ELSE "default"]
    /\ errno' = "handler"
    /\ UNCHANGED <<app, ign, ttyVars, userVars, signalVars, status, fg, ghostVars>>

(* Mutant: the user's settings are not restored before the program stops. *)
KeepsOurs ==
    /\ At("tstpHandler", "setUser")
    /\ Goto("default")
    /\ UNCHANGED <<app, ign, ttyVars, userVars, signalVars, errno, status, fg, ghostVars>>

SetUsers ==
    /\ At("tstpHandler", "setUser")
    /\ tcsetattr(userTermios, "default")
    /\ UNCHANGED <<app, ign, userTermios, userVars, signalVars, errno, fg, ghostVars>>

SetDefault ==
    /\ At("tstpHandler", "default")
    /\ Establish("SIGTSTP", "DFL")
    /\ Goto("raise")
    /\ UNCHANGED <<app, ign, ttyVars, userVars, mask, pending, errno, status, fg, ghostVars>>

Raise ==
    /\ At("tstpHandler", "raise")
    /\ pending' = pending \cup {"SIGTSTP"}
    /\ Goto("unblock")
    /\ UNCHANGED <<app, ign, ttyVars, userVars, disp, mask, errno, status, fg, ghostVars>>

(* "the pending SIGTSTP immediately suspends the program" *)
Unblock ==
    /\ At("tstpHandler", "unblock")
    /\ mask' = mask \ {"SIGTSTP"}
    /\ frames' = [frames EXCEPT ![Len(frames)].prevMask = mask, ![Len(frames)].pc = "reblock"]
    /\ UNCHANGED <<app, ign, ttyVars, userVars, disp, pending, errno, status, fg, ghostVars>>

(* "Execution resumes here after SIGCONT" *)
Reblock ==
    /\ At("tstpHandler", "reblock")
    /\ mask' = Top.prevMask
    /\ Goto("reestablish")
    /\ UNCHANGED <<app, ign, ttyVars, userVars, disp, pending, errno, status, fg, ghostVars>>

Reestablish ==
    /\ At("tstpHandler", "reestablish")
    /\ Establish("SIGTSTP", "tstpHandler")
    /\ Goto(IF app = "cbreak" THEN "getUser" ELSE "return")
    /\ UNCHANGED <<app, ign, ttyVars, userVars, mask, pending, errno, status, fg, ghostVars>>

(* "The user may have changed the terminal settings while we were stopped" *)
GetUsers ==
    /\ At("tstpHandler", "getUser")
    /\ userTermios' = tty
    /\ Goto("setOurs")
    /\ UNCHANGED <<app, ign, tty, userVars, signalVars, errno, status, fg, ghostVars>>

SetOurs ==
    /\ At("tstpHandler", "setOurs")
    /\ tcsetattr(Top.our, "return")
    /\ UNCHANGED <<app, ign, userTermios, userVars, signalVars, errno, fg, ghostVars>>

(* The kernel restores the mask; errno has been restored before. *)
HandlerReturns ==
    /\ At("tstpHandler", "return")
    /\ errno' = Top.savedErrno
    /\ mask' = Top.old
    /\ frames' = Front(frames)
    /\ UNCHANGED <<app, ign, ttyVars, userVars, disp, pending, status, fg, ghostVars>>

tstpHandler ==
    \/ SaveOurs \/ SetUsers \/ SetDefault \/ Raise \/ Unblock \/ Reblock \/ Reestablish
    \/ GetUsers \/ SetOurs \/ HandlerReturns

-----------------------------------------------------------------------------
(* Signals, the shell and the user *)

Kill(s) ==
    /\ sent < MaxSignals /\ status \in {"running", "stopped"}
    /\ sent' = sent + 1
    /\ pending' = IF disp[s] = "IGN" THEN pending ELSE pending \cup {s}
    /\ UNCHANGED <<app, ign, ttyVars, user, hist, frames, disp, mask, errno, status, fg, ghostVars>>

(* A signal overtakes what the program knows of the user's settings: a handler that exits
   starts before the settings chosen during the stop were fetched, or a stop comes when
   the program has restored the terminal and has only to exit. *)
Overtakes(s) ==
    \/ /\ disp[s] = "handler" /\ Top.fn = "tstpHandler"
       /\ Top.pc \in {"reblock", "reestablish", "getUser"}
    \/ disp[s] = "tstpHandler" /\ Top.pc = "exit"

Deliver(s) ==
    /\ status = "running" /\ s \in Deliverable
    /\ pending' = pending \ {s}
    /\ IF disp[s] = "DFL"
         THEN /\ status' = IF s = "SIGTSTP" THEN "stopped" ELSE "killed"
              /\ fg' = (s # "SIGTSTP" /\ fg)
              /\ caught' = (s # "SIGTSTP" /\ caught)
              /\ raced' = raced \cup IF s = "SIGTSTP" /\ Top.fn # "tstpHandler" THEN {"unhandled"} ELSE {}
              /\ UNCHANGED <<frames, mask>>
         ELSE /\ frames' = Append(frames, Frame(disp[s], "start", mask))
              /\ mask' = mask \cup {s}
              /\ caught' = (caught \/ disp[s] = "tstpHandler")
              /\ raced' = raced \cup IF Overtakes(s) THEN {"overtaken"} ELSE {}
              /\ UNCHANGED <<status, fg>>
    /\ UNCHANGED <<app, ign, ttyVars, userVars, disp, errno>>

(* SIGCONT, from the shell's fg or bg or from elsewhere, discards a pending SIGTSTP. *)
Continue(toFg) ==
    /\ \/ status = "stopped"
       \/ status = "running" /\ ("SIGTSTP" \in pending \/ (toFg /\ ~fg))
    /\ status' = "running"
    /\ fg' = (toFg \/ (fg /\ status = "running"))
    /\ pending' = pending \ {"SIGTSTP"}
    /\ caught' = (caught /\ "SIGTSTP" \notin pending)
    /\ raced' = raced \cup IF fg' THEN {} ELSE {"background"}
    /\ UNCHANGED <<app, ign, ttyVars, userVars, frames, disp, mask, errno>>

UserChanges ==
    /\ ~fg /\ status \in {"running", "stopped"}
    /\ \E t \in Settings \ hist : user' = t /\ hist' = hist \cup {t} /\ tty' = t
    /\ UNCHANGED <<app, ign, userTermios, sent, frames, signalVars, errno, status, fg, ghostVars>>

Program == Main \/ HandlerRestores \/ tstpHandler

Next ==
    \/ Program \/ UserChanges
    \/ \E s \in Signals : Kill(s) \/ Deliver(s)
    \/ \E toFg \in BOOLEAN : Continue(toFg)

Spec == Init /\ [][Next]_vars

-----------------------------------------------------------------------------
(* Types. *)
TypeOK ==
    /\ app \in Apps /\ ign \subseteq Keys /\ user \in hist /\ hist \subseteq Settings
    /\ disp \in [Signals -> {"DFL", "IGN", "handler", "tstpHandler"}]
    /\ mask \subseteq Signals /\ pending \subseteq Signals
    /\ status \in {"running", "stopped", "exited", "killed"}
    /\ fg \in BOOLEAN /\ caught \in BOOLEAN /\ raced \subseteq {"unhandled", "overtaken", "background"} /\ errno \in {"main", "handler"}

(* main() of test_tty_functions has established all its handlers. *)
Ready == frames[1].pc \in {"read", "restore", "exit"}

(* A stopped test_tty_functions in cbreak mode has given settings of the user back to the
   terminal, the latest ones unless it may not know them (see LatestRestored), provided it
   was not stopped before its handlers were established. *)
StoppedAsUser ==
    app = "cbreak" /\ status = "stopped" /\ "unhandled" \notin raced =>
        tty \in hist /\ (raced = {} => tty = user)

(* However test_tty_functions ends, other than killed before its handlers were established
   (or, in raw mode, by a signal that was sent to it), it leaves settings that the user
   chose, not its own; no_echo does so if it is not killed. *)
NeverLeftOurs ==
    /\ status = "exited" => tty \in hist
    /\ app = "cbreak" /\ Ready => status # "killed"

(* They are the settings that the user chose last, with three exceptions, recorded in
   'raced'. The program was stopped without its handler (before it was established, in raw
   mode, in no_echo). It was continued in the background, where it fetches the settings but
   may be stopped again before it uses the terminal. Or a signal overtook: one that ends the
   program just after the SIGCONT, or a SIGTSTP between restoring the terminal and exiting,
   after which "our" settings are put back. *)
LatestRestored == status = "exited" /\ raced = {} => tty = user

(* A SIGTSTP that was caught stops the program before main() goes on, unless a SIGCONT
   comes; and when main() goes on it finds errno, its mask and the handler as they were. *)
HandlerTransparent ==
    status = "running" /\ Top.fn = "main" =>
        /\ ~caught /\ errno = "main" /\ mask = {}
        /\ (Ready /\ app = "cbreak") \/ Top.pc = "pause" =>
              disp["SIGTSTP"] = IF "SIGTSTP" \in ign THEN "IGN" ELSE "tstpHandler"

(* A signal that was ignored when the program was started stays ignored. *)
StaysIgnored == \A s \in ign : disp[s] = "IGN"

(* In the end SIGTERM has ended test_tty_functions if its handler was there, whatever else was
   handled or stopped it, if the user brings it back to the foreground. *)
TermEnds ==
    \/ status \in {"exited", "killed"}
    \/ /\ ~("SIGTERM" \in pending /\ disp["SIGTERM"] = "handler")
       /\ \A i \in DOMAIN frames : frames[i].fn # "handler"
=============================================================================
