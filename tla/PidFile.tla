------------------------------ MODULE PidFile ------------------------------
(***************************************************************************)
(* filelock/create_pid_file.c: createPidFile() opens or creates the PID    *)
(* file, locks it, truncates it and writes the process ID into it, so that *)
(* at most one instance of a program runs. The comment on the function     *)
(* asks the caller to delete the file before it terminates.                *)
(***************************************************************************)
EXTENDS Integers, Sequences

CONSTANTS
    Procs,      \* processes that start the program, again and again
    PidStr,     \* the text each writes, a sequence of characters
    Inodes,     \* files there can be at one time
    None

(* A process ID is a text; None is neither a process nor a file. *)
PidAssumption == (\A p \in Procs : PidStr[p] \in Seq(Nat)) /\ None \notin Procs \cup Inodes

VARIABLES
    deletes,    \* callers delete the file before they terminate
    name,       \* the inode that 'pidFile' names, or None
    content,    \* contents of each inode
    lock,       \* the process that has the write lock of each inode, or None
    fd,         \* the inode each process has open, or None
    pc

vars == <<deletes, name, content, lock, fd, pc>>

Init ==
    /\ deletes \in BOOLEAN
    /\ name = None
    /\ content = [i \in Inodes |-> << >>]
    /\ lock = [i \in Inodes |-> None]
    /\ fd = [p \in Procs |-> None]
    /\ pc = [p \in Procs |-> "idle"]

Goto(p, l) == pc' = [pc EXCEPT ![p] = l] /\ UNCHANGED deletes

(* An inode that has neither a name nor a descriptor is free. *)
Free == {i \in Inodes : i # name /\ \A p \in Procs : fd[p] # i}

(* open(O_RDWR | O_CREAT), and the close-on-exec flag *)
OpenFile(p) ==
    /\ pc[p] = "idle"
    /\ \/ /\ name # None
          /\ fd' = [fd EXCEPT ![p] = name]
          /\ UNCHANGED <<name, content>>
       \/ /\ name = None
          /\ Free # {} /\ name' = CHOOSE i \in Free : TRUE
          /\ fd' = [fd EXCEPT ![p] = name']
          /\ UNCHANGED content
    /\ Goto(p, "lock")
    /\ UNCHANGED lock

(* Closing the descriptor releases the locks of the process on the inode, and the last
   one of an inode without a name frees it. *)
Release(p) ==
    /\ fd' = [fd EXCEPT ![p] = None]
    /\ content' = [i \in Inodes |-> IF i = name \/ \E q \in Procs : fd'[q] = i THEN content[i] ELSE << >>]
    /\ lock' = [i \in Inodes |-> IF lock[i] = p THEN None ELSE lock[i]]

(* lockRegion(fd, F_WRLCK, SEEK_SET, 0, 0): the whole file, without waiting *)
lockRegion(p) ==
    /\ pc[p] = "lock" /\ lock[fd[p]] = None
    /\ lock' = [lock EXCEPT ![fd[p]] = p]
    /\ Goto(p, "truncate")
    /\ UNCHANGED <<name, content, fd>>

(* "PID file is locked; probably ... already running" *)
AlreadyRunning(p) ==
    /\ pc[p] = "lock" /\ lock[fd[p]] # None
    /\ Goto(p, "idle")
    /\ Release(p)
    /\ UNCHANGED name

Truncate(p) ==
    /\ pc[p] = "truncate"
    /\ content' = [content EXCEPT ![fd[p]] = << >>]
    /\ Goto(p, "write")
    /\ UNCHANGED <<name, lock, fd>>

(* write() at offset 0: what is longer than the new text stays. *)
WritePid(p) ==
    /\ pc[p] = "write"
    /\ content' = [content EXCEPT ![fd[p]] =
                      PidStr[p] \o SubSeq(@, Len(PidStr[p]) + 1, Len(@))]
    /\ Goto(p, "running")
    /\ UNCHANGED <<name, lock, fd>>

(* The caller deletes the file, as the comment on the function says. *)
Delete(p) ==
    /\ deletes /\ pc[p] = "running"
    /\ name' = None
    /\ Goto(p, "deleted")
    /\ UNCHANGED <<content, lock, fd>>

(* The process ends: it exits after deleting the file, gives up on an error or is
   killed at any point. *)
Terminate(p) ==
    /\ pc[p] # "idle"
    /\ Goto(p, "idle")
    /\ Release(p)
    /\ UNCHANGED name

Next == \E p \in Procs :
            \/ OpenFile(p) \/ lockRegion(p) \/ AlreadyRunning(p) \/ Truncate(p)
            \/ WritePid(p) \/ Delete(p) \/ Terminate(p)

Spec == Init /\ [][Next]_vars

-----------------------------------------------------------------------------
TypeOK ==
    /\ name \in Inodes \cup {None}
    /\ DOMAIN content = Inodes
    /\ lock \in [Inodes -> Procs \cup {None}]
    /\ fd \in [Procs -> Inodes \cup {None}]
    /\ pc \in [Procs -> {"idle", "lock", "truncate", "write", "running", "deleted"}]
    /\ \A p \in Procs : pc[p] = "idle" <=> fd[p] = None

(* createPidFile() has not returned in two processes that both run, so long as nobody
   deletes the file: a process may lock a file that another has just deleted. *)
OneInstance ==
    ~deletes => \A p, q \in Procs : pc[p] = "running" /\ pc[q] = "running" => p = q

(* The file found under its name holds exactly the process ID of the instance that
   runs, also when the text written before was longer and when other processes
   have opened the file or died at any point since (ftruncate(), write()). *)
PidOfRunner ==
    \A p \in Procs : pc[p] = "running" /\ ~deletes => name # None /\ content[name] = PidStr[p]

(* Whatever happens to the name, the file that an instance has open keeps its
   process ID while it runs, and its lock (lockRegion() before ftruncate()). *)
OwnFileKept ==
    \A p \in Procs :
        pc[p] \in {"running", "deleted"} => content[fd[p]] = PidStr[p] /\ lock[fd[p]] = p

-----------------------------------------------------------------------------
(* Why: who is past lockRegion() has the lock of the file that it has open, and nobody
   else changes that file; the name, once there, stays if nobody deletes it. *)
LockInv ==
    \A p \in Procs :
        /\ pc[p] \in {"truncate", "write", "running", "deleted"} => lock[fd[p]] = p
        /\ pc[p] = "write" => content[fd[p]] = << >>
        /\ pc[p] \in {"running", "deleted"} => content[fd[p]] = PidStr[p]
NameInv == ~deletes => \A p \in Procs : fd[p] \in {name, None}
Inv == TypeOK /\ LockInv /\ NameInv
=============================================================================
