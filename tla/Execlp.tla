------------------------------- MODULE Execlp -------------------------------
(***************************************************************************)
(* procexec/execlp.c: execlp() written with execve(). The arguments are    *)
(* collected in a vector that grows, the file is looked for in the         *)
(* prefixes of PATH; for a file that is no binary the shell is executed,   *)
(* with argv[0] as its script. strdup() is taken to succeed.               *)
(***************************************************************************)
EXTENDS Integers, Sequences, SequencesExt

CONSTANTS
    ArgvStep,      \* the vector starts with, and grows by, this many items (100)
    MaxArgs,       \* the most arguments the caller passes (arg0 included, NULL not)
    MaxPrefixes,   \* the length of PATH, in prefixes
    NULL

(* What execve() does for a pathname; for an ENOEXEC file the shell may be missing. *)
Outcomes == {"ok", "EACCES", "ENOENT", "ENOEXEC"}

VARIABLES
    nargs,         \* arguments before the terminating NULL
    slash,         \* the filename contains a slash
    path,          \* what happens at each pathname: the file itself, if it has a slash;
                   \* else one for each prefix, an undefined PATH counting as "."
    shell,         \* the outcome of execve() of the shell
    pc,            \* "args", "try", "script", "clean", "returned", "exec", or "lost": crashed
                   \* or caught in a loop
    argc, argvSize, allocated,   \* the vector: items, size believed, size allocated
    k,             \* the prefix being tried
    prog,          \* what has been executed: <<"file", k>> or <<"shell", script>>
    fndEACCES, savedErrno, errno

args == <<nargs, slash, path, shell>>
vector == <<argc, argvSize, allocated>>
errVars == <<fndEACCES, savedErrno, errno>>
vars == <<args, pc, vector, k, prog, errVars>>

Outcome == path[k]

Init ==
    /\ nargs \in 1..MaxArgs /\ slash \in BOOLEAN
    /\ path \in BoundedSeq(Outcomes, MaxPrefixes) /\ path # << >>
    /\ slash => Len(path) = 1
    /\ shell \in {"ok", "EACCES"}
    /\ pc = "args" /\ argc = 1 /\ argvSize = ArgvStep /\ allocated = ArgvStep
    /\ k = 1 /\ prog = NULL
    /\ fndEACCES = FALSE /\ savedErrno = NULL /\ errno = NULL

(* One round of the loop over the argument list: argv[argc - 1] is not NULL. *)
AddArg ==
    /\ pc = "args" /\ argc <= nargs
    /\ IF argc + 1 >= argvSize
       THEN argvSize' = argvSize + ArgvStep /\ allocated' = 1
       ELSE UNCHANGED <<argvSize, allocated>>
    /\ argc' = argc + 1
    /\ UNCHANGED <<args, pc, k, prog, errVars>>

(* calloc() or realloc() of the vector fails, or calloc() of the copy of the environment. *)
NoMemory ==
    /\ pc = "args" /\ (argc = 1 \/ argc + 1 >= argvSize \/ argc > nargs)
    /\ errno' = "ENOMEM" /\ pc' = "returned"
    /\ UNCHANGED <<args, vector, k, prog, fndEACCES, savedErrno>>

(* The terminating NULL has been stored: the environment is copied. *)
ArgsDone ==
    /\ pc = "args" /\ argc > nargs
    /\ pc' = "try"
    /\ UNCHANGED <<args, vector, k, prog, errVars>>

Exec == prog' = <<"file", k>> /\ pc' = "exec" /\ UNCHANGED <<k, errVars>>

(* execve() has failed: on to the next prefix, or back to the caller. *)
NextPrefix ==
    IF k = Len(path)
    THEN pc' = "clean" /\ UNCHANGED k
    ELSE pc' = "try" /\ k' = k + 1

(* Mutant: EACCES is not remembered. *)
TryForgetsEACCES ==
    /\ pc = "try"
    /\ \/ Outcome = "ok" /\ Exec
       \/ /\ Outcome # "ok"
          /\ savedErrno' = Outcome
          /\ IF Outcome = "ENOEXEC" THEN pc' = "script" /\ UNCHANGED k ELSE NextPrefix
          /\ UNCHANGED <<prog, fndEACCES, errno>>
    /\ UNCHANGED <<args, vector>>

(* execve(); only the PATH search remembers EACCES. *)
Try ==
    /\ pc = "try"
    /\ \/ Outcome = "ok" /\ Exec
       \/ /\ Outcome # "ok"
          /\ savedErrno' = Outcome
          /\ fndEACCES' = (fndEACCES \/ (Outcome = "EACCES" /\ ~slash))
          /\ IF Outcome = "ENOEXEC" THEN pc' = "script" /\ UNCHANGED k ELSE NextPrefix
          /\ UNCHANGED <<prog, errno>>
    /\ UNCHANGED <<args, vector>>

(* The pathname of a prefix is written to what malloc() returned, NULL or not. *)
MallocFails ==
    /\ pc = "try" /\ ~slash
    /\ pc' = "lost"
    /\ UNCHANGED <<args, vector, k, prog, errVars>>

(* execShScript(): shArgv[] is the shell, then the caller's arguments from argv[0] on, so
   that the shell takes argv[0] for the script. shArgv[] has argc + 1 items, and the loop
   writes argc + 2: the NULL behind its end falls into padding, or breaks the stack. *)
execShScript ==
    /\ pc = "script"
    /\ \/ /\ shell = "ok"
          /\ prog' = <<"shell", "argv[0]">> /\ pc' = "exec" /\ UNCHANGED k
       \/ shell # "ok" /\ NextPrefix /\ UNCHANGED prog
       \/ pc' = "lost" /\ UNCHANGED <<k, prog>>
    /\ UNCHANGED <<args, vector, errVars>>

(* The storage is freed and errno set. *)
Return ==
    /\ pc = "clean"
    /\ errno' = IF fndEACCES THEN "EACCES" ELSE savedErrno
    /\ pc' = "returned"
    /\ UNCHANGED <<args, vector, k, prog, fndEACCES, savedErrno>>

Next == AddArg \/ NoMemory \/ ArgsDone \/ Try \/ MallocFails \/ execShScript \/ Return

Spec == Init /\ [][Next]_vars

-----------------------------------------------------------------------------
TypeOK ==
    /\ pc \in {"args", "try", "script", "clean", "returned", "exec", "lost"}
    /\ k \in 1..Len(path) /\ argc \in 1..(MaxArgs + 1)
    /\ errno \in Outcomes \cup {NULL, "ENOMEM"} /\ fndEACCES \in BOOLEAN

Runs(o) == o = "ok" \/ (o = "ENOEXEC" /\ shell = "ok")

(* "Resize argv if required": the items stored in the argument vector fit into the
   storage allocated for it. *)
ArgvFits == argc <= allocated

(* The first file in the order of PATH that can run decides what is executed: that file,
   or, when it is a script, the shell on whatever argv[0] names. execlp() returns only when
   nothing at all could run or memory is short. Nothing is said of a call that has written
   past the end of its vector, or whose process is lost. *)
FirstExecutable ==
    ArgvFits =>
        /\ pc = "exec" =>
              /\ \A j \in 1..(k - 1) : ~Runs(path[j])
              /\ prog = IF path[k] = "ok" THEN <<"file", k>> ELSE <<"shell", "argv[0]">>
              /\ Runs(path[k])
        /\ pc = "returned" /\ errno # "ENOMEM" => \A j \in DOMAIN path : ~Runs(path[j])

(* "if any execve() failed with EACCES, then that is the error that should be returned";
   otherwise it is that of the last prefix. A call that ran short of memory has tried
   nothing. *)
ErrnoRule ==
    ArgvFits /\ pc = "returned" /\ errno # "ENOMEM" =>
        errno = IF ~slash /\ \E j \in DOMAIN path : path[j] = "EACCES"
                THEN "EACCES" ELSE Last(path)
=============================================================================
