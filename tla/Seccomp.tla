------------------------------ MODULE Seccomp -------------------------------
(***************************************************************************)
(* seccomp/seccomp_control_open.c, seccomp_deny_open.c, seccomp_perf.c and *)
(* libseccomp_demo.c: each installs a filter and makes system calls. The   *)
(* filters are the BPF programs of the sources; the kernel runs them, an   *)
(* instruction a step, before every call.                                  *)
(***************************************************************************)
EXTENDS Integers, Sequences

CONSTANTS Calls,    \* system calls that the C library makes before the program's own
          MaxLoops  \* bound: num-loops of seccomp_perf

VARIABLES
    prog, option,   \* option: the 'x' of seccomp_perf
    pc, todo,       \* todo: the calls still to be made
    installed, noNewPrivs,
    ip, acc,        \* the BPF machine; acc: the flags that are set in the accumulator
    results, status

vars == <<prog, option, pc, todo, installed, noNewPrivs, ip, acc, results, status>>

Ld(field) == [op |-> "ld", k |-> field, jt |-> 0, jf |-> 0]
Jeq(k, jt, jf) == [op |-> "jeq", k |-> k, jt |-> jt, jf |-> jf]
Jset(k, jt, jf) == [op |-> "jset", k |-> k, jt |-> jt, jf |-> jf]
Ret(action) == [op |-> "ret", k |-> action, jt |-> 0, jf |-> 0]

O_RDONLY == {}
O_WRONLY == {"wronly"}
O_RDWR == {"rdwr"}
O_CREAT == {"creat"}
Open(flags) == [arch |-> "x86_64", nr |-> "open", flags |-> flags]
Call(nr) == [arch |-> "x86_64", nr |-> nr, flags |-> {}]

(* The three filters written by hand. *)
CheckArch == <<Ld("arch"), Jeq("x86_64", 1, 0), Ret("KILL"), Ld("nr")>>
DenyOpen == CheckArch \o <<Jeq("open", 1, 0), Ret("ALLOW"), Ret("KILL")>>
ControlOpen ==
    CheckArch \o <<Jeq("open", 1, 0), Ret("ALLOW"), Ld("flags"), Jset(O_CREAT, 0, 1), Ret("KILL"),
                   Jset(O_WRONLY \cup O_RDWR, 0, 1), Ret("ENOTSUP"), Ret("ALLOW")>>

(* External: what libseccomp makes of the rules of libseccomp_demo, its check of the
   architecture included. *)
Rules == CheckArch \o <<Jeq("clone", 0, 1), Ret("EPERM"), Jeq("fork", 0, 1), Ret("ENOTSUP"), Ret("ALLOW")>>

Filter(p) ==
    CASE p = "control_open" -> ControlOpen [] p = "libseccomp_demo" -> Rules [] OTHER -> DenyOpen

(* The calls of each main(); fork() is clone() or fork(), as the C library has it. *)
Main(p) ==
    CASE p = "control_open" -> {<<Open(O_RDONLY), Open(O_WRONLY), Open(O_RDWR), Open(O_CREAT \cup O_RDWR)>>}
      [] p = "deny_open" -> {<<Open(O_RDONLY)>>}
      [] p = "perf" -> {[j \in 1..n |-> Call("getppid")] : n \in 0..MaxLoops}
      [] p = "libseccomp_demo" -> {<<Call("clone")>>, <<Call("fork")>>}

Init ==
    /\ prog \in {"control_open", "deny_open", "perf", "libseccomp_demo"} /\ option \in BOOLEAN
    /\ prog # "perf" => option
    /\ todo \in {<<c>> \o m : m \in Main(prog), c \in Calls}
    /\ pc = "prctl" /\ installed = FALSE /\ noNewPrivs = FALSE /\ ip = 0 /\ acc = {} /\ results = <<>>
    /\ status = "run"

-----------------------------------------------------------------------------
(* prctl(PR_SET_NO_NEW_PRIVS) comes first; libseccomp sets it in seccomp_load(). *)
Prctl ==
    /\ pc = "prctl" /\ status = "run"
    /\ \/ option /\ noNewPrivs' = TRUE /\ pc' = "install" /\ UNCHANGED status
       \/ option /\ status' = "failure" /\ UNCHANGED <<noNewPrivs, pc>>
       \/ ~option /\ pc' = "call" /\ UNCHANGED <<noNewPrivs, status>>
    /\ UNCHANGED <<prog, option, todo, installed, ip, acc, results>>

(* install_filter() *)
install_filter ==
    /\ pc = "install" /\ status = "run"
    /\ \/ noNewPrivs /\ installed' = TRUE /\ pc' = "call" /\ UNCHANGED status
       \/ status' = "failure" /\ UNCHANGED <<installed, pc>>
    /\ UNCHANGED <<prog, option, todo, noNewPrivs, ip, acc, results>>

Result(r) ==
    /\ results' = Append(results, <<Head(todo), r>>) /\ todo' = Tail(todo)
    /\ status' = IF r = "KILL" THEN "killed" ELSE status
    /\ pc' = "call" /\ ip' = 0 /\ acc' = {}

(* A system call: at once without a filter, else the filter decides. *)
SystemCall ==
    /\ pc = "call" /\ status = "run" /\ todo # <<>>
    /\ \/ ~installed /\ Result("ALLOW")
       \/ installed /\ pc' = "filter" /\ ip' = 1 /\ UNCHANGED <<todo, acc, results, status>>
    /\ UNCHANGED <<prog, option, installed, noNewPrivs>>

Bits(c, field) == IF field = "flags" THEN c.flags ELSE {c[field]}

(* External: one instruction of the filter. *)
Bpf ==
    /\ pc = "filter" /\ status = "run" /\ ip \in DOMAIN Filter(prog)
    /\ LET i == Filter(prog)[ip]
           Jump(taken) == ip' = ip + 1 + (IF taken THEN i.jt ELSE i.jf) /\ UNCHANGED <<acc, todo, results, status, pc>>
       IN \/ i.op = "ld" /\ acc' = Bits(Head(todo), i.k) /\ ip' = ip + 1 /\ UNCHANGED <<todo, results, status, pc>>
          \/ i.op = "jeq" /\ Jump(acc = {i.k})
          \/ i.op = "jset" /\ Jump(acc \cap i.k # {})
          \/ i.op = "ret" /\ Result(i.k)
    /\ UNCHANGED <<prog, option, installed, noNewPrivs>>

Exit ==
    /\ pc = "call" /\ status = "run" /\ todo = <<>> /\ status' = "success"
    /\ UNCHANGED <<prog, option, pc, todo, installed, noNewPrivs, ip, acc, results>>

Next == Prctl \/ install_filter \/ SystemCall \/ Bpf \/ Exit
Spec == Init /\ [][Next]_vars /\ WF_vars(Next)

TypeOK == status \in {"run", "failure", "killed", "success"} /\ ip \in 0..20 /\ installed \in BOOLEAN

(* What the comments beside the filters say each call gets. *)
Decision(c) ==
    CASE c.arch # "x86_64" -> "KILL"
      [] prog = "libseccomp_demo" -> IF c.nr = "clone" THEN "EPERM" ELSE IF c.nr = "fork" THEN "ENOTSUP" ELSE "ALLOW"
      [] c.nr # "open" -> "ALLOW"
      [] prog # "control_open" \/ "creat" \in c.flags -> "KILL"
      [] c.flags \cap {"wronly", "rdwr"} # {} -> "ENOTSUP"
      [] OTHER -> "ALLOW"

(* seccomp_control_open.c:33-73 and its siblings: every path through a filter, with its
   relative jumps, ends in the return that the comments announce, for every call; a call
   that is killed is the last; without the filter, and only then, nothing is denied. *)
FiltersExact ==
    /\ \A i \in DOMAIN results :
          /\ results[i][2] = IF installed THEN Decision(results[i][1]) ELSE "ALLOW"
          /\ results[i][2] = "KILL" => i = Len(results) /\ status = "killed"
    /\ pc = "filter" => ip \in DOMAIN Filter(prog)
    /\ results # <<>> => installed = option

(* In the end every filter has returned, and the program has ended. *)
FiltersEnd == status # "run"
=============================================================================
