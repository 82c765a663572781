----------------------------- MODULE Namespaces -----------------------------
(***************************************************************************)
(* The programs of namespaces/ and procexec/ that create a child with      *)
(* clone(), or change namespaces with unshare() and setns():               *)
(* userns_child_exec.c, ns_child_exec.c, multi_pidns.c,                    *)
(* pidns_init_sleep.c, demo_uts_namespaces.c, demo_userns.c,               *)
(* userns_setns_test.c, t_setns_userns.c, ns_exec.c, ns_run.c, unshare.c,  *)
(* demo_clone.c and t_clone.c. A program is a text, a sequence of calls    *)
(* for main() and one for the start function of the child; the actions     *)
(* are the calls, with their failures.                                     *)
(***************************************************************************)
EXTENDS Integers, Sequences, FiniteSets

CONSTANTS
    Levels,      \* the argument of multi_pidns
    MaxKills     \* bound: processes killed

(* A child has the number of its parent and one; the first process is 0. *)
Procs == 0..Levels
Child(p) == p + 1
Kinds == {"pid", "user", "uts"}    \* of namespaces; the others behave as "uts" does

VARIABLES
    prog, opts,
    pc,              \* of each process: its place in its text
    status,          \* "none", "run", "command", "zombie", "gone"
    failed,          \* the processes that ended with errExit()
    ns, pidnsForChildren,
    isInit,          \* the processes that are the first of a PID namespace
    caps,            \* the processes that have capabilities in their user namespace
    mounts,          \* the mount points of procfs and the PID namespaces they show
    wr,              \* the processes that have the write end of the pipe open
    maps, denied, mapErrors,
    host, shown,     \* the host name of each UTS namespace; what was displayed
    table, attr,     \* the umask, files and signal table of each process; their contents
    kills, killed

procVars == <<pc, status, failed>>
nsVars == <<ns, pidnsForChildren, isInit, caps>>
pipeVars == <<wr, maps, denied, mapErrors>>
viewVars == <<mounts, host, shown>>
cloneVars == <<table, attr>>
vars == <<prog, opts, procVars, nsVars, pipeVars, viewVars, cloneVars, kills, killed>>

(* Each program: the calls of main() and of the start function of the child. *)
userns_child_exec ==
    [main |-> <<"options", "pipe", "clone", "uid_map", "setgroups", "gid_map", "close", "wait",
                "exit">>,
     child |-> <<"close", "read", "exec">>]
ns_child_exec == [main |-> <<"clone", "wait", "exit">>, child |-> <<"exec">>]
pidns_init_sleep == [main |-> <<"clone", "wait", "exit">>, child |-> <<"mount", "exec">>]
multi_pidns ==
    [main |-> <<"recurse", "wait", "exit">>, child |-> <<"mount", "recurse", "wait", "exit">>]
demo_uts_namespaces ==
    [main |-> <<"clone", "uname", "wait", "exit">>, child |-> <<"sethostname", "uname", "exit">>]
demo_userns == [main |-> <<"clone", "wait", "exit">>, child |-> <<"show", "exit">>]
userns_setns_test ==
    [main |-> <<"clone", "try_setns", "wait", "exit">>, child |-> <<"try_setns", "exit">>]
t_setns_userns == [main |-> <<"setns", "exit">>, child |-> <<>>]
ns_exec == [main |-> <<"setns", "exec">>, child |-> <<>>]
ns_run == [main |-> <<"setns", "fork", "wait", "exit">>, child |-> <<"exec">>]
unshare == [main |-> <<"unshare", "fork0", "wait0", "exit">>, child |-> <<"exec">>]
demo_clone ==
    [main |-> <<"clone", "wait", "check", "exit">>,
     child |-> <<"umask", "closefd", "signal", "exit">>]
t_clone == [main |-> <<"clone", "wait", "check", "exit">>, child |-> <<"closefd", "exit">>]

Programs ==
    [userns_child_exec |-> userns_child_exec, ns_child_exec |-> ns_child_exec,
     pidns_init_sleep |-> pidns_init_sleep, multi_pidns |-> multi_pidns,
     demo_uts_namespaces |-> demo_uts_namespaces, demo_userns |-> demo_userns,
     userns_setns_test |-> userns_setns_test, t_setns_userns |-> t_setns_userns,
     ns_exec |-> ns_exec, ns_run |-> ns_run, unshare |-> unshare, demo_clone |-> demo_clone,
     t_clone |-> t_clone]

(* The options of the command line: the flags for clone() and unshare(), -z, the maps given
   with -M and -G, whether that of -M maps the user to root, -D (deny is then FALSE), -f, and
   the namespace to join; and whether the user is privileged, and the kernel has
   /proc/PID/setgroups. *)
NoOptions == [flags |-> {}, zero |-> FALSE, given |-> {}, root |-> FALSE, deny |-> TRUE,
              fork |-> FALSE, join |-> "pid", priv |-> FALSE, setgroups |-> TRUE]
WithFlags(sets) == {[NoOptions EXCEPT !.flags = f] : f \in sets}
Joining == {[NoOptions EXCEPT !.join = k, !.fork = f] : k \in Kinds, f \in BOOLEAN}
Mapping ==
    {[NoOptions EXCEPT !.flags = f, !.zero = z, !.given = g, !.root = r, !.deny = d,
                       !.priv = u = "privileged", !.setgroups = u # "old kernel"] :
        f \in {{}, {"user"}, {"user", "pid"}}, z \in BOOLEAN, g \in SUBSET {"uid", "gid"},
        r \in BOOLEAN, d \in BOOLEAN, u \in {"privileged", "unprivileged", "old kernel"}}
Options ==
    [userns_child_exec |-> {o \in Mapping : o.root => "uid" \in o.given},
     ns_child_exec |-> WithFlags(SUBSET Kinds), pidns_init_sleep |-> WithFlags({{"pid"}}),
     multi_pidns |-> WithFlags({{"pid"}}), demo_uts_namespaces |-> WithFlags({{"uts"}}),
     demo_userns |-> WithFlags({{"user"}}),
     userns_setns_test |-> {[NoOptions EXCEPT !.flags = {"user"}, !.join = "user"]},
     t_setns_userns |-> {[NoOptions EXCEPT !.join = "user"]},
     ns_exec |-> Joining, ns_run |-> Joining,
     unshare |-> {[NoOptions EXCEPT !.flags = f, !.fork = k] : f \in SUBSET Kinds, k \in BOOLEAN},
     demo_clone |-> WithFlags(SUBSET {"files", "fs", "sighand", "vm"}),
     t_clone |-> WithFlags({{}, {"files"}})]

(* The namespaces: the initial ones, others that exist already, the one that unshare() moves
   its caller to, and one for each process that is created in a new one, with its number. *)
Initial == -1
Other == -2
Own == -3
Tables == {"fs", "files", "sighand"}

Init ==
    /\ prog \in DOMAIN Programs /\ opts \in Options[prog]
    /\ pc = [p \in Procs |-> 1] /\ failed = {}
    /\ status = [p \in Procs |-> IF p = 0 THEN "run" ELSE "none"]
    /\ ns = [p \in Procs |-> [k \in Kinds |-> Initial]]
    /\ pidnsForChildren = [p \in Procs |-> Initial] /\ isInit = {} /\ caps = {}
    /\ mounts = {} /\ wr = {} /\ maps = {} /\ denied = FALSE /\ mapErrors = {}
    /\ host = [q \in {Initial, Other, Own} \cup Procs |-> "host"] /\ shown = {}
    /\ table = [p \in Procs |-> [k \in Tables |-> p]]
    /\ attr = [p \in Procs |-> [k \in Tables |-> "start"]]
    /\ kills = 0 /\ killed = {}

At(p, call) ==
    /\ status[p] = "run"
    /\ (IF p = 0 THEN Programs[prog].main ELSE Programs[prog].child)[pc[p]] = call
Advance(p) == pc' = [pc EXCEPT ![p] = @ + 1]

(* External: the end of processes. With the first process of a PID namespace die all that
   are in it or below it; a zombie whose parent is dead is reaped by init. *)
Below(p) == IF p \in isInit THEN {q \in Procs : q > p} ELSE {}
Ended(s, dead) ==
    [q \in Procs |->
        IF s[q] = "none" \/ s[q] = "gone" THEN s[q]
        ELSE IF q \in dead \/ s[q] = "zombie"
             THEN IF q > 0 /\ (q - 1 \in dead \/ s[q - 1] \in {"zombie", "gone"})
                  THEN "gone" ELSE "zombie"
        ELSE s[q]]
End(p) ==
    /\ status' = Ended(status, {p} \cup Below(p))
    /\ wr' = wr \ ({p} \cup Below(p))

(* errExit() of p. *)
Fail(p) == End(p) /\ failed' = failed \cup {p} /\ UNCHANGED pc
Go(p) == Advance(p) /\ UNCHANGED <<status, failed>>

-----------------------------------------------------------------------------
Wanted(id) == opts.zero \/ id \in opts.given
Consistent ==
    /\ (\E id \in {"uid", "gid"} : Wanted(id)) => "user" \in opts.flags
    /\ opts.zero => opts.given = {}

(* The options are consistent, or usage() ends the program. *)
CheckOptions(p) ==
    /\ At(p, "options")
    /\ \/ Consistent /\ Go(p) /\ UNCHANGED wr
       \/ ~Consistent /\ Fail(p)
    /\ UNCHANGED <<prog, opts, nsVars, maps, denied, mapErrors, viewVars, cloneVars, kills, killed>>

MakePipe(p) ==
    /\ At(p, "pipe")
    /\ \/ Go(p) /\ wr' = {p}
       \/ Fail(p)
    /\ UNCHANGED <<prog, opts, nsVars, maps, denied, mapErrors, viewVars, cloneVars, kills, killed>>

(* External: what clone() with flags, or fork(), gives the child c of p. *)
Creates(p, flags) ==
    LET c == Child(p)
        pidns == IF "pid" \in flags THEN c
                 ELSE IF pidnsForChildren[p] = Own THEN c ELSE pidnsForChildren[p]
    IN /\ ns' = [ns EXCEPT ![c] = [k \in Kinds |->
                     IF k = "pid" THEN pidns ELSE IF k \in flags THEN c ELSE ns[p][k]]]
       /\ pidnsForChildren' = [pidnsForChildren EXCEPT ![c] = pidns]
       /\ isInit' = IF pidns = c THEN isInit \cup {c} ELSE isInit
       /\ caps' = IF "user" \in flags \/ p \in caps THEN caps \cup {c} ELSE caps
       /\ wr' = IF p \in wr THEN wr \cup {c} ELSE wr
       /\ table' = [table EXCEPT ![c] = [k \in Tables |-> IF k \in flags THEN table[p][k] ELSE c]]
       /\ attr' = [attr EXCEPT ![c] = attr[p]]
       /\ status' = [status EXCEPT ![c] = "run"]
       /\ UNCHANGED failed

(* clone(); CLONE_SIGHAND is refused without CLONE_VM. *)
Clone(p) ==
    /\ At(p, "clone")
    /\ \/ /\ "sighand" \in opts.flags => "vm" \in opts.flags
          /\ Creates(p, opts.flags) /\ Advance(p)
       \/ Fail(p) /\ UNCHANGED <<nsVars, cloneVars>>
    /\ UNCHANGED <<prog, opts, maps, denied, mapErrors, viewVars, kills, killed>>

Level(p) == Levels - p

(* The recursion of multi_pidns, which ends with an exec(). *)
Recurse(p) ==
    /\ At(p, "recurse")
    /\ \/ Level(p) > 0 /\ Creates(p, {"pid"}) /\ Advance(p)
       \/ /\ Level(p) = 0 /\ status' = [status EXCEPT ![p] = "command"]
          /\ UNCHANGED <<pc, failed, wr, nsVars, cloneVars>>
       \/ Fail(p) /\ UNCHANGED <<nsVars, cloneVars>>
    /\ UNCHANGED <<prog, opts, maps, denied, mapErrors, viewVars, kills, killed>>

(* fork() in ns_run, if -f was given; otherwise the caller executes the command. *)
Fork(p) ==
    /\ At(p, "fork")
    /\ \/ opts.fork /\ Creates(p, {}) /\ Advance(p)
       \/ opts.fork /\ Fail(p) /\ UNCHANGED <<nsVars, cloneVars>>
       \/ /\ ~opts.fork /\ status' = [status EXCEPT ![p] = "command"]
          /\ UNCHANGED <<pc, failed, wr, nsVars, cloneVars>>
       \/ ~opts.fork /\ Fail(p) /\ UNCHANGED <<nsVars, cloneVars>>
    /\ UNCHANGED <<prog, opts, maps, denied, mapErrors, viewVars, kills, killed>>

(* fork() in unshare: the parent also goes on as such when there is no child. *)
ForkUnchecked(p) ==
    /\ At(p, "fork0")
    /\ \/ opts.fork /\ Creates(p, {}) /\ Advance(p)
       \/ opts.fork /\ Go(p) /\ UNCHANGED <<wr, nsVars, cloneVars>>
       \/ /\ ~opts.fork /\ status' = [status EXCEPT ![p] = "command"]
          /\ UNCHANGED <<pc, failed, wr, nsVars, cloneVars>>
       \/ ~opts.fork /\ Fail(p) /\ UNCHANGED <<nsVars, cloneVars>>
    /\ UNCHANGED <<prog, opts, maps, denied, mapErrors, viewVars, kills, killed>>

(* waitpid(), or wait() of unshare, which does not look at the result. *)
Wait(p) ==
    /\ At(p, "wait") \/ At(p, "wait0")
    /\ status[Child(p)] \notin {"run", "command"}
    /\ \/ /\ status[Child(p)] = "zombie" /\ Advance(p)
          /\ status' = [status EXCEPT ![Child(p)] = "gone"] /\ UNCHANGED <<failed, wr>>
       \/ At(p, "wait0") /\ status[Child(p)] = "none" /\ Go(p) /\ UNCHANGED wr
    /\ UNCHANGED <<prog, opts, nsVars, maps, denied, mapErrors, viewVars, cloneVars, kills, killed>>

(* execvp(): a process in a user namespace keeps its capabilities if it is root there. *)
Exec(p) ==
    /\ At(p, "exec")
    /\ \/ /\ status' = [status EXCEPT ![p] = "command"] /\ UNCHANGED <<pc, failed, wr>>
          /\ caps' = IF (opts.zero \/ opts.root) /\ "uid" \in maps THEN caps ELSE caps \ {p}
       \/ Fail(p) /\ UNCHANGED caps
    /\ UNCHANGED <<prog, opts, ns, pidnsForChildren, isInit, maps, denied, mapErrors, viewVars,
                   cloneVars, kills, killed>>

Exit(p) ==
    /\ At(p, "exit") /\ End(p) /\ UNCHANGED <<pc, failed>>
    /\ UNCHANGED <<prog, opts, nsVars, maps, denied, mapErrors, viewVars, cloneVars, kills, killed>>

-----------------------------------------------------------------------------
(* update_map() of userns_child_exec, whose failure is only reported. Without privilege the
   GID map can be written only when setgroups() is denied, if the kernel knows of that. *)
UpdateMap(p, id) ==
    /\ At(p, IF id = "uid" THEN "uid_map" ELSE "gid_map") /\ Go(p)
    /\ \/ ~Wanted(id) /\ UNCHANGED <<maps, mapErrors>>
       \/ /\ Wanted(id) /\ (id = "gid" => opts.priv \/ denied \/ ~opts.setgroups)
          /\ maps' = maps \cup {id} /\ UNCHANGED mapErrors
       \/ Wanted(id) /\ mapErrors' = mapErrors \cup {id} /\ UNCHANGED maps
    /\ UNCHANGED <<prog, opts, nsVars, wr, denied, viewVars, cloneVars, kills, killed>>

(* proc_setgroups_write(), with a GID map and without -D; ENOENT is not reported. *)
DenySetgroups(p) ==
    /\ At(p, "setgroups") /\ Go(p)
    /\ \/ /\ Wanted("gid") /\ opts.deny /\ opts.setgroups
          /\ denied' = TRUE /\ UNCHANGED mapErrors
       \/ /\ Wanted("gid") /\ opts.deny /\ mapErrors' = mapErrors \cup {"setgroups"}
          /\ UNCHANGED denied
       \/ /\ ~Wanted("gid") \/ ~opts.deny \/ ~opts.setgroups
          /\ UNCHANGED <<denied, mapErrors>>
    /\ UNCHANGED <<prog, opts, nsVars, wr, maps, viewVars, cloneVars, kills, killed>>

(* Mutant: the child does not close its write end of the pipe. *)
CloseInParent(p) ==
    /\ At(p, "close") /\ Go(p) /\ wr' = wr \ {0}
    /\ UNCHANGED <<prog, opts, nsVars, maps, denied, mapErrors, viewVars, cloneVars, kills, killed>>

(* The close() of the write end, by the child and, when the maps are written, the parent. *)
ClosePipe(p) ==
    /\ At(p, "close") /\ Go(p) /\ wr' = wr \ {p}
    /\ UNCHANGED <<prog, opts, nsVars, maps, denied, mapErrors, viewVars, cloneVars, kills, killed>>

(* Mutant: the child does not wait for the end of file. *)
ReadAtOnce(p) ==
    /\ At(p, "read") /\ Go(p)
    /\ UNCHANGED <<prog, opts, nsVars, pipeVars, viewVars, cloneVars, kills, killed>>

(* The read() of the child returns at end of file. *)
ReadPipe(p) ==
    /\ At(p, "read") /\ wr = {} /\ Go(p)
    /\ UNCHANGED <<prog, opts, nsVars, pipeVars, viewVars, cloneVars, kills, killed>>

(* mkdir() and mount(): multi_pidns names the mount point after the level. *)
Mount(p) ==
    /\ At(p, "mount")
    /\ \/ Go(p) /\ mounts' = mounts \cup {<<Level(p), ns[p].pid>>} /\ UNCHANGED wr
       \/ Fail(p) /\ UNCHANGED mounts
    /\ UNCHANGED <<prog, opts, nsVars, maps, denied, mapErrors, host, shown, cloneVars, kills, killed>>

SetHostname(p) ==
    /\ At(p, "sethostname")
    /\ \/ Go(p) /\ host' = [host EXCEPT ![ns[p].uts] = "child"] /\ UNCHANGED wr
       \/ Fail(p) /\ UNCHANGED host
    /\ UNCHANGED <<prog, opts, nsVars, maps, denied, mapErrors, mounts, shown, cloneVars, kills, killed>>

(* uname() and the capabilities displayed by demo_userns. *)
Show(p) ==
    /\ At(p, "uname") \/ At(p, "show")
    /\ Go(p)
    /\ shown' = shown \cup {<<p, IF At(p, "uname") THEN host[ns[p].uts]
                                 ELSE IF p \in caps THEN "capable" ELSE "no capabilities">>}
    /\ UNCHANGED <<prog, opts, nsVars, pipeVars, mounts, host, cloneVars, kills, killed>>

-----------------------------------------------------------------------------
(* setns(): a PID namespace is only for the children of the caller. *)
Joins(p, kind, n) ==
    /\ ns' = IF kind = "pid" THEN ns ELSE [ns EXCEPT ![p][kind] = n]
    /\ pidnsForChildren' = IF kind = "pid" THEN [pidnsForChildren EXCEPT ![p] = n]
                            ELSE pidnsForChildren
    /\ caps' = IF kind = "user" THEN caps \cup {p} ELSE caps
    /\ UNCHANGED isInit

Setns(p) ==
    /\ At(p, "setns")
    /\ \/ Joins(p, opts.join, Other) /\ Go(p) /\ UNCHANGED wr
       \/ Fail(p) /\ UNCHANGED nsVars
    /\ UNCHANGED <<prog, opts, maps, denied, mapErrors, viewVars, cloneVars, kills, killed>>

(* test_setns(): External: who is in the parent of a user namespace that the same user made
   may join it; a process in a namespace beside it may not. *)
TrySetns(p) ==
    /\ At(p, "try_setns") /\ Go(p)
    /\ \/ ns[p].user = Initial /\ Joins(p, "user", Other)
       \/ UNCHANGED nsVars
    /\ UNCHANGED <<prog, opts, pipeVars, viewVars, cloneVars, kills, killed>>

(* unshare() moves its caller, but for a PID namespace only the children. *)
Unshare(p) ==
    /\ At(p, "unshare")
    /\ \/ /\ Go(p) /\ UNCHANGED <<wr, isInit>>
          /\ ns' = [ns EXCEPT ![p] = [k \in Kinds |-> IF k \in opts.flags \ {"pid"} THEN Own
                                                      ELSE @[k]]]
          /\ pidnsForChildren' = IF "pid" \in opts.flags THEN [pidnsForChildren EXCEPT ![p] = Own]
                                  ELSE pidnsForChildren
          /\ caps' = IF "user" \in opts.flags THEN caps \cup {p} ELSE caps
       \/ Fail(p) /\ UNCHANGED nsVars
    /\ UNCHANGED <<prog, opts, maps, denied, mapErrors, viewVars, cloneVars, kills, killed>>

(* umask(), close() and signal() of the child of demo_clone and t_clone. *)
Modify(p, call, kind) ==
    /\ At(p, call) /\ Go(p) /\ attr' = [attr EXCEPT ![table[p][kind]][kind] = "changed"]
    /\ UNCHANGED <<prog, opts, nsVars, pipeVars, viewVars, table, kills, killed>>

(* The parent looks at its own attributes when the child has ended. *)
Check(p) ==
    /\ At(p, "check") /\ Go(p)
    /\ shown' = {<<p, k>> : k \in {t \in Tables : attr[table[p][t]][t] = "changed"}}
    /\ UNCHANGED <<prog, opts, nsVars, pipeVars, mounts, host, cloneVars, kills, killed>>

-----------------------------------------------------------------------------
Step(p) ==
    \/ CheckOptions(p) \/ MakePipe(p) \/ Clone(p) \/ Recurse(p) \/ Fork(p) \/ ForkUnchecked(p)
    \/ Wait(p) \/ Exec(p) \/ Exit(p) \/ UpdateMap(p, "uid") \/ UpdateMap(p, "gid")
    \/ DenySetgroups(p) \/ ClosePipe(p) \/ ReadPipe(p) \/ Mount(p) \/ SetHostname(p) \/ Show(p)
    \/ Setns(p) \/ TrySetns(p) \/ Unshare(p) \/ Check(p)
    \/ Modify(p, "umask", "fs") \/ Modify(p, "closefd", "files") \/ Modify(p, "signal", "sighand")

(* External: a command ends; a process is killed. *)
CommandEnds(p) ==
    /\ status[p] = "command" /\ End(p)
    /\ UNCHANGED <<prog, opts, pc, failed, nsVars, maps, denied, mapErrors, viewVars, cloneVars,
                   kills, killed>>
Kill(p) ==
    /\ status[p] \in {"run", "command"} /\ kills < MaxKills /\ End(p)
    /\ kills' = kills + 1 /\ killed' = killed \cup {p}
    /\ UNCHANGED <<prog, opts, pc, failed, nsVars, maps, denied, mapErrors, viewVars, cloneVars>>

Next == \E p \in Procs : Step(p) \/ CommandEnds(p) \/ Kill(p)

Spec == Init /\ [][Next]_vars
Scheduled(p) == Step(p) \/ CommandEnds(p)
Fairness == \A p \in Procs : WF_vars(Scheduled(p))

-----------------------------------------------------------------------------
TypeOK ==
    /\ status \in [Procs -> {"none", "run", "command", "zombie", "gone"}]
    /\ wr \subseteq Procs /\ maps \subseteq {"uid", "gid"} /\ caps \subseteq Procs
    /\ \A p \in Procs, k \in Kinds : ns[p][k] \in {Initial, Other, Own} \cup Procs

Running(p) == status[p] = "command"

(* The command of userns_child_exec starts when the maps asked for have been written, or
   update_map() has reported that one could not be, or the parent was killed; with a UID map
   to root it then has its capabilities. With -D and without privilege a kernel that has
   /proc/PID/setgroups never takes the GID map. *)
MapsBeforeExec ==
    prog = "userns_child_exec" /\ Running(1) =>
        /\ {id \in {"uid", "gid"} : Wanted(id)} \subseteq maps \cup mapErrors \/ 0 \in killed
        /\ Wanted("uid") /\ (opts.zero \/ opts.root) /\ "uid" \notin mapErrors
              /\ 0 \notin killed => 1 \in caps
        /\ ~opts.deny /\ ~opts.priv /\ opts.setgroups => "gid" \notin maps

(* A command runs in a new namespace for each flag and in the initial one for the others. A
   PID namespace made by unshare or joined by ns_exec or ns_run is that of the command only
   if it is executed in a child. *)
CommandPlaced ==
    \A p \in Procs, k \in Kinds : Running(p) =>
        ns[p][k] =
            CASE prog \in {"ns_exec", "ns_run"} ->
                     IF k = opts.join /\ (k = "pid" => prog = "ns_run" /\ opts.fork) THEN Other
                     ELSE Initial
              [] prog = "unshare" ->
                     IF k \notin opts.flags THEN Initial
                     ELSE IF k # "pid" THEN Own ELSE IF opts.fork THEN p ELSE Initial
              [] OTHER -> IF k \in opts.flags THEN p ELSE Initial

(* The mount point for a level of multi_pidns shows the namespace of that level, and when
   the last process runs there is one for each level but the first process's. *)
MountsRight ==
    prog = "multi_pidns" =>
        /\ \A m \in mounts : m[2] = Levels - m[1]
        /\ Running(Levels) => {m[1] : m \in mounts} = 0..(Levels - 1)

(* The host name that the child of demo_uts_namespaces sets is not its parent's. The child
   of demo_userns has capabilities; that of userns_setns_test cannot join a namespace
   beside its own. *)
NamespacesApart ==
    /\ host[Initial] = "host" /\ <<0, "child">> \notin shown
    /\ <<1, "no capabilities">> \notin shown
    /\ ns[1].user # Other \/ prog \in {"ns_run"}

(* demo_clone and t_clone report as changed exactly what the flags share with the child. *)
SharedExactly ==
    prog \in {"demo_clone", "t_clone"} /\ status[0] = "zombie"
        /\ {0, 1} \cap (failed \cup killed) = {} =>
            shown = {<<0, k>> : k \in opts.flags \cap Tables}

(* What the programs do to their namespaces is what they were asked to do. *)
NamespacesSafe ==
    /\ TypeOK /\ MapsBeforeExec /\ CommandPlaced /\ MountsRight /\ NamespacesApart /\ SharedExactly

(* In the end the programs have ended, as their commands have, and the child of
   userns_child_exec does not wait: neither process keeps the other waiting for the end of
   file. *)
ChildrenWaitedFor ==
    status[0] = "zombie" /\ \A p \in Procs : status[p] # "run" /\ (status[p] # "zombie" \/ p = 0)
=============================================================================
