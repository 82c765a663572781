------------------------------ MODULE IpcTools ------------------------------
(***************************************************************************)
(* The command-line tools on POSIX and System V IPC objects (psem/, pmsg/, *)
(* pshm/, svsem/, svmsg/, svshm/), with svsem/event_flags.c and            *)
(* svipc/svmsg_demo_server.c. Shells run scripts of commands at the same   *)
(* time; one action per program. A command is a tuple of the program's     *)
(* name and its arguments, already parsed where getopt() and getInt() do   *)
(* it. All objects of a kind have the same name or key; System V           *)
(* identifiers are the numbers of the objects and are not reused.          *)
(***************************************************************************)
EXTENDS Integers, Sequences, SequencesExt, FiniteSets

CONSTANTS
    Workloads,      \* a sequence of workloads; a workload is a sequence of scripts
    SEM_VALUE_MAX,  \* largest value of a POSIX semaphore
    PageSize        \* bytes of a POSIX shared memory object, at most

VARIABLES
    scripts,        \* the workload: per shell, its commands
    at,             \* per shell: where its command is ("end": no command is left)
    ref,            \* per shell: the object that its command has opened (0: none)
    loc,            \* per shell: a local variable of its command
    res,            \* per shell: the results of its commands
    objs            \* every object ever created

ipcVars == <<scripts, at, ref, loc, res, objs>>

Init ==
    /\ \E w \in DOMAIN Workloads : scripts = Workloads[w]
    /\ at = [p \in DOMAIN scripts |-> "start"]
    /\ ref = [p \in DOMAIN scripts |-> 0]
    /\ loc = [p \in DOMAIN scripts |-> 0]
    /\ res = [p \in DOMAIN scripts |-> << >>]
    /\ objs = << >>

Shells == DOMAIN scripts
Cmd(p) == scripts[p][Len(res[p]) + 1]
Runs(p, prog, l) == at[p] = l /\ Cmd(p)[1] = prog
Obj(p) == objs[ref[p]]

(* The command of p goes on at l, with the object r and the local v. *)
Goes(p, l, r, v, os) ==
    /\ at' = [at EXCEPT ![p] = l] /\ ref' = [ref EXCEPT ![p] = r] /\ loc' = [loc EXCEPT ![p] = v]
    /\ objs' = os /\ UNCHANGED <<scripts, res>>

(* The command of p ends: with EXIT_SUCCESS or not, after it has printed x. *)
Ends(p, ok, x, os) ==
    /\ res' = [res EXCEPT ![p] = Append(@, [ok |-> ok, ref |-> ref[p], printed |-> x])]
    /\ at' = [at EXCEPT ![p] = IF Len(res[p]) + 1 = Len(scripts[p]) THEN "end" ELSE "start"]
    /\ ref' = [ref EXCEPT ![p] = 0] /\ loc' = [loc EXCEPT ![p] = 0]
    /\ objs' = os /\ UNCHANGED scripts

errExit(p) == Ends(p, FALSE, << >>, objs)
Changes(p, o) == [objs EXCEPT ![ref[p]] = o]
Succeeds(p, o, x) == Ends(p, TRUE, x, Changes(p, o))

-----------------------------------------------------------------------------
(* The kernel: names, identifiers and their removal *)

Linked(kind) == {o \in DOMAIN objs : objs[o].kind = kind /\ objs[o].linked /\ objs[o].named}
Exists(id) == id \in DOMAIN objs /\ objs[id].linked

(* sem_open(), mq_open(), shm_open(), and the get calls of System V: an object of that
   name, unless O_CREAT and O_EXCL say that it must be new, or it is too small; or, with
   O_CREAT, a new one. *)
Creates(p, c, x, new, l) ==
    LET found == Linked(new.kind) IN
    CASE found # {} /\ ~(c /\ x) /\ \A o \in found : new.n <= objs[o].n ->
            Goes(p, l, CHOOSE o \in found : TRUE, 0, objs)
      [] found = {} /\ c -> Goes(p, l, Len(objs) + 1, 0, Append(objs, new))
      [] OTHER -> errExit(p)

(* Without O_CREAT: by name, and by System V identifier. *)
Opens(p, prog, kind) ==
    /\ Runs(p, prog, "start")
    /\ IF Linked(kind) = {} THEN errExit(p)
       ELSE Goes(p, "opened", CHOOSE o \in Linked(kind) : TRUE, 0, objs)

Gets(p, prog) ==
    /\ Runs(p, prog, "start")
    /\ IF Exists(Cmd(p)[2]) THEN Goes(p, "opened", Cmd(p)[2], 0, objs) ELSE errExit(p)

(* sem_unlink(), mq_unlink(), shm_unlink(): those who have it open keep the object. *)
Unlinks(p, prog, kind) ==
    /\ Runs(p, prog, "start")
    /\ IF Linked(kind) = {} THEN errExit(p)
       ELSE Ends(p, TRUE, << >>, [o \in DOMAIN objs |->
                    IF o \in Linked(kind) THEN [objs[o] EXCEPT !.linked = FALSE] ELSE objs[o]])

(* A command that has done its work exits. *)
Created(p, prog, x) == Runs(p, prog, "created") /\ Succeeds(p, Obj(p), x)

-----------------------------------------------------------------------------
(* psem/ *)

Sem(value) == [kind |-> "sem", linked |-> TRUE, named |-> TRUE, n |-> 0, init |-> value, val |-> value]

psem_create(p) ==
    \/ /\ Runs(p, "psem_create", "start")
       /\ LET c == Cmd(p) IN Creates(p, c[2], c[3], Sem(c[4]), "created")
    \/ Created(p, "psem_create", << >>)

psem_post(p) ==
    \/ Opens(p, "psem_post", "sem")
    \/ /\ Runs(p, "psem_post", "opened")
       /\ IF Obj(p).val = SEM_VALUE_MAX THEN errExit(p)
          ELSE Succeeds(p, [Obj(p) EXCEPT !.val = @ + 1], << >>)

Decrements(p, prog) ==
    Runs(p, prog, "opened") /\ Obj(p).val > 0 /\ Succeeds(p, [Obj(p) EXCEPT !.val = @ - 1], << >>)

psem_wait(p) == Opens(p, "psem_wait", "sem") \/ Decrements(p, "psem_wait")

(* Mutant: the result of sem_trywait() is not tested. *)
psem_trywait_unchecked(p) ==
    \/ Opens(p, "psem_trywait", "sem") \/ Decrements(p, "psem_trywait")
    \/ Runs(p, "psem_trywait", "opened") /\ Obj(p).val = 0 /\ Succeeds(p, Obj(p), << >>)

psem_trywait(p) ==
    \/ Opens(p, "psem_trywait", "sem") \/ Decrements(p, "psem_trywait")
    \/ Runs(p, "psem_trywait", "opened") /\ Obj(p).val = 0 /\ errExit(p)

(* The time may run out whenever the semaphore is 0. *)
psem_timedwait(p) ==
    \/ Opens(p, "psem_timedwait", "sem") \/ Decrements(p, "psem_timedwait")
    \/ Runs(p, "psem_timedwait", "opened") /\ Obj(p).val = 0 /\ errExit(p)

psem_getvalue(p) ==
    \/ Opens(p, "psem_getvalue", "sem")
    \/ Runs(p, "psem_getvalue", "opened") /\ Succeeds(p, Obj(p), <<Obj(p).val>>)

psem_unlink(p) == Unlinks(p, "psem_unlink", "sem")

-----------------------------------------------------------------------------
(* pmsg/. A message is <<priority, body>>. *)

Mq(max, size) == [kind |-> "mq", linked |-> TRUE, named |-> TRUE, n |-> 0,
                  max |-> max, msgsize |-> size, msgs |-> << >>]

pmsg_create(p) ==
    \/ /\ Runs(p, "pmsg_create", "start")
       /\ LET c == Cmd(p) IN Creates(p, c[2], c[3], Mq(c[4], c[5]), "created")
    \/ Created(p, "pmsg_create", << >>)

(* Behind the messages of the same or a higher priority. *)
Queued(q, m) ==
    LET k == Cardinality({n \in DOMAIN q : q[n][1] >= m[1]}) IN InsertAt(q, k + 1, m)

pmsg_send(p) ==
    LET c == Cmd(p) o == Obj(p) m == <<c[4], c[3]>> IN
    \/ Opens(p, "pmsg_send", "mq")
    \/ /\ Runs(p, "pmsg_send", "opened")
       /\ \/ Len(m[2]) > o.msgsize /\ errExit(p)
          \/ /\ Len(m[2]) <= o.msgsize /\ Len(o.msgs) < o.max
             /\ Succeeds(p, [o EXCEPT !.msgs = Queued(@, m)], << >>)
          \/ Len(m[2]) <= o.msgsize /\ Len(o.msgs) = o.max /\ c[2] /\ errExit(p)

pmsg_receive(p) ==
    \/ Opens(p, "pmsg_receive", "mq")
    \/ /\ Runs(p, "pmsg_receive", "opened") /\ Obj(p).msgs # << >>
       /\ Succeeds(p, [Obj(p) EXCEPT !.msgs = Tail(@)], Head(Obj(p).msgs))
    \/ Runs(p, "pmsg_receive", "opened") /\ Obj(p).msgs = << >> /\ Cmd(p)[2] /\ errExit(p)

pmsg_getattr(p) ==
    \/ Opens(p, "pmsg_getattr", "mq")
    \/ /\ Runs(p, "pmsg_getattr", "opened")
       /\ Succeeds(p, Obj(p), <<Obj(p).max, Obj(p).msgsize, Len(Obj(p).msgs)>>)

pmsg_unlink(p) == Unlinks(p, "pmsg_unlink", "mq")
-----------------------------------------------------------------------------
(* pshm/. An object has a size and a page of memory, of which the bytes behind the size
   are lost when it shrinks. *)

Zeros == [i \in 1..PageSize |-> 0]
Shm == [kind |-> "shm", linked |-> TRUE, named |-> TRUE, n |-> 0, size |-> 0, page |-> Zeros]
Truncated(o, size) == [o EXCEPT !.size = size, !.page = [i \in 1..PageSize |-> IF i <= size THEN @[i] ELSE 0]]

(* ftruncate() and mmap(), which does not map nothing. *)
Resizes(p, prog, size) ==
    \/ Runs(p, prog, "opened") /\ Goes(p, "sized", ref[p], 0, Changes(p, Truncated(Obj(p), size)))
    \/ /\ Runs(p, prog, "sized")
       /\ IF size = 0 THEN errExit(p) ELSE Goes(p, "mapped", ref[p], 0, objs)

pshm_create(p) ==
    \/ /\ Runs(p, "pshm_create", "start") /\ Creates(p, Cmd(p)[2], Cmd(p)[3], Shm, "opened")
    \/ Resizes(p, "pshm_create", Cmd(p)[4])
    \/ Runs(p, "pshm_create", "mapped") /\ Succeeds(p, Obj(p), << >>)

(* memcpy() byte by byte; SIGBUS if the object has been truncated to nothing. *)
pshm_write(p) ==
    LET string == Cmd(p)[2] j == loc[p] + 1 IN
    \/ Opens(p, "pshm_write", "shm") \/ Resizes(p, "pshm_write", Len(string))
    \/ /\ Runs(p, "pshm_write", "mapped")
       /\ \/ Obj(p).size = 0 /\ errExit(p)
          \/ /\ Obj(p).size > 0 /\ j <= Len(string)
             /\ Goes(p, "mapped", ref[p], j, Changes(p, [Obj(p) EXCEPT !.page[j] = string[j]]))
          \/ j > Len(string) /\ Succeeds(p, Obj(p), << >>)

(* fstat(); mmap(); and write() of st_size bytes, which fails without being noticed if
   the object has been truncated to nothing. *)
pshm_read(p) ==
    \/ Opens(p, "pshm_read", "shm")
    \/ /\ Runs(p, "pshm_read", "opened")
       /\ IF Obj(p).size = 0 THEN errExit(p) ELSE Goes(p, "mapped", ref[p], Obj(p).size, objs)
    \/ /\ Runs(p, "pshm_read", "mapped")
       /\ Succeeds(p, Obj(p), IF Obj(p).size = 0 THEN << >> ELSE SubSeq(Obj(p).page, 1, loc[p]))

pshm_unlink(p) == Unlinks(p, "pshm_unlink", "shm")

-----------------------------------------------------------------------------
(* svsem/. The second argument of a command is an identifier. A set of semaphores has, for
   every process, what SEM_UNDO adds to the values when that process ends. *)

NoAdj(n) == [p \in Shells |-> [s \in 1..n |-> 0]]
SemSet(n) == [kind |-> "svsem", linked |-> TRUE, named |-> TRUE, n |-> n,
              vals |-> [s \in 1..n |-> 0], semadj |-> NoAdj(n)]

svsem_create(p) ==
    \/ /\ Runs(p, "svsem_create", "start")
       /\ Creates(p, Cmd(p)[2], Cmd(p)[3], SemSet(Cmd(p)[4]), "created")
    \/ Created(p, "svsem_create", <<ref[p]>>)

(* sem_op is a short. *)
Short(v) == ((v + 32768) % 65536) - 32768

(* An operation is written <<semaphore, sign, digits, n, u>>. "=" needs a 0. *)
BadOps(arg) == \E k \in DOMAIN arg : arg[k][2] = "=" /\ Short(arg[k][3]) # 0
parseOps(arg) ==
    [k \in DOMAIN arg |->
        [num |-> arg[k][1], nowait |-> arg[k][4], undo |-> arg[k][5],
         op |-> IF arg[k][2] = "-" THEN Short(-Short(arg[k][3])) ELSE Short(arg[k][3])]]

(* semop(): all operations in order, or none. "wait" or "nowait" tells what the first
   operation that cannot be performed asks for. *)
Performed(vals, adj, ops) ==
    FoldLeft(LAMBDA acc, x :
                 IF acc.st # "ok" THEN acc
                 ELSE IF x.num \notin DOMAIN vals THEN [acc EXCEPT !.st = "EFBIG"]
                 ELSE IF (x.op = 0 /\ acc.vals[x.num] # 0) \/ acc.vals[x.num] + x.op < 0
                 THEN [acc EXCEPT !.st = IF x.nowait THEN "nowait" ELSE "wait"]
                 ELSE [acc EXCEPT !.vals[x.num] = @ + x.op,
                                  !.adj[x.num] = IF x.undo THEN @ - x.op ELSE @],
             [st |-> "ok", vals |-> vals, adj |-> adj], ops)

(* The end of a process that has operations to undo; a value does not get negative. *)
Undone(o, p) ==
    [o EXCEPT !.semadj[p] = [s \in DOMAIN o.vals |-> 0],
              !.vals = [s \in DOMAIN o.vals |->
                           IF o.vals[s] + o.semadj[p][s] < 0 THEN 0 ELSE o.vals[s] + o.semadj[p][s]]]

(* One semop() per argument; what it prints last is the number of those completed. *)
svsem_op(p) ==
    LET args == Cmd(p)[3] o == Obj(p) IN
    \/ Gets(p, "svsem_op")
    \/ /\ Runs(p, "svsem_op", "opened") /\ loc[p] < Len(args)
       /\ LET arg == args[loc[p] + 1] r == Performed(o.vals, o.semadj[p], parseOps(arg)) IN
          \/ /\ BadOps(arg) \/ ~o.linked \/ r.st \in {"nowait", "EFBIG"}
             /\ Ends(p, FALSE, <<loc[p]>>, Changes(p, Undone(o, p)))
          \/ /\ ~BadOps(arg) /\ o.linked /\ r.st = "ok"
             /\ Goes(p, "opened", ref[p], loc[p] + 1,
                     Changes(p, [o EXCEPT !.vals = r.vals, !.semadj[p] = r.adj]))
    \/ /\ Runs(p, "svsem_op", "opened") /\ loc[p] = Len(args)
       /\ Succeeds(p, Undone(o, p), <<loc[p]>>)

(* IPC_STAT, a check of the number of values, and SETALL, which forgets what is to be
   undone. *)
svsem_setall(p) ==
    \/ Gets(p, "svsem_setall")
    \/ /\ Runs(p, "svsem_setall", "opened")
       /\ IF ~Obj(p).linked \/ Len(Cmd(p)[3]) # Obj(p).n THEN errExit(p)
          ELSE Succeeds(p, [Obj(p) EXCEPT !.vals = Cmd(p)[3], !.semadj = NoAdj(Obj(p).n)], << >>)

(* A segment is destroyed when it has neither a name nor an attachment, ... *)
Reaped(o) == [o EXCEPT !.linked = o.named \/ o.att # {}]

(* ... a queue and a set at once. *)
Unlinked(o) == [o EXCEPT !.linked = FALSE]

(* IPC_RMID for each of the arguments, until one fails. *)
Removes(p, prog) ==
    LET ids == Cmd(p)[2] IN
    /\ Runs(p, prog, "start")
    /\ IF loc[p] = Len(ids) THEN Ends(p, TRUE, << >>, objs)
       ELSE LET id == ids[loc[p] + 1] IN
            IF ~Exists(id) THEN errExit(p)
            ELSE Goes(p, "start", 0, loc[p] + 1,
                      [objs EXCEPT ![id] = IF @.kind = "svshm" THEN Reaped([@ EXCEPT !.named = FALSE])
                                           ELSE Unlinked(@)])

svsem_rm(p) == Removes(p, "svsem_rm")

(* event_flags.c: a flag is set when its semaphore is 0. SETVAL forgets what is to be
   undone; waiting goes on after EINTR. *)
SetsVal(p, prog, v) ==
    \/ Gets(p, prog)
    \/ /\ Runs(p, prog, "opened")
       /\ IF ~Obj(p).linked THEN errExit(p)
          ELSE Succeeds(p, [Obj(p) EXCEPT !.vals[Cmd(p)[3]] = v,
                                          !.semadj = [q \in Shells |-> [@[q] EXCEPT ![Cmd(p)[3]] = 0]]], << >>)

waitForEventFlag(p) ==
    \/ Gets(p, "waitForEventFlag")
    \/ Runs(p, "waitForEventFlag", "opened") /\ ~Obj(p).linked /\ errExit(p)
    \/ /\ Runs(p, "waitForEventFlag", "opened") /\ Obj(p).linked /\ Obj(p).vals[Cmd(p)[3]] = 0
       /\ Succeeds(p, Obj(p), << >>)

clearEventFlag(p) == SetsVal(p, "clearEventFlag", 1)
setEventFlag(p) == SetsVal(p, "setEventFlag", 0)

getFlagState(p) ==
    \/ Gets(p, "getFlagState")
    \/ /\ Runs(p, "getFlagState", "opened")
       /\ IF ~Obj(p).linked THEN errExit(p)
          ELSE Succeeds(p, Obj(p), <<Obj(p).vals[Cmd(p)[3]] = 0>>)

-----------------------------------------------------------------------------
(* svmsg/. A message is <<type, body>>. *)

Msq(qbytes) == [kind |-> "svmsg", linked |-> TRUE, named |-> TRUE, n |-> 0,
                qbytes |-> qbytes, msgs |-> << >>]
MSGMNB == 4

svmsg_create(p) ==
    \/ /\ Runs(p, "svmsg_create", "start")
       /\ Creates(p, Cmd(p)[2], Cmd(p)[3], Msq(MSGMNB), "created")
    \/ Created(p, "svmsg_create", <<ref[p]>>)

(* Room for the bytes of one more message, and for the message itself. *)
HasRoom(o, body) ==
    LET bytes == FoldLeft(LAMBDA sum, m : sum + Len(m[2]), Len(body), o.msgs)
    IN  bytes <= o.qbytes /\ Len(o.msgs) < o.qbytes

(* The message text, if there is one, is sent with its terminating null byte. *)
svmsg_send(p) ==
    LET c == Cmd(p) o == Obj(p) type == c[4] body == IF c[5] = << >> THEN << >> ELSE Append(c[5], 0) IN
    \/ Gets(p, "svmsg_send")
    \/ /\ Runs(p, "svmsg_send", "opened")
       /\ \/ (~o.linked \/ type < 1 \/ (c[3] /\ ~HasRoom(o, body))) /\ errExit(p)
          \/ /\ o.linked /\ type >= 1 /\ HasRoom(o, body)
             /\ Succeeds(p, [o EXCEPT !.msgs = Append(@, <<type, body>>)], << >>)

(* The messages that msgrcv() may take: any; of the type; of another type; or of the
   lowest type that is at most -type. It takes the first of them. *)
Matching(msgs, type, except) ==
    LET of(T) == {n \in DOMAIN msgs : msgs[n][1] \in T}
        low == {msgs[n][1] : n \in of(1..(-type))}
    IN  CASE type = 0 -> DOMAIN msgs
          [] type > 0 /\ ~except -> of({type})
          [] type > 0 /\ except -> DOMAIN msgs \ of({type})
          [] type < 0 -> of({t \in low : \A u \in low : t <= u})

(* What printf("%s") prints behind a body that was cut before its null byte: whatever the
   buffer, which is not initialized, happens to hold. *)
Behind(body) == IF body = << >> \/ 0 \in Range(body) THEN {<< >>} ELSE {<< >>, <<"junk">>}

(* Arguments: identifier, -e, -n, -x, type, max-bytes. *)
svmsg_receive(p) ==
    LET c == Cmd(p) o == Obj(p) found == Matching(o.msgs, c[6], c[5])
        first == CHOOSE n \in found : \A m \in found : n <= m
        m == o.msgs[first]
        body == SubSeq(m[2], 1, Min({c[7], Len(m[2])}))
    IN  \/ Gets(p, "svmsg_receive")
        \/ /\ Runs(p, "svmsg_receive", "opened")
           /\ \/ (~o.linked \/ (found = {} /\ c[4])) /\ errExit(p)
              \/ /\ o.linked /\ found # {}
                 /\ IF Len(m[2]) > c[7] /\ ~c[3] THEN errExit(p)
                    ELSE \E junk \in Behind(body) :
                            Succeeds(p, [o EXCEPT !.msgs = RemoveAt(@, first)], <<m[1], body, junk>>)

(* IPC_STAT and IPC_SET. *)
svmsg_chqbytes(p) ==
    \/ Gets(p, "svmsg_chqbytes")
    \/ /\ Runs(p, "svmsg_chqbytes", "opened")
       /\ IF ~Obj(p).linked THEN errExit(p)
          ELSE Succeeds(p, [Obj(p) EXCEPT !.qbytes = Cmd(p)[3]], << >>)

svmsg_rm(p) == Removes(p, "svmsg_rm")

(* svipc/svmsg_demo_server.c removes the queue of that key until it can create one. *)
svmsg_demo_server(p) ==
    LET prog == "svmsg_demo_server" found == Linked("svmsg") IN
    \/ /\ Runs(p, prog, "start")
       /\ IF found = {} THEN Goes(p, "created", Len(objs) + 1, 0, Append(objs, Msq(MSGMNB)))
          ELSE Goes(p, "exists", 0, 0, objs)
    \/ /\ Runs(p, prog, "exists")
       /\ IF found = {} THEN errExit(p) ELSE Goes(p, "removing", CHOOSE o \in found : TRUE, 0, objs)
    \/ /\ Runs(p, prog, "removing")
       /\ IF Obj(p).linked THEN Goes(p, "start", 0, 0, Changes(p, Unlinked(Obj(p)))) ELSE errExit(p)
    \/ Created(p, prog, << >>)

-----------------------------------------------------------------------------
(* svshm/. A segment knows who has attached it, and is destroyed after IPC_RMID when
   nobody has. *)

Segment(n) == [kind |-> "svshm", linked |-> TRUE, named |-> TRUE, n |-> n, att |-> {}]

svshm_create(p) ==
    \/ /\ Runs(p, "svshm_create", "start")
       /\ Creates(p, Cmd(p)[2], Cmd(p)[3], Segment(Cmd(p)[4]), "created")
    \/ Created(p, "svshm_create", <<ref[p]>>)

(* At exit, or errExit(), all segments are detached. *)
Detached(p) ==
    [o \in DOMAIN objs |->
        IF objs[o].kind = "svshm" THEN Reaped([objs[o] EXCEPT !.att = {a \in @ : a[1] # p}]) ELSE objs[o]]

svshm_attach(p) ==
    LET ids == Cmd(p)[2] j == loc[p] + 1 IN
    /\ Runs(p, "svshm_attach", "start")
    /\ IF j > Len(ids) THEN Ends(p, TRUE, << >>, Detached(p))
       ELSE IF ~Exists(ids[j]) THEN Ends(p, FALSE, << >>, Detached(p))
       ELSE Goes(p, "start", 0, j, [objs EXCEPT ![ids[j]].att = @ \cup {<<p, j>>}])

svshm_rm(p) == Removes(p, "svshm_rm")

-----------------------------------------------------------------------------
Tool(p) ==
    /\ at[p] # "end"
    /\ \/ psem_create(p) \/ psem_post(p) \/ psem_wait(p) \/ psem_trywait(p) \/ psem_timedwait(p)
       \/ psem_getvalue(p) \/ psem_unlink(p)
       \/ pmsg_create(p) \/ pmsg_send(p) \/ pmsg_receive(p) \/ pmsg_getattr(p) \/ pmsg_unlink(p)
       \/ pshm_create(p) \/ pshm_write(p) \/ pshm_read(p) \/ pshm_unlink(p)
       \/ svsem_create(p) \/ svsem_op(p) \/ svsem_setall(p) \/ svsem_rm(p)
       \/ waitForEventFlag(p) \/ clearEventFlag(p) \/ setEventFlag(p) \/ getFlagState(p)
       \/ svmsg_create(p) \/ svmsg_send(p) \/ svmsg_receive(p) \/ svmsg_chqbytes(p) \/ svmsg_rm(p)
       \/ svmsg_demo_server(p)
       \/ svshm_create(p) \/ svshm_attach(p) \/ svshm_rm(p)

Next == \E p \in Shells : Tool(p)

Spec == Init /\ [][Next]_ipcVars /\ WF_ipcVars(Next)
-----------------------------------------------------------------------------
TypeOK ==
    /\ \A p \in Shells :
          /\ at[p] \in {"start", "created", "opened", "sized", "mapped", "exists", "removing", "end"}
          /\ ref[p] \in 0..Len(objs) /\ Len(res[p]) <= Len(scripts[p])
    /\ \A o \in DOMAIN objs :
          CASE objs[o].kind = "sem" -> objs[o].val \in 0..SEM_VALUE_MAX
            [] objs[o].kind = "mq" -> Len(objs[o].msgs) <= objs[o].max
            [] objs[o].kind = "shm" -> objs[o].size \in 0..PageSize
            [] objs[o].kind = "svsem" -> \A s \in 1..objs[o].n : objs[o].vals[s] >= 0
            [] OTHER -> TRUE
    /\ \A o, q \in DOMAIN objs :
          objs[o].kind = objs[q].kind /\ {o, q} \subseteq Linked(objs[o].kind) => o = q

Commands == UNION {{<<p, n>> : n \in DOMAIN res[p]} : p \in Shells}
C(x) == scripts[x[1]][x[2]]
R(x) == res[x[1]][x[2]]

(* The commands of these programs that have succeeded with object o. *)
Did(o, progs) == {x \in Commands : R(x).ok /\ R(x).ref = o /\ C(x)[1] \in progs}

(* No unit of a POSIX semaphore is lost or made up: its value is its first value and what
   psem_post has added, without what the three kinds of waiting have taken; also if the
   name is unlinked and used again meanwhile. *)
SemaphoreConserved ==
    \A o \in DOMAIN objs : objs[o].kind = "sem" =>
        objs[o].val + Cardinality(Did(o, {"psem_wait", "psem_trywait", "psem_timedwait"}))
            = objs[o].init + Cardinality(Did(o, {"psem_post"}))

Creators == {"psem_create", "pmsg_create", "pshm_create", "svsem_create", "svmsg_create", "svshm_create"}
Exclusive(x) == C(x)[1] = "svmsg_demo_server" \/ (C(x)[1] \in Creators /\ C(x)[2] /\ C(x)[3])

(* Of several that create with O_EXCL, or IPC_EXCL, each one that succeeds has an object
   of its own. *)
OneCreator ==
    \A x, y \in {z \in Commands : R(z).ok /\ Exclusive(z)} : R(x).ref = R(y).ref => x = y

(* What was sent to a queue has been received once or is still in the queue: no message is
   lost, doubled or changed, though svmsg_receive -e may cut its end off, and only then
   prints bytes that nobody has sent. *)
MessagesExact ==
    \A o \in DOMAIN objs : objs[o].kind \in {"mq", "svmsg"} =>
        LET sent == {IF C(x)[1] = "pmsg_send" THEN <<C(x)[4], C(x)[3]>>
                     ELSE <<C(x)[4], IF C(x)[5] = << >> THEN << >> ELSE Append(C(x)[5], 0)>>
                        : x \in Did(o, {"pmsg_send", "svmsg_send"})}
            receipts == {R(x).printed : x \in Did(o, {"pmsg_receive", "svmsg_receive"})}
            received == {SubSeq(r, 1, 2) : r \in receipts}
        IN  /\ Cardinality(sent) = Cardinality(received) + Len(objs[o].msgs)
            /\ \A n \in DOMAIN objs[o].msgs : objs[o].msgs[n] \in sent \ received
            /\ \A m \in received : \E s \in sent : s[1] = m[1] /\ IsPrefix(m[2], s[2])
            /\ \A r \in receipts : Len(r) = 3 /\ r[3] # << >> => SubSeq(r, 1, 2) \notin sent

(* What a reader of shared memory prints has been written there or is 0; and pshm_read
   after pshm_write prints the string, if nobody else writes or resizes. *)
ReadBack ==
    \A x \in Commands : C(x)[1] = "pshm_read" /\ R(x).ok =>
        /\ \A i \in DOMAIN R(x).printed : R(x).printed[i] # 0 =>
              \E p \in Shells : \E n \in DOMAIN scripts[p] :
                 scripts[p][n][1] = "pshm_write" /\ i \in DOMAIN scripts[p][n][2]
                 /\ scripts[p][n][2][i] = R(x).printed[i]
        /\ LET y == <<x[1], x[2] - 1>> IN
           /\ y \in Commands /\ C(y)[1] = "pshm_write" /\ R(y).ok /\ R(y).ref = R(x).ref
           /\ \A p \in Shells \ {x[1]} : \A n \in DOMAIN scripts[p] :
                 scripts[p][n][1] \notin {"pshm_write", "pshm_create"}
           => R(x).printed = C(y)[2]

(* The operations on semaphore s in the first k arguments; those with SEM_UNDO, or not. *)
OpSum(args, k, s, Undo) ==
    MapThenSumSet(LAMBDA i :
        FoldLeft(LAMBDA sum, x : IF x.num = s /\ x.undo \in Undo THEN sum + x.op ELSE sum,
                 0, parseOps(args[i])), 1..k)

(* svsem_op leaves no trace of its operations with SEM_UNDO when it ends, however it ends;
   those without remain; of a semop() that fails there is nothing at all. Unless the
   values are set by other means. *)
UndoRestores ==
    (\A p \in Shells : \A n \in DOMAIN scripts[p] :
        scripts[p][n][1] \notin {"svsem_setall", "clearEventFlag", "setEventFlag"}) =>
    \A o \in DOMAIN objs : objs[o].kind = "svsem" => \A s \in 1..objs[o].n :
        objs[o].vals[s] =
            MapThenSumSet(LAMBDA x : OpSum(C(x)[3], R(x).printed[1], s, {FALSE}),
                          {x \in Commands : C(x)[1] = "svsem_op" /\ R(x).ref = o})
          + MapThenSumSet(LAMBDA p : OpSum(Cmd(p)[3], loc[p], s, BOOLEAN),
                          {p \in Shells : ref[p] = o /\ Cmd(p)[1] = "svsem_op"})

(* After svsem_rm, svmsg_rm or svshm_rm has succeeded none of its objects exists, but for
   a segment that is still attached. *)
RemovedIsGone ==
    \A x \in Commands : R(x).ok /\ C(x)[1] \in {"svsem_rm", "svmsg_rm", "svshm_rm"} =>
        \A n \in DOMAIN C(x)[2] : LET o == C(x)[2][n] IN
            Exists(o) => \E p \in Shells : at[p] = "start" /\ Cmd(p)[1] = "svshm_attach"
                                          /\ \E j \in 1..loc[p] : Cmd(p)[2][j] = o

(* A command waits for a POSIX object, or for a System V object that has not been
   removed. *)
Waits(p) ==
    /\ at[p] = "opened"
    /\ \/ Cmd(p)[1] = "psem_wait" /\ Obj(p).val = 0
       \/ Cmd(p)[1] = "pmsg_receive" /\ Obj(p).msgs = << >>
       \/ Cmd(p)[1] = "pmsg_send" /\ Len(Obj(p).msgs) = Obj(p).max
       \/ /\ Cmd(p)[1] \in {"svsem_op", "svmsg_send", "svmsg_receive", "waitForEventFlag"}
          /\ Obj(p).linked

(* In the end every command has ended, unless it waits for an object that is still there; in particular
   those that wait for a System V object end when it is removed, and svmsg_demo_server
   does not go on removing queues forever. *)
ToolsEnd == \A p \in Shells : at[p] = "end" \/ Waits(p)
=============================================================================
