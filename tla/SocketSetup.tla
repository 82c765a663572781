---------------------------- MODULE SocketSetup -----------------------------
(***************************************************************************)
(* sockets/inet_sockets.c and sockets/unix_sockets.c: the library that     *)
(* turns a host and service, or a path, into a connected, bound or         *)
(* listening socket. Which system call fails for which address is chosen   *)
(* by the environment.                                                     *)
(***************************************************************************)
EXTENDS Integers, Sequences, SequencesExt, FiniteSets

CONSTANTS
    MaxAddrs,    \* length of the list getaddrinfo() may return
    None

(* The call that fails for an address: the first of its calls that does. *)
Outcomes == {"socket", "setsockopt", "bind", "connect", "listen", "none"}

InetFunctions == {"inetConnect", "inetListen", "inetBind"}
UnixFunctions == {"unixConnect", "unixListen", "unixBind"}

VARIABLES
    fn,        \* the function called
    lookup,    \* "ok", or "fails": getaddrinfo(), or unixBuildAddress()
    addrs,     \* what happens with each address of the list
    pc,        \* "lookup", "socket", "option", "attach", "listen", "returned"
    rp,        \* the address being tried (a position, past the end: NULL)
    open,      \* the descriptors open, named for the address they were made for
    ret, addrlen   \* the descriptor returned (0: -1); *addrlen, if set

args == <<fn, lookup, addrs>>
vars == <<args, pc, rp, open, ret, addrlen>>

doConnect == fn \in {"inetConnect", "unixConnect"}
doListen == fn \in {"inetListen", "unixListen"}
isInet == fn \in InetFunctions

Init ==
    /\ fn \in InetFunctions \cup UnixFunctions
    /\ lookup \in {"ok", "fails"}
    /\ addrs \in BoundedSeq(Outcomes, MaxAddrs)
    /\ fn \in UnixFunctions => Len(addrs) = 1
    /\ pc = "lookup" /\ rp = 1 /\ open = {} /\ ret = None /\ addrlen = None

Fails(call) == addrs[rp] = call

Return(r) == pc' = "returned" /\ ret' = r

Lookup ==
    /\ pc = "lookup"
    /\ IF lookup = "fails" THEN Return(0) ELSE pc' = "socket" /\ UNCHANGED ret
    /\ UNCHANGED <<args, rp, open, addrlen>>

(* The list is used up: rp == NULL. *)
Exhausted ==
    /\ pc = "socket" /\ rp > Len(addrs)
    /\ Return(0)
    /\ UNCHANGED <<args, rp, open, addrlen>>

(* An address is given up: an Internet function goes on with the next one. *)
NextAddress ==
    IF isInet
    THEN pc' = "socket" /\ rp' = rp + 1 /\ UNCHANGED ret
    ELSE Return(0) /\ UNCHANGED rp

Socket ==
    /\ pc = "socket" /\ rp <= Len(addrs)
    /\ IF Fails("socket")
       THEN NextAddress /\ UNCHANGED open
       ELSE /\ open' = open \cup {rp}
            /\ pc' = IF isInet /\ doListen THEN "option" ELSE "attach"
            /\ UNCHANGED <<rp, ret>>
    /\ UNCHANGED <<args, addrlen>>

SetOption ==
    /\ pc = "option"
    /\ IF Fails("setsockopt")
       THEN Return(0) /\ open' = open \ {rp}
       ELSE pc' = "attach" /\ UNCHANGED <<ret, open>>
    /\ UNCHANGED <<args, rp, addrlen>>

(* bind(), or connect(): on failure the socket is closed and the next address tried. *)
Attach ==
    /\ pc = "attach"
    /\ IF Fails(IF doConnect THEN "connect" ELSE "bind")
       THEN open' = open \ {rp} /\ NextAddress
       ELSE /\ pc' = IF doListen THEN "listen" ELSE "done"
            /\ UNCHANGED <<rp, open, ret>>
    /\ UNCHANGED <<args, addrlen>>

(* listen(): unixPassiveSocket() closes the socket when it fails,
   inetPassiveSocket() does not. *)
Listen ==
    /\ pc = "listen"
    /\ IF Fails("listen")
       THEN Return(0) /\ open' = IF isInet THEN open ELSE open \ {rp}
       ELSE pc' = "done" /\ UNCHANGED <<open, ret>>
    /\ UNCHANGED <<args, rp, addrlen>>

(* inetPassiveSocket() also reports the size of the address it used. *)
Done ==
    /\ pc = "done"
    /\ addrlen' = IF isInet /\ ~doConnect THEN rp ELSE addrlen
    /\ Return(rp)
    /\ UNCHANGED <<args, rp, open>>

Next == Lookup \/ Exhausted \/ Socket \/ SetOption \/ Attach \/ Listen \/ Done

Spec == Init /\ [][Next]_vars

-----------------------------------------------------------------------------
TypeOK ==
    /\ pc \in {"lookup", "socket", "option", "attach", "listen", "done", "returned"}
    /\ rp \in 1..(Len(addrs) + 1) /\ open \subseteq 1..Len(addrs)
    /\ ret \in {None} \cup 0..Len(addrs) /\ addrlen \in {None} \cup 1..Len(addrs)

(* The calls the function makes for an address; the address is usable when none of
   them fails. *)
Calls == {"socket"} \cup (IF doConnect THEN {"connect"} ELSE {"bind"})
                    \cup (IF doListen THEN {"listen"} ELSE {})
                    \cup (IF doListen /\ isInet THEN {"setsockopt"} ELSE {})

(* The errors that end an Internet function although addresses are left. *)
Final == {"setsockopt", "listen"} \cap Calls

(* The descriptor returned is for the first address whose calls all succeed, unless an
   earlier address failed in setsockopt() or listen(), which end the search; the size
   reported is that of the same address. *)
FirstUsable ==
    pc = "returned" =>
        LET usable == {k \in DOMAIN addrs :
                          /\ addrs[k] \notin Calls
                          /\ \A j \in 1..(k - 1) : addrs[j] \in Calls \ Final}
        IN  /\ lookup = "ok" /\ usable # {} => ret \in usable
            /\ lookup = "fails" \/ usable = {} => ret = 0
            /\ addrlen # None => addrlen = ret

(* A call that fails leaves no descriptor behind, a call that succeeds exactly the one
   it returns; the exception is inetListen() when listen() fails. *)
NoLeak ==
    pc = "returned" =>
        \/ ret # 0 /\ open = {ret}
        \/ ret = 0 /\ open = {}
        \/ ret = 0 /\ fn = "inetListen" /\ addrs[rp] = "listen" /\ open = {rp}
=============================================================================
