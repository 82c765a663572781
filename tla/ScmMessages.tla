---------------------------- MODULE ScmMessages -----------------------------
(***************************************************************************)
(* Passing a file descriptor or credentials over a UNIX domain socket:     *)
(* sockets/scm_rights_send.c and scm_rights_recv.c, scm_cred_send.c and    *)
(* scm_cred_recv.c. Both programs of a pair are started at any time and    *)
(* with any options.                                                       *)
(***************************************************************************)
EXTENDS Integers, Sequences

CONSTANTS
    Content,      \* what is in the file that scm_rights_send opens
    BUF_SIZE

VARIABLES
    app,          \* "scm_rights" or "scm_cred"
    opts,         \* options: -d of both programs, the sender's credentials and privilege
    path,         \* SOCK_PATH: "none", "stale" (left by an earlier run) or "live"
    conn,         \* the stream connection: "none", "queued", "accepted"
    passcred,     \* the receiver's socket has SO_PASSCRED
    queue,        \* messages that wait for the receiver
    refs, offset, \* the open file: who refers to it, and its offset
    rpc, spc,     \* receiver and sender: the next step
    out,          \* what the receiver has read from the file
    ids           \* the credentials that the receiver shows: the sender's and the peer's

vars == <<app, opts, path, conn, passcred, queue, refs, offset, rpc, spc, out, ids>>

Init ==
    /\ app \in {"scm_rights", "scm_cred"}
    /\ opts \in [rdgram : BOOLEAN, sdgram : BOOLEAN, priv : BOOLEAN,
                 ucred : IF app = "scm_cred" THEN {"none", "own", "other"} ELSE {"none"}]
    /\ path \in {"none", "stale"} /\ conn = "none" /\ passcred = FALSE /\ queue = << >>
    /\ refs = {} /\ offset = 0
    /\ rpc = "remove" /\ spc = "open" /\ out = << >> /\ ids = << >>

Ended == {"done", "failed", "killed"}

-----------------------------------------------------------------------------
(* The end of a program: what it has open is closed; what waits at the receiver's socket,
   descriptors included, goes with it. The pathname stays. *)

SenderEnds(label) ==
    /\ spc' = label /\ refs' = refs \ {"sender"}
    /\ UNCHANGED <<app, opts, path, conn, passcred, queue, offset, rpc, out, ids>>

ReceiverEnds(label) ==
    /\ rpc' = label /\ refs' = refs \ {"receiver", "message"} /\ queue' = << >>
    /\ path' = IF path = "live" THEN "stale" ELSE path
    /\ UNCHANGED <<app, opts, conn, passcred, offset, spc, out>>

-----------------------------------------------------------------------------
(* What both receivers do *)

(* The socket is bound to its pathname after what is there has been removed: a datagram
   socket can receive at once, a stream socket when a connection is accepted. *)
Bound ==
    \/ /\ rpc = "remove" /\ path' = "none" /\ rpc' = "bind"
       /\ UNCHANGED <<conn, passcred>>
    \/ /\ rpc = "bind" /\ path' = "live"
       /\ rpc' = IF opts.rdgram THEN "setsockopt" ELSE "accept"
       /\ UNCHANGED <<conn, passcred>>
    \/ /\ rpc = "accept" /\ conn = "queued" /\ conn' = "accepted" /\ rpc' = "setsockopt"
       /\ UNCHANGED <<path, passcred>>

Setup ==
    /\ \/ Bound
       \/ /\ rpc = "setsockopt" /\ rpc' = "recvmsg" /\ passcred' = (app = "scm_cred")
          /\ UNCHANGED <<path, conn>>
    /\ UNCHANGED <<app, opts, queue, refs, offset, spc, out, ids>>

(* recvmsg() returns 0 on a connection whose sender has ended without a message. *)
EndOfFile == rpc = "recvmsg" /\ queue = << >> /\ ~opts.rdgram /\ spc \in Ended

-----------------------------------------------------------------------------
(* The received file is read up to BUF_SIZE bytes at a time. *)
ShowPart ==
    LET n == IF Len(Content) - offset < BUF_SIZE THEN Len(Content) - offset ELSE BUF_SIZE IN
    /\ out' = out \o SubSeq(Content, offset + 1, offset + n)
    /\ offset' = offset + n
    /\ UNCHANGED <<app, opts, path, conn, passcred, queue, refs, rpc, spc, ids>>

(* The receiver gets a descriptor of its own for the sender's open file, with its offset. *)
TakeDescriptor ==
    /\ rpc = "recvmsg" /\ queue # << >>
    /\ queue' = Tail(queue) /\ refs' = (refs \ {"message"}) \cup {"receiver"}
    /\ rpc' = "read"
    /\ UNCHANGED <<app, opts, path, conn, passcred, offset, spc, out, ids>>

(* Mutant: the file is read once, not to its end. *)
scm_rights_recv_once ==
    /\ app = "scm_rights"
    /\ \/ Setup \/ TakeDescriptor
       \/ EndOfFile /\ ReceiverEnds("failed") /\ UNCHANGED ids
       \/ rpc = "read" /\ offset < Len(Content) /\ out = << >> /\ ShowPart
       \/ rpc = "read" /\ out # << >> /\ ReceiverEnds("done") /\ UNCHANGED ids

(* The file is read to its end. A message without a descriptor is fatal. *)
scm_rights_recv ==
    /\ app = "scm_rights"
    /\ \/ Setup \/ TakeDescriptor
       \/ EndOfFile /\ ReceiverEnds("failed") /\ UNCHANGED ids
       \/ rpc = "read" /\ offset < Len(Content) /\ ShowPart
       \/ rpc = "read" /\ offset = Len(Content) /\ ReceiverEnds("done") /\ UNCHANGED ids

(* SO_PASSCRED makes recvmsg() add credentials to whatever it returns, if only unset ones;
   SO_PEERCRED tells who made the connection, and nothing about datagrams. *)
scm_cred_recv ==
    /\ app = "scm_cred"
    /\ \/ Setup
       \/ /\ rpc = "recvmsg" /\ queue # << >>
          /\ ids' = <<queue[1], IF opts.rdgram THEN "unset" ELSE "own">>
          /\ ReceiverEnds("done")
       \/ EndOfFile /\ ids' = <<"unset", "own">> /\ ReceiverEnds("done")

-----------------------------------------------------------------------------
(* What both senders do *)

(* connect() needs a bound socket of the same type. *)
Connect ==
    \/ /\ spc = "connect" /\ path = "live" /\ opts.sdgram = opts.rdgram
       /\ spc' = "sendmsg" /\ conn' = IF opts.sdgram THEN conn ELSE "queued"
       /\ UNCHANGED <<app, opts, path, passcred, queue, refs, offset, rpc, out, ids>>
    \/ spc = "connect" /\ (path # "live" \/ opts.sdgram # opts.rdgram) /\ SenderEnds("failed")

(* The receiver has gone: ECONNREFUSED, or SIGPIPE. *)
Unreceived == spc = "sendmsg" /\ rpc \in Ended /\ SenderEnds("failed")

scm_rights_send ==
    /\ app = "scm_rights"
    /\ \/ /\ spc = "open" /\ refs' = {"sender"} /\ spc' = "connect"
          /\ UNCHANGED <<app, opts, path, conn, passcred, queue, offset, rpc, out, ids>>
       \/ Connect \/ Unreceived
       \/ /\ spc = "sendmsg" /\ rpc \notin Ended
          /\ queue' = Append(queue, "fd") /\ refs' = refs \cup {"message"} /\ spc' = "exit"
          /\ UNCHANGED <<app, opts, path, conn, passcred, offset, rpc, out, ids>>
       \/ spc = "exit" /\ SenderEnds("done")

(* The kernel's share: a sender without privilege can claim no other credentials; one that
   claims none gets its own, if the receiver has asked for them or has not yet accepted the
   connection. *)
Credentials ==
    IF opts.ucred # "none" THEN opts.ucred
    ELSE IF passcred \/ conn = "queued" THEN "own" ELSE "unset"

scm_cred_send ==
    /\ app = "scm_cred"
    /\ \/ /\ spc = "open" /\ spc' = "connect"
          /\ UNCHANGED <<app, opts, path, conn, passcred, queue, refs, offset, rpc, out, ids>>
       \/ Connect \/ Unreceived
       \/ /\ spc = "sendmsg" /\ rpc \notin Ended /\ (opts.ucred = "other" => opts.priv)
          /\ queue' = Append(queue, Credentials) /\ spc' = "exit"
          /\ UNCHANGED <<app, opts, path, conn, passcred, refs, offset, rpc, out, ids>>
       \/ /\ spc = "sendmsg" /\ opts.ucred = "other" /\ ~opts.priv    \* EPERM
          /\ SenderEnds("failed")
       \/ spc = "exit" /\ SenderEnds("done")

Kill ==
    \/ spc \notin Ended /\ rpc # "killed" /\ SenderEnds("killed")
    \/ rpc \notin Ended /\ spc # "killed" /\ ReceiverEnds("killed") /\ UNCHANGED ids

Receiver == scm_rights_recv \/ scm_cred_recv
Sender == scm_rights_send \/ scm_cred_send
Next == Receiver \/ Sender \/ Kill

Spec == Init /\ [][Next]_vars

-----------------------------------------------------------------------------
TypeOK ==
    /\ app \in {"scm_rights", "scm_cred"}
    /\ opts \in [rdgram : BOOLEAN, sdgram : BOOLEAN, priv : BOOLEAN, ucred : {"none", "own", "other"}]
    /\ queue \in Seq({"fd", "own", "other", "unset"})
    /\ path \in {"none", "stale", "live"} /\ conn \in {"none", "queued", "accepted"}
    /\ Len(queue) <= 1 /\ refs \subseteq {"sender", "message", "receiver"}
    /\ offset \in 0..Len(Content)
    /\ rpc \in {"remove", "bind", "accept", "setsockopt", "recvmsg", "read"} \cup Ended
    /\ spc \in {"open", "connect", "sendmsg", "exit"} \cup Ended

(* The receiver prints the whole file, from its beginning and once, also when the sender has
   ended or been killed before the message was received. *)
FilePassed ==
    /\ out = SubSeq(Content, 1, offset)
    /\ app = "scm_rights" /\ rpc = "done" => out = Content

(* The credentials shown are the sender's own, unless it had the privilege to claim others;
   they may be missing only if the sender ended early or left them to the kernel. The peer
   of a connection is the sender, whatever it claims. *)
CredentialsTrue ==
    ids # << >> =>
       /\ ids[1] = "other" => opts.ucred = "other" /\ opts.priv
       /\ ids[1] = "unset" => opts.ucred = "none" \/ spc \in {"killed", "failed"}
       /\ ~opts.rdgram => ids[2] = "own"

(* A receiver whose sender has succeeded comes to its end: a descriptor or credentials once
   sent are not lost. *)
Received == spc = "done" ~> rpc \in Ended

-----------------------------------------------------------------------------
(* Why: a sender sends once, and while the receiver runs the message waits for it; what
   credentials it holds follows from the sender's options. *)
Claimed(q) == (q = "other" => opts.ucred = "other" /\ opts.priv) /\ (q = "unset" => opts.ucred = "none")
SentInv ==
    /\ spc \in {"open", "connect", "sendmsg"} => queue = << >>
    /\ app = "scm_cred" /\ spc \in {"exit", "done"} /\ rpc \notin Ended => queue # << >>
    /\ app = "scm_cred" => \A k \in DOMAIN queue : Claimed(queue[k])
Inv ==
    /\ TypeOK /\ SentInv /\ FilePassed /\ CredentialsTrue
    /\ app = "scm_cred" => rpc # "read"
    /\ ids = << >> \/ ids \in {"fd", "own", "other", "unset"} \X {"own", "unset"}
=============================================================================
