------------------------------ MODULE AclUpdate -----------------------------
(***************************************************************************)
(* acl/acl_update.c: modify (-m) or remove (-x) entries of the access or   *)
(* default (-d) ACL of files, delete the default ACL (-k), or check an ACL *)
(* specification (-V). The mask is recalculated unless -n is given, and    *)
(* the file is updated after every single entry of the specification.      *)
(***************************************************************************)
EXTENDS Integers, Sequences, SequencesExt, FiniteSets

CONSTANTS
    Users, Groups,    \* names with an ID
    Unknown,          \* a name without one
    Files,            \* the file arguments, in order: a sequence
    Specs,            \* the specifications that may be given
    MAX_ENTRIES,      \* entries that aclist[] has room for
    Access, Default,  \* the ACLs a file may have at the start
    None


(* An entry specification "tag:[qualifier][:[perms]]": perms is None when missing, and
   a set otherwise, which contains "bad" when a character was. *)
EntrySpec(t, q, p) == [tag |-> t, qual |-> q, perms |-> p]

VARIABLES
    opts,       \* the options: op ("m", "x", "k", "V"), n, d (BOOLEAN), spec (a sequence)
    acls,       \* per file and type ("access", "default") the ACL
    old,        \* the ACLs at the start
    pc, j, en,  \* where main() is: the file and the entry
    acl,        \* the ACL being edited
    exit        \* "none", "success", or EXIT_FAILURE: "failure" for what main() and acl_valid()
                \* refuse, "call" when a call on a file or on the ACL failed

vars == <<opts, acls, old, pc, j, en, acl, exit>>

-----------------------------------------------------------------------------
(* An ACL is a function from entries <<tag, qualifier>> to sets of permissions. *)

Base == {<<"user_obj", None>>, <<"group_obj", None>>, <<"other", None>>}
Mask == <<"mask", None>>
GroupClass(a) == {e \in DOMAIN a : e[1] \in {"user", "group", "group_obj"}}

(* acl_calc_mask() and acl_valid() of the library: the mask is the union of the
   permissions of the group class; a valid ACL has the three base entries, and a mask
   if it names users or groups. *)
CalcMask(a) ==
    [e \in DOMAIN a \cup {Mask} |->
        IF e = Mask THEN UNION {a[f] : f \in GroupClass(a)} ELSE a[e]]

Valid(a) ==
    /\ Base \subseteq DOMAIN a
    /\ (\E e \in DOMAIN a : e[1] \in {"user", "group"}) => Mask \in DOMAIN a

-----------------------------------------------------------------------------
(* parseEntrySpec(): the entry and its permissions, or None. *)
parseEntrySpec(s, permsReqd) ==
    LET hasPerms == s.perms # None
        tag == CASE s.tag = "u" -> IF s.qual = None THEN "user_obj" ELSE "user"
                 [] s.tag = "g" -> IF s.qual = None THEN "group_obj" ELSE "group"
                 [] s.tag = "o" -> "other"
                 [] s.tag = "m" -> "mask"
                 [] OTHER -> None
        known == \/ tag = "user" /\ s.qual \in Users
                 \/ tag = "group" /\ s.qual \in Groups
                 \/ tag \notin {"user", "group"}
    IN  IF hasPerms # permsReqd \/ tag = None \/ ~known \/ (hasPerms /\ "bad" \in s.perms)
        THEN None
        ELSE [entry |-> <<tag, IF tag \in {"user", "group"} THEN s.qual ELSE None>>,
              perms |-> s.perms]

(* parseACL(): all entries, or None. *)
parseACL(spec, permsReqd) ==
    LET aclist == [i \in DOMAIN spec |-> parseEntrySpec(spec[i], permsReqd)]
    IN  IF Len(spec) > MAX_ENTRIES \/ \E i \in DOMAIN aclist : aclist[i] = None
        THEN None ELSE aclist

Aclist == parseACL(opts.spec, opts.op # "x")
Type == IF opts.d THEN "default" ELSE "access"

Init ==
    /\ opts \in [op : {"m", "x", "k", "V"}, n : BOOLEAN, d : BOOLEAN, spec : Specs]
    /\ acls \in [Range(Files) -> [access : Access, default : Default]]
    /\ old = acls
    /\ pc = "parse" /\ j = 1 /\ en = 1 /\ acl = None /\ exit = "none"

Exit(how) == pc' = "exit" /\ exit' = how

(* The options and the specification are checked before any file is touched. *)
Parse ==
    /\ pc = "parse"
    /\ \/ opts.op = "V" /\ Exit(IF opts.d \/ Aclist = None THEN "failure" ELSE "success")
       \/ opts.op \in {"m", "x"} /\ Aclist = None /\ Exit("failure")
       \/ /\ opts.op = "k" \/ (opts.op \in {"m", "x"} /\ Aclist # None)
          /\ pc' = "file" /\ UNCHANGED exit
    /\ UNCHANGED <<opts, acls, old, j, en, acl>>

(* The next file: acl_get_file(), or acl_delete_def_file() for -k. When either fails, as
   it does for a file that cannot be opened, the files that follow are left alone. *)
File ==
    /\ pc = "file"
    /\ \/ j > Len(Files) /\ Exit("success") /\ UNCHANGED <<acls, j, acl>>
       \/ j <= Len(Files) /\ Exit("call") /\ UNCHANGED <<acls, j, acl>>
       \/ /\ j <= Len(Files) /\ opts.op = "k"
          /\ acls' = [acls EXCEPT ![Files[j]].default = << >>]
          /\ j' = j + 1
          /\ UNCHANGED <<pc, exit, acl>>
       \/ /\ j <= Len(Files) /\ opts.op # "k"
          /\ acl' = acls[Files[j]][Type]
          /\ pc' = "entry"
          /\ UNCHANGED <<acls, exit, j>>
    /\ en' = 1
    /\ UNCHANGED <<opts, old>>

(* Mutant: the mask is calculated before the entry is edited. *)
EditAfterMask(a, ace) ==
    LET e == ace.entry
        m == IF opts.n THEN a ELSE CalcMask(a)
    IN  IF opts.op = "x"
        THEN [f \in DOMAIN m \ {e} |-> m[f]]
        ELSE [f \in DOMAIN m \cup {e} |-> IF f = e THEN ace.perms ELSE m[f]]

(* One entry: findEntry(), then acl_delete_entry(), or a new entry if there was none,
   and setPerms(); and the mask. *)
Edit(a, ace) ==
    LET e == ace.entry
        b == IF opts.op = "x"
             THEN [f \in DOMAIN a \ {e} |-> a[f]]
             ELSE [f \in DOMAIN a \cup {e} |-> IF f = e THEN ace.perms ELSE a[f]]
    IN  IF opts.n THEN b ELSE CalcMask(b)

(* acl_valid() may refuse the result, which ends the program; otherwise the file is
   updated at once. The calls that edit the ACL or acl_set_file() may fail, and the file
   keeps what the entries before have made of it. *)
Entry ==
    /\ pc = "entry" /\ en <= Len(Aclist)
    /\ LET new == Edit(acl, Aclist[en])
       IN  \/ ~Valid(new) /\ Exit("failure") /\ UNCHANGED <<acl, acls, en>>
           \/ Exit("call") /\ UNCHANGED <<acl, acls, en>>
           \/ /\ Valid(new)
              /\ acl' = new
              /\ acls' = [acls EXCEPT ![Files[j]][Type] = new]
              /\ en' = en + 1
              /\ UNCHANGED <<pc, exit>>
    /\ UNCHANGED <<opts, old, j>>

(* acl_free(), which may fail too. *)
FileDone ==
    /\ pc = "entry" /\ en > Len(Aclist)
    /\ \/ pc' = "file" /\ j' = j + 1 /\ UNCHANGED exit
       \/ Exit("call") /\ UNCHANGED j
    /\ UNCHANGED <<opts, acls, old, en, acl>>

Next == Parse \/ File \/ Entry \/ FileDone

Spec == Init /\ [][Next]_vars

-----------------------------------------------------------------------------
TypeOK ==
    /\ pc \in {"parse", "file", "entry", "exit"} /\ exit \in {"none", "success", "failure", "call"}
    /\ j \in 1..(Len(Files) + 1)
    /\ \A f \in Range(Files), t \in {"access", "default"} :
          acls[f][t] = << >> \/ Valid(acls[f][t])

(* What -m or -x with n entries should make of an ACL: the last specification of an entry
   counts, and the mask is the union of the group class unless -n was given. *)
LastFor(e, n) == CHOOSE i \in 1..n :
                    /\ Aclist[i].entry = e
                    /\ \A k \in 1..n : Aclist[k].entry = e => k <= i
Reference(a, n) ==
    LET named == {Aclist[i].entry : i \in 1..n}
        b == IF opts.op = "x"
             THEN [e \in DOMAIN a \ named |-> a[e]]
             ELSE [e \in DOMAIN a \cup named |->
                      IF e \in named THEN Aclist[LastFor(e, n)].perms ELSE a[e]]
    IN  IF opts.n THEN b ELSE CalcMask(b)

(* Every file that main() has finished with has the ACL that the specification says,
   computed from what it was, and its other ACL is as it was; files it has not come to
   are untouched, also when the program fails in between; the file at which it fails has
   what a first part of the specification says. *)
FilesAsSpecified ==
    opts.op \in {"m", "x"} =>
        \A i \in 1..Len(Files) :
            LET f == Files[i] other == IF opts.d THEN "access" ELSE "default"
                now == acls[f][Type] was == old[f][Type]
            IN  /\ i < j => now = Reference(was, Len(Aclist))
                /\ i = j => now = was \/ \E n \in 1..Len(Aclist) : now = Reference(was, n)
                /\ i > j => acls[f] = old[f]
                /\ acls[f][other] = old[f][other]

(* While the mask is recalculated, no permission of a user or group entry is masked. *)
NothingMasked ==
    \A f \in Range(Files) :
        LET a == acls[f][Type]
        IN  (opts.op \in {"m", "x"} /\ ~opts.n /\ a # old[f][Type]) =>
                \A e \in GroupClass(a) : a[e] \subseteq a[Mask]

(* Success means every file was done, and a bad specification changes no file at all. *)
ExitHonest ==
    /\ exit = "success" /\ opts.op # "V" => j > Len(Files)
    /\ opts.op \in {"m", "x"} /\ Aclist = None => acls = old /\ exit # "success"

(* Without -n, and on the access ACL, -m is refused only if the specification is bad: the
   usage text announces errors only for files without a mask entry when -n is given. *)
NoErrorsWithoutN ==
    exit = "failure" /\ opts.op = "m" /\ ~opts.d => opts.n \/ Aclist = None
=============================================================================
