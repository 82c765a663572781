---------------------------- MODULE InotifyDtree ----------------------------
(***************************************************************************)
(* inotify/inotify_dtree.c: a monitor that caches, for every directory     *)
(* under some root directories, its watch descriptor and its pathname, and *)
(* keeps that cache up to date from the inotify events, while other        *)
(* processes (inotify/rand_dtree.c) create, remove and rename directories. *)
(*                                                                         *)
(* A directory walk (nftw) is a sequence of steps between which the tree   *)
(* changes. Everything else the program does between two reads of the      *)
(* inotify descriptor is one step per event.                               *)
(***************************************************************************)
EXTENDS Integers, Sequences, SequencesExt, FiniteSets

CONSTANTS
    Top,        \* the directory that holds the roots; it is not monitored
    Names,      \* names of directories
    MaxQueue,   \* max_queued_events
    RootNames,   \* sequence: the names that root directories may have, below Top
    ReadMax,     \* events that fit in the buffer of one read()
    MaxDir,      \* bound: i-nodes ever created are 1..MaxDir
    MaxDepth,    \* bound: length of a pathname
    Workloads    \* what the program may be exposed to: see workload

VARIABLES
    fs,         \* i-node -> [parent, name], for the existing directories
    watches,    \* watch descriptor -> i-node, of the current instance
    moveSelf,   \* watch descriptors whose mask has IN_MOVE_SELF
    nextWd,     \* the next watch descriptor of the current instance
    inst,       \* number of the current instance (inotify_init() calls)
    queue,      \* events not yet read
    workload,    \* what it is exposed to: the number of root directories (roots), what
                 \* happens (ops), the commands typed ("a", "z", "0", "q"), and bounds on
                 \* the operations on the tree (maxOps), the commands (maxCmds) and the
                 \* renames whose second event is still to come (maxMovers)
    nextDir, ops, moving,       \* the other processes
    cache,                      \* wlCache: sequence of [wd, path]
    rootDirPaths,               \* sequence of paths; NoPath once zapped
    ignoreRootDirs,
    abortOnCacheProblem,        \* command-line option -a
    stopFile,                   \* the stop file exists
    buf,                        \* events read and not yet processed
    firstTry,                   \* of processInotifyEvents()
    walk,                       \* pathnames nftw() has still to visit
    at,                         \* the directory nftw() has open
    pc,                         \* where the monitor is
    ret,                        \* where it goes on after the walk
    cmds                        \* commands executed so far

kernelVars == <<watches, moveSelf, nextWd, inst, queue>>

-----------------------------------------------------------------------------
(* External: what inotify_dtree.c and rand_dtree.c use of the kernel. Directories are i-nodes,
   so that a watch survives a rename; a pathname is a sequence of names from Top. *)

Dirs == DOMAIN fs

PathOf ==
    LET p[d \in Dirs \cup {Top}] ==
            IF d = Top THEN << >> ELSE Append(p[fs[d].parent], fs[d].name)
    IN p

Exists(path) == \E d \in Dirs : PathOf[d] = path

Resolve(path) == CHOOSE d \in Dirs : PathOf[d] = path

IsPrefixPath(p, q) == Len(p) <= Len(q) /\ SubSeq(q, 1, Len(p)) = p

Children(d) == {c \in Dirs : fs[c].parent = d}

Below(d) == {c \in Dirs : IsPrefixPath(PathOf[d], PathOf[c])}

-----------------------------------------------------------------------------
(* Events *)

Event(wd, mask, name, cookie) ==
    [wd |-> wd, mask |-> mask, name |-> name, cookie |-> cookie, inst |-> inst]

NoName == "-"
NoCookie == 0

Overflow == Event(-1, "IN_Q_OVERFLOW", NoName, NoCookie)

Overflowed(q) == \E k \in 1..Len(q) : q[k].mask = "IN_Q_OVERFLOW"

(* Events are appended while there is room; then one overflow event stands
   for everything that was lost. An event equal to the last one of the queue
   is merged with it. *)
Post(q, evs) ==
    LET room == IF Len(q) < MaxQueue THEN MaxQueue - Len(q) ELSE 0
        kept == q \o SubSeq(evs, 1, IF Len(evs) < room THEN Len(evs) ELSE room)
    IN CASE Len(evs) <= room /\ Len(evs) = 1 /\ Len(q) > 0 /\
              [q[Len(q)] EXCEPT !.cookie = evs[1].cookie] = evs[1] -> q
         [] Len(evs) <= room -> kept
         [] Len(evs) > room /\ Overflowed(kept) -> kept
         [] OTHER -> Append(kept, Overflow)

(* The watch descriptors of a directory: at most one per instance. *)
WdOf(d) == {w \in DOMAIN watches : watches[w] = d}

(* The event for a watched directory; nothing if it is not watched. *)
Notify(d, mask, name, cookie) ==
    IF WdOf(d) = {} THEN << >>
    ELSE << Event(CHOOSE w \in WdOf(d) : TRUE, mask, name, cookie) >>

NotifySelf(d, mask) ==
    IF \E w \in WdOf(d) : w \in moveSelf THEN Notify(d, mask, NoName, NoCookie)
                                          ELSE << >>

Without(w, S) == [x \in DOMAIN w \ S |-> w[x]]

-----------------------------------------------------------------------------
envVars == <<workload, fs, nextDir, ops, moving>>
progVars == <<cache, rootDirPaths, ignoreRootDirs, abortOnCacheProblem,
              stopFile, buf, firstTry, walk, at, pc, ret, cmds>>
rootVars == <<rootDirPaths, ignoreRootDirs>>
optVars == <<abortOnCacheProblem, stopFile>>
vars == <<envVars, kernelVars, progVars>>

Ops == workload.ops
MaxOps == workload.maxOps

NoPath == << >>
NotOpen == [path |-> NoPath, dir |-> Top, watched |-> FALSE]
EmptySlot == [wd |-> -1, path |-> NoPath]

RootPath(k) == <<RootNames[k]>>
RootIndices == 1..workload.roots
CmdPaths == {RootPath(k) : k \in RootIndices}
            \cup {Append(RootPath(k), n) : k \in RootIndices, n \in Names}

-----------------------------------------------------------------------------
(* The other processes *)

Busy == ops < MaxOps /\ ~stopFile

(* The monitor waits in select(), and there is nothing for it to read. *)
Waiting == pc = "select" /\ buf = << >> /\ queue = << >> /\ moving = << >>

Mkdir(parent, name) ==
    /\ "mkdir" \in Ops /\ Busy /\ nextDir <= MaxDir
    /\ Len(PathOf[parent]) < MaxDepth
    /\ \A c \in Children(parent) : fs[c].name # name
    /\ fs' = [d \in Dirs \cup {nextDir} |->
                IF d = nextDir THEN [parent |-> parent, name |-> name] ELSE fs[d]]
    /\ queue' = Post(queue, Notify(parent, "IN_CREATE", name, NoCookie))
    /\ nextDir' = nextDir + 1
    /\ ops' = ops + 1
    /\ UNCHANGED <<workload, moving, watches, moveSelf, nextWd, inst, progVars>>

(* The watch of a removed directory goes with it. *)
Rmdir(d) ==
    /\ "rmdir" \in Ops /\ Busy
    /\ Children(d) = {}
    /\ fs' = [c \in Dirs \ {d} |-> fs[c]]
    /\ watches' = Without(watches, WdOf(d))
    /\ moveSelf' = moveSelf \ WdOf(d)
    /\ queue' = Post(queue, Notify(d, "IN_DELETE_SELF", NoName, NoCookie)
                            \o Notify(d, "IN_IGNORED", NoName, NoCookie))
    /\ ops' = ops + 1
    /\ UNCHANGED <<workload, nextDir, moving, nextWd, inst, progVars>>

(* rename(): the IN_MOVED_FROM event is queued first; the IN_MOVED_TO event
   of the same cookie follows in FinishRename, and events of other processes
   may come between the two. A "calm rename" is one that happens when the
   monitor has caught up. *)
Rename(d, parent, name) ==
    /\ "rename" \in Ops \/ ("calm rename" \in Ops /\ Waiting)
    /\ Busy /\ Len(moving) < workload.maxMovers
    /\ parent \notin Below(d)
    /\ \A c \in Below(d) :
          Len(PathOf[parent]) + 1 + Len(PathOf[c]) - Len(PathOf[d]) <= MaxDepth
    /\ \A c \in Children(parent) : fs[c].name # name
    /\ fs' = [fs EXCEPT ![d] = [parent |-> parent, name |-> name]]
    /\ queue' = Post(queue, Notify(fs[d].parent, "IN_MOVED_FROM", fs[d].name, ops + 1))
    /\ moving' = Append(moving, [dir |-> d, parent |-> parent, name |-> name,
                                 cookie |-> ops + 1])
    /\ ops' = ops + 1
    /\ UNCHANGED <<workload, nextDir, watches, moveSelf, nextWd, inst, progVars>>

FinishRename(k) ==
    LET m == moving[k] IN
    /\ queue' = Post(queue, Notify(m.parent, "IN_MOVED_TO", m.name, m.cookie)
                            \o NotifySelf(m.dir, "IN_MOVE_SELF"))
    /\ moving' = RemoveAt(moving, k)
    /\ UNCHANGED <<workload, fs, nextDir, ops, watches, moveSelf, nextWd, inst, progVars>>

(* The file system mounted on a root directory is unmounted: the mount point
   that is left is an i-node nobody watches. *)
Unmount(k) ==
    LET r == Resolve(RootPath(k))
        gone == SetToSeq(DOMAIN watches \cap UNION {WdOf(d) : d \in Below(r)})
        evs == FlattenSeq([j \in 1..Len(gone) |->
                  <<Event(gone[j], "IN_UNMOUNT", NoName, NoCookie),
                    Event(gone[j], "IN_IGNORED", NoName, NoCookie)>>])
    IN
    /\ "unmount" \in Ops /\ Busy /\ nextDir <= MaxDir
    /\ Exists(RootPath(k)) /\ moving = << >>
    /\ fs' = [d \in (Dirs \ Below(r)) \cup {nextDir} |->
                IF d = nextDir THEN fs[r] ELSE fs[d]]
    /\ watches' = Without(watches, Range(gone))
    /\ moveSelf' = moveSelf \ Range(gone)
    /\ queue' = Post(queue, evs)
    /\ nextDir' = nextDir + 1
    /\ ops' = ops + 1
    /\ UNCHANGED <<workload, moving, nextWd, inst, progVars>>

Environment ==
    \/ \E parent \in Dirs, name \in Names : Mkdir(parent, name)
    \/ \E d \in Dirs : Rmdir(d)
    \/ \E d \in Dirs, parent \in Dirs \cup {Top}, name \in Names : Rename(d, parent, name)
    \/ \E k \in DOMAIN moving : FinishRename(k)
    \/ \E k \in RootIndices : Unmount(k)

-----------------------------------------------------------------------------
(* The watch cache *)

Slots == DOMAIN cache

findWatch(wd) == {j \in Slots : cache[j].wd = wd}

pathnameInCache(path) == \E j \in Slots : cache[j].wd >= 0 /\ cache[j].path = path

markCacheSlotEmpty(c, j) == [c EXCEPT ![j] = EmptySlot]

(* The first empty slot is used again; the array grows when there is none. *)
addWatchToCache(wd, path) ==
    LET free == {j \in Slots : cache[j].wd = -1}
        slot == [wd |-> wd, path |-> path]
    IN IF free = {} THEN Append(cache, slot)
       ELSE [cache EXCEPT ![CHOOSE j \in free : \A i \in free : j <= i] = slot]

(* Mutant: the cached pathnames of the subdirectories are forgotten. *)
rewriteOwnPathOnly(oldPath, newPath) ==
    [j \in Slots |-> IF cache[j].path = oldPath THEN [cache[j] EXCEPT !.path = newPath]
                                                ELSE cache[j]]

rewriteCachedPaths(oldPath, newPath) ==
    [j \in Slots |->
       IF oldPath # NoPath /\ IsPrefixPath(oldPath, cache[j].path)
       THEN [cache[j] EXCEPT !.path =
               newPath \o SubSeq(cache[j].path, Len(oldPath) + 1, Len(cache[j].path))]
       ELSE cache[j]]

(* zapSubtree() removes watches in the order of the slots, up to the first
   one the kernel no longer has. *)
ZapSlots(path) == {j \in Slots : cache[j].wd >= 0 /\ IsPrefixPath(path, cache[j].path)}
ZapDead(path) == {j \in ZapSlots(path) : cache[j].wd \notin DOMAIN watches}
ZapDone(path) == {j \in ZapSlots(path) : \A i \in ZapDead(path) : j < i}

zapSubtree(path) ==
    LET done == ZapDone(path)
        wds == {cache[j].wd : j \in done}
        order == SetToSortSeq(done, <)
    IN /\ cache' = [j \in Slots |-> IF j \in done THEN EmptySlot ELSE cache[j]]
       /\ watches' = Without(watches, wds)
       /\ moveSelf' = moveSelf \ wds
       /\ queue' = Post(queue, [k \in 1..Len(order) |->
                      Event(cache[order[k]].wd, "IN_IGNORED", NoName, NoCookie)])
       /\ UNCHANGED <<nextWd, inst>>

isRootDirPath(path) == \E k \in RootIndices : path # NoPath /\ rootDirPaths[k] = path

zapRootDirPath(path) ==
    /\ rootDirPaths' = [k \in RootIndices |->
          IF rootDirPaths[k] = path THEN NoPath ELSE rootDirPaths[k]]
    /\ ignoreRootDirs' = ignoreRootDirs + 1

LastRoot == ignoreRootDirs + 1 = workload.roots

-----------------------------------------------------------------------------
(* Walking a subtree: watchDir() and its callback traverseTree() *)

Visit(path, top) == [path |-> path, top |-> top]

watchSubtree(path, then) ==
    /\ walk' = <<Visit(path, TRUE)>>
    /\ pc' = "walk"
    /\ ret' = then

(* nftw() opens the next directory. One that is gone is skipped, or, if it
   vanished after nftw() had seen it, makes nftw() give up its walk: the
   callers log the error and carry on. *)
WalkOpen ==
    /\ pc = "walk" /\ at = NotOpen /\ walk # << >>
    /\ LET v == Head(walk) IN
       IF Exists(v.path)
       THEN /\ at' = [path |-> v.path, dir |-> Resolve(v.path), watched |-> FALSE]
            /\ walk' = Tail(walk)
       ELSE /\ walk' \in {Tail(walk), SelectSeq(Tail(walk), LAMBDA u : u.top)}
            /\ UNCHANGED at
    /\ UNCHANGED <<envVars, kernelVars, cache, rootVars, optVars, buf, firstTry, pc,
                   ret, cmds>>

(* traverseTree(): inotify_add_watch() on the pathname, which may by now name
   nothing, or another directory than the one nftw() has open. *)
traverseTree ==
    /\ pc = "walk" /\ at # NotOpen /\ ~at.watched
    /\ at' = [at EXCEPT !.watched = TRUE]
    /\ IF ~Exists(at.path)
       THEN UNCHANGED <<cache, watches, moveSelf, nextWd>>
       ELSE LET d == Resolve(at.path)
                wd == IF WdOf(d) = {} THEN nextWd ELSE CHOOSE w \in WdOf(d) : TRUE
            IN /\ watches' = [w \in DOMAIN watches \cup {wd} |->
                                IF w = wd THEN d ELSE watches[w]]
               /\ moveSelf' = IF isRootDirPath(at.path) THEN moveSelf \cup {wd}
                                                         ELSE moveSelf \ {wd}
               /\ nextWd' = IF WdOf(d) = {} THEN nextWd + 1 ELSE nextWd
               /\ cache' = IF findWatch(wd) # {} THEN cache
                                                 ELSE addWatchToCache(wd, at.path)
    /\ UNCHANGED <<envVars, inst, queue, rootVars, optVars, buf, firstTry, walk, pc,
                   ret, cmds>>

(* nftw() reads the entries of the open directory, in any order, and goes on
   with them before the rest of the walk. *)
WalkList ==
    /\ pc = "walk" /\ at # NotOpen /\ at.watched
    /\ \E order \in SetToSeqs({fs[c].name : c \in Children(at.dir)}) :
          walk' = [k \in 1..Len(order) |-> Visit(Append(at.path, order[k]), FALSE)] \o walk
    /\ at' = NotOpen
    /\ UNCHANGED <<envVars, kernelVars, cache, rootVars, optVars, buf, firstTry, pc,
                   ret, cmds>>

WalkDone ==
    /\ pc = "walk" /\ at = NotOpen /\ walk = << >>
    /\ pc' = ret
    /\ UNCHANGED <<envVars, kernelVars, cache, rootVars, optVars, buf, firstTry,
                   walk, at, ret, cmds>>

(* reinitialize(): a new instance, whose watch descriptors start from 1, an
   empty cache, and a walk of each root that is left. The callers discard what
   they have read from the old instance. *)
reinitialize(roots, then) ==
    LET left == SelectSeq(roots, LAMBDA p : p # NoPath) IN
    /\ inst' = inst + 1
    /\ watches' = [w \in {} |-> Top]
    /\ moveSelf' = {}
    /\ nextWd' = 1
    /\ queue' = << >>
    /\ cache' = << >>
    /\ walk' = [k \in 1..Len(left) |-> Visit(left[k], TRUE)]
    /\ pc' = "walk"
    /\ ret' = then

-----------------------------------------------------------------------------
(* processNextInotifyEvent() *)

ev == Head(buf)

SlotOf(e) == CHOOSE j \in findWatch(e.wd) : \A i \in findWatch(e.wd) : j <= i

DirPath(e) == cache[SlotOf(e)].path

EntryPath(e) == Append(DirPath(e), e.name)

Handling(masks) == pc = "events" /\ buf # << >> /\ ev.mask \in masks

(* The event is consumed, and the loop of processInotifyEvents() goes on. *)
Consume(n) == /\ buf' = SubSeq(buf, n + 1, Len(buf))
              /\ firstTry' = TRUE

(* Mutant: the rest of the buffer is processed after the rebuild. *)
RebuildKeepsBuffer(roots) ==
    /\ reinitialize(roots, "events")
    /\ Consume(1)
    /\ UNCHANGED <<envVars, optVars, at, cmds>>

(* findWatchChecked() failed, or inotify_rm_watch() did: rebuild everything
   and discard the rest of the buffer. *)
RebuildCache(roots) ==
    /\ reinitialize(roots, "events")
    /\ buf' = << >>
    /\ firstTry' = TRUE
    /\ UNCHANGED <<envVars, optVars, at, cmds>>

CacheProblem ==
    IF abortOnCacheProblem
    THEN /\ stopFile' = TRUE
         /\ pc' = "aborted"
         /\ UNCHANGED <<envVars, kernelVars, cache, rootVars, abortOnCacheProblem,
                        buf, firstTry, walk, at, ret, cmds>>
    ELSE /\ RebuildCache(rootDirPaths)
         /\ UNCHANGED <<rootVars>>

UnknownWatch ==
    /\ Handling({"IN_CREATE", "IN_MOVED_TO", "IN_MOVED_FROM", "IN_DELETE_SELF",
                 "IN_UNMOUNT", "IN_MOVE_SELF"})
    /\ findWatch(ev.wd) = {}
    /\ CacheProblem

HandlingKnown(masks) == Handling(masks) /\ findWatch(ev.wd) # {}

HandleIgnored ==
    /\ Handling({"IN_IGNORED"})
    /\ Consume(1)
    /\ UNCHANGED <<envVars, kernelVars, cache, rootVars, optVars, walk, at, pc, ret,
                   cmds>>

HandleCreate ==
    /\ HandlingKnown({"IN_CREATE", "IN_MOVED_TO"})
    /\ IF pathnameInCache(EntryPath(ev)) THEN UNCHANGED <<walk, pc, ret>>
                                         ELSE watchSubtree(EntryPath(ev), "events")
    /\ Consume(1)
    /\ UNCHANGED <<envVars, kernelVars, cache, rootVars, optVars, at, cmds>>

HandleDeleteSelf ==
    /\ HandlingKnown({"IN_DELETE_SELF"})
    /\ IF isRootDirPath(DirPath(ev))
       THEN /\ zapRootDirPath(DirPath(ev))
            /\ pc' = IF LastRoot THEN "exited" ELSE pc
       ELSE UNCHANGED <<rootVars, pc>>
    /\ cache' = IF pc' = "exited" THEN cache ELSE markCacheSlotEmpty(cache, SlotOf(ev))
    /\ Consume(1)
    /\ UNCHANGED <<envVars, kernelVars, optVars, walk, at, ret, cmds>>

PairFollows == Len(buf) > 1 /\ buf[2].mask = "IN_MOVED_TO" /\ buf[2].cookie = ev.cookie

(* A rename inside the tree: both events are handled at once. *)
HandleRename ==
    /\ HandlingKnown({"IN_MOVED_FROM"}) /\ PairFollows
    /\ IF findWatch(buf[2].wd) = {} THEN CacheProblem
       ELSE /\ cache' = rewriteCachedPaths(EntryPath(ev), EntryPath(buf[2]))
            /\ Consume(2)
            /\ UNCHANGED <<envVars, kernelVars, rootVars, optVars, walk, at, pc, ret,
                           cmds>>

(* A rename out of the tree, or one whose second event did not follow. *)
HandleMovedOut ==
    /\ HandlingKnown({"IN_MOVED_FROM"}) /\ ~PairFollows
    /\ Len(buf) > 1 \/ ~firstTry
    /\ UNCHANGED <<rootVars>>
    /\ IF ZapDead(EntryPath(ev)) # {} THEN RebuildCache(rootDirPaths)
       ELSE /\ zapSubtree(EntryPath(ev))
            /\ Consume(1)
            /\ UNCHANGED <<envVars, optVars, walk, at, pc, ret, cmds>>

(* Mutant: firstTry is not cleared for the second attempt. *)
HandleHangingForever ==
    /\ HandlingKnown({"IN_MOVED_FROM"}) /\ Len(buf) = 1 /\ firstTry
    /\ pc' = "reread"
    /\ UNCHANGED <<envVars, kernelVars, cache, rootVars, optVars, buf, firstTry,
                   walk, at, ret, cmds>>

(* The last event of the buffer may be the first half of a rename: leave it
   and read again, once. *)
HandleHanging ==
    /\ HandlingKnown({"IN_MOVED_FROM"}) /\ Len(buf) = 1 /\ firstTry
    /\ firstTry' = FALSE
    /\ pc' = "reread"
    /\ UNCHANGED <<envVars, kernelVars, cache, rootVars, optVars, buf, walk, at, ret,
                   cmds>>

HandleOverflow ==
    /\ Handling({"IN_Q_OVERFLOW"})
    /\ RebuildCache(rootDirPaths)
    /\ UNCHANGED <<rootVars>>

HandleUnmount ==
    /\ HandlingKnown({"IN_UNMOUNT"})
    /\ cache' = markCacheSlotEmpty(cache, SlotOf(ev))
    /\ Consume(1)
    /\ UNCHANGED <<envVars, kernelVars, rootVars, optVars, walk, at, pc, ret, cmds>>

(* A root directory was renamed: stop monitoring it. *)
HandleMoveSelf ==
    /\ HandlingKnown({"IN_MOVE_SELF"})
    /\ LET path == DirPath(ev) IN
       IF ~isRootDirPath(path)
       THEN /\ Consume(1)
            /\ UNCHANGED <<envVars, kernelVars, cache, rootVars, optVars, walk, at,
                           pc, ret, cmds>>
       ELSE /\ zapRootDirPath(path)
            /\ CASE LastRoot ->
                      /\ pc' = "exited"
                      /\ Consume(1)
                      /\ UNCHANGED <<envVars, kernelVars, cache, optVars, walk, at,
                                     ret, cmds>>
                 [] ~LastRoot /\ ZapDead(path) # {} -> RebuildCache(rootDirPaths')
                 [] OTHER ->
                      /\ zapSubtree(path)
                      /\ Consume(1)
                      /\ UNCHANGED <<envVars, optVars, walk, at, pc, ret, cmds>>

-----------------------------------------------------------------------------
(* processInotifyEvents(): reading *)

Read ==
    /\ pc \in {"select", "read"} /\ queue # << >>
    /\ LET n == IF Len(queue) < ReadMax THEN Len(queue) ELSE ReadMax IN
       /\ buf' = SubSeq(queue, 1, n)
       /\ queue' = SubSeq(queue, n + 1, Len(queue))
    /\ firstTry' = TRUE
    /\ pc' = "events"
    /\ UNCHANGED <<envVars, watches, moveSelf, nextWd, inst, cache, rootVars,
                   optVars, walk, at, ret, cmds>>

(* The read with a timeout for the second half of a rename. *)
SecondRead ==
    /\ pc \in {"reread", "blocked"} /\ queue # << >>
    /\ buf' = buf \o queue
    /\ queue' = << >>
    /\ pc' = "events"
    /\ UNCHANGED <<envVars, watches, moveSelf, nextWd, inst, cache, rootVars,
                   optVars, firstTry, walk, at, ret, cmds>>

AlarmInterruptsRead ==
    /\ pc = "reread" /\ queue = << >>
    /\ pc' = "events"
    /\ UNCHANGED <<envVars, kernelVars, cache, rootVars, optVars, buf, firstTry,
                   walk, at, ret, cmds>>

(* The alarm is a signal: if it comes before the process is in read(), it
   interrupts nothing, and read() waits for the next event. *)
AlarmTooEarly ==
    /\ "alarm" \in Ops
    /\ pc = "reread"
    /\ pc' = "blocked"
    /\ UNCHANGED <<envVars, kernelVars, cache, rootVars, optVars, buf, firstTry,
                   walk, at, ret, cmds>>

BufferDone ==
    /\ pc = "events" /\ buf = << >>
    /\ pc' = "select"
    /\ UNCHANGED <<envVars, kernelVars, cache, rootVars, optVars, buf, firstTry,
                   walk, at, ret, cmds>>

-----------------------------------------------------------------------------
(* executeCommand(), called by main() before it looks at the inotify
   descriptor. What select() said of that descriptor is used after the command,
   even if the command has replaced the instance by an empty one. *)

AfterCommand == IF queue = << >> THEN "select" ELSE "read"

Command(c) == c \in workload.commands /\ pc = "select" /\ cmds < workload.maxCmds /\ cmds' = cmds + 1

CommandAdd(path) ==
    /\ Command("a")
    /\ zapSubtree(path)
    /\ watchSubtree(path, AfterCommand)
    /\ UNCHANGED <<envVars, rootVars, optVars, buf, firstTry, at>>

CommandZap(path) ==
    /\ Command("z")
    /\ zapSubtree(path)
    /\ pc' = AfterCommand
    /\ UNCHANGED <<envVars, rootVars, optVars, buf, firstTry, walk, at, ret>>

CommandRebuild ==
    /\ Command("0")
    /\ reinitialize(rootDirPaths, AfterCommand)
    /\ UNCHANGED <<envVars, rootVars, optVars, buf, firstTry, at>>

CommandQuit ==
    /\ Command("q")
    /\ pc' = "exited"
    /\ UNCHANGED <<envVars, kernelVars, cache, rootVars, optVars, buf, firstTry,
                   walk, at, ret>>

-----------------------------------------------------------------------------
(* The program starts with the roots in place and a first reinitialize(). *)

Init ==
    /\ workload \in Workloads
    /\ fs = [k \in RootIndices |-> [parent |-> Top, name |-> RootNames[k]]]
    /\ nextDir = workload.roots + 1
    /\ ops = 0
    /\ moving = << >>
    /\ watches = [w \in {} |-> Top]
    /\ moveSelf = {}
    /\ nextWd = 1
    /\ inst = 1
    /\ queue = << >>
    /\ cache = << >>
    /\ rootDirPaths = [k \in RootIndices |-> RootPath(k)]
    /\ ignoreRootDirs = 0
    /\ abortOnCacheProblem \in BOOLEAN
    /\ stopFile = FALSE
    /\ buf = << >>
    /\ firstTry = TRUE
    /\ walk = [k \in RootIndices |-> Visit(RootPath(k), TRUE)]
    /\ at = NotOpen
    /\ pc = "walk"
    /\ ret = "select"
    /\ cmds = 0

ExecuteCommand ==
    \/ \E path \in CmdPaths : CommandAdd(path) \/ CommandZap(path)
    \/ CommandRebuild
    \/ CommandQuit

ProcessEvent ==
    \/ UnknownWatch \/ HandleIgnored \/ HandleCreate \/ HandleDeleteSelf
    \/ HandleRename \/ HandleMovedOut \/ HandleHanging \/ HandleOverflow
    \/ HandleUnmount \/ HandleMoveSelf

Monitor ==
    \/ WalkOpen \/ traverseTree \/ WalkList \/ WalkDone
    \/ Read \/ SecondRead \/ AlarmInterruptsRead \/ BufferDone
    \/ ProcessEvent

Next == Environment \/ Monitor \/ AlarmTooEarly \/ ExecuteCommand

Spec == Init /\ [][Next]_vars

(* The monitor is a running process; a rename in progress is completed. The
   user need not type anything, and nobody need change the tree. *)
FairSpec == Spec /\ WF_vars(Monitor)
                 /\ WF_vars(\E k \in DOMAIN moving : FinishRename(k))

-----------------------------------------------------------------------------
(* Properties *)

Running == pc \notin {"exited", "aborted"}

Unprocessed == buf \o queue

PathType == Seq(Names \cup Range(RootNames))

EventType == [wd : Int, mask : STRING, name : STRING, cookie : Nat, inst : Nat]

(* Every variable has the type of its counterpart in the program. *)
TypeOK ==
    /\ \A d \in Dirs : fs[d].parent \in Dirs \cup {Top}
    /\ cache \in Seq([wd : Int, path : PathType])
    /\ buf \in Seq(EventType) /\ queue \in Seq(EventType)
    /\ Len(queue) <= MaxQueue + 1
    /\ moveSelf \subseteq DOMAIN watches
    /\ DOMAIN watches \subseteq 1..(nextWd - 1)
    /\ \A k \in RootIndices : rootDirPaths[k] \in {NoPath, RootPath(k)}
    /\ firstTry \in BOOLEAN /\ stopFile \in BOOLEAN
    /\ pc \in {"walk", "select", "read", "events", "reread", "blocked", "exited", "aborted"}
    /\ walk # << >> \/ at # NotOpen => pc = "walk"

(* No watch is lost or kept for nothing, whatever the other processes do: the
   watches of the kernel are exactly the cached ones, except that a cached one
   may be dead while the event that tells so is still to be processed, and a
   watch descriptor is cached once. *)
CacheOwnsWatches ==
    Running =>
    /\ \A i, j \in Slots : cache[i].wd = cache[j].wd /\ cache[i].wd # -1 => i = j
    /\ \A w \in DOMAIN watches : findWatch(w) # {}
    /\ \A j \in Slots :
          \/ cache[j].wd = -1
          \/ cache[j].wd \in DOMAIN watches
          \/ \E k \in 1..Len(Unprocessed) :
                \/ Unprocessed[k].mask = "IN_Q_OVERFLOW"
                \/ /\ Unprocessed[k].mask \in {"IN_DELETE_SELF", "IN_UNMOUNT"}
                   /\ Unprocessed[k].wd = cache[j].wd

(* Watch descriptors are numbered anew in each instance, so an event read from
   an earlier instance would be attributed to an unrelated directory: every
   event still to be processed comes from the current instance. *)
EventsOfThisInstance ==
    Running => \A k \in 1..Len(Unprocessed) : Unprocessed[k].inst = inst

(* zapRootDirPath() counts the root directories it gives up, and the program
   goes on exactly as long as one is left. *)
RootsAccountedFor ==
    /\ ignoreRootDirs = Cardinality({k \in RootIndices : rootDirPaths[k] = NoPath})
    /\ Running => ignoreRootDirs < workload.roots

(* The cache, the watches, the events to come and the roots agree at every step of the
   monitor, whatever other processes do to the tree. *)
WatchesExact == TypeOK /\ CacheOwnsWatches /\ EventsOfThisInstance /\ RootsAccountedFor

(* When the monitor waits for events and none is queued, what it has cached is
   true: each cached pathname names the directory its watch is on. *)
CacheIsTrue ==
    Waiting => \A j \in Slots : cache[j].wd # -1 =>
                  /\ cache[j].wd \in DOMAIN watches
                  /\ PathOf[watches[cache[j].wd]] = cache[j].path

(* ... and complete: every directory below a root is cached. *)
CacheIsComplete ==
    Waiting => \A d \in Dirs, k \in RootIndices :
                  rootDirPaths[k] # NoPath /\ IsPrefixPath(RootPath(k), PathOf[d])
                     => pathnameInCache(PathOf[d])

(* processInotifyEvents(): events are processed "in order to keep our cached view of the
   subtree in sync with the filesystem". *)
CacheInSync == CacheIsTrue /\ CacheIsComplete

(* The cached view is true if directories are only created and removed, and in sync if
   they are created at any time and renamed when the monitor has caught up. *)
CacheFollowsTree ==
    /\ Ops \subseteq {"mkdir", "rmdir"} => CacheIsTrue
    /\ Ops \subseteq {"mkdir", "calm rename"} => CacheInSync

(* When the other processes stop, the monitor gets to the end of what they did: an event
   left for a second read is not left for ever, if the alarm does not come too early. *)
EventsProcessed ==
    "alarm" \notin Ops =>
        <>[](Running => pc \in {"select", "read"} /\ buf = << >> /\ queue = << >>)

-----------------------------------------------------------------------------
(* Small instances. *)

Roots == <<"r", "s">>

Load(roots, kinds, commands, maxOps, maxCmds, maxMovers) ==
    [roots |-> roots, ops |-> kinds, commands |-> commands,
     maxOps |-> maxOps, maxCmds |-> maxCmds, maxMovers |-> maxMovers]

AnyOp == {"mkdir", "rmdir", "rename", "unmount"}

(* Any operations, with two renames at a time; two roots and early alarms; all commands,
   with one root and with two; only creation and removal; and renames only while the
   monitor waits. *)
AllCommands == {"a", "z", "0", "q"}
MCWorkloads ==
    {Load(1, AnyOp, {}, 3, 0, 2),
     Load(2, AnyOp \cup {"alarm"}, {}, 2, 0, 1),
     Load(1, AnyOp, AllCommands, 2, 1, 1),
     Load(2, AnyOp, AllCommands, 1, 1, 1),
     Load(1, {"mkdir", "rmdir"}, {}, 4, 0, 0),
     Load(1, {"mkdir", "rmdir"}, {"0", "a"}, 2, 1, 0),
     Load(1, {"mkdir", "calm rename"}, {"0"}, 3, 1, 1)}

(* One directory is created and renamed. *)
RenameWorkload == {Load(1, {"mkdir", "rename"}, {}, 2, 0, 1)}
=============================================================================
