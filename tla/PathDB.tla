---- MODULE PathDB ----
(***************************************************************************)
(* The path-based state database (triedb/pathdb): a tree of diff layers    *)
(* over one disk layer, whose writes are collected in a buffer, with a     *)
(* state history for every transition below, and a journal that carries    *)
(* the memory layers over a restart.                                       *)
(*                                                                         *)
(* A state is a function from Keys, standing for its trie nodes, to        *)
(* values, and is its own root hash.  Key n counts the transitions from    *)
(* the empty state, so that a chain never returns to an earlier root       *)
(* (diskLayer.commit relies on that); two siblings may have the same root. *)
(*                                                                         *)
(* A layer is an object: the tree maps a root to one, and diff layers      *)
(* refer to their parent object.  The buffer and the clean cache are       *)
(* passed from a disk layer to its successor and are modelled once.  An    *)
(* operation holds the database lock and is one step for other callers; a  *)
(* crash may hit between any two of its writes, so each operation also     *)
(* yields the states of the disk it passes through.                        *)
(***************************************************************************)
EXTENDS Integers, Sequences, FiniteSetsExt, SequencesExt, Functions, TLC

CONSTANTS maxDiffLayers,
          StateHistory,    \* histories to keep, 0 for all
          Values,          \* values of the key x
          LoseJournaled,   \* whether power may fail between Journal and Close
          MaxUpdates,      \* bound: updates and syncs
          MaxCrashes,      \* bound: crashes
          MaxSyncs         \* bound: state syncs, at most 1

Keys == {"n", "x"}
State(n, v) == [k \in Keys |-> IF k = "n" THEN n ELSE v]
States == {State(n, v) : n \in 0 .. 2 * MaxUpdates + 1, v \in Values}
Empty == [k \in Keys |-> 0]
Diff(old, new) == Restrict(new, {k \in Keys : old[k] /= new[k]})
None == <<>>
errSnapshotStale == -1

ASSUME PathAssumption == maxDiffLayers > 0 /\ StateHistory >= 0 /\ 0 \in Values

VARIABLES objs,     \* layer objects
          tree,     \* root -> layer object
          buffer,   \* [layers, nodes]
          cache,    \* clean nodes read from or written to the disk
          disk,     \* key-value store and freezer
          mode,     \* "open", "sync" (disabled), "readonly", "down", "broken"
          held,     \* a layer some reader holds, or 0
          updates, crashes, syncs

vars == <<objs, tree, buffer, cache, disk, mode, held, updates, crashes, syncs>>

\* disk: nodes, root (the root node) and pid: the persistent state and its id;
\* ids (root -> id); journal; hist (state id -> history) above tail, of which
\* those up to synced are flushed; flag (the state sync is running).
EmptyDisk == [nodes |-> Empty, root |-> Empty, pid |-> 0, ids |-> <<>>, journal |-> None, hist |-> <<>>, tail |-> 0, synced |-> 0, flag |-> FALSE]
HistHead(d) == d.tail + Cardinality(DOMAIN d.hist)

DiskLayer(root, id) == [disk |-> TRUE, root |-> root, id |-> id, stale |-> FALSE, parent |-> 0, nodes |-> <<>>, origin |-> <<>>]
DiffLayer(root, id, parent, nodes, origin) ==
    [disk |-> FALSE, root |-> root, id |-> id, stale |-> FALSE, parent |-> parent, nodes |-> nodes, origin |-> origin]

----
(***************************************************************************)
(* Layers.  w is a database in the course of an operation: objs, tree,     *)
(* buffer, cache, disk, trace (the states of the disk on the way) and ok   *)
(* (no step has returned an error).                                        *)
(***************************************************************************)
World == [objs |-> objs, tree |-> tree, buffer |-> buffer, cache |-> cache, disk |-> disk, trace |-> {disk}, ok |-> TRUE]
Wrote(w, d) == [w EXCEPT !.disk = d, !.trace = @ \cup {d}]
NewId(w) == Max(DOMAIN w.objs \cup {0}) + 1
Linked(w, i, o) == [w EXCEPT !.objs = (i :> o) @@ @, !.tree = (o.root :> i) @@ @]

RECURSIVE Chain(_, _)
Chain(os, i) == IF i = 0 THEN <<>> ELSE <<i>> \o Chain(os, os[i].parent)
Bottom(os, i) == Last(Chain(os, i))

\* node: the value a reader of layer i sees for k, or errSnapshotStale.
RECURSIVE node(_, _)
node(i, k) ==
    LET l == objs[i] IN
    IF l.disk THEN IF l.stale THEN errSnapshotStale
                   ELSE IF k \in DOMAIN buffer.nodes THEN buffer.nodes[k]
                   ELSE IF k \in DOMAIN cache THEN cache[k] ELSE disk.nodes[k]
    ELSE IF k \in DOMAIN l.nodes THEN l.nodes[k] ELSE node(l.parent, k)

\* Only what the tree or a reader refers to is kept.  Objects are renumbered
\* in their order.
Kept(w, h) == UNION {Range(Chain(w.objs, i)) : i \in Range(w.tree) \cup ({h} \ {0})}
Finish(w, h) == \E kept \in {Kept(w, h)} :
    LET new(i) == Cardinality({j \in kept : j <= i})
        old(n) == CHOOSE i \in kept : new(i) = n
    IN  /\ objs' = [n \in 1 .. Cardinality(kept) |->
                       LET o == w.objs[old(n)] IN [o EXCEPT !.parent = IF o.disk THEN 0 ELSE new(@)]]
        /\ tree' = [r \in DOMAIN w.tree |-> new(w.tree[r])]
        /\ held' = IF h = 0 THEN 0 ELSE new(h)
        /\ buffer' = w.buffer /\ cache' = w.cache /\ disk' = w.disk

Init ==
    /\ objs = <<DiskLayer(Empty, 0)>> /\ tree = (Empty :> 1)
    /\ buffer = [layers |-> 0, nodes |-> <<>>] /\ cache = <<>>
    /\ disk = EmptyDisk
    /\ mode = "open" /\ held = 0 /\ updates = 0 /\ crashes = 0 /\ syncs = 0

----
(***************************************************************************)
(* Committing the bottom-most diff layer b into the disk layer below.      *)
(***************************************************************************)
\* writeHistory; the freezer takes only the id that follows its head.
writeHistory(w, b) ==
    LET o == w.objs[b]
        h == [root |-> o.root, parent |-> w.objs[o.parent].root, origin |-> o.origin]
    IN  IF HistHead(w.disk) = o.id - 1 THEN Wrote(w, [w.disk EXCEPT !.hist = (o.id :> h) @@ @]) ELSE w

\* Mutant: the id of the initial state is not stored.
writeIDs_NoZero(w, b) ==
    Wrote(w, [w.disk EXCEPT !.ids = (w.objs[b].root :> w.objs[b].id) @@ @])
writeIDs(w, b) ==
    LET d == w.objs[w.objs[b].parent]
        base == IF d.id = 0 THEN (d.root :> 0) @@ w.disk.ids ELSE w.disk.ids
    IN  Wrote(w, [w.disk EXCEPT !.ids = (w.objs[b].root :> w.objs[b].id) @@ base])

\* Mutant: the histories are not synced before the nodes are written.
flush_NoSync(w, id) ==
    LET batch == [w.disk EXCEPT !.nodes = w.buffer.nodes @@ @, !.root = w.buffer.nodes @@ w.disk.nodes, !.pid = id]
    IN  IF w.disk.pid + w.buffer.layers /= id THEN [w EXCEPT !.ok = FALSE]
        ELSE [Wrote(w, batch) EXCEPT !.cache = w.buffer.nodes @@ @, !.buffer = [layers |-> 0, nodes |-> <<>>]]
\* Mutant: the clean cache keeps the nodes the flush overwrites.
flush_OldCache(w, id) ==
    LET batch == [w.disk EXCEPT !.nodes = w.buffer.nodes @@ @, !.root = w.buffer.nodes @@ w.disk.nodes, !.pid = id, !.synced = HistHead(w.disk)]
    IN  IF w.disk.pid + w.buffer.layers /= id THEN [w EXCEPT !.ok = FALSE]
        ELSE [Wrote(w, batch) EXCEPT !.buffer = [layers |-> 0, nodes |-> <<>>]]
\* flush: the freezer is synced before the nodes and the id are written.
flush(w, id) ==
    LET synced == [w.disk EXCEPT !.synced = HistHead(w.disk)]
        batch == [synced EXCEPT !.nodes = w.buffer.nodes @@ @, !.root = w.buffer.nodes @@ synced.nodes, !.pid = id]
    IN  IF w.disk.pid + w.buffer.layers /= id THEN [w EXCEPT !.ok = FALSE]
        ELSE [Wrote(Wrote(w, synced), batch) EXCEPT !.cache = w.buffer.nodes @@ @,
                                                    !.buffer = [layers |-> 0, nodes |-> <<>>]]

\* Both truncations delete the root -> id entries of the histories first.
Forgotten(d, gone) == [d EXCEPT !.ids = Restrict(@, DOMAIN @ \ {d.hist[i].root : i \in gone})]
\* Mutant: the tail moves one history past the ones that were removed.
truncateFromTail_OffByOne(w, ntail) ==
    LET gone == w.disk.tail + 1 .. ntail IN
    IF gone = {} THEN w
    ELSE Wrote(w, [Forgotten(w.disk, gone) EXCEPT !.hist = Restrict(@, DOMAIN @ \ gone), !.tail = ntail + 1])
truncateFromTail(w, ntail) ==
    LET gone == w.disk.tail + 1 .. ntail
        deleted == Forgotten(w.disk, gone)
        cut == [deleted EXCEPT !.hist = Restrict(@, DOMAIN @ \ gone), !.tail = ntail, !.synced = Max({@, ntail})]
    IN  CASE ntail \notin w.disk.tail .. HistHead(w.disk) -> [w EXCEPT !.ok = FALSE]
          [] gone = {} -> w
          [] OTHER -> Wrote(Wrote(w, deleted), cut)
truncateFromHead(w, nhead) ==
    LET gone == nhead + 1 .. HistHead(w.disk)
        deleted == Forgotten(w.disk, gone)
        cut == [deleted EXCEPT !.hist = Restrict(@, DOMAIN @ \ gone), !.synced = Min({@, nhead})]
    IN  CASE nhead \notin w.disk.tail .. HistHead(w.disk) -> [w EXCEPT !.ok = FALSE]
          [] gone = {} -> w
          [] OTHER -> Wrote(Wrote(w, deleted), cut)

\* commit; full says whether the buffer exceeds its limit.
commit(w, b, force, full) ==
    LET o == w.objs[b]
        written == writeHistory(w, b)
        overflow == StateHistory /= 0 /\ o.id - written.disk.tail > StateHistory
        oldest == IF overflow THEN o.id - StateHistory + 1 ELSE 0
        stale == [written EXCEPT !.objs[o.parent].stale = TRUE]
        merged == [writeIDs(stale, b) EXCEPT !.buffer.layers = @ + 1, !.buffer.nodes = o.nodes @@ @]
        flushed == IF full \/ force \/ merged.disk.pid < oldest THEN flush(merged, o.id) ELSE merged
        base == [flushed EXCEPT !.objs = (NewId(flushed) :> DiskLayer(o.root, o.id)) @@ @]
    IN  IF overflow THEN truncateFromTail(base, oldest - 1) ELSE base

\* persist: the chain of diff layers up to i is committed from the bottom; the
\* result is the world whose newest object is the new disk layer.
RECURSIVE persist(_, _, _, _)
persist(w, i, force, full) ==
    IF w.objs[w.objs[i].parent].disk THEN commit(w, i, force, full)
    ELSE LET below == persist(w, w.objs[i].parent, force, full)
         IN  commit([below EXCEPT !.objs[i].parent = NewId(below) - 1], i, force, full)

\* Layers below a stale disk layer that is in the tree, by the roots of their parents.
RECURSIVE Orphans(_, _)
Orphans(w, roots) ==
    LET more == {r \in DOMAIN w.tree : ~w.objs[w.tree[r]].disk /\ w.objs[w.objs[w.tree[r]].parent].root \in roots}
    IN  IF more \subseteq roots THEN roots ELSE Orphans(w, roots \cup more)
StaleRoots(w) == {r \in DOMAIN w.tree : w.objs[w.tree[r]].disk /\ w.objs[w.tree[r]].stale}
Removed(w) == [w EXCEPT !.tree = Restrict(@, DOMAIN @ \ Orphans(w, StaleRoots(w)))]

\* cap to zero layers: the tree becomes the new disk layer.
capAll(w, i, full) ==
    LET p == persist(w, i, TRUE, full)
    IN  [p EXCEPT !.tree = (w.objs[i].root :> NewId(p) - 1)]

\* cap: the layer maxDiffLayers - 1 below the head keeps its place, and what is
\* below it is merged into the disk layer.
cap(w, i, full) ==
    LET chain == Chain(w.objs, i)
        diff == chain[maxDiffLayers]
        parent == w.objs[diff].parent
        p == persist(w, parent, FALSE, full)
        base == NewId(p) - 1
    IN  IF Len(chain) <= maxDiffLayers \/ w.objs[parent].disk THEN w
        ELSE Removed([p EXCEPT !.tree = (p.objs[base].root :> base) @@ @, !.objs[diff].parent = base])

----
(***************************************************************************)
(* The operations.  Each one completes, or the node crashes at one of its  *)
(* writes; a failed operation leaves the database broken.                  *)
(***************************************************************************)
Down(d) ==
    /\ objs' = <<>> /\ tree' = <<>> /\ held' = 0 /\ cache' = <<>>
    /\ buffer' = [layers |-> 0, nodes |-> <<>>]
    /\ disk' = d /\ mode' = "down"

\* A crash keeps what was written to the key-value store, and of the histories
\* those that were flushed and a prefix of the others.
Survives(d, head) ==
    [d EXCEPT !.hist = Restrict(@, {i \in DOMAIN @ : i <= head}), !.synced = head]
Crash(ds, min) ==
    /\ crashes < MaxCrashes /\ crashes' = crashes + 1
    /\ \E d \in ds : \E head \in Max({d.synced, d.tail, min}) .. HistHead(d) : Down(Survives(d, head))

Run(w, m) ==
    \/ Finish(w, held) /\ mode' = (IF w.ok THEN m ELSE "broken") /\ UNCHANGED crashes
    \/ Crash(w.trace, 0)

\* The callers of Update and Commit have read the state they build on (the
\* block was executed on it), which a layer over a stale disk layer refuses.
Readable(i) == ~objs[Bottom(objs, i)].stale

\* tree.add and cap.
Update(p, v, full) ==
    LET i == tree[p]
        root == State(p.n + 1, v)
        l == DiffLayer(root, objs[i].id + 1, i, Diff(p, root), Restrict(p, DOMAIN Diff(p, root)))
    IN  /\ mode = "open" /\ updates < MaxUpdates /\ Readable(i)
        /\ updates' = updates + 1 /\ UNCHANGED syncs
        /\ \E w \in {World} : \E i2 \in {NewId(w)} : Run(cap(Linked(w, i2, l), i2, full), "open")

Commit(r) ==
    /\ mode = "open" /\ ~objs[tree[r]].disk /\ Readable(tree[r])
    /\ UNCHANGED <<updates, syncs>>
    /\ Run(capAll(World, tree[r], FALSE), "open")

\* bottom starts from any layer of the tree.
Bottoms == {Bottom(objs, tree[r]) : r \in DOMAIN tree}

\* markStale panics on a layer that is already stale.
Disable ==
    /\ mode = "open" /\ syncs < MaxSyncs /\ updates < MaxUpdates
    /\ syncs' = syncs + 1 /\ updates' = updates + 1
    /\ \E b \in Bottoms :
         IF objs[b].stale THEN Down(disk) /\ UNCHANGED crashes
         ELSE Run([Wrote(World, [disk EXCEPT !.flag = TRUE]) EXCEPT !.objs[b].stale = TRUE], "sync")

\* The state sync writes nodes in any order, and the root node after all of
\* the state is there.  Its target is ahead of every local state.
SyncNode(k, v) ==
    LET s == State(MaxUpdates + 1, v) IN
    /\ mode = "sync" /\ disk.nodes[k] /= s[k]
    /\ disk' = [disk EXCEPT !.nodes[k] = s[k]]
    /\ UNCHANGED <<objs, tree, buffer, cache, mode, held, updates, crashes, syncs>>
SyncRoot ==
    /\ mode = "sync" /\ disk.nodes.n = MaxUpdates + 1 /\ disk.root /= disk.nodes
    /\ disk' = [disk EXCEPT !.root = disk.nodes]
    /\ UNCHANGED <<objs, tree, buffer, cache, mode, held, updates, crashes, syncs>>

Reset(d) == [d EXCEPT !.hist = <<>>, !.tail = 0, !.synced = 0]
Fresh(w, root, id) ==
    [w EXCEPT !.objs = (NewId(w) :> DiskLayer(root, id)) @@ @, !.tree = (root :> NewId(w)),
              !.buffer = [layers |-> 0, nodes |-> <<>>], !.cache = <<>>]

\* Enable; its caller has finished syncing the state.
Enable ==
    LET batch == [disk EXCEPT !.journal = None, !.pid = 0]
        reset == Wrote(Wrote(World, batch), Reset(batch))
    IN  /\ mode = "sync" /\ disk.root = disk.nodes /\ disk.root.n = MaxUpdates + 1
        /\ Run(Wrote(Fresh(reset, disk.root, 0), [reset.disk EXCEPT !.flag = FALSE]), "open")
        /\ UNCHANGED <<updates, syncs>>

\* Mutant: the histories are not matched with the requested root.
Recoverable_AnyRoot(r, b) ==
    /\ r \in DOMAIN disk.ids /\ disk.ids[r] < objs[b].id
    /\ disk.ids[r] + 1 .. objs[b].id \subseteq DOMAIN disk.hist
\* Recoverable, b being the disk layer bottom returns.
Recoverable(r, b) ==
    LET id == disk.ids[r] IN
    /\ r \in DOMAIN disk.ids /\ id < objs[b].id
    /\ id + 1 .. objs[b].id \subseteq DOMAIN disk.hist
    /\ disk.hist[id + 1].parent = r
    /\ \A i \in id + 2 .. objs[b].id : disk.hist[i].parent = disk.hist[i - 1].root

\* Mutant: the reverted disk layer is not marked stale.
revert_NotStale(w, b) ==
    LET l == w.objs[b]
        h == w.disk.hist[l.id]
        next == [w EXCEPT !.objs = (NewId(w) :> DiskLayer(h.parent, l.id - 1)) @@ @, !.tree = (h.parent :> NewId(w))]
        nodes == h.origin @@ w.disk.nodes
    IN  CASE l.id \notin DOMAIN w.disk.hist \/ h.root /= l.root -> [w EXCEPT !.ok = FALSE]
          [] w.buffer.layers = 0 -> Wrote([next EXCEPT !.cache = h.origin @@ @],
                                          [w.disk EXCEPT !.nodes = nodes, !.root = nodes, !.pid = l.id - 1])
          [] w.buffer.layers = 1 -> [next EXCEPT !.buffer = [layers |-> 0, nodes |-> <<>>]]
          [] OTHER -> [next EXCEPT !.buffer = [layers |-> w.buffer.layers - 1, nodes |-> h.origin @@ w.buffer.nodes]]
\* diskLayer.revert of the disk layer b.
revert(w, b) ==
    LET l == w.objs[b]
        h == w.disk.hist[l.id]
        stale == [w EXCEPT !.objs[b].stale = TRUE]
        next == [stale EXCEPT !.objs = (NewId(w) :> DiskLayer(h.parent, l.id - 1)) @@ @, !.tree = (h.parent :> NewId(w))]
        nodes == h.origin @@ w.disk.nodes
    IN  CASE l.id \notin DOMAIN w.disk.hist \/ h.root /= l.root -> [w EXCEPT !.ok = FALSE]
          [] w.buffer.layers = 0 -> Wrote([next EXCEPT !.cache = h.origin @@ @],
                                          [w.disk EXCEPT !.nodes = nodes, !.root = nodes, !.pid = l.id - 1])
          [] w.buffer.layers = 1 -> [next EXCEPT !.buffer = [layers |-> 0, nodes |-> <<>>]]
          [] OTHER -> [next EXCEPT !.buffer = [layers |-> w.buffer.layers - 1, nodes |-> h.origin @@ w.buffer.nodes]]
RECURSIVE Reverted(_, _, _)
Reverted(w, b, r) ==
    IF w.objs[b].root = r \/ ~w.ok THEN w ELSE Reverted(revert(w, b), NewId(w), r)

\* apply reads the current state through the tree, so that nothing happens
\* from a disk layer that is stale.
Recover(r) ==
    /\ mode = "open"
    /\ \E b \in Bottoms :
         /\ Recoverable(r, b) /\ ~objs[b].stale
         /\ \E w \in {Reverted(World, b, r)} :
              LET dropped == Wrote(w, [w.disk EXCEPT !.journal = None])
              IN  Run(IF w.ok THEN truncateFromHead(dropped, w.objs[w.tree[r]].id) ELSE w, "open")
    /\ UNCHANGED <<updates, syncs>>

\* Journal of the layer i, which is looked up before the lock is taken.
JournalOf(i) ==
    LET chain == Reverse(Chain(objs, i))
        base == objs[chain[1]]
    IN  [disk |-> disk.root, root |-> base.root, id |-> base.id, nodes |-> buffer.nodes,
         diffs |-> [n \in 1 .. Len(chain) - 1 |-> [objs[chain[n + 1]] EXCEPT !.parent = 0]]]
Journal(i) ==
    /\ mode \in {"open", "sync"} /\ Readable(i)
    /\ disk' = [disk EXCEPT !.journal = JournalOf(i)]
    /\ mode' = "readonly"
    /\ UNCHANGED <<objs, tree, buffer, cache, held, updates, crashes, syncs>>

\* Close; the freezer flushes its tables.
Close ==
    /\ mode \in {"open", "sync", "readonly"}
    /\ Down([disk EXCEPT !.synced = HistHead(disk)])
    /\ UNCHANGED <<updates, crashes, syncs>>

PowerFails ==
    /\ mode \in {"open", "sync", "readonly"}
    /\ Crash({disk}, IF mode = "readonly" /\ ~LoseJournaled THEN HistHead(disk) ELSE 0)
    /\ UNCHANGED <<updates, syncs>>

\* Mutant: the transitions in the journaled buffer are not counted.
loadLayers_ZeroLayers(w) ==
    LET j == w.disk.journal
        matches == j /= None /\ j.disk = w.disk.root /\ w.disk.pid <= j.id
        n == Len(j.diffs)
        loaded == [i \in 1 .. n + 1 |-> IF i = 1 THEN DiskLayer(j.root, j.id)
                                        ELSE [j.diffs[i - 1] EXCEPT !.parent = i - 1, !.id = j.id + i - 1]]
    IN  IF ~matches THEN Fresh(w, w.disk.root, w.disk.pid)
        ELSE [w EXCEPT !.objs = loaded, !.tree = [r \in {loaded[i].root : i \in 1 .. n + 1} |->
                                                    CHOOSE i \in 1 .. n + 1 : loaded[i].root = r],
                       !.buffer = [layers |-> 0, nodes |-> j.nodes]]
\* New: the layers of the journal if it belongs to the persistent state,
\* else the persistent state alone.
loadLayers(w) ==
    LET j == w.disk.journal
        matches == j /= None /\ j.disk = w.disk.root /\ w.disk.pid <= j.id
        n == Len(j.diffs)
        loaded == [i \in 1 .. n + 1 |-> IF i = 1 THEN DiskLayer(j.root, j.id)
                                        ELSE [j.diffs[i - 1] EXCEPT !.parent = i - 1, !.id = j.id + i - 1]]
    IN  IF ~matches THEN Fresh(w, w.disk.root, w.disk.pid)
        ELSE [w EXCEPT !.objs = loaded, !.tree = [r \in {loaded[i].root : i \in 1 .. n + 1} |->
                                                    CHOOSE i \in 1 .. n + 1 : loaded[i].root = r],
                       !.buffer = [layers |-> j.id - w.disk.pid, nodes |-> j.nodes]]
repairHistory(w) ==
    IF w.objs[1].id = 0 THEN IF HistHead(w.disk) /= 0 THEN Wrote(w, Reset(w.disk)) ELSE w
    ELSE truncateFromHead(w, w.objs[1].id)
Open ==
    /\ mode = "down"
    /\ \E w \in {repairHistory(loadLayers(World))} :
         Run([w EXCEPT !.objs[1].stale = disk.flag], IF disk.flag THEN "sync" ELSE "open")
    /\ UNCHANGED <<updates, syncs>>

\* A reader takes a layer and keeps it, and reads nodes into the clean cache.
Hold(r) ==
    /\ mode \in {"open", "sync", "readonly"} /\ held = 0
    /\ held' = tree[r]
    /\ UNCHANGED <<objs, tree, buffer, cache, disk, mode, updates, crashes, syncs>>
Read(k) ==
    /\ held /= 0 /\ Readable(held)
    /\ k \notin DOMAIN buffer.nodes \cup DOMAIN cache
    /\ \A i \in Range(Chain(objs, held)) : k \notin DOMAIN objs[i].nodes
    /\ cache' = (k :> disk.nodes[k]) @@ cache
    /\ UNCHANGED <<objs, tree, buffer, disk, mode, held, updates, crashes, syncs>>
Release ==
    /\ held /= 0
    /\ Finish(World, 0) /\ UNCHANGED <<mode, updates, crashes, syncs>>

Next ==
    \/ \E p \in DOMAIN tree, v \in Values, full \in BOOLEAN : Update(p, v, full)
    \/ \E r \in DOMAIN tree : Commit(r)
    \/ Disable
    \/ \E k \in Keys, v \in Values : SyncNode(k, v)
    \/ SyncRoot
    \/ Enable
    \/ \E r \in DOMAIN disk.ids : Recover(r)
    \/ \E i \in Range(tree) \cup ({held} \ {0}) : Journal(i)
    \/ Close
    \/ PowerFails
    \/ Open
    \/ \E r \in DOMAIN tree : Hold(r)
    \/ \E k \in Keys : Read(k)
    \/ Release

Spec == Init /\ [][Next]_vars

----
(***************************************************************************)
(* Properties                                                              *)
(***************************************************************************)
\* Layers, ids and counters have their types, and every layer of the tree is
\* filed under its own root.
TypeOK ==
    /\ mode \in {"open", "sync", "readonly", "down", "broken"}
    /\ DOMAIN tree \subseteq States /\ Range(tree) \subseteq DOMAIN objs
    /\ \A r \in DOMAIN tree : objs[tree[r]].root = r
    /\ held \in DOMAIN objs \cup {0}
    /\ buffer.layers \in Nat /\ DOMAIN buffer.nodes \subseteq Keys /\ DOMAIN cache \subseteq Keys
    /\ disk.nodes \in [Keys -> Nat] /\ disk.pid \in Nat /\ DOMAIN disk.hist = disk.tail + 1 .. HistHead(disk)

\* Every layer an open database offers reads, node by node, exactly the state
\* of its root, whatever was buffered, flushed, reverted, journaled, synced or
\* lost before, or reports that it is stale; the disk layer under the others is
\* filed in the tree and reads its root.
Reads(i, s) == \A k \in Keys : node(i, k) = s[k]
ReadsRoot ==
    mode \in {"open", "readonly"} =>
        /\ \A r \in DOMAIN tree : Reads(tree[r], r) \/ ~Readable(tree[r])
        /\ \E r \in DOMAIN tree : objs[tree[r]].disk /\ Reads(tree[r], r)

\* As cap promises, no layer of the tree links into a stale disk layer.
NoStaleLinks == mode = "open" => \A r \in DOMAIN tree : Readable(tree[r])

\* A layer a reader kept across later operations still reads its own state or
\* reports that it is stale; it never shows a mixture of two states.
HeldReads == held /= 0 => \A k \in Keys : node(held, k) \in {objs[held].root[k], errSnapshotStale}

\* No reader is ever given a node of another state, be it through the tree or
\* through a layer it held on to.
ReadsSound == TypeOK /\ ReadsRoot /\ HeldReads

\* No sequence of operations and crashes makes an operation fail half way or
\* leaves a disk New refuses: the histories on disk always reach from at most
\* to at least the state that is loaded.
NeverBroken == mode /= "broken"

\* The buffer holds exactly the transitions between the persistent state and
\* the disk layer, and the newest history is the disk layer's.
BufferAligned ==
    mode = "open" => \A b \in {c \in Bottoms : ~objs[c].stale} :
        /\ objs[b].id = disk.pid + buffer.layers
        /\ HistHead(disk) = objs[b].id

\* Whatever was interrupted, the histories, the persistent state and the buffer
\* join up, and no start fails on them.
HistoriesSound == NeverBroken /\ BufferAligned

\* The state the histories from number from down to to lead back to.
RECURSIVE Undone(_, _, _)
Undone(s, from, to) == IF from = to THEN s ELSE Undone(disk.hist[from].origin @@ s, from - 1, to)

\* A state Recoverable accepts is the one the histories lead back to.
RecoverableSound ==
    mode = "open" => \A b \in Bottoms, r \in DOMAIN disk.ids :
        Recoverable(r, b) => Undone(objs[b].root, objs[b].id, disk.ids[r]) = r

\* The states with a history above the tail stay recoverable: an entry that
\* is still in the root to id table suffices, and only a crash loses one.
KeepsRecoverable ==
    mode = "open" => \A b \in {c \in Bottoms : ~objs[c].stale} : \A i \in disk.tail + 1 .. objs[b].id :
        LET r == disk.hist[i].parent
        IN  \/ Recoverable(r, b)
            \/ i = disk.tail + 1 /\ i > 1
            \/ crashes > 0 /\ r \notin DOMAIN disk.ids
====
