---- MODULE Trie ----
(***************************************************************************)
(* The Merkle Patricia trie (trie/trie.go, tracer.go, committer.go): pure  *)
(* operators over its nodes, for every trie of the state (the account trie *)
(* and the storage tries).                                                 *)
(*                                                                         *)
(* A key is a sequence of nibbles closed by the terminator 16, all keys of *)
(* a trie having one length.  The hash of a node is the node with all it   *)
(* refers to, which is injective as the hash is assumed to be; no node is  *)
(* small enough to be embedded in its parent.  disk is what the database   *)
(* holds for the trie: a function from paths to hashed nodes.              *)
(***************************************************************************)
EXTENDS Integers, Sequences, FiniteSets, SequencesExt, Functions, TLC

CONSTANT Nibbles

terminator == 16

\* node.go: the kinds of nodes.  A short or full node carries its dirty flag.
nilNode == [t |-> "nil"]
valueNode(v) == [t |-> "value", v |-> v]
shortNode(key, val, dirty) == [t |-> "short", key |-> key, val |-> val, dirty |-> dirty]
fullNode(children, dirty) == [t |-> "full", ch |-> children, dirty |-> dirty]
hashNode(n) == [t |-> "hash", of |-> n]

EmptyRootHash == nilNode

\* hasher.go: the hash of a node, in which every reference is followed.
RECURSIVE hash(_)
hash(n) == CASE n.t = "hash"  -> n.of
             [] n.t = "short" -> shortNode(n.key, hash(n.val), FALSE)
             [] n.t = "full"  -> fullNode([i \in DOMAIN n.ch |-> hash(n.ch[i])], FALSE)
             [] OTHER         -> n

\* decodeNode: the node stored under a hash refers to its children by hash.
Ref(n) == IF n.t \in {"nil", "value"} THEN n ELSE hashNode(n)
decodeNode(n) == IF n.t = "short" THEN shortNode(n.key, Ref(n.val), FALSE)
                                  ELSE fullNode([i \in DOMAIN n.ch |-> Ref(n.ch[i])], FALSE)

-----------------------------------------------------------------------------
\* tracer.go: which paths came into being, which ceased to, which were read.
\* missing records that a node could not be read (MissingNodeError).
newTracer == [inserts |-> {}, deletes |-> {}, accessList |-> {}, missing |-> FALSE]

onInsert(tr, path) == IF path \in tr.deletes THEN [tr EXCEPT !.deletes = @ \ {path}]
                                             ELSE [tr EXCEPT !.inserts = @ \cup {path}]

onDelete(tr, path) == IF path \in tr.inserts THEN [tr EXCEPT !.inserts = @ \ {path}]
                                             ELSE [tr EXCEPT !.deletes = @ \cup {path}]

deletedNodes(tr) == tr.deletes \cap tr.accessList

\* resolveAndTrack: the tracer after reading the node n refers to at path.
Readable(disk, n, path) == path \in DOMAIN disk /\ disk[path] = n.of
resolveAndTrack(disk, tr, n, path) ==
    IF Readable(disk, n, path) THEN [tr EXCEPT !.accessList = @ \cup {path}]
                               ELSE [tr EXCEPT !.missing = TRUE]

\* A trie: its root node and its tracer.
New(disk, root) ==
    IF root = EmptyRootHash THEN [root |-> nilNode, tracer |-> newTracer]
    ELSE [root |-> decodeNode(root), tracer |-> resolveAndTrack(disk, newTracer, hashNode(root), <<>>)]

-----------------------------------------------------------------------------
prefixLen(a, b) == Cardinality({i \in 1 .. IF Len(a) < Len(b) THEN Len(a) ELSE Len(b) :
                                    SubSeq(a, 1, i) = SubSeq(b, 1, i)})
Drop(s, n) == SubSeq(s, n + 1, Len(s))

Result(dirty, n, tr) == [dirty |-> dirty, n |-> n, tr |-> tr]

RECURSIVE insert(_, _, _, _, _, _)
insert(disk, tr, n, prefix, key, value) ==
    IF key = <<>> THEN Result(n /= value, value, tr)
    ELSE CASE n.t = "nil" -> Result(TRUE, shortNode(key, value, TRUE), onInsert(tr, prefix))
           [] n.t = "short" ->
                LET m == prefixLen(key, n.key)
                    below == insert(disk, tr, n.val, prefix \o SubSeq(key, 1, m), Drop(key, m), value)
                    old == insert(disk, tr, nilNode, prefix \o SubSeq(n.key, 1, m + 1), Drop(n.key, m + 1), n.val)
                    new == insert(disk, old.tr, nilNode, prefix \o SubSeq(key, 1, m + 1), Drop(key, m + 1), value)
                    branch == fullNode([i \in Nibbles |-> CASE i = n.key[m + 1] -> old.n
                                                            [] i = key[m + 1] -> new.n
                                                            [] OTHER -> nilNode], TRUE)
                IN  CASE m = Len(n.key) /\ ~below.dirty -> Result(FALSE, n, below.tr)
                      [] m = Len(n.key) /\ below.dirty -> Result(TRUE, shortNode(n.key, below.n, TRUE), below.tr)
                      [] m < Len(n.key) /\ m = 0 -> Result(TRUE, branch, new.tr)
                      [] OTHER -> Result(TRUE, shortNode(SubSeq(key, 1, m), branch, TRUE),
                                         onInsert(new.tr, prefix \o SubSeq(key, 1, m)))
           [] n.t = "full" ->
                LET below == insert(disk, tr, n.ch[Head(key)], Append(prefix, Head(key)), Tail(key), value)
                IN  IF below.dirty THEN Result(TRUE, fullNode([n.ch EXCEPT ![Head(key)] = below.n], TRUE), below.tr)
                                   ELSE Result(FALSE, n, below.tr)
           [] n.t = "hash" ->
                insert(disk, resolveAndTrack(disk, tr, n, prefix), decodeNode(n.of), prefix, key, value)

-----------------------------------------------------------------------------
\* Mutant: the child a short node absorbs is not recorded as deleted.
Reduced_NotDeleted(disk, tr, n, prefix, pos) ==
    LET child == n.ch[pos]
        path == Append(prefix, pos)
        tr2 == IF child.t = "hash" THEN resolveAndTrack(disk, tr, child, path) ELSE tr
        cnode == IF child.t = "hash" THEN decodeNode(child.of) ELSE child
    IN  IF cnode.t = "short" THEN Result(TRUE, shortNode(<<pos>> \o cnode.key, cnode.val, TRUE), tr2)
                             ELSE Result(TRUE, shortNode(<<pos>>, child, TRUE), tr2)

\* A full node left with one child becomes a short node, or merges with it.
Reduced(disk, tr, n, prefix, pos) ==
    LET child == n.ch[pos]
        path == Append(prefix, pos)
        tr2 == IF child.t = "hash" THEN resolveAndTrack(disk, tr, child, path) ELSE tr
        cnode == IF child.t = "hash" THEN decodeNode(child.of) ELSE child
    IN  IF cnode.t = "short" THEN Result(TRUE, shortNode(<<pos>> \o cnode.key, cnode.val, TRUE), onDelete(tr2, path))
                             ELSE Result(TRUE, shortNode(<<pos>>, child, TRUE), tr2)

Live(ch) == {i \in DOMAIN ch : ch[i] /= nilNode}

RECURSIVE delete(_, _, _, _, _)
delete(disk, tr, n, prefix, key) ==
    CASE n.t = "nil" -> Result(FALSE, nilNode, tr)
      [] n.t = "value" -> Result(TRUE, nilNode, tr)
      [] n.t = "short" ->
            LET m == prefixLen(key, n.key)
                below == delete(disk, tr, n.val, prefix \o n.key, Drop(key, m))
            IN  CASE m < Len(n.key) -> Result(FALSE, n, tr)
                  [] m = Len(key) -> Result(TRUE, nilNode, onDelete(tr, prefix))
                  [] OTHER -> IF ~below.dirty THEN Result(FALSE, n, below.tr)
                              ELSE IF below.n.t = "short"
                              THEN Result(TRUE, shortNode(n.key \o below.n.key, below.n.val, TRUE), onDelete(below.tr, prefix \o n.key))
                              ELSE Result(TRUE, shortNode(n.key, below.n, TRUE), below.tr)
      [] n.t = "full" ->
            LET below == delete(disk, tr, n.ch[Head(key)], Append(prefix, Head(key)), Tail(key))
                cut == fullNode([n.ch EXCEPT ![Head(key)] = below.n], TRUE)
            IN  CASE ~below.dirty -> Result(FALSE, n, below.tr)
                  [] below.dirty /\ below.n = nilNode /\ Cardinality(Live(cut.ch)) = 1 ->
                        Reduced(disk, below.tr, cut, prefix, CHOOSE i \in Live(cut.ch) : TRUE)
                  [] OTHER -> Result(TRUE, cut, below.tr)
      [] n.t = "hash" ->
            delete(disk, resolveAndTrack(disk, tr, n, prefix), decodeNode(n.of), prefix, key)

\* A lookup that fails leaves n as it is, with the nodes it read recorded; the
\* root is replaced by whatever insert or delete return.
Update(disk, trie, key, v) ==
    LET r == insert(disk, trie.tracer, trie.root, <<>>, Append(key, terminator), valueNode(v))
    IN  [root |-> r.n, tracer |-> r.tr]

Delete(disk, trie, key) ==
    LET r == delete(disk, trie.tracer, trie.root, <<>>, Append(key, terminator))
    IN  [root |-> r.n, tracer |-> r.tr]

-----------------------------------------------------------------------------
\* committer.go: the dirty nodes below n with their paths.
RECURSIVE Collected(_, _)
Collected(path, n) ==
    CASE n.t = "short" /\ n.dirty -> {<<path, hash(n)>>} \cup Collected(path \o n.key, n.val)
      [] n.t = "full" /\ n.dirty -> {<<path, hash(n)>>} \cup UNION {Collected(Append(path, i), n.ch[i]) : i \in DOMAIN n.ch}
      [] OTHER -> {}

\* The nodes a trie consists of, given by its root hash.
RECURSIVE NodesBelow(_, _)
NodesBelow(path, n) ==
    CASE n.t = "short" -> {<<path, n>>} \cup NodesBelow(path \o n.key, n.val)
      [] n.t = "full" -> {<<path, n>>} \cup UNION {NodesBelow(Append(path, i), n.ch[i]) : i \in DOMAIN n.ch}
      [] OTHER -> {}
NodesOf(root) == NodesBelow(<<>>, root)

\* The content of a trie: the values at its leaves, by key.
RECURSIVE LeavesBelow(_, _)
LeavesBelow(path, n) ==
    CASE n.t = "value" -> (Front(path) :> n.v)
      [] n.t = "short" -> LeavesBelow(path \o n.key, n.val)
      [] n.t = "full" -> FoldSet(LAMBDA i, f : LeavesBelow(Append(path, i), n.ch[i]) @@ f, <<>>, DOMAIN n.ch)
      [] OTHER -> <<>>

\* A set of <<path, node>> pairs as a function; nilNode marks a deletion.
AsNodes(pairs) == [p \in {x[1] : x \in pairs} |-> (CHOOSE x \in pairs : x[1] = p)[2]]
NewDeleted(paths) == [p \in paths |-> nilNode]

\* The node set of a commit, <<>> when there is none.  A path both deleted and
\* stored is stored: the committer adds its nodes after the deletions.
Commit(trie) ==
    CASE trie.root = nilNode -> NewDeleted(deletedNodes(trie.tracer))
      [] trie.root /= nilNode /\ ~trie.root.dirty -> <<>>
      [] OTHER -> AsNodes(Collected(<<>>, trie.root)) @@ NewDeleted(deletedNodes(trie.tracer))

\* What the database holds once a node set is applied.
Applied(disk, set) == LET all == set @@ disk IN Restrict(all, {p \in DOMAIN all : all[p] /= nilNode})

-----------------------------------------------------------------------------
(***************************************************************************)
(* The reference: the one trie of a content, a function from keys to       *)
(* values, defined from the shape of its keys and not by updates.          *)
(***************************************************************************)
RECURSIVE TrieFrom(_, _, _)
TrieFrom(content, keys, depth) ==
    LET common == {d \in depth .. Len(CHOOSE k \in keys : TRUE) : \A j, k \in keys : SubSeq(j, 1, d) = SubSeq(k, 1, d)}
        d == CHOOSE x \in common : \A y \in common : y <= x
        k == CHOOSE k \in keys : TRUE
        full == fullNode([i \in Nibbles |-> TrieFrom(content, {x \in keys : x[d + 1] = i}, d + 1)], FALSE)
    IN  CASE keys = {} -> nilNode
          [] Cardinality(keys) = 1 -> shortNode(Append(SubSeq(k, depth + 1, Len(k)), terminator), valueNode(content[k]), FALSE)
          [] Cardinality(keys) > 1 /\ d > depth -> shortNode(SubSeq(k, depth + 1, d), full, FALSE)
          [] OTHER -> full
TrieOf(content) == TrieFrom(content, DOMAIN content, 0)
====
