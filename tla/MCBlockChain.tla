---------------------------- MODULE MCBlockChain ----------------------------
(* Two forks from the genesis block, the first one longer. *)
EXTENDS BlockChain, TLC

CONSTANTS g, a1, a2, a3, a4, c1, c2

LongFork == {g, a1, a2, a3, a4, c1, c2}

ShortFork == LongFork \ {a4}

LongParent == (a1 :> g) @@ (a2 :> a1) @@ (a3 :> a2) @@ (a4 :> a3)
                @@ (c1 :> g) @@ (c2 :> c1)

ShortParent == [b \in ShortFork \ {g} |-> LongParent[b]]

(* The second fork starts at a1. *)
MidParent == [ShortParent EXCEPT ![c1] = a1]

Node(who, all, depth, downs, sets) ==
    [clients |-> who, archive |-> all, immutable |-> depth,
     downs |-> downs, rewinds |-> sets]

(* An archive node that every client uses, one that is restarted while it  *)
(* freezes, and a pruning node, too young to freeze, that is rewound.      *)
ThreeNodes ==
    {Node({"sync", "payload", "choice"}, TRUE, 3, 0, 0),
     Node({"sync"}, TRUE, 3, 1, 0),
     Node({"sync"}, FALSE, 9, 1, 1)}

(* A pruning node that freezes and is restarted. *)
PruningNode == {Node({"sync"}, FALSE, 3, 1, 0)}

(* Nodes of the disagreements. *)
KnownNode  == {Node({"sync", "payload"}, FALSE, 3, 0, 0)}
PrunedNode == {Node({"payload", "choice"}, FALSE, 3, 0, 0)}
ReorgNode  == {Node({"sync"}, TRUE, 3, 1, 0)}
ResetNode  == {Node({"sync"}, FALSE, 2, 1, 1)}
=============================================================================
