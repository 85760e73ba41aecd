---- MODULE MCEVM ----
EXTENDS EVM

\* Two nibbles suffice for every shape of a trie node.
MCNibbles == {0, 1}

\* Addresses: the sender, a factory, the contract it creates, and the precompile
\* that is also the coinbase; the last two share a prefix.
s == <<0, 0>>
f == <<0, 1>>
c == <<1, 0>>
r == <<1, 1>>
MCAddrs == {s, f, c, r}
k1 == <<0, 0>>
k2 == <<0, 1>>
k3 == <<1, 0>>
MCKeys == {k1, k2, k3}
A(nonce, bal, code, storage) == [nonce |-> nonce, bal |-> bal, code |-> code, storage |-> storage]
Orders == {<<s, f, c, r>>, <<r, c, f, s>>}

Base ==
    [rules |-> "berlin", ops |-> {}, maxOps |-> 3, maxTxs |-> 2, maxBlocks |-> 2, depth |-> 2, gas |-> 0,
     targets |-> {c}, txTargets |-> {f}, values |-> {0}, keys |-> {k1}, slotValues |-> {0, 1}, heirs |-> {r},
     rewards |-> {0}, orders |-> {<<s, f, c, r>>},
     accounts |-> (s :> A(0, 2, 0, <<>>)) @@ (f :> A(1, 0, 1, <<>>))]

\* A contract with two slots.
WithContract(b) == b @@ (c :> A(1, 1, 1, (k1 :> 1) @@ (k2 :> 1)))

\* Slots of one contract written over transactions and blocks.
Slots == [Base EXCEPT !.ops = {"sstore"}, !.keys = MCKeys, !.txTargets = {c}, !.accounts = WithContract(@)]

\* A contract destroyed and created again, with its slots, within a block.
Rebirth == [Base EXCEPT !.ops = {"selfdestruct", "create2", "sstore"}, !.keys = {k1, k3}, !.txTargets = {c, f},
                        !.maxOps = 4, !.maxBlocks = 1, !.orders = Orders, !.accounts = WithContract(@)]

\* The same within one transaction, with value and calls between contracts.
Nested == [Base EXCEPT !.ops = {"call", "selfdestruct", "create2", "sstore"}, !.values = {0, 1}, !.targets = {c, r}, !.heirs = {c, r},
                       !.depth = 3, !.maxOps = 3, !.maxTxs = 1, !.maxBlocks = 1,
                       !.accounts = (s :> A(0, 2, 0, <<>>)) @@ (f :> A(1, 1, 1, (k1 :> 1)))]

\* Warm addresses and slots through failing calls.
Access == [Base EXCEPT !.ops = {"call", "sload", "ext"}, !.keys = {k1, k2}, !.targets = {c, f}, !.depth = 3, !.maxOps = 5,
                       !.maxTxs = 1, !.maxBlocks = 1, !.accounts = WithContract(@)]

\* The other kinds of calls, transient slots and logs.
Calls == [Base EXCEPT !.rules = "cancun", !.ops = {"call", "delegate", "static", "tstore", "log"}, !.targets = {c, r},
                      !.depth = 3, !.maxOps = 4, !.maxBlocks = 1, !.accounts = WithContract(@)]

\* Touched and emptied accounts, a paid fee, a contract created by a transaction.
Touched == [Base EXCEPT !.rules = "spurious", !.ops = {"call", "txcreate", "selfdestruct"}, !.values = {0, 1}, !.targets = {c, r},
                        !.txTargets = {r, c, f}, !.heirs = {c, r}, !.gas = 1, !.maxOps = 2, !.maxTxs = 2, !.rewards = {0, 1}, !.orders = Orders]

MCSetups ==
    {Slots, Rebirth, Nested, Access, Calls, Touched}
    \cup {[b EXCEPT !.rules = "spurious"] : b \in {Slots, Rebirth}} \cup {[Nested EXCEPT !.rules = "cancun"]}
====
