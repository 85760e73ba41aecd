---- MODULE MCLegacyPool ----
\* Instances of LegacyPool for TLC.
EXTENDS LegacyPool

\* Account 1 pays 1 or 3 a transaction, account 2 pays 2 or 4.
Tx(a, n, p) == [from |-> a, nonce |-> n, price |-> p]
MCTxs == {Tx(1, n, 1) : n \in 0 .. 3} \cup {Tx(1, 0, 3), Tx(2, 0, 2), Tx(2, 1, 2), Tx(2, 1, 4)}
MCMined == {Tx(2, 0, 2)}
MCStarts == {<<{Tx(1, 0, 1), Tx(1, 1, 1), Tx(1, 2, 1), Tx(2, 0, 2)}, {}>>,
             <<{Tx(1, 0, 1), Tx(1, 1, 1), Tx(2, 0, 2), Tx(2, 1, 4)}, {Tx(1, 3, 1)}>>}
====
