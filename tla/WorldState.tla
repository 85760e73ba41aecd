---- MODULE WorldState ----
(***************************************************************************)
(* What the EVM's state promises, with no journal, cache or trie: a world  *)
(* is a map of accounts, an open call keeps a copy of the world it started *)
(* from, and a call that fails puts its copy back.                         *)
(*                                                                         *)
(* An account that does not exist is <<>>.  The refund counter may change  *)
(* in any step; only its return to an earlier value is specified.          *)
(***************************************************************************)
EXTENDS Integers, Sequences, SequencesExt

CONSTANTS Addrs, Keys, Precompiles, Sender, Coinbase, NewContract

VARIABLES
    rules,   \* the fork whose rules apply
    w,       \* the world: accounts, warm addresses and slots, transient slots, logs, refund
    calls,   \* the open calls: kind, address, read-only, the world before
    inTx     \* a transaction is being executed

vars == <<rules, w, calls, inTx>>

AccessLists == rules /= "spurious"
Zeroes == [k \in Keys |-> 0]
Blank == [nonce |-> 0, bal |-> 0, code |-> 0, slots |-> Zeroes, orig |-> Zeroes, fresh |-> FALSE, dead |-> FALSE]

Acct(x, a) == IF x.accts[a] = <<>> THEN Blank ELSE x.accts[a][1]
WithAcct(x, a, acct) == [x EXCEPT !.accts[a] = <<acct>>]
EmptyAcct(acct) == acct.nonce = 0 /\ acct.bal = 0 /\ acct.code = 0

Credit(x, a, v) == WithAcct(x, a, [Acct(x, a) EXCEPT !.bal = @ + v])
Pay(x, from, to, v) == Credit(Credit(x, from, -v), to, v)
NonceUp(x, a) == WithAcct(x, a, [Acct(x, a) EXCEPT !.nonce = @ + 1])
Warm(x, a) == IF AccessLists THEN [x EXCEPT !.warm = @ \cup {a}] ELSE x
WarmSlot(x, a, k) == IF AccessLists THEN [x EXCEPT !.warm = @ \cup {a}, !.warmSlots = @ \cup {<<a, k>>}] ELSE x

\* Equal up to the refund counter.
Becomes(x) == w' = [x EXCEPT !.refund = w'.refund]

Top == Last(calls)
Open(kind, self, ro, before) == calls' = Append(calls, [kind |-> kind, self |-> self, ro |-> ro, before |-> before])
InCall == inTx /\ calls /= <<>> /\ UNCHANGED <<rules, inTx>>
Writing == InCall /\ ~Top.ro

-----------------------------------------------------------------------------
\* A call moves its value and then runs the code there, if any, or fails.
Call(x, caller, a, v, ro) ==
    LET y == Pay(x, caller, a, v)
    IN  \/ x.accts[a] = <<>> /\ a \notin Precompiles /\ v = 0 /\ w' = x /\ calls' = calls
        \/ /\ ~(x.accts[a] = <<>> /\ a \notin Precompiles /\ v = 0)
           /\ IF a \notin Precompiles /\ Acct(y, a).code /= 0
              THEN w' = y /\ Open("call", a, ro, x)
              ELSE calls' = calls /\ (w' = y \/ (a \in Precompiles /\ w' = x))

\* A creation at an address with a nonce, code or storage fails.
Create(x, caller, v) ==
    LET a == NewContract
        y == Warm(NonceUp(x, caller), a)
        made == [Acct(y, a) EXCEPT !.nonce = 1, !.fresh = TRUE]
    IN  IF Acct(y, a).nonce /= 0 \/ Acct(y, a).code /= 0
        THEN w' = y /\ calls' = calls
        ELSE w' = Pay(WithAcct(y, a, made), caller, a, v) /\ Open("create", a, FALSE, y)

OpCall ==
    InCall /\ \E a \in Addrs, v \in 0 .. Acct(w, Top.self).bal :
                  /\ Top.ro => v = 0
                  /\ Call(Warm(w, a), Top.self, a, v, Top.ro)
OpStaticCall ==
    InCall /\ \E a \in Addrs :
                  LET y == Credit(Warm(w, a), a, 0)
                  IN  IF a \notin Precompiles /\ Acct(y, a).code /= 0
                      THEN w' = y /\ Open("call", a, TRUE, Warm(w, a))
                      ELSE calls' = calls /\ (w' = y \/ (a \in Precompiles /\ w' = Warm(w, a)))
OpDelegateCall == InCall /\ \E a \in Addrs : w' = Warm(w, a) /\ Open("call", Top.self, Top.ro, w')
OpCreate == Writing /\ \E v \in 0 .. Acct(w, Top.self).bal : Create(w, Top.self, v)
\* A call or a creation that is refused before it starts.
OpRefused == InCall /\ (w' = w \/ \E a \in Addrs : w' = Warm(w, a)) /\ calls' = calls

OpSstore == Writing /\ calls' = calls
            /\ \E k \in Keys, v \in 0 .. 2 :
                   Becomes(WarmSlot(WithAcct(w, Top.self, [Acct(w, Top.self) EXCEPT !.slots[k] = v]), Top.self, k))
OpSload == InCall /\ calls' = calls /\ \E k \in Keys : w' = WarmSlot(w, Top.self, k)
OpTstore == Writing /\ calls' = calls /\ \E k \in Keys, v \in 0 .. 2 : w' = [w EXCEPT !.transient[Top.self][k] = v]
OpLog == Writing /\ calls' = calls /\ w' = [w EXCEPT !.logs = Append(@, Len(@))]

\* The balance goes to the heir; from Cancun on only a contract of this
\* transaction dies.
OpSelfdestruct ==
    /\ Writing
    /\ \E heir \in Addrs :
        LET bal == Acct(w, Top.self).bal
            x == Pay(Warm(w, heir), Top.self, heir, bal)
            dies == rules /= "cancun" \/ Acct(x, Top.self).fresh
        IN  Becomes(IF dies THEN WithAcct(x, Top.self, [Acct(x, Top.self) EXCEPT !.bal = 0, !.dead = TRUE]) ELSE x)
    /\ calls' = Front(calls)

Return ==
    /\ InCall
    /\ calls' = Front(calls)
    /\ IF Top.kind = "create"
       THEN \E code \in {0, 1} : w' = WithAcct(w, Top.self, [Acct(w, Top.self) EXCEPT !.code = code])
       ELSE w' = w

ReturnError == InCall /\ calls' = Front(calls) /\ w' = Top.before

-----------------------------------------------------------------------------
Begun(dst, paid) ==
    [Credit(w, Sender, -paid) EXCEPT
        !.warm = IF AccessLists THEN {Sender} \cup Precompiles \cup dst \cup (IF rules = "cancun" THEN {Coinbase} ELSE {}) ELSE @,
        !.warmSlots = {},
        !.transient = [a \in Addrs |-> Zeroes]]

BeginTx ==
    /\ ~inTx /\ inTx' = TRUE /\ rules' = rules
    /\ \E paid \in 0 .. 1, v \in 0 .. 1 :
        /\ paid + v <= Acct(w, Sender).bal
        /\ \/ \E to \in Addrs : Call(NonceUp(Begun({to}, paid), Sender), Sender, to, v, FALSE)
           \/ Create(Begun({}, paid), Sender, v)

\* Dead and empty accounts disappear with their storage; the slots of the others
\* become the original values of the next transaction.
Settled(x) ==
    [x EXCEPT
        !.accts = [a \in Addrs |-> IF x.accts[a] = <<>> \/ Acct(x, a).dead \/ EmptyAcct(Acct(x, a)) THEN <<>>
                                   ELSE <<[Acct(x, a) EXCEPT !.orig = Acct(x, a).slots, !.fresh = FALSE]>>],
        !.refund = 0]

EndTx ==
    /\ inTx /\ calls = <<>> /\ inTx' = FALSE
    /\ UNCHANGED <<rules, calls>>
    /\ \E left, fee \in 0 .. 1 : w' = Settled(Credit(Credit(w, Sender, left), Coinbase, fee))

\* A block ends: at most a reward is paid; the logs belong to the block.
EndBlock ==
    /\ ~inTx /\ UNCHANGED <<rules, calls, inTx>>
    /\ \E reward \in 0 .. 1 :
        w' = [Settled(IF reward = 0 THEN w ELSE Credit(w, Coinbase, reward)) EXCEPT
                !.logs = <<>>, !.warm = {}, !.warmSlots = {}, !.transient = [a \in Addrs |-> Zeroes]]

Next ==
    \/ BeginTx \/ EndTx \/ EndBlock
    \/ OpCall \/ OpStaticCall \/ OpDelegateCall \/ OpCreate \/ OpRefused
    \/ OpSstore \/ OpSload \/ OpTstore \/ OpLog \/ OpSelfdestruct \/ Return \/ ReturnError

\* No account is empty when a behaviour starts.
Init ==
    /\ rules \in {"spurious", "berlin", "cancun"}
    /\ \A a \in Addrs : w.accts[a] /= <<>> => ~EmptyAcct(Acct(w, a)) /\ ~Acct(w, a).dead
    /\ w.warm = {} /\ w.refund = 0 /\ w.logs = <<>>
    /\ calls = <<>> /\ inTx = FALSE

Spec == Init /\ [][Next]_vars
====
