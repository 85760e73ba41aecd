---- MODULE LegacyPool ----
(***************************************************************************)
(* The transaction pool for ordinary transactions (core/txpool/legacypool) *)
(* with the reset loop of the main pool (core/txpool/txpool.go): pending   *)
(* and queued lists by account, the lookup of all transactions, the two    *)
(* price heaps, virtual nonces, address reservations, and the background   *)
(* reorganisation of the pool.                                             *)
(*                                                                         *)
(* A transaction is its own hash; its price is fee cap and tip, its cost   *)
(* is its price, and it takes one slot.  A head of the chain is the        *)
(* sequence of its blocks, each the set of its transactions, and fixes the *)
(* nonce and the balance of every account.  Operations that hold the       *)
(* pool's lock are one step; they are written on the record p of the       *)
(* state that lock protects.                                               *)
(***************************************************************************)
EXTENDS Integers, Sequences, FiniteSetsExt, SequencesExt, BagsExt, TLC

CONSTANTS Txs,            \* the transactions, [from, nonce, price]
          LocalAddrs,     \* accounts whose transactions may be submitted as local
          StartBalance,   \* balance of an account before the first block
          PriceBump, AccountSlots, GlobalSlots, AccountQueue, GlobalQueue,
          MaxReorg,       \* depth of the reorganisations whose transactions return (64)
          Tips,           \* minimum tips the operator sets
          Starts,         \* what the pool may hold at first: <<pending, queued>>
          Mined,          \* transactions that blocks include
          MaxAdds,        \* bound: calls of Add
          MaxAsked,       \* bound: calls of Add between their unlock and their request
          MaxHeads,       \* bound: head events
          MaxBlocks,      \* bound: length of the chain
          MaxTicks        \* bound: changes of the tip and evictions

Addrs == {t.from : t \in Txs}

\* No two accounts pay the same price, so that the heaps have no ties.
ASSUME PoolAssumption ==
    /\ AccountSlots > 0 /\ GlobalSlots > 0
    /\ \A s, t \in Txs : s.price = t.price => s.from = t.from

VARIABLES pool,      \* what the pool's lock protects
          next,      \* scheduleReorgLoop: the next run, [reset, dirty, launch]
          cur,       \* the run in progress, with done once it has finished; or None
          asked,     \* bag of the dirty sets of Add calls about to request a promotion
          head,      \* head of the chain
          gone,      \* heads whose blocks SetHead has removed
          oldHead,   \* TxPool.loop: head of the last finished reset
          busy,      \* TxPool.loop: a reset is running
          sent,      \* transactions announced on the feed
          deleted,   \* history: SetHead has been called
          adds, heads, ticks

vars == <<pool, next, cur, asked, head, gone, oldHead, busy, sent, deleted, adds, heads, ticks>>

None == <<>>
Cost(t) == t.price
OfAddr(S, a) == {t \in S : t.from = a}
Included(h) == UNION {h[i] : i \in DOMAIN h}
NonceAt(h, a) == Cardinality(OfAddr(Included(h), a))
BalanceAt(h, a) == StartBalance - MapThenSumSet(Cost, OfAddr(Included(h), a))

----
(***************************************************************************)
(* list: a set of transactions with different nonces, and the cached       *)
(* highest cost.                                                           *)
(***************************************************************************)
newList == [txs |-> {}, costcap |-> 0]
AtNonce(l, n) == {t \in l.txs : t.nonce = n}
LastElement(S) == CHOOSE t \in S : \A s \in S : s.nonce <= t.nonce
First(S) == CHOOSE t \in S : \A s \in S : t.nonce <= s.nonce
Without(l, S) == [l EXCEPT !.txs = @ \ S]

\* Whether Add takes t: nothing has its nonce, or its price bumps what has.
Takes(l, t) ==
    \A old \in AtNonce(l, t.nonce) : t.price > old.price /\ t.price >= (old.price * (100 + PriceBump)) \div 100
\* Mutant: Add does not raise the cost cap.
ListAdd_NoCap(l, t) == [l EXCEPT !.txs = (@ \ AtNonce(l, t.nonce)) \cup {t}]
ListAdd(l, t) == [txs |-> (l.txs \ AtNonce(l, t.nonce)) \cup {t}, costcap |-> Max({l.costcap, Cost(t)})]

Forwards(l, n) == {t \in l.txs : t.nonce < n}

\* Filter: what the balance does not cover, and in a strict list what follows.
Costly(l, balance) == IF l.costcap <= balance THEN {} ELSE {t \in l.txs : Cost(t) > balance}
Invalids(l, balance) == {t \in l.txs \ Costly(l, balance) : \E s \in Costly(l, balance) : t.nonce > s.nonce}
Filtered(l, balance) == IF l.costcap <= balance THEN l ELSE [Without(l, Costly(l, balance)) EXCEPT !.costcap = balance]

\* Ready: the run of nonces from the first one, if that is not above start.
Ready(l, start) ==
    IF l.txs = {} \/ First(l.txs).nonce > start THEN {}
    ELSE {t \in l.txs : \A n \in First(l.txs).nonce .. t.nonce : AtNonce(l, n) /= {}}

\* Cap: the highest nonces above the limit.
Capped(l, limit) == {t \in l.txs : Cardinality({s \in l.txs : s.nonce <= t.nonce}) > limit}

----
(***************************************************************************)
(* lookup and pricedList.  The heaps are bags: an entry stays until it is  *)
(* popped, also when its transaction is gone and comes back.               *)
(***************************************************************************)
Known(p) == p.locals \cup p.remotes
Heaped(b, t) == b (+) SetToBag({t})
Worst(b) == CHOOSE t \in BagToSet(b) : \A s \in BagToSet(b) :
               t.price < s.price \/ (t.price = s.price /\ t.nonce >= s.nonce)
Popped(b) == b (-) SetToBag({Worst(b)})

RECURSIVE PopWorst(_, _)
PopWorst(b, n) == IF n = 0 THEN b ELSE PopWorst(Popped(b), n - 1)

Reheap(p) ==
    LET all == SetToBag(p.remotes)
        rest == PopWorst(all, Cardinality(p.remotes) \div 5)
    IN  [p EXCEPT !.stales = 0, !.urgent = rest, !.floating = all (-) rest]

\* Mutant: Removed does not keep its count.
Removed_NoCount(p, n) ==
    IF p.stales + n <= (BagCardinality(p.urgent) + BagCardinality(p.floating)) \div 4 THEN p ELSE Reheap(p)
Removed(p, n) ==
    LET q == [p EXCEPT !.stales = @ + n]
    IN  IF q.stales <= (BagCardinality(p.urgent) + BagCardinality(p.floating)) \div 4 THEN q ELSE Reheap(q)

Put(p, t, local) == IF local THEN p ELSE [p EXCEPT !.urgent = Heaped(@, t)]

\* underpricedFor drops the stale entries at the top of a heap.
RECURSIVE Fresh(_, _)
Fresh(b, remotes) == IF b = EmptyBag \/ Worst(b) \in remotes THEN b ELSE Fresh(Popped(b), remotes)
worse(b, t) == b = EmptyBag \/ Worst(b).price >= t.price
Cleaned(p, t) ==
    LET u == Fresh(p.urgent, p.remotes)
        f == IF worse(u, t) THEN Fresh(p.floating, p.remotes) ELSE p.floating
    IN  [p EXCEPT !.urgent = u, !.floating = f,
                  !.stales = @ - BagCardinality(p.urgent (-) u) - BagCardinality(p.floating (-) f)]
Underpriced(p, t) == worse(p.urgent, t) /\ worse(p.floating, t) /\ (p.urgent /= EmptyBag \/ p.floating /= EmptyBag)

\* Discard: the urgent heap feeds the floating one four to one, whose worst
\* transactions are dropped.
RECURSIVE Discard(_, _, _)
Discard(p, slots, drop) ==
    LET u == p.urgent
        f == p.floating
        stale(t) == t \notin p.remotes
    IN  CASE slots <= 0 -> [p |-> p, drop |-> drop, left |-> slots]
          [] slots > 0 /\ BagCardinality(u) > 4 * BagCardinality(f) ->
               Discard(IF stale(Worst(u)) THEN [p EXCEPT !.stales = @ - 1, !.urgent = Popped(u)]
                       ELSE [p EXCEPT !.urgent = Popped(u), !.floating = Heaped(f, Worst(u))], slots, drop)
          [] slots > 0 /\ BagCardinality(u) <= 4 * BagCardinality(f) /\ f = EmptyBag -> [p |-> p, drop |-> drop, left |-> slots]
          [] OTHER -> IF stale(Worst(f)) THEN Discard([p EXCEPT !.stales = @ - 1, !.floating = Popped(f)], slots, drop)
                      ELSE Discard([p EXCEPT !.floating = Popped(f)], slots - 1, Append(drop, Worst(f)))

----
(***************************************************************************)
(* Operations on the pool.  An account is in the map pending or queue when *)
(* its list has transactions.                                              *)
(***************************************************************************)
Has(p, a) == p.pending[a].txs /= {} \/ p.queue[a].txs /= {}
unreserve(p, a) == [p EXCEPT !.reserved = @ \ {a}]
\* Mutant: an account is released when it has nothing pending.
Released_PendingOnly(p, a) == IF p.pending[a].txs /= {} THEN p ELSE unreserve(p, a)
Released(p, a) == IF Has(p, a) THEN p ELSE unreserve(p, a)
\* Mutant: the lookup removes remote transactions only.
Forget_Remotes(p, S) == [p EXCEPT !.remotes = @ \ S]
Forget(p, S) == [p EXCEPT !.locals = @ \ S, !.remotes = @ \ S]
Lookup(p, t, local) == IF local THEN [p EXCEPT !.locals = @ \cup {t}] ELSE [p EXCEPT !.remotes = @ \cup {t}]
\* Mutant: the virtual nonce is not lowered.
Lowered_Not(p, a, n) == p
Lowered(p, a, n) == [p EXCEPT !.nonces[a] = Min({@, n})]
Slots(p) == Cardinality(Known(p))
Tidy(l) == IF l.txs = {} THEN newList ELSE l

\* Mutant: enqueueTx records no heartbeat.
enqueueTx_NoBeat(p, t, local, addAll) ==
    LET l == p.queue[t.from]
        old == AtNonce(l, t.nonce)
        swapped == IF old = {} THEN p ELSE Removed(Forget(p, old), 1)
        queued == [swapped EXCEPT !.queue[t.from] = ListAdd(l, t)]
    IN  IF ~Takes(l, t) THEN p
        ELSE IF addAll THEN Put(Lookup(queued, t, local), t, local) ELSE queued

\* enqueueTx; a transaction the queue has better is left where it was.
enqueueTx(p, t, local, addAll) ==
    LET l == p.queue[t.from]
        old == AtNonce(l, t.nonce)
        swapped == IF old = {} THEN p ELSE Removed(Forget(p, old), 1)
        queued == [swapped EXCEPT !.queue[t.from] = ListAdd(l, t), !.beats = @ \cup {t.from}]
    IN  IF ~Takes(l, t) THEN p
        ELSE IF addAll THEN Put(Lookup(queued, t, local), t, local) ELSE queued
Enqueued(p, S) == FoldSet(LAMBDA t, q : enqueueTx(q, t, FALSE, FALSE), p, S)

\* queueTxEvent and the sorted maps of events: one transaction for a nonce.
Noted(S, t) == {s \in S : s.from /= t.from \/ s.nonce /= t.nonce} \cup {t}

\* removeTx: what follows in the pending list returns to the queue.
removeTx(p, t, outofbound, free) ==
    LET a == t.from
        forgot == IF outofbound THEN Removed(Forget(p, {t}), 1) ELSE Forget(p, {t})
        gap == {s \in p.pending[a].txs : s.nonce > t.nonce}
        ql == Tidy(Without(p.queue[a], {t}))
        done == IF AtNonce(p.pending[a], t.nonce) /= {}
                THEN Lowered(Enqueued([forgot EXCEPT !.pending[a] = Tidy(Without(@, AtNonce(@, t.nonce) \cup gap))], gap), a, t.nonce)
                ELSE [forgot EXCEPT !.queue[a] = ql, !.beats = IF ql = newList THEN @ \ {a} ELSE @]
    IN  IF t \notin Known(p) THEN p ELSE IF free THEN Released(done, a) ELSE done

\* promoteTx.
promoteTx(p, t) ==
    LET l == p.pending[t.from]
        old == AtNonce(l, t.nonce)
        swapped == IF old = {} THEN p ELSE Removed(Forget(p, old), 1)
    IN  IF ~Takes(l, t) THEN Removed(Forget(p, {t}), 1)
        ELSE [swapped EXCEPT !.pending[t.from] = ListAdd(l, t), !.nonces[t.from] = t.nonce + 1, !.beats = @ \cup {t.from}]

\* isGapped: the queue does not fill the nonces up to t's.
isGapped(p, t) == \E n \in p.nonces[t.from] .. t.nonce - 1 : AtNonce(p.queue[t.from], n) = {}

\* validateTx, against the state the pool is at.
validateTx(p, t) ==
    LET spent == MapThenSumSet(Cost, p.pending[t.from].txs \ AtNonce(p.pending[t.from], t.nonce))
    IN  t.nonce >= NonceAt(p.head, t.from) /\ spent + Cost(t) <= BalanceAt(p.head, t.from)

\* add.  The result is the pool, whether t got in, and whether it replaced a
\* transaction of its nonce.
Rejected(p) == [p |-> p, ok |-> FALSE, replaced |-> FALSE]
Limit == GlobalSlots + GlobalQueue

\* The replacement of a pending transaction, or the way into the queue.
insert(p, t, local, isLocal) ==
    LET a == t.from
        old == AtNonce(p.pending[a], t.nonce)
        swapped == Removed(Forget([p EXCEPT !.pending[a] = ListAdd(@, t)], old), 1)
        pended == [Put(Lookup(swapped, t, isLocal), t, isLocal) EXCEPT !.beats = @ \cup {a}, !.events = Noted(@, t)]
        queued == enqueueTx(p, t, isLocal, TRUE)
        mine == OfAddr(queued.remotes, a)
        marked == IF local /\ a \notin p.accounts
                  THEN Removed([queued EXCEPT !.accounts = @ \cup {a}, !.remotes = @ \ mine, !.locals = @ \cup mine], Cardinality(mine))
                  ELSE queued
    IN  IF old /= {}
        THEN IF Takes(p.pending[a], t) THEN [p |-> pended, ok |-> TRUE, replaced |-> TRUE] ELSE Rejected(p)
        ELSE IF Takes(p.queue[a], t)
             THEN [p |-> marked, ok |-> TRUE, replaced |-> AtNonce(p.queue[a], t.nonce) /= {}]
             ELSE Rejected(p)

\* Kick out the transactions of drop, the worst first; changesSinceReorg
\* counts the pending ones among them and those they send back to the queue.
PendingOf(p) == UNION {p.pending[a].txs : a \in Addrs}
QueueOf(p) == UNION {p.queue[a].txs : a \in Addrs}
kickOut(p, drop, from) ==
    FoldLeft(LAMBDA q, d : LET r == removeTx(q, d, FALSE, d.from /= from)
                           IN  [r EXCEPT !.changes = @ + Cardinality(PendingOf(q)) - Cardinality(PendingOf(r))], p, drop)

\* Making room in a full pool, then insert.
makeRoom(p, t, local, isLocal) ==
    LET c == IF isLocal THEN p ELSE Cleaned(p, t)
        d == Discard(c, Slots(c) - Limit + 1, <<>>)
        churns == \E x \in ToSet(d.drop) : AtNonce(p.pending[x.from], x.nonce) /= {}
        back == [d.p EXCEPT !.urgent = FoldLeft(Heaped, @, d.drop)]
    IN  IF ~isLocal /\ Underpriced(c, t) THEN Rejected(c)
        ELSE IF c.changes > GlobalSlots \div 4 THEN Rejected(c)
        ELSE IF ~isLocal /\ (d.left > 0 \/ (isGapped(d.p, t) /\ churns)) THEN Rejected(back)
        ELSE insert(kickOut(d.p, d.drop, t.from), t, local, isLocal)

\* Mutant: room is made for one transaction too few.
add_OffByOne(p, t, local) ==
    LET isLocal == local \/ t.from \in p.accounts
        new == ~Has(p, t.from)
        q == [p EXCEPT !.reserved = @ \cup {t.from}]
        r == IF Slots(q) > Limit THEN makeRoom(q, t, local, isLocal) ELSE insert(q, t, local, isLocal)
    IN  IF t \in Known(p) \/ ~validateTx(p, t) THEN Rejected(p)
        ELSE IF new /\ ~r.ok THEN [r EXCEPT !.p = unreserve(@, t.from)] ELSE r

add(p, t, local) ==
    LET isLocal == local \/ t.from \in p.accounts
        new == ~Has(p, t.from)
        q == [p EXCEPT !.reserved = @ \cup {t.from}]
        r == IF Slots(q) + 1 > Limit THEN makeRoom(q, t, local, isLocal) ELSE insert(q, t, local, isLocal)
    IN  IF t \in Known(p) \/ ~validateTx(p, t) THEN Rejected(p)
        ELSE IF new /\ ~r.ok THEN [r EXCEPT !.p = unreserve(@, t.from)] ELSE r

----
(***************************************************************************)
(* runReorg.  The parameter order is the order in which the maps of        *)
(* accounts are iterated, and the age of the heartbeats.                   *)
(***************************************************************************)
\* Balance and nonce of the account in the state the pool is at.
Nonce(p, a) == NonceAt(p.head, a)
Balance(p, a) == BalanceAt(p.head, a)

\* promoteExecutables for one account; the result is added to r.promoted.
promoteOne(r, a) ==
    LET p == r.p
        forwards == Forwards(p.queue[a], Nonce(p, a))
        fwd == Without(p.queue[a], forwards)
        drops == Costly(fwd, Balance(p, a))
        payable == Filtered(fwd, Balance(p, a))
        readies == Ready(payable, p.nonces[a])
        rest == Without(payable, readies)
        caps == IF a \in p.accounts THEN {} ELSE Capped(rest, AccountQueue)
        start == [Forget(p, forwards \cup drops) EXCEPT !.queue[a] = Without(rest, caps)]
        promoted == FoldLeft(promoteTx, start, SetToSortSeq(readies, LAMBDA s, t : s.nonce < t.nonce))
        counted == Removed(Forget(promoted, caps), Cardinality(forwards \cup drops \cup caps))
        emptied == [counted EXCEPT !.queue[a] = newList, !.beats = @ \ {a}]
    IN  IF p.queue[a].txs = {} THEN r
        ELSE [p |-> IF counted.queue[a].txs = {} THEN Released(emptied, a) ELSE counted,
              promoted |-> r.promoted \cup {t \in readies : t \in Known(counted)}]

\* demoteUnexecutables for one account.
demoteOne(p, a) ==
    LET olds == Forwards(p.pending[a], Nonce(p, a))
        fwd == Without(p.pending[a], olds)
        drops == Costly(fwd, Balance(p, a))
        invalids == Invalids(fwd, Balance(p, a))
        kept == Without(Filtered(fwd, Balance(p, a)), invalids)
        gapped == IF AtNonce(kept, Nonce(p, a)) = {} THEN kept.txs ELSE {}
        demoted == Enqueued([Forget(p, olds \cup drops) EXCEPT !.pending[a] = Tidy(Without(kept, gapped))], invalids \cup gapped)
    IN  IF p.pending[a].txs = {} THEN p
        ELSE IF kept.txs \ gapped = {} THEN Released(demoted, a) ELSE demoted

\* truncatePending: Cap an account's list by one.
capOne(p, a) ==
    LET t == LastElement(p.pending[a].txs)
    IN  Removed(Lowered([Forget(p, {t}) EXCEPT !.pending[a] = Without(@, {t})], a, t.nonce), 1)
Above(p) == Cardinality(PendingOf(p)) > GlobalSlots
LenOf(p, a) == Cardinality(p.pending[a].txs)

\* Cap every offender by one until the last one of them is at the threshold.
RECURSIVE equalize(_, _, _)
equalize(p, offenders, threshold) ==
    IF Above(p) /\ LenOf(p, Last(offenders)) > threshold THEN equalize(FoldLeft(capOne, p, offenders), offenders, threshold)
    ELSE p

RECURSIVE offend(_, _, _)
offend(p, offenders, spammers) ==
    IF ~Above(p) \/ spammers = <<>>
    THEN IF offenders = <<>> THEN p ELSE equalize(p, offenders, AccountSlots)
    ELSE LET o == Head(spammers)
         IN  offend(IF offenders = <<>> THEN p ELSE equalize(p, offenders, LenOf(p, o)), Append(offenders, o), Tail(spammers))

\* The accounts above AccountSlots, the largest first.
truncatePending(p, order) ==
    LET high == SelectSeq(order, LAMBDA a : a \notin p.accounts /\ LenOf(p, a) > AccountSlots)
    IN  offend(p, <<>>, SortSeq(high, LAMBDA a, b : LenOf(p, a) > LenOf(p, b)))

\* truncateQueue, from the oldest heartbeat on and the highest nonce on.
RECURSIVE dropQueued(_, _, _)
dropQueued(p, order, drop) ==
    IF drop = 0 \/ order = <<>> THEN p
    ELSE LET a == Head(order)
             over == Capped(p.queue[a], Max({0, Cardinality(p.queue[a].txs) - drop}))
         IN  dropQueued(FoldSet(LAMBDA t, q : removeTx(q, t, TRUE, TRUE), p, over), Tail(order), drop - Cardinality(over))
\* Mutant: one transaction above the global limit stays.
truncateQueue_OffByOne(p, order) ==
    dropQueued(p, SelectSeq(order, LAMBDA a : a \notin p.accounts), Max({0, Cardinality(QueueOf(p)) - GlobalQueue - 1}))
truncateQueue(p, order) ==
    dropQueued(p, SelectSeq(order, LAMBDA a : a \notin p.accounts), Max({0, Cardinality(QueueOf(p)) - GlobalQueue}))

\* reset: the transactions of the blocks that left the chain, the head's
\* first, and whether the chain still has the blocks on both ways to the
\* common ancestor.
BlockSeq(B) == SetToSortSeq(B, LAMBDA s, t : s.nonce < t.nonce \/ (s.nonce = t.nonce /\ s.price < t.price))
Fork(old, new) == Len(LongestCommonPrefix({old, new}))
Discarded(old, new) ==
    LET k == Fork(old, new)
        txs == FlattenSeq([i \in 1 .. Len(old) - k |-> BlockSeq(old[Len(old) + 1 - i])])
    IN  SelectSeq(txs, LAMBDA t : t \notin Included(SubSeq(new, k + 1, Len(new))))
Path(h, k) == {SubSeq(h, 1, i) : i \in k .. Len(h)}
Stays(old, new, dead) ==
    /\ old /= Front(new)
    /\ Max({Len(old) - Len(new), Len(new) - Len(old)}) <= MaxReorg
    /\ IF old \in dead THEN Len(new) >= Len(old)
       ELSE (Path(old, Fork(old, new)) \cup Path(new, Fork(old, new))) \cap dead /= {}
Reinjects(old, new, dead) ==
    old /= Front(new) /\ Max({Len(old) - Len(new), Len(new) - Len(old)}) <= MaxReorg /\ old \notin dead

reset(p, old, new, dead) ==
    LET at == [p EXCEPT !.head = new, !.nonces = [a \in Addrs |-> NonceAt(new, a)]]
        reinject == IF Reinjects(old, new, dead) THEN Discarded(old, new) ELSE <<>>
    IN  IF Stays(old, new, dead) THEN p ELSE FoldLeft(LAMBDA q, t : add(q, t, FALSE).p, at, reinject)

\* setAll: the nonce after the last pending transaction, or the state's.
setAll(p) ==
    [p EXCEPT !.nonces = [a \in Addrs |-> IF p.pending[a].txs = {} THEN Nonce(p, a) ELSE LastElement(p.pending[a].txs).nonce + 1]]

\* The part of runReorg under the lock.
runReorg(p, run, dead, order) ==
    LET resets == run.reset /= None
        at == IF resets THEN reset(p, run.reset[1], run.reset[2], dead) ELSE p
        accounts == IF resets THEN order ELSE SelectSeq(order, LAMBDA a : a \in run.dirty)
        r == FoldLeft(promoteOne, [p |-> at, promoted |-> {}], accounts)
        settled == IF resets THEN setAll(Reheap(FoldLeft(demoteOne, r.p, order))) ELSE r.p
        events == IF resets THEN {t \in run.events : t.nonce >= at.nonces[t.from]} ELSE run.events
    IN  [p |-> [truncateQueue(truncatePending(settled, order), order) EXCEPT !.changes = 0],
         events |-> FoldSet(LAMBDA t, S : Noted(S, t), events, r.promoted)]

----
(***************************************************************************)
(* The processes.                                                          *)
(***************************************************************************)
Idle == [reset |-> None, dirty |-> {}, launch |-> FALSE]
NewPool ==
    [pending |-> [a \in Addrs |-> newList], queue |-> [a \in Addrs |-> newList], nonces |-> [a \in Addrs |-> 0],
     locals |-> {}, remotes |-> {}, accounts |-> {}, reserved |-> {}, beats |-> {},
     urgent |-> EmptyBag, floating |-> EmptyBag, stales |-> 0,
     changes |-> 0, events |-> {}, tip |-> 0, head |-> <<>>]

\* A pool that has taken remote transactions and promoted those of P; the
\* ones of Q wait behind a gap.
Holding(P, Q) ==
    LET listOf(S) == [txs |-> S, costcap |-> Max({0} \cup {Cost(t) : t \in S})]
    IN  [NewPool EXCEPT !.pending = [a \in Addrs |-> listOf(OfAddr(P, a))],
                        !.queue = [a \in Addrs |-> listOf(OfAddr(Q, a))],
                        !.nonces = [a \in Addrs |-> Cardinality(OfAddr(P, a))],
                        !.remotes = P \cup Q, !.urgent = SetToBag(P \cup Q),
                        !.reserved = {t.from : t \in P \cup Q}, !.beats = {t.from : t \in Q}]

Init ==
    /\ \E s \in Starts : pool = Holding(s[1], s[2]) /\ sent = s[1]
    /\ next = Idle /\ cur = None /\ asked = EmptyBag
    /\ head = <<>> /\ gone = {} /\ oldHead = <<>> /\ busy = FALSE
    /\ deleted = FALSE /\ adds = 0 /\ heads = 0 /\ ticks = 0

\* Mutant: the queued events do not go to the run.
Launch_LosesEvents(n, c) ==
    IF c = None /\ n.launch
    THEN /\ cur' = [reset |-> n.reset, dirty |-> n.dirty, events |-> {}, done |-> FALSE]
         /\ next' = Idle
         /\ pool' = [pool EXCEPT !.events = {}]
    ELSE cur' = c /\ next' = n /\ pool' = pool

\* scheduleReorgLoop after a request or the end of a run: launch the next one.
Launch(n, c) ==
    IF c = None /\ n.launch
    THEN /\ cur' = [reset |-> n.reset, dirty |-> n.dirty, events |-> pool.events, done |-> FALSE]
         /\ next' = Idle
         /\ pool' = [pool EXCEPT !.events = {}]
    ELSE cur' = c /\ next' = n /\ pool' = pool

\* Add with one transaction, up to the unlock.
Add(t, local) ==
    /\ adds < MaxAdds /\ BagCardinality(asked) < MaxAsked
    /\ t \notin Known(pool)
    /\ local \/ t.price >= pool.tip
    /\ UNCHANGED <<next, cur, head, gone, oldHead, busy, sent, deleted, heads, ticks>>
    /\ \E r \in {add(pool, t, local)} :
         /\ pool' = r.p
         /\ asked' = Heaped(asked, IF r.ok /\ ~r.replaced THEN {t.from} ELSE {})
    /\ adds' = adds + 1

\* Add's requestPromoteExecutables reaches the loop.
requestPromote(D) ==
    /\ asked' = asked (-) SetToBag({D})
    /\ Launch([next EXCEPT !.dirty = @ \cup D, !.launch = TRUE], cur)
    /\ UNCHANGED <<head, gone, oldHead, busy, sent, deleted, adds, heads, ticks>>

\* TxPool.loop starts a reset when the head has moved and none is running.
requestReset ==
    /\ ~busy /\ head /= oldHead
    /\ busy' = TRUE
    /\ Launch([next EXCEPT !.reset = IF @ = None THEN <<oldHead, head>> ELSE <<@[1], head>>, !.launch = TRUE], cur)
    /\ UNCHANGED <<asked, head, gone, oldHead, sent, deleted, adds, heads, ticks>>

\* The run, with its announcement and the end of a reset in TxPool.loop.
RunReorg ==
    /\ cur /= None /\ ~cur.done
    /\ UNCHANGED <<next, asked, head, gone, deleted, adds, heads, ticks>>
    /\ \E order \in SetToSeqs(Addrs) : \E r \in {runReorg(pool, cur, gone, order)} :
         /\ pool' = r.p
         /\ sent' = sent \cup r.events
    /\ oldHead' = IF cur.reset = None THEN oldHead ELSE cur.reset[2]
    /\ busy' = (busy /\ cur.reset = None)
    /\ cur' = [reset |-> None, dirty |-> {}, events |-> {}, done |-> TRUE]

\* The loop receives curDone.
curDone ==
    /\ cur /= None /\ cur.done
    /\ Launch(next, None)
    /\ UNCHANGED <<asked, head, gone, oldHead, busy, sent, deleted, adds, heads, ticks>>

\* The chain gets a new head, on the old one or on one of its ancestors.
NewHead(h, B) ==
    /\ heads < MaxHeads /\ Len(h) < MaxBlocks
    /\ \A t \in B : t.nonce = NonceAt(h, t.from) /\ Cost(t) <= BalanceAt(h, t.from)
    /\ head' = Append(h, B)
    /\ head' /= head
    /\ gone' = gone \ Path(head', 0)
    /\ heads' = heads + 1
    /\ UNCHANGED <<pool, next, cur, asked, oldHead, busy, sent, deleted, adds, ticks>>

\* SetHead: the chain goes back to an ancestor and deletes what was above it.
SetHead(h) ==
    /\ heads < MaxHeads
    /\ head' = h
    /\ gone' = gone \cup Path(head, Len(h) + 1)
    /\ deleted' = TRUE
    /\ heads' = heads + 1
    /\ UNCHANGED <<pool, next, cur, asked, oldHead, busy, sent, adds, ticks>>

SetGasTip(tip) ==
    /\ tip /= pool.tip /\ ticks < MaxTicks
    /\ ticks' = ticks + 1
    /\ LET drop == IF tip > pool.tip THEN {t \in pool.remotes : t.price < tip} ELSE {}
           cut == FoldSet(LAMBDA t, p : removeTx(p, t, FALSE, TRUE), pool, drop)
       IN  pool' = [IF tip > pool.tip THEN Removed(cut, Cardinality(drop)) ELSE pool EXCEPT !.tip = tip]
    /\ UNCHANGED <<next, cur, asked, head, gone, oldHead, busy, sent, deleted, adds, heads>>

\* loop's eviction tick: S are the accounts whose heartbeat is too old, among
\* them the ones without a heartbeat.
Evict(S) ==
    /\ ticks < MaxTicks /\ ticks' = ticks + 1
    /\ S /= {} /\ \A a \in S : a \notin pool.accounts /\ pool.queue[a].txs /= {}
    /\ \A a \in Addrs \ (S \cup pool.beats \cup pool.accounts) : pool.queue[a].txs = {}
    /\ pool' = FoldSet(LAMBDA t, p : removeTx(p, t, TRUE, TRUE), pool, UNION {pool.queue[a].txs : a \in S})
    /\ UNCHANGED <<next, cur, asked, head, gone, oldHead, busy, sent, deleted, adds, heads>>

Ancestors(h) == {SubSeq(h, 1, i) : i \in 0 .. Len(h) - 1}
Next ==
    \/ \E t \in Txs : Add(t, FALSE)
    \/ \E t \in Txs : t.from \in LocalAddrs /\ Add(t, TRUE)
    \/ \E D \in BagToSet(asked) : requestPromote(D)
    \/ requestReset
    \/ RunReorg
    \/ curDone
    \/ \E h \in Ancestors(head) \cup {head}, B \in {{}} \cup {{t} : t \in Mined} : NewHead(h, B)
    \/ \E h \in Ancestors(head) : SetHead(h)
    \/ \E tip \in Tips : SetGasTip(tip)
    \/ \E S \in SUBSET Addrs : Evict(S)

Spec == Init /\ [][Next]_vars

----
(***************************************************************************)
(* Properties.                                                             *)
(***************************************************************************)
\* Every field has its type; the lists belong to their account and the cost
\* cap that Filter trusts is never below a cost in the list.
TypeOK ==
    /\ DOMAIN pool = DOMAIN NewPool
    /\ \A l \in {pool.pending, pool.queue} : \A a \in Addrs :
         l[a].txs \subseteq OfAddr(Txs, a) /\ \A t \in l[a].txs : Cost(t) <= l[a].costcap
    /\ pool.nonces \in [Addrs -> Nat] /\ pool.changes \in Nat /\ pool.stales \in Int
    /\ pool.accounts \cup pool.reserved \cup pool.beats \subseteq Addrs
    /\ BagToSet(pool.urgent) \cup BagToSet(pool.floating) \cup pool.events \cup sent \subseteq Txs
    /\ next.dirty \subseteq Addrs /\ next.launch \in BOOLEAN /\ busy \in BOOLEAN
    /\ \A D \in BagToSet(asked) : D \subseteq Addrs

\* The lookup holds exactly the transactions of the lists, each as local or
\* as remote, and an account has one transaction for a nonce: what add, the
\* promotions, the demotions and the drops move never is lost or kept twice.
Tracked ==
    /\ Known(pool) = PendingOf(pool) \cup QueueOf(pool)
    /\ pool.locals \cap pool.remotes = {}
    /\ \A s, t \in Known(pool) : s.from = t.from /\ s.nonce = t.nonce => s = t
    /\ PendingOf(pool) \cap QueueOf(pool) = {}

\* The pending transactions of an account can be executed one after the other
\* in the state the pool is at: their nonces run from the account's nonce to
\* the one Nonce reports next, and each is covered by the balance.
Executable ==
    \A a \in Addrs :
        /\ {t.nonce : t \in pool.pending[a].txs} = Nonce(pool, a) .. pool.nonces[a] - 1
        /\ \A t \in pool.pending[a].txs : Cost(t) <= Balance(pool, a)

\* The pool holds the reservation of exactly the accounts it has transactions
\* of: no error path of add, and no drop, leaks or loses one.
ReservedExactly == pool.reserved = {a \in Addrs : Has(pool, a)}

\* Every account in the queue has a heartbeat; without one the next eviction
\* tick would drop its transactions however young they are.
BeatsTracked == \A a \in Addrs : pool.queue[a].txs /= {} => a \in pool.beats

\* Every remote transaction is in a price heap, so that a full pool can drop
\* it, and both heaps hold nothing but that, up to the stale entries that the
\* counter announces for the next rebuild.
PricedCovers ==
    /\ pool.remotes \subseteq BagToSet(pool.urgent) \cup BagToSet(pool.floating)
    /\ BagCardinality(pool.urgent) + BagCardinality(pool.floating) - Cardinality(pool.remotes) <= pool.stales

\* Without local accounts the pool never has more transactions than its slots,
\* also between the runs that truncate it.
SlotsBounded == pool.locals = {} => Slots(pool) <= Limit

\* The pool's structures describe the same transactions: the lookup, the two
\* lists of every account, their heartbeats and the price heaps, within the
\* pool's size.
PoolSound ==
    TypeOK /\ Tracked /\ Executable /\ BeatsTracked /\ PricedCovers /\ SlotsBounded

\* A pending transaction has been announced on the feed, or will be at the end
\* of a run that is queued or in progress; as long as SetHead
\* has deleted no block (a reset whose heads are missing returns before it
\* renews the nonces by which runReorg then drops events).
PendingAnnounced ==
    ~deleted => PendingOf(pool) \subseteq sent \cup pool.events \cup (IF cur = None THEN {} ELSE cur.events)

\* A run leaves the pool within its limits: above the global ones only what
\* the accounts are guaranteed, or what belongs to local accounts.
LimitsEnforced ==
    [][RunReorg => LET p == pool'
                   IN  /\ Above(p) => \A a \in Addrs \ p.accounts : LenOf(p, a) <= AccountSlots
                       /\ Cardinality(QueueOf(p)) > GlobalQueue => \A a \in Addrs \ p.accounts : p.queue[a].txs = {}]_vars

\* A transaction with the next nonce of its account does not stay in the queue
\* when nothing is scheduled any more: runReorg says that a reset promotes all
\* addresses in the queue.
NothingStranded ==
    (asked = EmptyBag /\ ~next.launch /\ (cur = None \/ cur.done) /\ head = oldHead /\ ~busy) =>
        \A a \in Addrs : AtNonce(pool.queue[a], pool.nonces[a]) = {}

====
