---- MODULE Freezer ----
(***************************************************************************)
(* The ancient store (core/rawdb/freezer.go, freezer_batch.go and          *)
(* freezer_resettable.go): several tables of AncientTable's kind, one row  *)
(* of items for each block, written, truncated, flushed and repaired one   *)
(* table after the other.                                                  *)
(*                                                                         *)
(* One writer at a time holds writeLock.  Sync takes no lock of the        *)
(* freezer and runs beside the writer.  A power failure may come between   *)
(* any two steps, those of the repair included.                            *)
(***************************************************************************)
EXTENDS Integers, Sequences, FiniteSetsExt, Functions

CONSTANTS Tables,       \* names of the tables
          Values,       \* contents of a row (a block): every table stores its part of it
          MaxItems,     \* bound: row numbers are below MaxItems
          MaxBatch,     \* bound: rows of one write operation
          MaxCrashes    \* bound: power failures in a behaviour

ASSUME FreezerAssumption ==
    Tables /= {} /\ MaxItems \in Nat /\ MaxBatch \in Nat /\ MaxCrashes \in Nat

VARIABLES tabs,      \* the tables, records of AncientTable
          frozen, tail,   \* the counters Ancients and Tail return
          pc,        \* the operation that holds writeLock, or "idle"
          todo,      \* the tables it has still to visit
          arg,       \* its argument: rows to append, or a row number
          syncTodo,  \* tables a running Sync has still to flush
          syncGoal,  \* rows frozen when it began, -1 when no Sync runs
          safe,      \* rows that a finished Sync has promised to keep
          mode,      \* "open", "down", or "failed" when NewFreezer returned an error
          crashes

lockVars == <<pc, todo, arg>>
syncVars == <<syncTodo, syncGoal, safe>>
vars == <<tabs, frozen, tail, pc, todo, arg, syncTodo, syncGoal, safe, mode, crashes>>

T == INSTANCE AncientTable WITH tab <- tabs

Heads(ts) == {ts[t].head : t \in Tables}
Tails(ts) == {ts[t].hid : t \in Tables}
Idle == mode = "open" /\ pc = "idle"
Busy(p) == mode = "open" /\ pc = p

Init ==
    /\ tabs = [t \in Tables |-> T!EmptyTable]
    /\ frozen = 0 /\ tail = 0
    /\ pc = "idle" /\ todo = {} /\ arg = 0
    /\ syncTodo = {} /\ syncGoal = -1 /\ safe = 0
    /\ mode = "open" /\ crashes = 0

Acquire(p, a) == pc' = p /\ todo' = Tables /\ arg' = a
Release == pc' = "idle" /\ todo' = {} /\ arg' = 0
Visit(t) == t \in todo /\ todo' = todo \ {t} /\ UNCHANGED <<pc, arg>>

----
(***************************************************************************)
(* ModifyAncients.                                                         *)
(***************************************************************************)
ModifyAncients ==
    /\ Idle
    /\ \E n \in 1 .. Min({MaxBatch, MaxItems - frozen}) : \E vs \in [1 .. n -> Values] : Acquire("write", vs)
    /\ UNCHANGED <<tabs, frozen, tail, syncVars, mode, crashes>>

\* A table's batch is written in parts: when a data file or the buffer is full,
\* and by the commit at the end.
\* rows of the batch that table t already holds
Written(t) == tabs[t].head - frozen

\* Mutant: a table's second flush starts again at the first row of the batch.
commitTable_Restart(t) ==
    /\ Busy("write")
    /\ \E k \in Written(t) + 1 .. Len(arg) :
         tabs' = [tabs EXCEPT ![t] = T!Appended(@, SubSeq(arg, 1, k - Written(t)))]
    /\ UNCHANGED <<frozen, tail, lockVars, syncVars, mode, crashes>>

commitTable(t) ==
    /\ Busy("write")
    /\ \E k \in Written(t) + 1 .. Len(arg) :
         tabs' = [tabs EXCEPT ![t] = T!Appended(@, SubSeq(arg, Written(t) + 1, k))]
    /\ UNCHANGED <<frozen, tail, lockVars, syncVars, mode, crashes>>

commitDone ==
    /\ Busy("write")
    /\ \A t \in Tables : Written(t) = Len(arg)
    /\ frozen' = frozen + Len(arg)
    /\ Release
    /\ UNCHANGED <<tabs, tail, syncVars, mode, crashes>>

\* The callback fails; every table is rolled back to the rows frozen before.
modifyFails ==
    /\ Busy("write")
    /\ Acquire("rollback", frozen)
    /\ UNCHANGED <<tabs, frozen, tail, syncVars, mode, crashes>>

\* freezerTable.truncateHead, a no-op on a table that is short enough
TruncatedHead(X, n) == IF X.head <= n THEN X ELSE T!HeadTruncated(X, n)

rollbackTable(t) ==
    /\ Busy("rollback") /\ Visit(t)
    /\ tabs' = [tabs EXCEPT ![t] = TruncatedHead(@, arg)]
    /\ UNCHANGED <<frozen, tail, syncVars, mode, crashes>>

\* Mutant: the roll-back stops at the first table.
rollbackDone_Early ==
    /\ Busy("rollback") /\ todo /= Tables
    /\ Release
    /\ UNCHANGED <<tabs, frozen, tail, syncVars, mode, crashes>>

rollbackDone ==
    /\ Busy("rollback") /\ todo = {}
    /\ Release
    /\ UNCHANGED <<tabs, frozen, tail, syncVars, mode, crashes>>

----
(***************************************************************************)
(* TruncateHead, TruncateTail and Reset.                                   *)
(***************************************************************************)
\* What a Sync has promised, or will promise, of the truncated rows is void.
TruncateHead(n) ==
    /\ Idle /\ n < frozen /\ n >= tail
    /\ Acquire("truncateHead", n)
    /\ safe' = Min({safe, n}) /\ syncGoal' = Min({syncGoal, n})
    /\ UNCHANGED <<tabs, frozen, tail, syncTodo, mode, crashes>>

truncateHeadTable(t) ==
    /\ Busy("truncateHead") /\ Visit(t)
    /\ tabs' = [tabs EXCEPT ![t] = TruncatedHead(@, arg)]
    /\ UNCHANGED <<frozen, tail, syncVars, mode, crashes>>

truncateHeadDone ==
    /\ Busy("truncateHead") /\ todo = {}
    /\ frozen' = arg
    /\ Release
    /\ UNCHANGED <<tabs, tail, syncVars, mode, crashes>>

TruncateTail(n) ==
    /\ Idle /\ tail < n /\ n <= frozen
    /\ Acquire("truncateTail", n)
    /\ UNCHANGED <<tabs, frozen, tail, syncVars, mode, crashes>>

\* Mutant: data files are deleted before the index is flushed.
TruncatedTails_Unflushed(X, n) ==
    IF X.hid >= n THEN {X}
    ELSE LET H == T!TailTruncated(X, n) IN
         {H} \cup {[H EXCEPT !.lo = l, !.val = T!Cut(H, l, H.head), !.hidDur = n] : l \in X.lo + 1 .. n}

\* freezerTable.truncateTail: the rows are hidden, and the data files that hold
\* hidden rows only are deleted.
TruncatedTails(X, n) ==
    IF X.hid >= n THEN {X}
    ELSE LET H == T!TailTruncated(X, n) IN {H} \cup {T!Dropped(H, l) : l \in X.lo + 1 .. n}

truncateTailTable(t) ==
    /\ Busy("truncateTail") /\ Visit(t)
    /\ \E X \in TruncatedTails(tabs[t], arg) : tabs' = [tabs EXCEPT ![t] = X]
    /\ UNCHANGED <<frozen, tail, syncVars, mode, crashes>>

truncateTailDone ==
    /\ Busy("truncateTail") /\ todo = {}
    /\ tail' = arg
    /\ Release
    /\ UNCHANGED <<tabs, frozen, syncVars, mode, crashes>>

\* The directory is renamed, deleted and created anew; cleanup finishes an
\* interrupted deletion at the next start.
Reset ==
    /\ Idle /\ syncGoal = -1
    /\ tabs' = [t \in Tables |-> T!EmptyTable]
    /\ frozen' = 0 /\ tail' = 0 /\ safe' = 0
    /\ UNCHANGED <<lockVars, syncTodo, syncGoal, mode, crashes>>

----
(***************************************************************************)
(* Sync.                                                                   *)
(***************************************************************************)
Sync ==
    /\ mode = "open" /\ syncGoal = -1
    /\ syncTodo' = Tables
    /\ syncGoal' = IF pc = "truncateHead" THEN arg ELSE frozen
    /\ UNCHANGED <<tabs, frozen, tail, lockVars, safe, mode, crashes>>

syncTable(t) ==
    /\ mode = "open" /\ t \in syncTodo
    /\ tabs' = [tabs EXCEPT ![t] = T!Synced(@)]
    /\ syncTodo' = syncTodo \ {t}
    /\ UNCHANGED <<frozen, tail, lockVars, syncGoal, safe, mode, crashes>>

\* Mutant: the promise covers the rows frozen when the Sync ends.
syncDone_Now ==
    /\ mode = "open" /\ syncGoal /= -1 /\ syncTodo = {}
    /\ safe' = Max({safe, frozen}) /\ syncGoal' = -1
    /\ UNCHANGED <<tabs, frozen, tail, lockVars, syncTodo, mode, crashes>>

syncDone ==
    /\ mode = "open" /\ syncGoal /= -1 /\ syncTodo = {}
    /\ safe' = Max({safe, syncGoal}) /\ syncGoal' = -1
    /\ UNCHANGED <<tabs, frozen, tail, lockVars, syncTodo, mode, crashes>>

----
(***************************************************************************)
(* Close, power failure, NewFreezer and its repair.                        *)
(***************************************************************************)
Stopped == /\ frozen' = 0 /\ tail' = 0
           /\ pc' = "idle" /\ todo' = {} /\ arg' = 0 /\ syncTodo' = {} /\ syncGoal' = -1
           /\ mode' = "down"

Close ==
    /\ Idle /\ syncGoal = -1
    /\ tabs' = [t \in Tables |-> T!Synced(tabs[t])]
    /\ Stopped
    /\ UNCHANGED <<safe, crashes>>

Crash ==
    /\ mode /= "failed" /\ crashes < MaxCrashes
    /\ LET images == [t \in Tables |-> T!AfterCrash(tabs[t])] IN
       tabs' \in {ts \in [Tables -> UNION Range(images)] : \A t \in Tables : ts[t] \in images[t]}
    /\ crashes' = crashes + 1
    /\ Stopped
    /\ UNCHANGED safe

\* The tables are opened, and the repair begins.
NewFreezer ==
    /\ mode = "down" /\ pc = "idle"
    /\ IF \A t \in Tables : T!Openable(tabs[t])
       THEN Acquire("repair", [head |-> Min(Heads(tabs)), tail |-> Max(Tails(tabs))]) /\ UNCHANGED mode
       ELSE mode' = "failed" /\ UNCHANGED lockVars
    /\ UNCHANGED <<tabs, frozen, tail, syncVars, crashes>>

\* Mutant: a table cannot be cut back to its tail.
repairTable_AtTail(t) ==
    /\ mode = "down" /\ pc = "repair" /\ t \in todo
    /\ LET X == TruncatedHead(tabs[t], arg.head) IN
       IF \/ tabs[t].head > arg.head /\ arg.head <= tabs[t].hid
          \/ X.hid < arg.tail /\ X.head < arg.tail
       THEN mode' = "failed" /\ Release /\ UNCHANGED tabs
       ELSE /\ Visit(t)
            /\ \E Y \in TruncatedTails(X, arg.tail) : tabs' = [tabs EXCEPT ![t] = Y]
            /\ UNCHANGED mode
    /\ UNCHANGED <<frozen, tail, syncVars, crashes>>

\* truncateHead fails below a table's tail, truncateTail above its head.
repairTable(t) ==
    /\ mode = "down" /\ pc = "repair" /\ t \in todo
    /\ LET X == TruncatedHead(tabs[t], arg.head) IN
       IF \/ tabs[t].head > arg.head /\ arg.head < tabs[t].hid
          \/ X.hid < arg.tail /\ X.head < arg.tail
       THEN mode' = "failed" /\ Release /\ UNCHANGED tabs
       ELSE /\ Visit(t)
            /\ \E Y \in TruncatedTails(X, arg.tail) : tabs' = [tabs EXCEPT ![t] = Y]
            /\ UNCHANGED mode
    /\ UNCHANGED <<frozen, tail, syncVars, crashes>>

repairDone ==
    /\ mode = "down" /\ pc = "repair" /\ todo = {}
    /\ frozen' = arg.head /\ tail' = arg.tail
    /\ mode' = "open"
    /\ Release
    /\ UNCHANGED <<tabs, syncVars, crashes>>

Next ==
    \/ ModifyAncients \/ commitDone \/ modifyFails \/ rollbackDone
    \/ truncateHeadDone \/ truncateTailDone \/ Reset
    \/ Sync \/ syncDone \/ Close \/ Crash \/ NewFreezer \/ repairDone
    \/ \E n \in 0 .. MaxItems : TruncateHead(n) \/ TruncateTail(n)
    \/ \E t \in Tables :
         commitTable(t) \/ rollbackTable(t) \/ truncateHeadTable(t) \/ truncateTailTable(t) \/ syncTable(t) \/ repairTable(t)

Spec == Init /\ [][Next]_vars

----
(***************************************************************************)
(* Properties.                                                             *)
(***************************************************************************)
\* Type invariant: the tables' bounds are ordered, except that a power failure
\* may leave a table with fewer rows than its virtual tail hides.
TypeOK ==
    /\ tabs \in [Tables -> T!Table] /\ \A t \in Tables : T!Ordered(tabs[t])
    /\ frozen \in 0 .. MaxItems /\ tail \in 0 .. MaxItems
    /\ pc \in {"idle", "write", "rollback", "truncateHead", "truncateTail", "repair"}
    /\ todo \subseteq Tables /\ syncTodo \subseteq Tables
    /\ safe \in 0 .. MaxItems /\ syncGoal \in -1 .. MaxItems
    /\ mode \in {"open", "down", "failed"} /\ crashes \in 0 .. MaxCrashes

\* The rows of the store: what all tables hold of them.
View(ts, isOpen) ==
    LET lo == Max({ts[t].lo : t \in Tables})
        head == Min(Heads(ts))
        row(i) == {ts[t].val[i] : t \in Tables}
    IN  [lo |-> lo, head |-> head,
         val |-> [i \in lo .. head - 1 |-> IF \E v \in Values : row(i) = {v}
                                           THEN CHOOSE v \in Values : row(i) = {v} ELSE "mixed"],
         hid |-> Max(Tails(ts)),
         dur |-> IF isOpen THEN Min({ts[t].dur : t \in Tables}) ELSE head,
         hidDur |-> Max({ts[t].hidDur : t \in Tables})]

\* When no writer runs, every table holds exactly the rows from Tail to Ancients:
\* after a failed write, a truncation, or the repair of tables that a power
\* failure has cut to different lengths.
CountersAgree ==
    Idle => Heads(tabs) = {frozen} /\ Tails(tabs) = {tail}

\* Rows that were frozen when a finished Sync began survive every later power
\* failure, although writers and truncations run beside it: the chain freezer
\* deletes them from the key-value store on the strength of that.
SyncKeeps == \A t \in Tables : tabs[t].dur >= safe

\* NewFreezer fails only if rows were hidden that no Sync had flushed.
FailsOnlyUnflushed == mode = "failed" => Max(Tails(tabs)) > safe

\* The counters of the freezer are those of every table, and it fails to open
\* only after an unflushed tail truncation.
StoreSound == TypeOK /\ CountersAgree /\ FailsOnlyUnflushed
====
