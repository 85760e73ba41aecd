---- MODULE StateDB ----
(***************************************************************************)
(* The world state under execution (core/state): state objects with their  *)
(* layered storage, the journal that undoes a failed call, the access      *)
(* list, transient storage, and the commit into tries and flat state.      *)
(*                                                                         *)
(* A StateDB is a record s; an operator named after a method gives s after *)
(* the call.  Maps are functions on the keys present, an optional value is *)
(* <<>> or <<v>>.  An address and a storage key are their own paths in the *)
(* trie; code 0 and value 0 are the empty code and the zero value.  The    *)
(* prefetcher, witnesses, preimages, Verkle tries and Copy are left out.   *)
(***************************************************************************)
EXTENDS Trie

CONSTANTS Addrs, Keys, ripemd

emptyCode == 0
NewEmptyStateAccount == [nonce |-> 0, bal |-> 0, code |-> emptyCode, root |-> EmptyRootHash]

\* The owner of the account trie's nodes; a storage trie is owned by its address.
accountOwner == <<>>

Put(f, x, v) == (x :> v) @@ f
Without(f, x) == Restrict(f, DOMAIN f \ {x})
At(f, x, default) == IF x \in DOMAIN f THEN f[x] ELSE default

newObject(acct) ==
    [origin |-> acct, data |-> IF acct = <<>> THEN NewEmptyStateAccount ELSE acct[1],
     originStorage |-> <<>>, dirtyStorage |-> <<>>, pendingStorage |-> <<>>, uncommittedStorage |-> <<>>,
     trie |-> <<>>, dirtyCode |-> FALSE, selfDestructed |-> FALSE, newContract |-> FALSE]

empty(obj) == obj.data.nonce = 0 /\ obj.data.bal = 0 /\ obj.data.code = emptyCode

newAccessList == [addresses |-> <<>>, slots |-> <<>>]

\* The reader of the state at a root: its accounts, and the slots of each.
Reader(root) ==
    LET accts == LeavesBelow(<<>>, root)
    IN  [accounts |-> accts, storages |-> [a \in DOMAIN accts |-> LeavesBelow(<<>>, accts[a].root)]]

NewStateDB(disk, root) ==
    [originalRoot |-> root, trie |-> New(disk[accountOwner], root), reader |-> Reader(root),
     stateObjects |-> <<>>, stateObjectsDestruct |-> <<>>, mutations |-> <<>>,
     entries |-> <<>>, dirties |-> <<>>, validRevisions |-> <<>>, nextRevisionId |-> 0,
     refund |-> 0, logs |-> <<>>, accessList |-> newAccessList, transientStorage |-> <<>>,
     failed |-> {}]

Fail(s, what) == [s EXCEPT !.failed = @ \cup {what}]

-----------------------------------------------------------------------------
ReadAccount(s, a) == IF a \in DOMAIN s.reader.accounts THEN <<s.reader.accounts[a]>> ELSE <<>>
ReadStorage(s, a, k) == At(At(s.reader.storages, a, <<>>), k, 0)

\* The journal.
DirtyingChanges == {"createObject", "selfDestruct", "balance", "nonce", "code", "storage", "touch"}
dirtied(e) == e.change \in DirtyingChanges
dirty(s, a) == [s EXCEPT !.dirties = Put(@, a, At(@, a, 0) + 1)]
append(s, e) ==
    LET t == [s EXCEPT !.entries = Append(@, e)] IN IF dirtied(e) THEN dirty(t, e.account) ELSE t
touchChange(s, a) ==
    LET t == append(s, [change |-> "touch", account |-> a]) IN IF a = ripemd THEN dirty(t, a) ELSE t

\* State objects.
getStateObject(s, a) ==
    IF \/ a \in DOMAIN s.stateObjects \cup DOMAIN s.stateObjectsDestruct
       \/ ReadAccount(s, a) = <<>>
    THEN s
    ELSE [s EXCEPT !.stateObjects = Put(@, a, newObject(ReadAccount(s, a)))]
Exist(s, a) == a \in DOMAIN getStateObject(s, a).stateObjects
createObject(s, a) ==
    [append(s, [change |-> "createObject", account |-> a]) EXCEPT !.stateObjects = Put(@, a, newObject(<<>>))]
getOrNewStateObject(s, a) == IF Exist(s, a) THEN getStateObject(s, a) ELSE createObject(s, a)

\* The data of an account as the getters report it.
Data(s, a) == IF Exist(s, a) THEN getStateObject(s, a).stateObjects[a].data ELSE NewEmptyStateAccount
Empty(s, a) == ~Exist(s, a) \/ empty(getStateObject(s, a).stateObjects[a])
HasSelfDestructed(s, a) == Exist(s, a) /\ getStateObject(s, a).stateObjects[a].selfDestructed

CreateContract(s, a) ==
    LET t == getStateObject(s, a)
    IN  CASE ~Exist(s, a) -> Fail(s, "nil object")
          [] Exist(s, a) /\ t.stateObjects[a].newContract -> t
          [] OTHER -> append([t EXCEPT !.stateObjects[a].newContract = TRUE], [change |-> "createContract", account |-> a])

\* SetBalance of an object, and AddBalance and SubBalance of the database.
objSetBalance(s, a, bal) ==
    [append(s, [change |-> "balance", account |-> a, prev |-> s.stateObjects[a].data.bal])
        EXCEPT !.stateObjects[a].data.bal = bal]
AddBalance(s, a, amount) ==
    LET t == getOrNewStateObject(s, a)
        obj == t.stateObjects[a]
    IN  CASE amount = 0 /\ empty(obj) -> touchChange(t, a)
          [] amount = 0 /\ ~empty(obj) -> t
          [] OTHER -> objSetBalance(t, a, obj.data.bal + amount)
SubBalance(s, a, amount) ==
    LET t == getOrNewStateObject(s, a)
    IN  IF amount = 0 THEN t ELSE objSetBalance(t, a, t.stateObjects[a].data.bal - amount)

SetNonce(s, a, nonce) ==
    LET t == getOrNewStateObject(s, a)
    IN  [append(t, [change |-> "nonce", account |-> a, prev |-> t.stateObjects[a].data.nonce])
            EXCEPT !.stateObjects[a].data.nonce = nonce]

setCode(s, a, code) == [s EXCEPT !.stateObjects[a].data.code = code, !.stateObjects[a].dirtyCode = TRUE]
SetCode(s, a, code) == setCode(append(getOrNewStateObject(s, a), [change |-> "code", account |-> a]), a, code)

SelfDestruct(s, a) ==
    LET t == getStateObject(s, a)
        u == IF t.stateObjects[a].data.bal /= 0 THEN objSetBalance(t, a, 0) ELSE t
    IN  IF ~Exist(s, a) THEN s
        ELSE IF u.stateObjects[a].selfDestructed THEN u
        ELSE [append(u, [change |-> "selfDestruct", account |-> a]) EXCEPT !.stateObjects[a].selfDestructed = TRUE]
SelfDestruct6780(s, a) ==
    LET t == getStateObject(s, a)
    IN  IF Exist(s, a) /\ t.stateObjects[a].newContract THEN SelfDestruct(t, a) ELSE t

-----------------------------------------------------------------------------
\* Mutant: the storage of a destructed account shows through in its successor.
CommittedValue_Stale(s, a, k) ==
    LET obj == s.stateObjects[a]
    IN  CASE k \in DOMAIN obj.pendingStorage -> obj.pendingStorage[k]
          [] k \notin DOMAIN obj.pendingStorage /\ k \in DOMAIN obj.originStorage -> obj.originStorage[k]
          [] OTHER -> ReadStorage(s, a, k)

\* Storage: pending writes of earlier transactions, then the cached origin, then
\* nothing if the account was destructed in this block, then the database.
CommittedValue(s, a, k) ==
    LET obj == s.stateObjects[a]
    IN  CASE k \in DOMAIN obj.pendingStorage -> obj.pendingStorage[k]
          [] k \notin DOMAIN obj.pendingStorage /\ k \in DOMAIN obj.originStorage -> obj.originStorage[k]
          [] OTHER -> IF a \in DOMAIN s.stateObjectsDestruct THEN 0 ELSE ReadStorage(s, a, k)
GetCommittedState(s, a, k) ==
    LET obj == s.stateObjects[a]
    IN  IF k \in DOMAIN obj.pendingStorage \cup DOMAIN obj.originStorage THEN s
        ELSE [s EXCEPT !.stateObjects[a].originStorage = Put(@, k, CommittedValue(s, a, k))]
Value(s, a, k) == At(s.stateObjects[a].dirtyStorage, k, CommittedValue(s, a, k))

setState(s, a, k, value, origin) ==
    [s EXCEPT !.stateObjects[a].dirtyStorage = IF value = origin THEN Without(@, k) ELSE Put(@, k, value)]
SetState(s, a, k, value) ==
    LET t == GetCommittedState(getOrNewStateObject(s, a), a, k)
        prev == Value(t, a, k)
        origin == CommittedValue(t, a, k)
    IN  IF prev = value THEN t
        ELSE setState(append(t, [change |-> "storage", account |-> a, key |-> k, prev |-> prev, origin |-> origin]),
                      a, k, value, origin)

\* What GetState and GetCommittedState of the database return.
StateOf(s, a, k) == IF Exist(s, a) THEN Value(getStateObject(s, a), a, k) ELSE 0
CommittedOf(s, a, k) == IF Exist(s, a) THEN CommittedValue(getStateObject(s, a), a, k) ELSE 0
GetState(s, a, k) == IF Exist(s, a) THEN GetCommittedState(getStateObject(s, a), a, k) ELSE s

\* Transient storage: an address is present only with a slot that is not zero.
Transient(s, a, k) == At(At(s.transientStorage, a, <<>>), k, 0)
setTransientState(s, a, k, value) ==
    LET slots == IF value = 0 THEN Without(At(s.transientStorage, a, <<>>), k)
                              ELSE Put(At(s.transientStorage, a, <<>>), k, value)
    IN  [s EXCEPT !.transientStorage = IF slots = <<>> THEN Without(@, a) ELSE Put(@, a, slots)]
SetTransientState(s, a, k, value) ==
    LET prev == Transient(s, a, k)
    IN  IF prev = value THEN s
        ELSE setTransientState(append(s, [change |-> "transient", account |-> a, key |-> k, prev |-> prev]), a, k, value)

\* A log is its index in the block.
AddLog(s) == append([s EXCEPT !.logs = Append(@, Len(@))], [change |-> "addLog"])

refundChange(s) == append(s, [change |-> "refund", prev |-> s.refund])
AddRefund(s, gas) == [refundChange(s) EXCEPT !.refund = @ + gas]
SubRefund(s, gas) == IF gas > s.refund THEN Fail(s, "refund below zero") ELSE [refundChange(s) EXCEPT !.refund = @ - gas]

-----------------------------------------------------------------------------
\* The access list: an address maps to the index of its slots, 0 for none.
AddressInAccessList(s, a) == a \in DOMAIN s.accessList.addresses
SlotInAccessList(s, a, k) ==
    AddressInAccessList(s, a) /\ s.accessList.addresses[a] /= 0 /\ k \in s.accessList.slots[s.accessList.addresses[a]]

AddAddressToAccessList(s, a) ==
    IF AddressInAccessList(s, a) THEN s
    ELSE append([s EXCEPT !.accessList.addresses = Put(@, a, 0)], [change |-> "addAccount", account |-> a])

AddSlot(al, a, k) ==
    IF At(al.addresses, a, 0) = 0
    THEN [addresses |-> Put(al.addresses, a, Len(al.slots) + 1), slots |-> Append(al.slots, {k})]
    ELSE [al EXCEPT !.slots[al.addresses[a]] = @ \cup {k}]
AddSlotToAccessList(s, a, k) ==
    LET t == IF AddressInAccessList(s, a) THEN s ELSE append(s, [change |-> "addAccount", account |-> a])
    IN  IF SlotInAccessList(s, a, k) THEN s
        ELSE append([t EXCEPT !.accessList = AddSlot(@, a, k)], [change |-> "addSlot", account |-> a, key |-> k])

DeleteSlot(al, a, k) ==
    LET idx == al.addresses[a]
        left == al.slots[idx] \ {k}
    IN  IF left = {} THEN [addresses |-> Put(al.addresses, a, 0), slots |-> SubSeq(al.slots, 1, idx - 1)]
                     ELSE [al EXCEPT !.slots[idx] = left]

Prepare(s, eip2929, warm) ==
    [s EXCEPT !.transientStorage = <<>>,
              !.accessList = IF eip2929 THEN [newAccessList EXCEPT !.addresses = [a \in warm |-> 0]] ELSE @]

-----------------------------------------------------------------------------
\* Undoing one journal entry.
revertEntry(s, e) ==
    LET t == getStateObject(s, e.account)
        nil == e.change \in {"createContract", "balance", "nonce", "code", "storage"} /\ ~Exist(s, e.account)
    IN  CASE e.change = "addLog" -> [s EXCEPT !.logs = SubSeq(@, 1, Len(@) - 1)]
          [] e.change = "refund" -> [s EXCEPT !.refund = e.prev]
          [] e.change = "touch" -> s
          [] e.change = "createObject" -> [s EXCEPT !.stateObjects = Without(@, e.account)]
          [] e.change = "transient" -> setTransientState(s, e.account, e.key, e.prev)
          [] e.change = "addAccount" -> [s EXCEPT !.accessList.addresses = Without(@, e.account)]
          [] e.change = "addSlot" ->
                IF At(s.accessList.addresses, e.account, 0) \in DOMAIN s.accessList.slots
                THEN [s EXCEPT !.accessList = DeleteSlot(@, e.account, e.key)] ELSE Fail(s, "no such slots")
          [] e.change = "selfDestruct" ->
                IF Exist(s, e.account) THEN [t EXCEPT !.stateObjects[e.account].selfDestructed = FALSE] ELSE s
          [] nil -> Fail(s, "nil object")
          [] OTHER ->
                CASE e.change = "createContract" -> [t EXCEPT !.stateObjects[e.account].newContract = FALSE]
                  [] e.change = "balance" -> [t EXCEPT !.stateObjects[e.account].data.bal = e.prev]
                  [] e.change = "nonce" -> [t EXCEPT !.stateObjects[e.account].data.nonce = e.prev]
                  [] e.change = "code" -> setCode(t, e.account, emptyCode)
                  [] e.change = "storage" -> setState(t, e.account, e.key, e.prev, e.origin)

undirty(s, a) == [s EXCEPT !.dirties = IF @[a] = 1 THEN Without(@, a) ELSE [@ EXCEPT ![a] = @ - 1]]

RECURSIVE revert(_, _)
revert(s, snapshot) ==
    IF Len(s.entries) <= snapshot THEN s
    ELSE LET e == Last(s.entries)
             t == revertEntry(s, e)
             u == IF dirtied(e) THEN undirty(t, e.account) ELSE t
         IN  revert([u EXCEPT !.entries = Front(@)], snapshot)

Snapshot(s) ==
    [s EXCEPT !.nextRevisionId = @ + 1,
              !.validRevisions = Append(@, [id |-> s.nextRevisionId, journalIndex |-> Len(s.entries)])]
RevertToSnapshot(s, revid) ==
    LET found == {i \in DOMAIN s.validRevisions : s.validRevisions[i].id = revid}
        idx == CHOOSE i \in found : TRUE
    IN  IF found = {} THEN Fail(s, "unknown revision")
        ELSE [revert(s, s.validRevisions[idx].journalIndex) EXCEPT !.validRevisions = SubSeq(@, 1, idx - 1)]

-----------------------------------------------------------------------------
\* The end of a transaction: an object's dirty slots become pending, those whose
\* tries still lag behind are tracked with the value the trie holds.
finalise(s, a) ==
    LET obj == s.stateObjects[a]
        changed == DOMAIN obj.dirtyStorage
        back == {k \in changed \cap DOMAIN obj.uncommittedStorage : obj.uncommittedStorage[k] = obj.dirtyStorage[k]}
        tracked == [k \in changed \ DOMAIN obj.uncommittedStorage |-> CommittedValue(s, a, k)]
    IN  [obj EXCEPT !.uncommittedStorage = tracked @@ Restrict(@, DOMAIN @ \ back),
                    !.pendingStorage = obj.dirtyStorage @@ @,
                    !.dirtyStorage = <<>>,
                    !.newContract = FALSE]

clearJournalAndRefund(s) ==
    [s EXCEPT !.entries = <<>>, !.dirties = <<>>, !.validRevisions = <<>>, !.nextRevisionId = 0, !.refund = 0]

Finalise(s, deleteEmptyObjects) ==
    LET seen == DOMAIN s.dirties \cap DOMAIN s.stateObjects
        gone == {a \in seen : \/ s.stateObjects[a].selfDestructed
                              \/ deleteEmptyObjects /\ empty(s.stateObjects[a])}
        live == DOMAIN s.stateObjects \ gone
    IN  clearJournalAndRefund(
          [s EXCEPT !.stateObjects = [a \in live |-> IF a \in seen THEN finalise(s, a) ELSE s.stateObjects[a]],
                    !.mutations = [a \in seen |-> [typ |-> IF a \in gone THEN "deletion" ELSE "update", applied |-> FALSE]] @@ @,
                    !.stateObjectsDestruct = @ @@ Restrict(s.stateObjects, gone)])

\* The members of a set in the order of a sequence: one order of a map's iteration.
InOrder(set, order) == SelectSeq(order, LAMBDA x : x \in set)

\* A storage trie takes the new values first, then the deletions.
updateTrie(s, disk, a, order) ==
    LET obj == s.stateObjects[a]
        opened == IF obj.trie = <<>> THEN New(disk[a], obj.data.root) ELSE obj.trie[1]
        todo == {k \in DOMAIN obj.uncommittedStorage : At(obj.pendingStorage, k, 0) /= obj.uncommittedStorage[k]}
        sets == {k \in todo : obj.pendingStorage[k] /= 0}
        set(trie, k) == Update(disk[a], trie, k, obj.pendingStorage[k])
        del(trie, k) == Delete(disk[a], trie, k)
        trie == FoldLeft(del, FoldLeft(set, opened, InOrder(sets, order)), InOrder(todo \ sets, order))
    IN  IF DOMAIN obj.uncommittedStorage = {} THEN obj
        ELSE [obj EXCEPT !.trie = <<trie>>, !.uncommittedStorage = <<>>, !.data.root = hash(trie.root)]

\* An update of a slot that changes nothing, or of one that is not pending.
NoopUpdate(obj) == \E k \in DOMAIN obj.uncommittedStorage : k \notin DOMAIN obj.pendingStorage \/ obj.pendingStorage[k] = obj.uncommittedStorage[k]

Unapplied(s, typ) == {a \in DOMAIN s.mutations : ~s.mutations[a].applied /\ s.mutations[a].typ = typ}

\* First the storage tries of the updated accounts, then the account trie: the
\* updates before the deletions.
updateRoots(s, disk, order) ==
    [s EXCEPT !.stateObjects = [a \in DOMAIN @ |-> IF a \in Unapplied(s, "update") THEN updateTrie(s, disk, a, order) ELSE @[a]],
              !.failed = @ \cup {x \in {"nil object"} : ~(Unapplied(s, "update") \subseteq DOMAIN s.stateObjects)}
                           \cup {x \in {"noop update"} : \E a \in Unapplied(s, "update") : NoopUpdate(s.stateObjects[a])}]
updateAccounts(s, disk, order) ==
    LET update(trie, a) == Update(disk[accountOwner], trie, a, s.stateObjects[a].data)
        del(trie, a) == Delete(disk[accountOwner], trie, a)
    IN  [s EXCEPT !.trie = FoldLeft(del, FoldLeft(update, @, InOrder(Unapplied(s, "update"), order)), InOrder(Unapplied(s, "deletion"), order)),
                  !.mutations = [a \in DOMAIN @ |-> [@[a] EXCEPT !.applied = TRUE]]]
Missing(s) == s.trie.tracer.missing \/ \E a \in DOMAIN s.stateObjects : s.stateObjects[a].trie /= <<>> /\ s.stateObjects[a].trie[1].tracer.missing
IntermediateRoot(s, disk, deleteEmptyObjects, order) ==
    updateAccounts(updateRoots(Finalise(s, deleteEmptyObjects), disk, order), disk, order)

-----------------------------------------------------------------------------
\* The storage of an account that was destroyed, slot by slot and node by node.
deleteStorage(root) ==
    [storages |-> [k \in DOMAIN LeavesBelow(<<>>, root) |-> 0],
     storagesOrigin |-> LeavesBelow(<<>>, root),
     nodes |-> NewDeleted({x[1] : x \in NodesOf(root)})]

\* Mutant: an account that exists again is not treated as destroyed.
handleDestruction_OnlyGone(s) ==
    LET existed == {a \in DOMAIN s.stateObjectsDestruct \ DOMAIN s.stateObjects : s.stateObjectsDestruct[a].origin /= <<>>}
    IN  [a \in existed |-> LET prev == s.stateObjectsDestruct[a].origin[1]
                           IN  [origin |-> <<prev>>] @@ deleteStorage(prev.root)]

\* Accounts that existed in the database and were destroyed, created again or not.
handleDestruction(s) ==
    LET existed == {a \in DOMAIN s.stateObjectsDestruct : s.stateObjectsDestruct[a].origin /= <<>>}
    IN  [a \in existed |-> LET prev == s.stateObjectsDestruct[a].origin[1]
                           IN  [origin |-> <<prev>>] @@ deleteStorage(prev.root)]

\* The update of one object: its account, its code if new, its changed slots and
\* the nodes of its storage trie, which is committed only if a slot changed.
commitObject(obj) ==
    LET changed == {k \in DOMAIN obj.pendingStorage : obj.pendingStorage[k] /= At(obj.originStorage, k, 0)}
    IN  [origin |-> obj.origin, data |-> <<obj.data>>,
         code |-> IF obj.dirtyCode THEN {obj.data.code} ELSE {},
         storages |-> Restrict(obj.pendingStorage, changed),
         storagesOrigin |-> [k \in changed |-> At(obj.originStorage, k, 0)],
         nodes |-> IF changed = {} THEN <<>> ELSE Commit(obj.trie[1])]

NoUpdate == [origin |-> <<>>, data |-> <<>>, code |-> {}, storages |-> <<>>, storagesOrigin |-> <<>>, nodes |-> <<>>]

\* Mutant: the original values of an update replace those of the deletion.
newStateUpdate_LastOrigin(s, deletes, updates, accountNodes) ==
    LET addrs == DOMAIN deletes \cup DOMAIN updates
        D(a) == At(deletes, a, NoUpdate)
        U(a) == At(updates, a, NoUpdate)
    IN  [originRoot |-> s.originalRoot,
         root |-> hash(s.trie.root),
         accounts |-> [a \in addrs |-> U(a).data],
         accountsOrigin |-> [a \in addrs |-> IF a \in DOMAIN updates THEN U(a).origin ELSE D(a).origin],
         storages |-> [a \in addrs |-> U(a).storages @@ D(a).storages],
         storagesOrigin |-> [a \in addrs |-> U(a).storagesOrigin @@ D(a).storagesOrigin],
         codes |-> UNION {U(a).code : a \in addrs},
         nodes |-> [a \in addrs |-> U(a).nodes @@ D(a).nodes] @@ (accountOwner :> accountNodes)]

\* newStateUpdate: deletions first; an update overrides values, never origins.
newStateUpdate(s, deletes, updates, accountNodes) ==
    LET addrs == DOMAIN deletes \cup DOMAIN updates
        D(a) == At(deletes, a, NoUpdate)
        U(a) == At(updates, a, NoUpdate)
    IN  [originRoot |-> s.originalRoot,
         root |-> hash(s.trie.root),
         accounts |-> [a \in addrs |-> U(a).data],
         accountsOrigin |-> [a \in addrs |-> IF a \in DOMAIN deletes THEN D(a).origin ELSE U(a).origin],
         storages |-> [a \in addrs |-> U(a).storages @@ D(a).storages],
         storagesOrigin |-> [a \in addrs |-> D(a).storagesOrigin @@ U(a).storagesOrigin],
         codes |-> UNION {U(a).code : a \in addrs},
         nodes |-> [a \in addrs |-> U(a).nodes @@ D(a).nodes] @@ (accountOwner :> accountNodes)]

\* The rest of commit, once IntermediateRoot has brought the tries up to date.
commit(s) ==
    newStateUpdate(s, handleDestruction(s),
                   [a \in {x \in DOMAIN s.mutations : s.mutations[x].typ = "update"} |-> commitObject(s.stateObjects[a])],
                   Commit(s.trie))
====
