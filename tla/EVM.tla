---- MODULE EVM ----
(***************************************************************************)
(* Blocks of transactions over the world state: the state transition       *)
(* (core/state_transition.go, state_processor.go) and the steps of the EVM *)
(* (core/vm) that change the state.                                        *)
(*                                                                         *)
(* The code of a contract is not modelled: an open call may take any step  *)
(* its rules allow and may fail at any point, as it does when it runs out  *)
(* of gas.  Of gas only the refund counter is kept, in units of 100, and   *)
(* the price paid for it, in units of the smallest transfer.               *)
(***************************************************************************)
EXTENDS StateDB

CONSTANTS Sender, Coinbase,
          NewContract,   \* the address of the contract that creations deploy
          Setups         \* rules, steps, bounds and first state of a behaviour

VARIABLES
    setup,    \* the behaviour's member of Setups
    sdb,      \* the StateDB of the block being executed
    db,       \* the stores: trie nodes by owner and path, flat state, codes
    frames,   \* the open calls: kind, address, revision, read-only
    inTx,     \* a transaction is being executed
    ops, txs, blocks,  \* how many steps, transactions and blocks so far
    world, calls       \* derived from sdb and frames: what the getters report

vars == <<setup, sdb, db, frames, inTx, ops, txs, blocks, world, calls>>

Precompiles == {ripemd}
IsByzantium == setup.rules /= "spurious"
IsEIP2929 == setup.rules \in {"berlin", "cancun"}
IsCancun == setup.rules = "cancun"

\* params/protocol_params.go, in units of 100 gas.
SelfdestructRefundGas == 240
SstoreRefundGas == 150
clearingRefund == IF IsCancun THEN 48 ELSE 150
resetToZeroRefund == 199
resetRefund == 28

Top == Last(frames)
Self == Top.self
Running == inTx /\ frames /= <<>>
May(op) == Running /\ op \in setup.ops /\ ops < setup.maxOps /\ ops' = ops + 1
Writes == ~Top.ro

Push(kind, self, s, ro) == Append(frames, [kind |-> kind, self |-> self, snap |-> s.nextRevisionId, ro |-> ro])
CanTransfer(s, a, value) == Data(s, a).bal >= value
Transfer(s, from, to, value) == AddBalance(SubBalance(s, from, value), to, value)

-----------------------------------------------------------------------------
(***************************************************************************)
(* The world as the getters of a StateDB report it.                        *)
(***************************************************************************)
AccountView(s, a) ==
    LET t == getStateObject(s, a)
        obj == t.stateObjects[a]
    IN  IF ~Exist(s, a) THEN <<>>
        ELSE <<[nonce |-> obj.data.nonce, bal |-> obj.data.bal, code |-> obj.data.code,
                slots |-> [k \in Keys |-> Value(t, a, k)],
                orig |-> [k \in Keys |-> CommittedValue(t, a, k)],
                fresh |-> obj.newContract, dead |-> obj.selfDestructed]>>

View(s) ==
    [accts |-> [a \in Addrs |-> AccountView(s, a)],
     warm |-> DOMAIN s.accessList.addresses,
     warmSlots |-> {x \in Addrs \X Keys : SlotInAccessList(s, x[1], x[2])},
     transient |-> [a \in Addrs |-> [k \in Keys |-> Transient(s, a, k)]],
     logs |-> s.logs, refund |-> s.refund]

\* The open calls; the world before each is the one its revision leads back to.
CallsView(s, fs) ==
    [i \in DOMAIN fs |-> [kind |-> fs[i].kind, self |-> fs[i].self, ro |-> fs[i].ro,
                          before |-> View(RevertToSnapshot(s, fs[i].snap))]]

\* Every action ends by deriving them from the state it leads to.
Derived == world' = View(sdb') /\ calls' = CallsView(sdb', frames')

-----------------------------------------------------------------------------
(***************************************************************************)
(* EVM.Call.  A call of an account without code ends at once; one with     *)
(* code opens a frame; a precompiled contract may fail.                    *)
(***************************************************************************)
CallSkips(s, addr, value) == ~Exist(s, addr) /\ addr \notin Precompiles /\ value = 0
Called(s, caller, addr, value) ==
    LET t == Snapshot(s)
    IN  Transfer(IF Exist(t, addr) THEN getStateObject(t, addr) ELSE createObject(t, addr), caller, addr, value)

Call(s, caller, addr, value, ro) ==
    \/ /\ CallSkips(s, addr, value)
       /\ sdb' = Snapshot(s)
       /\ frames' = frames
    \/ /\ ~CallSkips(s, addr, value)
       /\ LET t == Called(s, caller, addr, value)
          IN  IF addr \notin Precompiles /\ Data(t, addr).code /= emptyCode
              THEN sdb' = t /\ frames' = Push("call", addr, s, ro)
              ELSE /\ frames' = frames
                   /\ \/ sdb' = t
                      \/ addr \in Precompiles /\ sdb' = RevertToSnapshot(t, s.nextRevisionId)

\* EVM.create: the caller's nonce and the access list change for good, then the
\* contract is set up, unless its address is taken.
Create(s, caller, addr, value) ==
    LET t == SetNonce(s, caller, Data(s, caller).nonce + 1)
        u == IF IsEIP2929 THEN AddAddressToAccessList(t, addr) ELSE t
        v == getStateObject(u, addr)
        w == Snapshot(v)
        made == CreateContract(IF Exist(w, addr) THEN w ELSE createObject(w, addr), addr)
    IN  IF Data(v, addr).nonce /= 0 \/ Data(v, addr).code /= emptyCode \/ Data(v, addr).root /= EmptyRootHash
        THEN sdb' = v /\ frames' = frames
        ELSE /\ sdb' = Transfer(SetNonce(made, addr, 1), caller, addr, value)
             /\ frames' = Push("create", addr, v, FALSE)

\* A step of a call leaves the rest alone.
StepUnchanged == UNCHANGED <<setup, db, inTx, txs, blocks>> /\ Derived

\* The charge of a call variant makes its target warm in the caller's frame.
Warmed(s, addr) == IF IsEIP2929 THEN AddAddressToAccessList(s, addr) ELSE s

OpCall ==
    /\ May("call")
    /\ \E addr \in setup.targets, value \in setup.values :
        /\ Writes \/ value = 0
        /\ LET s == Warmed(sdb, addr)
           IN  IF Len(frames) < setup.depth /\ CanTransfer(s, Self, value)
               THEN Call(s, Self, addr, value, Top.ro)
               ELSE sdb' = s /\ frames' = frames
    /\ StepUnchanged

OpStaticCall ==
    /\ May("static") /\ IsByzantium
    /\ \E addr \in setup.targets :
        LET s == Warmed(sdb, addr)
            t == AddBalance(Snapshot(s), addr, 0)
        IN  IF Len(frames) >= setup.depth THEN sdb' = s /\ frames' = frames
            ELSE IF addr \notin Precompiles /\ Data(t, addr).code /= emptyCode
            THEN sdb' = t /\ frames' = Push("call", addr, s, TRUE)
            ELSE /\ frames' = frames
                 /\ \/ sdb' = t
                    \/ addr \in Precompiles /\ sdb' = RevertToSnapshot(t, s.nextRevisionId)
    /\ StepUnchanged

OpDelegateCall ==
    /\ May("delegate")
    /\ \E addr \in setup.targets :
        LET s == Warmed(sdb, addr)
        IN  /\ Len(frames) < setup.depth
            /\ addr \notin Precompiles /\ Data(s, addr).code /= emptyCode
            /\ sdb' = Snapshot(getStateObject(s, addr))
            /\ frames' = Push("call", Self, s, Top.ro)
    /\ StepUnchanged

OpCreate2 ==
    /\ May("create2") /\ Writes
    /\ \E value \in setup.values :
        IF Len(frames) < setup.depth /\ CanTransfer(sdb, Self, value)
        THEN Create(sdb, Self, NewContract, value)
        ELSE UNCHANGED <<sdb, frames>>
    /\ StepUnchanged

-----------------------------------------------------------------------------
\* gasSStore before EIP-1283, and makeGasSStoreFunc: what a write adds to the
\* refund counter or takes from it.
legacyRefund(s, k, value) ==
    IF StateOf(s, Self, k) /= 0 /\ value = 0 THEN AddRefund(s, SstoreRefundGas) ELSE s

\* Mutant: clearing a slot that was not written before is not credited.
netRefund_NoFirstClear(s, k, value) ==
    LET current == StateOf(s, Self, k)
        original == CommittedOf(s, Self, k)
        t == CASE original /= 0 /\ current = 0 -> SubRefund(s, clearingRefund)
               [] original /= 0 /\ current /= 0 /\ value = 0 -> AddRefund(s, clearingRefund)
               [] OTHER -> s
    IN  CASE current = value \/ original = current -> s
          [] OTHER -> IF original /= value THEN t
                      ELSE AddRefund(t, IF original = 0 THEN resetToZeroRefund ELSE resetRefund)

netRefund(s, k, value) ==
    LET current == StateOf(s, Self, k)
        original == CommittedOf(s, Self, k)
        t == CASE original /= 0 /\ current = 0 -> SubRefund(s, clearingRefund)
               [] original /= 0 /\ current /= 0 /\ value = 0 -> AddRefund(s, clearingRefund)
               [] OTHER -> s
    IN  CASE current = value -> s
          [] current /= value /\ original = current -> IF original /= 0 /\ value = 0 THEN AddRefund(s, clearingRefund) ELSE s
          [] OTHER -> IF original /= value THEN t
                      ELSE AddRefund(t, IF original = 0 THEN resetToZeroRefund ELSE resetRefund)

OpSstore ==
    /\ May("sstore") /\ Writes
    /\ \E k \in setup.keys, value \in setup.slotValues :
        LET s == GetState(sdb, Self, k)
            t == IF IsEIP2929 THEN netRefund(AddSlotToAccessList(s, Self, k), k, value) ELSE legacyRefund(s, k, value)
        IN  sdb' = SetState(t, Self, k, value)
    /\ frames' = frames /\ StepUnchanged

OpSload ==
    /\ May("sload")
    /\ \E k \in setup.keys :
        LET s == IF IsEIP2929 THEN AddSlotToAccessList(sdb, Self, k) ELSE sdb
        IN  sdb' = GetState(s, Self, k)
    /\ frames' = frames /\ StepUnchanged

\* EXTCODEHASH, EXTCODESIZE and BALANCE make an account warm.
OpExtAccount ==
    /\ May("ext")
    /\ \E addr \in setup.targets : sdb' = getStateObject(Warmed(sdb, addr), addr)
    /\ frames' = frames /\ StepUnchanged

OpTstore ==
    /\ May("tstore") /\ Writes /\ IsCancun
    /\ \E k \in setup.keys, value \in setup.slotValues : sdb' = SetTransientState(sdb, Self, k, value)
    /\ frames' = frames /\ StepUnchanged

OpLog ==
    /\ May("log") /\ Writes
    /\ sdb' = AddLog(sdb)
    /\ frames' = frames /\ StepUnchanged

-----------------------------------------------------------------------------
\* The top call ends: the code a creation returns is stored, a failed call is undone.
Deployed(s, code) == IF Top.kind = "create" THEN SetCode(s, Self, code) ELSE s

\* gasSelfdestruct and makeSelfdestructGasFn: the first destruction of a contract
\* is refunded, until London.
selfdestructRefund(s) ==
    IF ~IsCancun /\ ~HasSelfDestructed(s, Self) THEN AddRefund(s, SelfdestructRefundGas) ELSE s

\* SELFDESTRUCT ends its call without output.
OpSelfdestruct ==
    /\ May("selfdestruct") /\ Writes
    /\ \E heir \in setup.heirs :
        LET t == selfdestructRefund(Warmed(sdb, heir))
            balance == Data(t, Self).bal
        IN  sdb' = Deployed(IF IsCancun
                            THEN SelfDestruct6780(AddBalance(SubBalance(t, Self, balance), heir, balance), Self)
                            ELSE SelfDestruct(AddBalance(t, heir, balance), Self), emptyCode)
    /\ frames' = Front(frames) /\ StepUnchanged

Return ==
    /\ Running
    /\ \E code \in IF Top.kind = "create" THEN {emptyCode, 1} ELSE {emptyCode} : sdb' = Deployed(sdb, code)
    /\ frames' = Front(frames)
    /\ ops' = ops /\ StepUnchanged

ReturnError ==
    /\ Running
    /\ sdb' = RevertToSnapshot(sdb, Top.snap)
    /\ frames' = Front(frames)
    /\ ops' = ops /\ StepUnchanged

-----------------------------------------------------------------------------
\* preCheck, buyGas and Prepare of a valid transaction.
Bought(dst) ==
    Prepare(SubBalance(sdb, Sender, setup.gas), IsEIP2929,
            {Sender} \cup Precompiles \cup dst \cup (IF IsCancun THEN {Coinbase} ELSE {}))

BeginTx(value) ==
    /\ ~inTx /\ txs < setup.maxTxs /\ CanTransfer(sdb, Sender, setup.gas + value)
    /\ inTx' = TRUE /\ txs' = txs + 1
    /\ UNCHANGED <<setup, db, ops, blocks>>

TxCall ==
    \E to \in setup.txTargets, value \in setup.values :
        /\ BeginTx(value)
        /\ LET s == Bought({to}) IN Call(SetNonce(s, Sender, Data(s, Sender).nonce + 1), Sender, to, value, FALSE)
        /\ Derived

\* The address depends on the nonce: only one transaction creates NewContract.
TxCreate ==
    \E value \in setup.values :
        /\ BeginTx(value)
        /\ "txcreate" \in setup.ops /\ Data(sdb, Sender).nonce = 0
        /\ Create(Bought({}), Sender, NewContract, value)
        /\ Derived

\* What is left of the gas returns to the sender, the rest pays the coinbase.
refundGas(s, left) == AddBalance(AddBalance(s, Sender, left), Coinbase, setup.gas - left)

\* ApplyTransactionWithEVM: the state is finalised, before Byzantium also hashed.
TxEnd ==
    /\ inTx /\ frames = <<>>
    /\ \E left \in 0 .. setup.gas, order \in setup.orders :
        LET s == refundGas(sdb, left)
        IN  sdb' = IF IsByzantium THEN Finalise(s, TRUE) ELSE IntermediateRoot(s, db.nodes, TRUE, order)
    /\ inTx' = FALSE
    /\ UNCHANGED <<setup, db, frames, ops, txs, blocks>>
    /\ Derived

-----------------------------------------------------------------------------
\* The stores once a state update is applied to them.
NonZero(f) == Restrict(f, {x \in DOMAIN f : f[x] /= 0})
Overlaid(flat, accounts, storages) ==
    LET accts == accounts @@ flat.accounts
    IN  [accounts |-> Restrict(accts, {a \in DOMAIN accts : accts[a] /= <<>>}),
         storages |-> [a \in Addrs |-> NonZero(At(storages, a, <<>>) @@ flat.storages[a])]]

\* commitAndFlush: codes always, the rest unless the root is the same.
Flushed(upd) ==
    LET codes == db.codes \cup upd.codes
    IN  IF upd.root = upd.originRoot THEN [db EXCEPT !.codes = codes]
        ELSE [root |-> upd.root,
              nodes |-> [o \in DOMAIN db.nodes |-> Applied(db.nodes[o], At(upd.nodes, o, <<>>))],
              flat |-> Overlaid(db.flat, upd.accounts, upd.storages),
              origins |-> [accounts |-> upd.accountsOrigin, storages |-> upd.storagesOrigin],
              codes |-> codes]

\* The engine's reward or withdrawal at the end of a block, if there is one.
Finalize(s, reward) == IF reward = 0 THEN s ELSE AddBalance(s, Coinbase, reward)

\* The end of a block: the engine, the validation of the state root, the commit,
\* and a new StateDB for the next block.
CommitBlock ==
    /\ ~inTx /\ blocks < setup.maxBlocks
    /\ \E order \in setup.orders, reward \in setup.rewards :
       \E t \in {IntermediateRoot(Finalize(sdb, reward), db.nodes, TRUE, order)} :
       \E u \in {IntermediateRoot(t, db.nodes, TRUE, order)} :
       \E upd \in {commit(u)} :
        /\ db' = Flushed(upd)
        /\ sdb' = [NewStateDB(db'.nodes, upd.root) EXCEPT !.failed = u.failed \cup {x \in {"missing node"} : Missing(u)}]
    /\ blocks' = blocks + 1
    /\ UNCHANGED <<setup, frames, inTx, ops, txs>>
    /\ Derived

-----------------------------------------------------------------------------
\* The first state: accounts with their storage, none of them empty.
Genesis(accounts) ==
    LET acct(a) == [nonce |-> accounts[a].nonce, bal |-> accounts[a].bal, code |-> accounts[a].code, root |-> TrieOf(accounts[a].storage)]
        root == TrieOf([a \in DOMAIN accounts |-> acct(a)])
    IN  [root |-> root,
         nodes |-> [o \in {accountOwner} \cup Addrs |->
                        AsNodes(NodesOf(IF o = accountOwner THEN root
                                        ELSE IF o \in DOMAIN accounts THEN acct(o).root ELSE EmptyRootHash))],
         flat |-> [accounts |-> [a \in DOMAIN accounts |-> <<acct(a)>>],
                   storages |-> [a \in Addrs |-> IF a \in DOMAIN accounts THEN accounts[a].storage ELSE <<>>]],
         origins |-> [accounts |-> <<>>, storages |-> <<>>],
         codes |-> {accounts[a].code : a \in DOMAIN accounts}]

-----------------------------------------------------------------------------
Init ==
    /\ setup \in Setups
    /\ db = Genesis(setup.accounts)
    /\ sdb = NewStateDB(db.nodes, db.root)
    /\ frames = <<>> /\ inTx = FALSE
    /\ ops = 0 /\ txs = 0 /\ blocks = 0
    /\ world = View(sdb) /\ calls = <<>>

Next ==
    \/ TxCall \/ TxCreate \/ TxEnd \/ CommitBlock
    \/ OpCall \/ OpStaticCall \/ OpDelegateCall \/ OpCreate2
    \/ OpSstore \/ OpSload \/ OpExtAccount \/ OpTstore \/ OpLog \/ OpSelfdestruct
    \/ Return \/ ReturnError

Spec == Init /\ [][Next]_vars

World == INSTANCE WorldState WITH rules <- setup.rules, w <- world

-----------------------------------------------------------------------------
\* The state has its shape, and nothing the code treats as impossible happened:
\* no refund below zero (statedb.go SubRefund panics), no unknown revision
\* (revertToSnapshot panics), no journal entry for a missing object, no slot
\* update without effect (updateTrie logs an error), no missing trie node.
NeverFails ==
    /\ sdb.failed = {} /\ ~Missing(sdb)
    /\ DOMAIN sdb.stateObjects \subseteq Addrs
    /\ \A a \in DOMAIN sdb.stateObjects : sdb.stateObjects[a].data.bal >= 0
    /\ \A i \in DOMAIN sdb.entries : dirtied(sdb.entries[i]) => sdb.entries[i].account \in DOMAIN sdb.dirties
    /\ sdb.refund \in Nat

\* Whatever calls, failures, destructions and blocks come, the journal, the layers
\* of storage and the caches of StateDB behave as a plain map of accounts of which
\* every open call holds a copy (journal.go revert, state_object.go, Finalise).
ImplementsWorld == World!Spec

\* The trie of a content with the storage each account has in the world.
RootOf(accts) ==
    LET there == {a \in Addrs : accts[a] /= <<>>}
        storage(a) == NonZero(accts[a][1].slots)
    IN  TrieOf([a \in there |-> [nonce |-> accts[a][1].nonce, bal |-> accts[a][1].bal,
                                 code |-> accts[a][1].code, root |-> TrieOf(storage(a))]])

\* Between transactions, when the tries are up to date, the state root is the root
\* of exactly the accounts and slots the getters report; the store holds exactly
\* the nodes of the account trie and of the storage tries of the committed state,
\* none missing and none left over (tracer.go, deleteStorage, committer.go), and
\* the code of every account (commitAndFlush).
NodesExact ==
    /\ ~inTx /\ (\A a \in DOMAIN sdb.mutations : sdb.mutations[a].applied)
          => hash(sdb.trie.root) = RootOf(View(sdb).accts)
    /\ LET accts == LeavesBelow(<<>>, db.root)
       IN  /\ db.nodes[accountOwner] = AsNodes(NodesOf(db.root))
           /\ \A a \in Addrs : db.nodes[a] = IF a \in DOMAIN accts THEN AsNodes(NodesOf(accts[a].root)) ELSE <<>>
           /\ \A a \in DOMAIN accts : accts[a].code \in db.codes

\* The flat state a root stands for.
FlatOf(root) ==
    LET r == Reader(root)
    IN  [accounts |-> [a \in DOMAIN r.accounts |-> <<r.accounts[a]>>],
         storages |-> [a \in Addrs |-> At(r.storages, a, <<>>)]]

\* A commit's state update leads the flat state to what the new trie holds, and its
\* original values lead back to the state before, also when accounts were destroyed
\* and created again in the block (newStateUpdate).
UpdateExact ==
    [][db'.root /= db.root =>
          /\ db'.flat = FlatOf(db'.root)
          /\ Overlaid(db'.flat, db'.origins.accounts, db'.origins.storages) = db.flat]_vars
====
