------------------------- MODULE FreezerRefinement -------------------------
(***************************************************************************)
(* The tables of the freezer together implement one table of rows, for any *)
(* tables, contents and bounds: every step of FreezerRows is a step of     *)
(* AncientTable on the view, or leaves the view as it is.                  *)
(***************************************************************************)
EXTENDS FreezerProofs

\* What SMT leaves open is tried with Zenon, and once more with Z3.
USE SMT, Zenon, Z3T(30)

(***************************************************************************)
(* Every step of the tables is a step of the view, or leaves it alone.     *)
(***************************************************************************)
TablesOK(ts) == ts \in [Tables -> T!Table] /\ \A t \in Tables : T!Ordered(ts[t])
Mapped == Rows!StoreNext \/ UNCHANGED <<view, mode>>

LEMMA SameItems ==
    ASSUME NEW S, NEW f \in [S -> Values], NEW g \in [S -> Values], \A i \in S : f[i] = g[i]
    PROVE  f = g
OBVIOUS

\* The numbers of a table, and how they are ordered.
LEMMA TableNumbers ==
    ASSUME NEW ts, TablesOK(ts), NEW t \in Tables
    PROVE  /\ ts[t].lo \in Nat /\ ts[t].head \in Nat /\ ts[t].hid \in Nat
           /\ ts[t].dur \in Nat /\ ts[t].hidDur \in Nat
           /\ ts[t].lo <= ts[t].hidDur /\ ts[t].hidDur <= ts[t].hid /\ ts[t].dur <= ts[t].head
<1>1. ts[t] \in T!Table /\ T!Ordered(ts[t])
  BY DEF TablesOK
<1> QED BY <1>1, FreezerAssumption DEF T!Table, T!Ordered

\* The same of a view, which may have no rows.
LEMMA ViewNumbers ==
    ASSUME NEW ts, TablesOK(ts), NEW V, NEW isOpen \in BOOLEAN, ViewOf(V, ts, isOpen)
    PROVE  /\ V \in T!Table
           /\ V.lo \in Nat /\ V.head \in Nat /\ V.hid \in Nat /\ V.dur \in Nat /\ V.hidDur \in Nat
           /\ V.dur <= V.head /\ V.hidDur <= V.hid /\ V.lo <= V.hidDur
<1>1. /\ V \in T!Table
      /\ V.lo \in Nat /\ V.head \in Nat /\ V.hid \in Nat /\ V.dur \in Nat /\ V.hidDur \in Nat
  <2>1. V \in T!Table
    BY DEF ViewOf
  <2> QED BY <2>1, FreezerAssumption DEF T!Table
<1>2. V.dur <= V.head
  <2>1. PICK t \in Tables : V.head = ts[t].head
    BY DEF ViewOf
  <2>2. ts[t].dur \in Nat /\ ts[t].dur <= ts[t].head
    BY TableNumbers
  <2>3. CASE isOpen
    <3>1. V.dur <= ts[t].dur
      BY <2>3 DEF ViewOf
    <3> QED BY <1>1, <2>1, <2>2, <3>1
  <2>4. CASE ~isOpen
    BY <1>1, <2>4 DEF ViewOf
  <2> QED BY <2>3, <2>4
<1>3. V.hidDur <= V.hid
  <2>1. PICK t \in Tables : V.hidDur = ts[t].hidDur
    BY DEF ViewOf
  <2>2. ts[t].hid \in Nat /\ ts[t].hidDur <= ts[t].hid /\ ts[t].hid <= V.hid
    BY TableNumbers DEF ViewOf
  <2> QED BY <1>1, <2>1, <2>2
<1>4. V.lo <= V.hidDur
  <2>1. PICK t \in Tables : V.lo = ts[t].lo
    BY DEF ViewOf
  <2>2. ts[t].hidDur \in Nat /\ ts[t].lo <= ts[t].hidDur /\ ts[t].hidDur <= V.hidDur
    BY TableNumbers DEF ViewOf
  <2> QED BY <1>1, <2>1, <2>2
<1> QED BY <1>1, <1>2, <1>3, <1>4

\* How two views compare when their tables do.
LEMMA HeadsBelow ==
    ASSUME NEW ts, TablesOK(ts), NEW V, NEW a \in BOOLEAN, ViewOf(V, ts, a),
           NEW us, TablesOK(us), NEW W, NEW b \in BOOLEAN, ViewOf(W, us, b),
           \A t \in Tables : us[t].head <= ts[t].head
    PROVE  W.head <= V.head
<1>1. PICK t \in Tables : V.head = ts[t].head
  BY DEF ViewOf
<1>2. W.head <= us[t].head /\ us[t].head <= ts[t].head
  BY DEF ViewOf
<1>3. us[t].head \in Nat /\ ts[t].head \in Nat /\ W.head \in Nat
  BY TableNumbers, ViewNumbers
<1> QED BY <1>1, <1>2, <1>3

LEMMA LosAbove ==
    ASSUME NEW ts, TablesOK(ts), NEW V, NEW a \in BOOLEAN, ViewOf(V, ts, a),
           NEW us, TablesOK(us), NEW W, NEW b \in BOOLEAN, ViewOf(W, us, b),
           \A t \in Tables : ts[t].lo <= us[t].lo
    PROVE  V.lo <= W.lo
<1>1. PICK t \in Tables : V.lo = ts[t].lo
  BY DEF ViewOf
<1>2. us[t].lo <= W.lo /\ ts[t].lo <= us[t].lo
  BY DEF ViewOf
<1>3. us[t].lo \in Nat /\ ts[t].lo \in Nat /\ W.lo \in Nat
  BY TableNumbers, ViewNumbers
<1> QED BY <1>1, <1>2, <1>3

LEMMA HidsAbove ==
    ASSUME NEW ts, TablesOK(ts), NEW V, NEW a \in BOOLEAN, ViewOf(V, ts, a),
           NEW us, TablesOK(us), NEW W, NEW b \in BOOLEAN, ViewOf(W, us, b),
           \A t \in Tables : ts[t].hid <= us[t].hid
    PROVE  V.hid <= W.hid
<1>1. PICK t \in Tables : V.hid = ts[t].hid
  BY DEF ViewOf
<1>2. us[t].hid <= W.hid /\ ts[t].hid <= us[t].hid
  BY DEF ViewOf
<1>3. us[t].hid \in Nat /\ ts[t].hid \in Nat /\ W.hid \in Nat
  BY TableNumbers, ViewNumbers
<1> QED BY <1>1, <1>2, <1>3

LEMMA HidDursAbove ==
    ASSUME NEW ts, TablesOK(ts), NEW V, NEW a \in BOOLEAN, ViewOf(V, ts, a),
           NEW us, TablesOK(us), NEW W, NEW b \in BOOLEAN, ViewOf(W, us, b),
           \A t \in Tables : ts[t].hidDur <= us[t].hidDur
    PROVE  V.hidDur <= W.hidDur
<1>1. PICK t \in Tables : V.hidDur = ts[t].hidDur
  BY DEF ViewOf
<1>2. us[t].hidDur <= W.hidDur /\ ts[t].hidDur <= us[t].hidDur
  BY DEF ViewOf
<1>3. us[t].hidDur \in Nat /\ ts[t].hidDur \in Nat /\ W.hidDur \in Nat
  BY TableNumbers, ViewNumbers
<1> QED BY <1>1, <1>2, <1>3

\* A row of the view is a row of every table.
LEMMA RowIn ==
    ASSUME NEW ts, TablesOK(ts), NEW V, NEW a \in BOOLEAN, ViewOf(V, ts, a),
           NEW t \in Tables, NEW i \in V.lo .. V.head - 1
    PROVE  i \in Int /\ i \in ts[t].lo .. ts[t].head - 1 /\ V.val[i] = ts[t].val[i]
<1>1. V.val[i] = ts[t].val[i] /\ ts[t].lo <= V.lo /\ V.head <= ts[t].head
  BY DEF ViewOf
<1>2. ts[t].lo \in Nat /\ ts[t].head \in Nat /\ V.lo \in Nat /\ V.head \in Nat
  BY TableNumbers, ViewNumbers
<1> QED BY <1>1, <1>2

LEMMA DursBelow ==
    ASSUME NEW a \in BOOLEAN, a, NEW ts, TablesOK(ts), NEW V, ViewOf(V, ts, a),
           NEW us, TablesOK(us), NEW W, ViewOf(W, us, a),
           \A t \in Tables : ts[t].dur <= us[t].dur
    PROVE  V.dur <= W.dur
<1>1. PICK t \in Tables : W.dur = us[t].dur
  BY DEF ViewOf
<1>2. V.dur <= ts[t].dur /\ ts[t].dur <= us[t].dur
  BY DEF ViewOf
<1>3. us[t].dur \in Nat /\ ts[t].dur \in Nat
  BY TableNumbers
<1>4. V.dur \in Nat
  BY Zenon, ViewNumbers
<1> QED BY <1>1, <1>2, <1>3, <1>4

\* A view is the same when its tables are, as far as they are flushed.
LEMMA SameRows ==
    ASSUME TablesOK(tabs), TablesOK(tabs'), NEW a \in BOOLEAN, NEW b \in BOOLEAN,
           ViewOf(view, tabs, a), ViewOf(view', tabs', b),
           \A t \in Tables : /\ tabs'[t].lo = tabs[t].lo /\ tabs'[t].head = tabs[t].head
                             /\ tabs'[t].val = tabs[t].val /\ tabs'[t].hid = tabs[t].hid
    PROVE  view'.lo = view.lo /\ view'.head = view.head /\ view'.val = view.val /\ view'.hid = view.hid
<1>1. \A t \in Tables : tabs[t].lo \in Nat /\ tabs[t].head \in Nat /\ tabs[t].hid \in Nat
  BY TableNumbers
<1>2. \A t \in Tables : tabs[t].lo <= tabs'[t].lo /\ tabs[t].head <= tabs'[t].head /\ tabs[t].hid <= tabs'[t].hid
  BY <1>1
<1>3. \A t \in Tables : tabs'[t].lo <= tabs[t].lo /\ tabs'[t].head <= tabs[t].head /\ tabs'[t].hid <= tabs[t].hid
  BY <1>1
<1>4. /\ view.lo \in Nat /\ view.head \in Nat /\ view.hid \in Nat
      /\ view'.lo \in Nat /\ view'.head \in Nat /\ view'.hid \in Nat
  BY ViewNumbers
<1>5. view'.lo = view.lo
  BY <1>2, <1>3, <1>4, LosAbove
<1>6. view'.head = view.head
  BY <1>2, <1>3, <1>4, HeadsBelow
<1>7. view'.hid = view.hid
  BY <1>2, <1>3, <1>4, HidsAbove
<1>8. ASSUME NEW i \in view.lo .. view.head - 1 PROVE view.val[i] = view'.val[i]
  <2>1. PICK t \in Tables : TRUE
    BY FreezerAssumption
  <2>2. view.val[i] = tabs[t].val[i]
    BY RowIn
  <2>3. view'.val[i] = tabs'[t].val[i]
    BY <1>5, <1>6, RowIn
  <2> QED BY <2>2, <2>3
<1>9. /\ view.val \in [view.lo .. view.head - 1 -> Values]
      /\ view'.val \in [view.lo .. view.head - 1 -> Values]
  BY <1>5, <1>6 DEF ViewOf
<1>10. view'.val = view.val
  <2> DEFINE S == view.lo .. view.head - 1
             f == view.val
             g == view'.val
  <2>1. f \in [S -> Values] /\ g \in [S -> Values] /\ \A i \in S : f[i] = g[i]
    BY <1>8, <1>9
  <2> HIDE DEF S, f, g
  <2>2. f = g
    BY <2>1, SameItems
  <2> QED BY <2>2 DEF f, g
<1> QED BY <1>5, <1>6, <1>7, <1>10

\* So are the tails when those of the tables are.
LEMMA SameTails ==
    ASSUME TablesOK(tabs), TablesOK(tabs'), NEW a \in BOOLEAN, NEW b \in BOOLEAN,
           ViewOf(view, tabs, a), ViewOf(view', tabs', b),
           \A t \in Tables : /\ tabs'[t].lo = tabs[t].lo /\ tabs'[t].hid = tabs[t].hid
                             /\ tabs'[t].hidDur = tabs[t].hidDur
    PROVE  view'.lo = view.lo /\ view'.hid = view.hid /\ view'.hidDur = view.hidDur
<1>1. \A t \in Tables : tabs[t].lo \in Nat /\ tabs[t].hid \in Nat /\ tabs[t].hidDur \in Nat
  BY TableNumbers
<1>2. \A t \in Tables : tabs[t].lo <= tabs'[t].lo /\ tabs[t].hid <= tabs'[t].hid /\ tabs[t].hidDur <= tabs'[t].hidDur
  BY <1>1
<1>3. \A t \in Tables : tabs'[t].lo <= tabs[t].lo /\ tabs'[t].hid <= tabs[t].hid /\ tabs'[t].hidDur <= tabs[t].hidDur
  BY <1>1
<1>4. /\ view.lo \in Nat /\ view.hid \in Nat /\ view.hidDur \in Nat
      /\ view'.lo \in Nat /\ view'.hid \in Nat /\ view'.hidDur \in Nat
  BY ViewNumbers
<1>5. view'.lo = view.lo
  BY <1>2, <1>3, <1>4, LosAbove
<1>6. view'.hid = view.hid
  BY <1>2, <1>3, <1>4, HidsAbove
<1>7. view'.hidDur = view.hidDur
  BY <1>2, <1>3, <1>4, HidDursAbove
<1> QED BY <1>5, <1>6, <1>7

LEMMA StepSync ==
    ASSUME TablesOK(tabs), TablesOK(tabs'), NEW b \in BOOLEAN, b, ViewOf(view, tabs, b), ViewOf(view', tabs', b),
           NEW t \in Tables, NEW Y, SyncsTable(t, Y)
    PROVE  Rows!StoreNext
<1>1. /\ mode = "open" /\ mode' = mode
      /\ tabs'[t] = Y /\ \A u \in Tables \ {t} : tabs'[u] = tabs[u]
  BY DEF SyncsTable, TablesOK
<1>2. \A u \in Tables : /\ tabs'[u].lo = tabs[u].lo /\ tabs'[u].head = tabs[u].head
                        /\ tabs'[u].val = tabs[u].val /\ tabs'[u].hid = tabs[u].hid
  BY <1>1 DEF SyncsTable
<1>3. \A u \in Tables : tabs[u].dur <= tabs'[u].dur /\ tabs[u].hidDur <= tabs'[u].hidDur
  BY <1>1, TableNumbers DEF SyncsTable
<1>4. view'.lo = view.lo /\ view'.head = view.head /\ view'.val = view.val /\ view'.hid = view.hid
  BY Zenon, <1>2, SameRows
<1>5. view.dur <= view'.dur
  BY Zenon, <1>3, DursBelow
<1>6. view.hidDur <= view'.hidDur
  BY Zenon, <1>3, HidDursAbove
<1>7. /\ view.dur \in Nat /\ view'.dur \in Nat /\ view.hidDur \in Nat /\ view'.hidDur \in Nat
      /\ view \in T!Table /\ view.head \in Nat /\ view.hid \in Nat
  BY Zenon, ViewNumbers
<1>8. view' \in T!Table /\ view'.dur <= view'.head /\ view'.hidDur <= view'.hid
  BY ZenonT(30), ViewNumbers
<1>9. view'.dur \in view.dur .. view.head /\ view'.hidDur \in view.hidDur .. view.hid
  BY <1>4, <1>5, <1>6, <1>7, <1>8
<1> QED BY ZenonT(40), <1>1, <1>4, <1>7, <1>8, <1>9, MapFlush

\* What the steps of the tables do to all of them, n being the head that a
\* truncation aims at.
Appends ==
    \A u \in Tables : /\ tabs'[u].lo = tabs[u].lo /\ tabs'[u].hid = tabs[u].hid
                      /\ tabs'[u].dur = tabs[u].dur /\ tabs'[u].hidDur = tabs[u].hidDur
                      /\ tabs[u].head <= tabs'[u].head
                      /\ \A i \in tabs[u].lo .. tabs[u].head - 1 : tabs'[u].val[i] = tabs[u].val[i]

CutsHeads(n) ==
    /\ \E t \in Tables : tabs'[t].head = n
    /\ \A u \in Tables : /\ tabs'[u].lo = tabs[u].lo /\ tabs'[u].hid = tabs[u].hid
                         /\ tabs'[u].hidDur = tabs[u].hidDur
                         /\ tabs'[u].dur = tabs[u].dur \/ tabs'[u].dur = n
                         /\ tabs'[u].head <= tabs[u].head /\ n <= tabs'[u].head /\ tabs[u].hid <= n
                         /\ \A i \in tabs'[u].lo .. tabs'[u].head - 1 : tabs'[u].val[i] = tabs[u].val[i]

CutsTails(isOpen) ==
    \A u \in Tables :
      /\ tabs[u].lo <= tabs'[u].lo /\ tabs[u].hid <= tabs'[u].hid /\ tabs[u].hidDur <= tabs'[u].hidDur
      /\ tabs'[u].head <= tabs[u].head /\ \E v \in Tables : tabs[v].head <= tabs'[u].head
      /\ isOpen => tabs[u].dur <= tabs'[u].dur
      /\ \/ \E v \in Tables : tabs'[u].hid = tabs[v].hid
         \/ isOpen /\ \A v \in Tables : tabs'[u].hid <= tabs[v].head
      /\ \A i \in tabs'[u].lo .. tabs'[u].head - 1 : tabs'[u].val[i] = tabs[u].val[i]

LEMMA StepAppend ==
    ASSUME TablesOK(tabs), TablesOK(tabs'), NEW b \in BOOLEAN, b, ViewOf(view, tabs, b), ViewOf(view', tabs', b),
           mode = "open", mode' = mode, Appends, view.lo <= view.head
    PROVE  Mapped
<1>1. \A u \in Tables : tabs[u].dur \in Nat /\ tabs[u].dur = tabs'[u].dur
  BY TableNumbers DEF Appends
<1>3. \A u \in Tables : tabs[u].dur <= tabs'[u].dur
  BY <1>1
<1>4. \A u \in Tables : tabs'[u].dur <= tabs[u].dur
  BY <1>1
<1>5. /\ view.lo \in Nat /\ view.head \in Nat /\ view.hid \in Nat /\ view.dur \in Nat /\ view.hidDur \in Nat
      /\ view'.lo \in Nat /\ view'.head \in Nat /\ view'.hid \in Nat /\ view'.dur \in Nat /\ view'.hidDur \in Nat
      /\ view \in T!Table /\ view' \in T!Table
  BY Zenon, ViewNumbers
<1>6. view'.lo = view.lo /\ view'.hid = view.hid /\ view'.hidDur = view.hidDur
  <2>1. \A u \in Tables : /\ tabs'[u].lo = tabs[u].lo /\ tabs'[u].hid = tabs[u].hid
                          /\ tabs'[u].hidDur = tabs[u].hidDur
    BY DEF Appends
  <2> QED BY Zenon, <2>1, SameTails
<1>7. view'.dur = view.dur
  <2>1. view.dur <= view'.dur
    BY Zenon, <1>3, DursBelow
  <2>2. view'.dur <= view.dur
    BY Zenon, <1>4, DursBelow
  <2> QED BY <1>5, <2>1, <2>2
<1>8. view.head <= view'.head
  <2>1. \A u \in Tables : tabs[u].head <= tabs'[u].head
    BY DEF Appends
  <2> QED BY Zenon, <2>1, HeadsBelow
<1>9. ASSUME NEW i \in view.lo .. view.head - 1 PROVE view'.val[i] = view.val[i]
  <2>1. i \in view'.lo .. view'.head - 1
    BY <1>5, <1>6, <1>8
  <2>2. PICK u \in Tables : TRUE
    BY FreezerAssumption
  <2>3. view.val[i] = tabs[u].val[i] /\ tabs[u].lo <= view.lo /\ view.head <= tabs[u].head
    BY DEF ViewOf
  <2>4. view'.val[i] = tabs'[u].val[i]
    BY <2>1 DEF ViewOf
  <2>5. tabs[u].lo \in Nat /\ tabs[u].head \in Nat
    BY TableNumbers
  <2>6. i \in tabs[u].lo .. tabs[u].head - 1
    BY <1>5, <2>3, <2>5
  <2> QED BY <2>3, <2>4, <2>6 DEF Appends
<1>10. /\ view.val \in [view.lo .. view.head - 1 -> Values]
       /\ view'.val \in [view.lo .. view'.head - 1 -> Values]
  BY <1>6 DEF ViewOf
<1>11. CASE view'.head = view.head
  <2>1. view'.val = view.val
    <3> DEFINE S == view.lo .. view.head - 1
               f == view.val
               g == view'.val
    <3>1. f \in [S -> Values] /\ g \in [S -> Values] /\ \A i \in S : f[i] = g[i]
      BY <1>9, <1>10, <1>11
    <3> HIDE DEF S, f, g
    <3>2. f = g
      BY <3>1, SameItems
    <3> QED BY <3>2 DEF f, g
  <2> QED BY ZenonT(40), <1>5, <1>6, <1>7, <1>11, <2>1, SameTable DEF Mapped
<1>12. CASE view.head < view'.head
  BY ZenonT(40), <1>5, <1>6, <1>7, <1>9, <1>10, <1>12, MapAppend DEF Mapped
<1> QED BY <1>5, <1>8, <1>11, <1>12

LEMMA StepCutHead ==
    ASSUME TablesOK(tabs), TablesOK(tabs'), NEW b \in BOOLEAN, b, ViewOf(view, tabs, b), ViewOf(view', tabs', b),
           mode = "open", mode' = mode, NEW n \in Nat, CutsHeads(n)
    PROVE  Rows!StoreNext
<1>1. /\ view.lo \in Nat /\ view.head \in Nat /\ view.hid \in Nat /\ view.dur \in Nat /\ view.hidDur \in Nat
      /\ view'.head \in Nat /\ view'.dur \in Nat
      /\ view \in T!Table /\ view' \in T!Table /\ view.dur <= view.head /\ view'.dur <= view'.head
      /\ view.hidDur <= view.hid
  BY Zenon, ViewNumbers
<1>2. view'.lo = view.lo /\ view'.hid = view.hid /\ view'.hidDur = view.hidDur
  <2>1. \A u \in Tables : /\ tabs'[u].lo = tabs[u].lo /\ tabs'[u].hid = tabs[u].hid
                          /\ tabs'[u].hidDur = tabs[u].hidDur
    BY DEF CutsHeads
  <2> QED BY Zenon, <2>1, SameTails
<1>3. view'.head <= view.head
  <2>1. \A u \in Tables : tabs'[u].head <= tabs[u].head
    BY DEF CutsHeads
  <2> QED BY ZenonT(30), <2>1, HeadsBelow
<1>4. view'.head = n
  <2>1. PICK t \in Tables : tabs'[t].head = n
    BY DEF CutsHeads
  <2>2. view'.head <= n
    BY <2>1 DEF ViewOf
  <2>3. PICK u \in Tables : view'.head = tabs'[u].head
    BY DEF ViewOf
  <2>4. n <= tabs'[u].head
    BY DEF CutsHeads
  <2> QED BY <1>1, <2>2, <2>3, <2>4
<1>5. view.hid <= n
  <2>1. PICK u \in Tables : view.hid = tabs[u].hid
    BY DEF ViewOf
  <2> QED BY <2>1 DEF CutsHeads
<1>6. view'.dur >= view.dur \/ view'.dur = n
  <2>1. PICK u \in Tables : view'.dur = tabs'[u].dur
    BY DEF ViewOf
  <2>2. view.dur <= tabs[u].dur /\ tabs[u].dur \in Nat
    BY TableNumbers DEF ViewOf
  <2>3. tabs'[u].dur = tabs[u].dur \/ tabs'[u].dur = n
    BY DEF CutsHeads
  <2> QED BY ZenonT(40), <1>1, <2>1, <2>2, <2>3
<1>7. ASSUME NEW i \in view.lo .. view'.head - 1 PROVE view'.val[i] = view.val[i]
  <2>1. i \in view'.lo .. view'.head - 1
    BY <1>2
  <2>2. i \in view.lo .. view.head - 1
    BY <1>1, <1>3
  <2>3. PICK u \in Tables : TRUE
    BY FreezerAssumption
  <2>4. view'.val[i] = tabs'[u].val[i] /\ tabs'[u].lo <= view'.lo /\ view'.head <= tabs'[u].head
    BY Zenon, <2>1 DEF ViewOf
  <2>5. view.val[i] = tabs[u].val[i]
    BY Zenon, <2>2 DEF ViewOf
  <2>6. tabs'[u].lo \in Nat /\ tabs'[u].head \in Nat
    BY TableNumbers
  <2>7. i \in tabs'[u].lo .. tabs'[u].head - 1
    BY SMTT(30), Z3T(30), <1>1, <1>2, <2>4, <2>6
  <2> QED BY <2>4, <2>5, <2>7 DEF CutsHeads
<1>8. /\ view.val \in [view.lo .. view.head - 1 -> Values]
      /\ view'.val \in [view.lo .. view'.head - 1 -> Values]
  BY <1>2 DEF ViewOf
<1>9. CASE view'.head = view.head
  <2>1. view'.val = view.val
    <3> DEFINE S == view.lo .. view.head - 1
               f == view.val
               g == view'.val
    <3>1. f \in [S -> Values] /\ g \in [S -> Values] /\ \A i \in S : f[i] = g[i]
      BY Zenon, <1>7, <1>8, <1>9
    <3> HIDE DEF S, f, g
    <3>2. f = g
      BY <3>1, SameItems
    <3> QED BY <3>2 DEF f, g
  <2>2. view'.dur \in view.dur .. view.head /\ view'.hidDur \in view.hidDur .. view.hid
    BY SMTT(30), Z3T(30), <1>1, <1>2, <1>4, <1>6, <1>9
  <2> QED BY ZenonT(40), <1>1, <1>2, <1>9, <2>1, <2>2, MapFlush
<1>10. CASE view'.head < view.head
  <2>1. view'.head \in view.hid .. view.head - 1 /\ view'.hidDur \in view.hidDur .. view.hid
    BY SMTT(30), Z3T(30), <1>1, <1>2, <1>4, <1>5, <1>10
  <2>2. view'.dur >= view.dur \/ view'.dur >= view'.head
    BY <1>1, <1>4, <1>6
  <2> QED BY ZenonT(40), <1>1, <1>2, <1>7, <1>8, <2>1, <2>2, MapCutHead
<1> QED BY <1>1, <1>3, <1>9, <1>10

LEMMA StepCutTail ==
    ASSUME TablesOK(tabs), TablesOK(tabs'), NEW b \in BOOLEAN,
           ViewOf(view, tabs, b), ViewOf(view', tabs', b), mode # "failed", mode' = mode, CutsTails(b)
    PROVE  Rows!StoreNext
<1>1. /\ view.lo \in Nat /\ view.head \in Nat /\ view.hid \in Nat /\ view.dur \in Nat /\ view.hidDur \in Nat
      /\ view'.lo \in Nat /\ view'.head \in Nat /\ view'.hid \in Nat /\ view'.dur \in Nat /\ view'.hidDur \in Nat
      /\ view \in T!Table /\ view' \in T!Table /\ view'.dur <= view'.head
      /\ view'.hidDur <= view'.hid /\ view'.lo <= view'.hidDur
  BY ViewNumbers
<1>2. view'.head = view.head
  <2>1. \A u \in Tables : tabs'[u].head <= tabs[u].head
    BY DEF CutsTails
  <2>2. view'.head <= view.head
    BY <2>1, HeadsBelow
  <2>3. PICK u \in Tables : view'.head = tabs'[u].head
    BY DEF ViewOf
  <2>4. PICK v \in Tables : tabs[v].head <= tabs'[u].head
    BY DEF CutsTails
  <2>5. view.head <= tabs[v].head /\ tabs[v].head \in Nat
    BY TableNumbers DEF ViewOf
  <2> QED BY <1>1, <2>2, <2>3, <2>4, <2>5
<1>3. view.lo <= view'.lo
  <2>1. \A u \in Tables : tabs[u].lo <= tabs'[u].lo
    BY DEF CutsTails
  <2> QED BY <2>1, LosAbove
<1>4. view.hidDur <= view'.hidDur
  <2>1. \A u \in Tables : tabs[u].hidDur <= tabs'[u].hidDur
    BY DEF CutsTails
  <2> QED BY <2>1, HidDursAbove
<1>5. view.hid <= view'.hid
  <2>1. \A u \in Tables : tabs[u].hid <= tabs'[u].hid
    BY DEF CutsTails
  <2> QED BY <2>1, HidsAbove
<1>6. view'.hid = view.hid \/ view'.hid \in view.hid .. view.head
  <2>1. PICK u \in Tables : view'.hid = tabs'[u].hid
    BY DEF ViewOf
  <2>2. ASSUME NEW v \in Tables, tabs'[u].hid = tabs[v].hid PROVE view'.hid = view.hid
    <3>1. tabs[v].hid <= view.hid
      BY DEF ViewOf
    <3> QED BY SMTT(30), Z3T(30), <1>1, <1>5, <2>1, <2>2, <3>1
  <2>3. ASSUME \A v \in Tables : tabs'[u].hid <= tabs[v].head PROVE view'.hid \in view.hid .. view.head
    <3>1. PICK v \in Tables : view.head = tabs[v].head
      BY DEF ViewOf
    <3> QED BY SMTT(30), Z3T(30), <1>1, <1>5, <2>1, <2>3, <3>1
  <2>4. \/ \E v \in Tables : tabs'[u].hid = tabs[v].hid
        \/ \A v \in Tables : tabs'[u].hid <= tabs[v].head
    BY DEF CutsTails
  <2> QED BY ZenonT(40), <2>2, <2>3, <2>4
<1>7. view.dur <= view'.dur
  <2>1. CASE b
    <3>1. \A u \in Tables : tabs[u].dur <= tabs'[u].dur
      BY <2>1 DEF CutsTails
    <3> QED BY Zenon, <2>1, <3>1, DursBelow
  <2>2. CASE ~b
    <3>1. view.dur = view.head /\ view'.dur = view'.head
      BY <2>2 DEF ViewOf
    <3> QED BY ZenonT(40), <1>1, <1>2, <3>1
  <2> QED BY <2>1, <2>2
<1>8. ASSUME NEW i \in view'.lo .. view.head - 1 PROVE view'.val[i] = view.val[i]
  <2>1. i \in view'.lo .. view'.head - 1
    BY <1>2
  <2>2. i \in view.lo .. view.head - 1
    BY <1>1, <1>3
  <2>3. PICK u \in Tables : TRUE
    BY FreezerAssumption
  <2>4. view'.val[i] = tabs'[u].val[i] /\ i \in tabs'[u].lo .. tabs'[u].head - 1
    BY <2>1, RowIn
  <2>5. view.val[i] = tabs[u].val[i]
    BY <2>2, RowIn
  <2> QED BY <2>4, <2>5 DEF CutsTails
<1>9. view'.val \in [view'.lo .. view.head - 1 -> Values]
  BY <1>2 DEF ViewOf
<1>10. /\ view'.lo \in view.lo .. view'.hid /\ view'.dur \in view.dur .. view.head
       /\ view'.hidDur \in view.hidDur .. view'.hid
  BY SMTT(30), Z3T(30), <1>1, <1>2, <1>3, <1>4, <1>7
<1> QED BY ZenonT(40), <1>1, <1>2, <1>6, <1>8, <1>9, <1>10, MapCutTail

LEMMA StepClose ==
    ASSUME TablesOK(tabs), TablesOK(tabs'), NEW a \in BOOLEAN, NEW b \in BOOLEAN, ~b,
           ViewOf(view, tabs, a), ViewOf(view', tabs', b), mode = "open", mode' = "down",
           \A t \in Tables : /\ tabs'[t].lo = tabs[t].lo /\ tabs'[t].head = tabs[t].head
                             /\ tabs'[t].val = tabs[t].val /\ tabs'[t].hid = tabs[t].hid,
           \A t \in Tables : tabs'[t].hidDur = tabs[t].hid
    PROVE  Rows!StoreNext
<1>1. view'.lo = view.lo /\ view'.head = view.head /\ view'.val = view.val /\ view'.hid = view.hid
  BY SameRows
<1>2. view'.dur = view'.head
  BY DEF ViewOf
<1>3. /\ view \in T!Table /\ view' \in T!Table /\ view.hid \in Nat /\ view'.hidDur \in Nat
      /\ view'.hidDur <= view'.hid
  BY ViewNumbers
<1>4. view'.hidDur = view.hid
  <2>1. PICK t \in Tables : view.hid = tabs[t].hid
    BY DEF ViewOf
  <2>2. tabs'[t].hidDur <= view'.hidDur
    BY DEF ViewOf
  <2> QED BY SMTT(30), Z3T(30), <1>1, <1>3, <2>1, <2>2
<1> DEFINE Y == Rows!Synced(view)
<1>5. /\ Y \in T!Table /\ Y.lo = view.lo /\ Y.head = view.head /\ Y.val = view.val /\ Y.hid = view.hid
      /\ Y.dur = view.head /\ Y.hidDur = view.hid
  BY ZenonT(30), <1>3 DEF Rows!Synced, T!Table
<1> HIDE DEF Y
<1>6. view' = Y
  BY ZenonT(40), <1>1, <1>2, <1>3, <1>4, <1>5, SameTable
<1> QED BY <1>6 DEF Y, Rows!StoreNext, Rows!Close

\* What a power failure leaves of the tables.
CrashesTo(us) ==
    \A t \in Tables :
       /\ us[t].lo = tabs[t].lo /\ us[t].head \in tabs[t].dur .. tabs[t].head
       /\ us[t].hid \in tabs[t].hidDur .. tabs[t].hid /\ us[t].hidDur = us[t].hid
       /\ \A i \in us[t].lo .. us[t].head - 1 : us[t].val[i] = tabs[t].val[i]

LEMMA StepCrash ==
    ASSUME TablesOK(tabs), TablesOK(tabs'), NEW a \in BOOLEAN, NEW b \in BOOLEAN, ~b,
           ViewOf(view, tabs, a), ViewOf(view', tabs', b), mode \in {"open", "down"}, mode' = "down",
           CrashesTo(tabs'), \A t \in Tables : view.dur <= tabs[t].dur
    PROVE  Rows!StoreNext
<1>1. /\ view \in T!Table /\ view.lo \in Nat /\ view.head \in Nat /\ view.hid \in Nat
      /\ view.dur \in Nat /\ view.hidDur \in Nat
  BY ViewNumbers
<1>2. /\ view' \in T!Table /\ view'.lo \in Nat /\ view'.head \in Nat /\ view'.hid \in Nat
      /\ view'.hidDur \in Nat
  BY ViewNumbers
<1>3. \A t \in Tables : /\ tabs[t].lo \in Nat /\ tabs[t].head \in Nat /\ tabs[t].hid \in Nat
                        /\ tabs[t].dur \in Nat /\ tabs[t].hidDur \in Nat
  BY TableNumbers
<1>4. \A t \in Tables : tabs'[t].lo \in Nat /\ tabs'[t].head \in Nat /\ tabs'[t].hid \in Nat
  BY TableNumbers
<1>5. view'.lo = view.lo
  <2>1. \A t \in Tables : tabs'[t].lo <= tabs[t].lo /\ tabs[t].lo <= tabs'[t].lo
    BY <1>3 DEF CrashesTo
  <2>2. view'.lo <= view.lo
    BY <2>1, LosAbove
  <2>3. view.lo <= view'.lo
    BY <2>1, LosAbove
  <2> QED BY SMTT(30), Z3T(30), <1>1, <1>2, <2>2, <2>3
<1>6. view'.head <= view.head
  <2>1. \A t \in Tables : tabs'[t].head <= tabs[t].head
    BY <1>3 DEF CrashesTo
  <2> QED BY <2>1, HeadsBelow
<1>7. view.dur <= view'.head
  <2>1. PICK t \in Tables : view'.head = tabs'[t].head
    BY DEF ViewOf
  <2>2. tabs[t].dur <= tabs'[t].head
    BY <1>3 DEF CrashesTo
  <2> QED BY SMTT(30), Z3T(30), <1>1, <1>3, <1>4, <2>1, <2>2
<1>8. view'.hid <= view.hid
  <2>1. \A t \in Tables : tabs'[t].hid <= tabs[t].hid
    BY <1>3 DEF CrashesTo
  <2> QED BY <2>1, HidsAbove
<1>9. view.hidDur <= view'.hid
  <2>1. PICK t \in Tables : view.hidDur = tabs[t].hidDur
    BY DEF ViewOf
  <2>2. tabs[t].hidDur <= tabs'[t].hid
    BY <1>3 DEF CrashesTo
  <2>3. tabs'[t].hid <= view'.hid
    BY DEF ViewOf
  <2> QED BY SMTT(30), Z3T(30), <1>1, <1>2, <1>4, <2>1, <2>2, <2>3
<1>10. view'.hidDur = view'.hid /\ view'.dur = view'.head
  <2>1. PICK t \in Tables : view'.hid = tabs'[t].hid
    BY DEF ViewOf
  <2>2. tabs'[t].hidDur <= view'.hidDur /\ tabs'[t].hidDur = tabs'[t].hid
    BY DEF ViewOf, CrashesTo
  <2>3. view'.hidDur <= view'.hid
    BY ViewNumbers
  <2>4. view'.dur = view'.head
    BY DEF ViewOf
  <2> QED BY SMTT(30), Z3T(30), <1>2, <2>1, <2>2, <2>3, <2>4
<1>11. ASSUME NEW i \in view.lo .. view'.head - 1 PROVE view'.val[i] = view.val[i]
  <2>1. i \in view'.lo .. view'.head - 1 /\ i \in view.lo .. view.head - 1
    BY <1>1, <1>2, <1>5, <1>6
  <2>2. PICK u \in Tables : TRUE
    BY Zenon, FreezerAssumption
  <2>3. view'.val[i] = tabs'[u].val[i] /\ tabs'[u].lo <= view'.lo /\ view'.head <= tabs'[u].head
    BY ZenonT(40), <2>1 DEF ViewOf
  <2>4. view.val[i] = tabs[u].val[i]
    BY <2>1 DEF ViewOf
  <2>5. i \in tabs'[u].lo .. tabs'[u].head - 1
    BY <1>2, <1>4, <1>5, <2>3
  <2> QED BY ZenonT(40), <2>3, <2>4, <2>5 DEF CrashesTo
<1> DEFINE h == view'.head
           d == view'.hid
           cut == Rows!Cut(view, view.lo, h)
           Y == [lo |-> view.lo, head |-> h, val |-> cut, hid |-> d, dur |-> h, hidDur |-> d]
<1>12. cut = view'.val
  <2>1. view'.val \in [view.lo .. view'.head - 1 -> Values]
    BY <1>5 DEF ViewOf
  <2> QED BY ZenonT(30), <1>11, <2>1 DEF Rows!Cut
<1>13. h \in view.dur .. view.head /\ d \in view.hidDur .. view.hid
  BY SMTT(30), Z3T(30), <1>1, <1>2, <1>6, <1>7, <1>8, <1>9
<1>14. /\ Y \in T!Table /\ Y.lo = view.lo /\ Y.head = view'.head /\ Y.val = view'.val /\ Y.hid = view'.hid
       /\ Y.dur = view'.head /\ Y.hidDur = view'.hid
  BY ZenonT(40), <1>1, <1>2, <1>12 DEF T!Table
<1>15. view' = Y
  <2> HIDE DEF Y
  <2> QED BY ZenonT(40), <1>2, <1>5, <1>10, <1>14, SameTable
<1>16. view' \in Rows!AfterCrash(view)
  BY <1>13, <1>15 DEF Rows!AfterCrash
<1> QED BY <1>16 DEF Rows!StoreNext, Rows!Crash, Rows!CrashAgain

LEMMA StepReset ==
    ASSUME TablesOK(tabs'), NEW b \in BOOLEAN, b, ViewOf(view', tabs', b), mode = "open", mode' = mode,
           \A t \in Tables : tabs'[t] = T!EmptyTable
    PROVE  Rows!StoreNext
<1>1. T!EmptyTable \in T!Table
  BY EmptyOK DEF TableOK
<1>2. view' \in T!Table /\ view'.lo = 0 /\ view'.head = 0 /\ view'.hid = 0 /\ view'.dur = 0 /\ view'.hidDur = 0
  BY DEF ViewOf, T!EmptyTable
<1>3. view'.val = <<>>
  <2>1. view'.val \in [0 .. 0 - 1 -> Values]
    BY <1>2 DEF ViewOf
  <2>2. <<>> \in [0 .. 0 - 1 -> Values]
    OBVIOUS
  <2>3. 0 .. 0 - 1 = {}
    OBVIOUS
  <2> DEFINE f == view'.val
  <2>4. f \in [{} -> Values] /\ <<>> \in [{} -> Values]
    BY <2>1, <2>2, <2>3
  <2> HIDE DEF f
  <2>5. f = <<>>
    BY <2>4, SameItems
  <2> QED BY <2>5 DEF f
<1>4. view' = T!EmptyTable
  BY ZenonT(40), <1>1, <1>2, <1>3, SameTable DEF T!EmptyTable
<1> QED BY <1>4 DEF T!EmptyTable, Rows!EmptyTable, Rows!StoreNext, Rows!Clear

\* The tables do not change, and the mode changes to m.
LEMMA StepOpen ==
    ASSUME TablesOK(tabs), TablesOK(tabs'), NEW a \in BOOLEAN, ~a, NEW b \in BOOLEAN,
           ViewOf(view, tabs, a), ViewOf(view', tabs', b), UNCHANGED tabs, mode = "down",
           \A t \in Tables : tabs[t].dur = tabs[t].head,
           \/ mode' = "open" /\ \A u, v \in Tables : tabs[u].hid <= tabs[v].head
           \/ mode' = "failed" /\ \E u, v \in Tables : tabs[u].hid > tabs[v].head
    PROVE  Rows!StoreNext
<1>1. view'.lo = view.lo /\ view'.head = view.head /\ view'.val = view.val /\ view'.hid = view.hid
  BY SameRows
<1>2. view'.hidDur = view.hidDur
  BY SameTails
<1>3. /\ view \in T!Table /\ view.head \in Nat /\ view.hid \in Nat
  BY ViewNumbers
<1>4. view' \in T!Table /\ view'.dur \in Nat /\ view'.dur <= view'.head
  BY ZenonT(40), ViewNumbers
<1>5. view.dur = view.head
  BY DEF ViewOf
<1>6. view'.dur = view'.head
  <2>1. CASE b
    <3>1. PICK t \in Tables : view'.dur = tabs'[t].dur
      BY ZenonT(40), <2>1 DEF ViewOf
    <3>2. view'.head <= tabs'[t].head /\ tabs'[t].dur = tabs'[t].head
      BY DEF ViewOf
    <3> QED BY <1>1, <1>3, <1>4, <3>1, <3>2
  <2>2. CASE ~b
    BY <2>2 DEF ViewOf
  <2> QED BY <2>1, <2>2
<1>7. view' = view
  BY ZenonT(40), <1>1, <1>2, <1>3, <1>4, <1>5, <1>6, SameTable
<1>8. CASE mode' = "open" /\ \A u, v \in Tables : tabs[u].hid <= tabs[v].head
  <2>1. PICK u \in Tables : view.hid = tabs[u].hid
    BY DEF ViewOf
  <2>2. PICK v \in Tables : view.head = tabs[v].head
    BY DEF ViewOf
  <2>3. view.hid <= view.head
    BY Zenon, <1>8, <2>1, <2>2
  <2> QED BY ZenonT(40), <1>7, <1>8, <2>3 DEF Rows!StoreNext, Rows!Open, Rows!Openable
<1>9. CASE mode' = "failed" /\ \E u, v \in Tables : tabs[u].hid > tabs[v].head
  <2>1. PICK u \in Tables, v \in Tables : tabs[u].hid > tabs[v].head
    BY Zenon, <1>9
  <2>2. tabs[u].hid <= view.hid /\ view.head <= tabs[v].head
    BY DEF ViewOf
  <2>3. tabs[u].hid \in Nat /\ tabs[v].head \in Nat
    BY TableNumbers
  <2>4. ~(view.hid <= view.head)
    BY SMTT(30), Z3T(30), <1>3, <2>1, <2>2, <2>3
  <2> QED BY Zenon, <1>7, <1>9, <2>4 DEF Rows!StoreNext, Rows!Open, Rows!Openable
<1> QED BY <1>8, <1>9

(***************************************************************************)
(* The actions, mapped.                                                    *)
(***************************************************************************)
Seeing == IInv /\ RowsInv /\ view = View(tabs, mode = "open")

LEMMA Seen ==
    ASSUME NEW ts, TablesOK(ts), Agree(ts), NEW m, NEW V, V = View(ts, m = "open")
    PROVE  \E o \in BOOLEAN : (o <=> m = "open") /\ ViewOf(V, ts, o)
<1>1. Good(ts)
  BY DEF Good, TablesOK
<1>2. ViewOf(View(ts, TRUE), ts, TRUE) /\ ViewOf(View(ts, FALSE), ts, FALSE)
  BY Zenon, <1>1, ViewFacts
<1>3. CASE m = "open"
  <2>1. V = View(ts, TRUE)
    BY <1>3 DEF View
  <2> QED BY ZenonT(40), <1>2, <1>3, <2>1
<1>4. CASE m # "open"
  <2>1. V = View(ts, FALSE)
    BY <1>4 DEF View
  <2> QED BY ZenonT(40), <1>2, <1>4, <2>1
<1> QED BY <1>3, <1>4

LEMMA SeenNow ==
    ASSUME Seeing
    PROVE  \E o \in BOOLEAN : (o <=> mode = "open") /\ ViewOf(view, tabs, o)
<1>1. TablesOK(tabs) /\ Agree(tabs) /\ view = View(tabs, mode = "open")
  BY DEF Seeing, IInv, TypeOK, TablesOK, RowsInv
<1> QED BY SMTT(30), Z3T(30), <1>1, Seen

LEMMA SeenNext ==
    ASSUME IInv', RowsInv', view' = View(tabs', mode' = "open")
    PROVE  \E o \in BOOLEAN : (o <=> mode' = "open") /\ ViewOf(view', tabs', o)
<1>1. TablesOK(tabs') /\ Agree(tabs')
  BY DEF IInv, TypeOK, TablesOK, RowsInv
<1> QED BY <1>1, Seen

LEMMA MapssyncTable ==
    ASSUME Seeing, IInv', view' = View(tabs', mode' = "open"), NEW t \in Tables, syncTable(t)
    PROVE  RowsInv' /\ Mapped
<1>1. RowsInv' /\ \E Y : SyncsTable(t, Y)
  BY RowssyncTable DEF Seeing
<1>2. PICK a \in BOOLEAN : (a <=> mode = "open") /\ ViewOf(view, tabs, a)
  BY SeenNow
<1>3. PICK b \in BOOLEAN : (b <=> mode' = "open") /\ ViewOf(view', tabs', b)
  BY <1>1, SeenNext
<1>4. TablesOK(tabs) /\ TablesOK(tabs')
  BY DEF Seeing, IInv, TypeOK, TablesOK
<1>5. PICK Y : SyncsTable(t, Y)
  BY <1>1
<1>6. mode = "open" /\ mode' = "open"
  BY ZenonT(40), <1>5 DEF SyncsTable
<1>7. a /\ b /\ ViewOf(view, tabs, b)
  BY <1>2, <1>3, <1>6 DEF ViewOf
<1> QED BY ZenonT(40), <1>1, <1>3, <1>4, <1>5, <1>7, StepSync DEF Mapped

LEMMA MapscommitTable ==
    ASSUME Seeing, IInv', view' = View(tabs', mode' = "open"), NEW t \in Tables, commitTable(t)
    PROVE  RowsInv' /\ Mapped
<1>1. RowsInv' /\ mode = "open" /\ mode' = mode
  BY ZenonT(30), RowscommitTable DEF Seeing, commitTable, Busy
<1>2. PICK a \in BOOLEAN : (a <=> mode = "open") /\ ViewOf(view, tabs, a)
  BY SeenNow
<1>3. PICK b \in BOOLEAN : (b <=> mode' = "open") /\ ViewOf(view', tabs', b)
  BY Zenon, <1>1, SeenNext
<1>4. TablesOK(tabs) /\ TablesOK(tabs')
  BY DEF Seeing, IInv, TypeOK, TablesOK
<1>5. PICK Y : /\ TableOK(Y) /\ tabs' = [tabs EXCEPT ![t] = Y]
               /\ Y.head > tabs[t].head /\ Y.lo = tabs[t].lo /\ Y.hid = tabs[t].hid
               /\ Y.dur = tabs[t].dur /\ Y.hidDur = tabs[t].hidDur
               /\ \A i \in tabs[t].lo .. tabs[t].head - 1 : Y.val[i] = tabs[t].val[i]
  BY Zenon, RowscommitTable DEF Seeing
<1>6. a /\ b /\ ViewOf(view, tabs, b)
  BY ZenonT(40), <1>1, <1>2, <1>3 DEF ViewOf
<1>7. Appends
  <2>1. tabs'[t] = Y /\ \A u \in Tables \ {t} : tabs'[u] = tabs[u]
    BY <1>4, <1>5 DEF TablesOK
  <2>2. \A u \in Tables : tabs[u].head \in Nat /\ tabs'[u].head \in Nat
    BY ZenonT(40), <1>4, TableNumbers
  <2>3. \A u \in Tables : tabs[u].head <= tabs'[u].head
    BY SMTT(30), Z3T(30), <1>5, <2>1, <2>2
  <2> QED BY SMTT(30), Z3T(30), <1>5, <2>1, <2>3 DEF Appends
<1>8. view.lo <= view.head
  <2>1. PICK u \in Tables : view.lo = tabs[u].lo
    BY Zenon, <1>2 DEF ViewOf
  <2>2. PICK v \in Tables : view.head = tabs[v].head
    BY Zenon, <1>2 DEF ViewOf
  <2>3. /\ tabs[u].lo <= tabs[u].hidDur /\ tabs[u].hidDur <= tabs[u].hid
        /\ tabs[u].lo \in Nat /\ tabs[u].hidDur \in Nat /\ tabs[v].head \in Nat
    BY ZenonT(40), <1>4, TableNumbers
  <2>4. /\ tabs[u].hid = tail /\ tail <= frozen /\ frozen <= tabs[v].head /\ frozen \in Nat /\ tail \in Nat
    BY FreezerAssumption DEF Seeing, IInv, WriterInv, TypeOK, commitTable, Busy, Batch
  <2> QED BY SMTT(30), Z3T(30), <2>1, <2>2, <2>3, <2>4
<1> QED BY ZenonT(40), <1>1, <1>3, <1>4, <1>6, <1>7, <1>8, StepAppend

LEMMA MapsCutHead ==
    ASSUME Seeing, IInv', view' = View(tabs', mode' = "open"), NEW t \in Tables,
           rollbackTable(t) \/ truncateHeadTable(t)
    PROVE  RowsInv' /\ Mapped
<1>1. RowsInv' /\ \E Y, n : CutsHead(t, Y, n)
  BY RowsCutHead DEF Seeing
<1>2. PICK a \in BOOLEAN : (a <=> mode = "open") /\ ViewOf(view, tabs, a)
  BY SeenNow
<1>3. PICK b \in BOOLEAN : (b <=> mode' = "open") /\ ViewOf(view', tabs', b)
  BY <1>1, SeenNext
<1>4. TablesOK(tabs) /\ TablesOK(tabs')
  BY DEF Seeing, IInv, TypeOK, TablesOK
<1>5. PICK Y, n : CutsHead(t, Y, n)
  BY <1>1
<1>6. mode = "open" /\ mode' = mode /\ n \in Nat
  BY <1>5, FreezerAssumption DEF CutsHead
<1>7. a /\ b /\ ViewOf(view, tabs, b)
  BY ZenonT(30), <1>2, <1>3, <1>6 DEF ViewOf
<1>8. CutsHeads(n)
  <2>1. tabs'[t] = Y /\ \A u \in Tables \ {t} : tabs'[u] = tabs[u]
    BY ZenonT(40), <1>4, <1>5 DEF TablesOK, CutsHead
  <2>2. \A u \in Tables : tabs[u].head \in Nat /\ tabs'[u].head \in Nat
    BY ZenonT(40), <1>4, TableNumbers
  <2>3. \A u \in Tables : tabs'[u].head <= tabs[u].head /\ n <= tabs'[u].head
    BY SMTT(30), Z3T(30), <1>5, <1>6, <2>1, <2>2 DEF CutsHead
  <2>4. \A u \in Tables : tabs[u].hid <= n
    BY <1>5 DEF CutsHead
  <2> QED BY SMTT(30), Z3T(30), <1>5, <2>1, <2>3, <2>4 DEF CutsHead, CutsHeads
<1> QED BY ZenonT(40), <1>1, <1>3, <1>4, <1>6, <1>7, <1>8, StepCutHead DEF Mapped

LEMMA MapsCutTail ==
    ASSUME Seeing, IInv', view' = View(tabs', mode' = "open"), NEW t \in Tables, NEW Y,
           CutsTail(t, Y), RowsInv', mode # "failed"
    PROVE  Mapped
<1>1. RowsInv' /\ mode' = mode
  BY DEF CutsTail
<1>2. PICK a \in BOOLEAN : (a <=> mode = "open") /\ ViewOf(view, tabs, a)
  BY SeenNow
<1>3. PICK b \in BOOLEAN : (b <=> mode' = "open") /\ ViewOf(view', tabs', b)
  BY <1>1, SeenNext
<1>4. TablesOK(tabs) /\ TablesOK(tabs')
  BY ZenonT(40) DEF Seeing, IInv, TypeOK, TablesOK
<1>5. ViewOf(view, tabs, b) /\ (b <=> mode = "open")
  BY <1>1, <1>2, <1>3 DEF ViewOf
<1>6. CutsTails(b)
  <2>1. tabs'[t] = Y /\ \A u \in Tables \ {t} : tabs'[u] = tabs[u]
    BY <1>4 DEF TablesOK, CutsTail
  <2>2. \A u \in Tables : /\ tabs[u].lo \in Nat /\ tabs[u].head \in Nat /\ tabs[u].hid \in Nat
                          /\ tabs[u].dur \in Nat /\ tabs[u].hidDur \in Nat
    BY SMTT(30), Z3T(30), <1>4, TableNumbers
  <2>3. \A u \in Tables : /\ tabs[u].lo <= tabs'[u].lo /\ tabs[u].hid <= tabs'[u].hid
                          /\ tabs[u].hidDur <= tabs'[u].hidDur /\ tabs'[u].head <= tabs[u].head
    BY SMTT(30), Z3T(30), <2>1, <2>2 DEF CutsTail
  <2>4. \A u \in Tables : \E v \in Tables : tabs[v].head <= tabs'[u].head
    BY SMTT(30), Z3T(30), <2>1, <2>2 DEF CutsTail
  <2>5. \A u \in Tables : b => tabs[u].dur <= tabs'[u].dur
    BY <1>5, <2>1, <2>2 DEF CutsTail
  <2>6. ASSUME NEW u \in Tables
        PROVE  \/ \E v \in Tables : tabs'[u].hid = tabs[v].hid
               \/ b /\ \A v \in Tables : tabs'[u].hid <= tabs[v].head
    <3>1. CASE u # t
      BY ZenonT(40), <2>1, <3>1
    <3>2. CASE u = t /\ mode = "open"
      <4>1. \A v \in Tables : Y.hid <= tabs[v].head
        BY <3>2 DEF CutsTail
      <4> QED BY ZenonT(40), <1>5, <2>1, <3>2, <4>1
    <3>3. CASE u = t /\ mode # "open"
      <4>1. \E v \in Tables : Y.hid = tabs[v].hid
        BY <3>3 DEF CutsTail
      <4> QED BY Zenon, <2>1, <3>3, <4>1
    <3> QED BY ZenonT(40), <3>1, <3>2, <3>3
  <2>7. \A u \in Tables : \A i \in tabs'[u].lo .. tabs'[u].head - 1 : tabs'[u].val[i] = tabs[u].val[i]
    BY <2>1 DEF CutsTail
  <2> QED BY ZenonT(40), <2>3, <2>4, <2>5, <2>6, <2>7 DEF CutsTails
<1> QED BY ZenonT(40), <1>1, <1>3, <1>4, <1>5, <1>6, StepCutTail DEF Mapped

LEMMA MapstruncateTailTable ==
    ASSUME Seeing, IInv', view' = View(tabs', mode' = "open"), NEW t \in Tables, truncateTailTable(t)
    PROVE  RowsInv' /\ Mapped
<1>1. RowsInv' /\ mode = "open" /\ \E Y : CutsTail(t, Y)
  BY RowstruncateTailTable DEF Seeing
<1> QED BY <1>1, MapsCutTail

LEMMA MapsrepairTable ==
    ASSUME Seeing, IInv', view' = View(tabs', mode' = "open"), NEW t \in Tables, repairTable(t)
    PROVE  RowsInv' /\ Mapped
<1>1. /\ RowsInv' /\ mode = "down"
      /\ \/ \E Y : CutsTail(t, Y)
         \/ /\ UNCHANGED tabs /\ mode' = "failed"
            /\ \E u, v \in Tables : tabs[u].hid > tabs[v].head
  BY ZenonT(40), RowsrepairTable DEF Seeing
<1>2. PICK a \in BOOLEAN : (a <=> mode = "open") /\ ViewOf(view, tabs, a)
  BY SeenNow
<1>3. PICK b \in BOOLEAN : (b <=> mode' = "open") /\ ViewOf(view', tabs', b)
  BY <1>1, SeenNext
<1>4. TablesOK(tabs) /\ TablesOK(tabs')
  BY DEF Seeing, IInv, TypeOK, TablesOK
<1>5. CASE \E Y : CutsTail(t, Y)
  BY ZenonT(40), <1>1, <1>5, MapsCutTail
<1>6. CASE UNCHANGED tabs /\ mode' = "failed" /\ \E u, v \in Tables : tabs[u].hid > tabs[v].head
  <2>1. \A u \in Tables : tabs[u].dur = tabs[u].head
    BY ZenonT(40), <1>1 DEF Seeing, RowsInv
  <2>2. ~a
    BY <1>1, <1>2
  <2> QED BY ZenonT(40), <1>1, <1>2, <1>3, <1>4, <1>6, <2>1, <2>2, StepOpen DEF Mapped
<1> QED BY ZenonT(40), <1>1, <1>5, <1>6

LEMMA MapsNewFreezer ==
    ASSUME Seeing, IInv', view' = View(tabs', mode' = "open"), NewFreezer
    PROVE  RowsInv' /\ Mapped
<1>1. /\ RowsInv' /\ mode = "down" /\ UNCHANGED tabs
      /\ mode' = mode \/ (mode' = "failed" /\ \E u \in Tables : tabs[u].hid > tabs[u].head)
  BY RowsNewFreezer DEF Seeing
<1>2. PICK a \in BOOLEAN : (a <=> mode = "open") /\ ViewOf(view, tabs, a)
  BY SeenNow
<1>3. PICK b \in BOOLEAN : (b <=> mode' = "open") /\ ViewOf(view', tabs', b)
  BY SMTT(30), Z3T(30), <1>1, SeenNext
<1>4. TablesOK(tabs) /\ TablesOK(tabs')
  BY DEF Seeing, IInv, TypeOK, TablesOK
<1>5. CASE mode' = mode
  BY ZenonT(40), <1>1, <1>5 DEF Seeing, Mapped
<1>6. CASE mode' = "failed" /\ \E u \in Tables : tabs[u].hid > tabs[u].head
  <2>1. \A u \in Tables : tabs[u].dur = tabs[u].head
    BY <1>1 DEF Seeing, RowsInv
  <2>2. ~a
    BY SMTT(30), Z3T(30), <1>1, <1>2
  <2>3. \E u, v \in Tables : tabs[u].hid > tabs[v].head
    BY <1>6
  <2> QED BY ZenonT(40), <1>1, <1>2, <1>3, <1>4, <1>6, <2>1, <2>2, <2>3, StepOpen DEF Mapped
<1> QED BY ZenonT(40), <1>1, <1>5, <1>6

LEMMA MapsrepairDone ==
    ASSUME Seeing, IInv', view' = View(tabs', mode' = "open"), repairDone
    PROVE  RowsInv' /\ Mapped
<1>1. /\ RowsInv' /\ mode = "down" /\ mode' = "open" /\ UNCHANGED tabs
      /\ \A u, v \in Tables : tabs[u].hid <= tabs[v].head
  BY Zenon, RowsrepairDone DEF Seeing
<1>2. PICK a \in BOOLEAN : (a <=> mode = "open") /\ ViewOf(view, tabs, a)
  BY SeenNow
<1>3. PICK b \in BOOLEAN : (b <=> mode' = "open") /\ ViewOf(view', tabs', b)
  BY ZenonT(40), <1>1, SeenNext
<1>4. TablesOK(tabs) /\ TablesOK(tabs')
  BY DEF Seeing, IInv, TypeOK, TablesOK
<1>5. \A u \in Tables : tabs[u].dur = tabs[u].head
  BY <1>1 DEF Seeing, RowsInv
<1>6. ~a
  BY <1>1, <1>2
<1> QED BY ZenonT(30), <1>1, <1>2, <1>3, <1>4, <1>5, <1>6, StepOpen DEF Mapped

LEMMA MapsClose ==
    ASSUME Seeing, IInv', view' = View(tabs', mode' = "open"), Close
    PROVE  RowsInv' /\ Mapped
<1>1. /\ RowsInv' /\ mode = "open" /\ mode' = "down"
      /\ \A t \in Tables :
           /\ tabs'[t].lo = tabs[t].lo /\ tabs'[t].head = tabs[t].head /\ tabs'[t].val = tabs[t].val
           /\ tabs'[t].hid = tabs[t].hid /\ tabs'[t].hidDur = tabs[t].hid
  BY RowsClose DEF Seeing
<1>2. PICK a \in BOOLEAN : (a <=> mode = "open") /\ ViewOf(view, tabs, a)
  BY SeenNow
<1>3. PICK b \in BOOLEAN : (b <=> mode' = "open") /\ ViewOf(view', tabs', b)
  BY <1>1, SeenNext
<1>4. TablesOK(tabs) /\ TablesOK(tabs')
  BY DEF Seeing, IInv, TypeOK, TablesOK
<1>5. ~b
  BY <1>1, <1>3
<1> QED BY ZenonT(30), <1>1, <1>2, <1>3, <1>4, <1>5, StepClose DEF Mapped

LEMMA MapsCrash ==
    ASSUME Seeing, IInv', view' = View(tabs', mode' = "open"), Crash
    PROVE  RowsInv' /\ Mapped
<1>1. RowsInv' /\ mode /= "failed" /\ mode' = "down" /\ CrashesTo(tabs')
  BY RowsCrash DEF Seeing, CrashesTo
<1>2. PICK a \in BOOLEAN : (a <=> mode = "open") /\ ViewOf(view, tabs, a)
  BY SeenNow
<1>3. PICK b \in BOOLEAN : (b <=> mode' = "open") /\ ViewOf(view', tabs', b)
  BY Zenon, <1>1, SeenNext
<1>4. TablesOK(tabs) /\ TablesOK(tabs')
  BY DEF Seeing, IInv, TypeOK, TablesOK
<1>5. ~b /\ mode \in {"open", "down"}
  BY <1>1, <1>3 DEF Seeing, IInv, TypeOK
<1>6. \A t \in Tables : view.dur <= tabs[t].dur
  <2>1. CASE mode = "open"
    BY <1>2, <2>1 DEF ViewOf
  <2>2. CASE mode # "open"
    <3>1. \A t \in Tables : tabs[t].dur = tabs[t].head
      BY <2>2 DEF Seeing, RowsInv
    <3>2. view.dur = view.head /\ \A t \in Tables : view.head <= tabs[t].head
      BY <1>2, <2>2 DEF ViewOf
    <3> QED BY SMTT(30), Z3T(30), <3>1, <3>2
  <2> QED BY ZenonT(40), <2>1, <2>2
<1> QED BY ZenonT(40), <1>1, <1>2, <1>3, <1>4, <1>5, <1>6, StepCrash DEF Mapped

LEMMA MapsReset ==
    ASSUME Seeing, IInv', view' = View(tabs', mode' = "open"), Reset
    PROVE  RowsInv' /\ Mapped
<1>1. RowsInv' /\ mode = "open" /\ mode' = mode /\ \A t \in Tables : tabs'[t] = T!EmptyTable
  BY RowsReset DEF Seeing
<1>2. PICK a \in BOOLEAN : (a <=> mode = "open") /\ ViewOf(view, tabs, a)
  BY SeenNow
<1>3. PICK b \in BOOLEAN : (b <=> mode' = "open") /\ ViewOf(view', tabs', b)
  BY <1>1, SeenNext
<1>4. TablesOK(tabs) /\ TablesOK(tabs')
  BY DEF Seeing, IInv, TypeOK, TablesOK
<1>5. b
  BY <1>1, <1>3
<1> QED BY ZenonT(40), <1>1, <1>3, <1>4, <1>5, StepReset DEF Mapped

\* Steps that leave the tables and the mode alone leave the rows alone.
LEMMA MapsOther ==
    ASSUME Seeing, view' = View(tabs', mode' = "open"), Silent \/ ModifyAncients
    PROVE  RowsInv' /\ Mapped
<1>1. RowsInv' /\ UNCHANGED <<tabs, mode>>
  BY RowsSilent, RowsModifyAncients DEF Seeing
<1>2. view' = view
  BY <1>1 DEF Seeing
<1> QED BY <1>1, <1>2 DEF Mapped

LEMMA InitSeeing ==
    ASSUME RowsInit PROVE Seeing /\ Rows!Init
<1>1. Init /\ mode = "open" /\ view = View(tabs, TRUE) /\ tabs = [t \in Tables |-> T!EmptyTable]
  BY ZenonT(40) DEF RowsInit, Init
<1>2. view = View(tabs, mode = "open")
  BY <1>1 DEF View
<1>3. Seeing
  BY ZenonT(30), <1>1, <1>2, InitIInv, InitRows DEF Seeing
<1>4. PICK a \in BOOLEAN : (a <=> mode = "open") /\ ViewOf(view, tabs, a)
  BY <1>3, SeenNow
<1>5. view \in T!Table /\ view.lo = 0 /\ view.head = 0 /\ view.hid = 0 /\ view.dur = 0 /\ view.hidDur = 0
  BY ZenonT(30), <1>1, <1>4 DEF ViewOf, T!EmptyTable
<1>6. view.val = <<>>
  <2> DEFINE f == view.val
  <2>1. f \in [0 .. 0 - 1 -> Values]
    BY <1>4, <1>5 DEF ViewOf
  <2>2. <<>> \in [0 .. 0 - 1 -> Values] /\ 0 .. 0 - 1 = {}
    OBVIOUS
  <2> HIDE DEF f
  <2>3. f = <<>>
    BY ZenonT(40), <2>1, <2>2, SameItems
  <2> QED BY ZenonT(40), <2>3 DEF f
<1>7. T!EmptyTable \in T!Table
  BY EmptyOK DEF TableOK
<1>8. view = T!EmptyTable
  BY ZenonT(40), <1>5, <1>6, <1>7, SameTable DEF T!EmptyTable
<1> QED BY ZenonT(40), <1>1, <1>3, <1>8 DEF Rows!Init, Rows!EmptyTable, T!EmptyTable

LEMMA NextSeeing ==
    ASSUME Seeing, [RowsNext]_<<vars, view>>
    PROVE  Seeing' /\ Mapped
<1>1. CASE UNCHANGED <<vars, view>>
  <2>1. IInv'
    BY Zenon, <1>1, NextIInv DEF Seeing
  <2>2. RowsInv'
    BY ZenonT(40), <1>1, RowsSame DEF Seeing, vars
  <2>3. View(tabs', mode' = "open") = View(tabs, mode = "open")
    BY <1>1 DEF vars
  <2> QED BY ZenonT(40), <1>1, <2>1, <2>2, <2>3 DEF Seeing, Mapped, vars
<1>2. CASE RowsNext
  <2>1. Next /\ view' = View(tabs', mode' = "open") /\ IInv'
    BY ZenonT(40), <1>2, NextIInv DEF RowsNext, Seeing
  <2>2. CASE Silent \/ ModifyAncients
    BY ZenonT(40), <2>1, <2>2, MapsOther DEF Seeing
  <2>3. CASE Reset
    BY ZenonT(40), <2>1, <2>3, MapsReset DEF Seeing
  <2>4. CASE Close
    BY ZenonT(40), <2>1, <2>4, MapsClose DEF Seeing
  <2>5. CASE Crash
    BY Zenon, <2>1, <2>5, MapsCrash DEF Seeing
  <2>6. CASE NewFreezer
    BY Zenon, <2>1, <2>6, MapsNewFreezer DEF Seeing
  <2>7. CASE repairDone
    BY <2>1, <2>7, MapsrepairDone DEF Seeing
  <2>8. ASSUME NEW t \in Tables, commitTable(t)
        PROVE  Seeing' /\ Mapped
    BY Zenon, <2>1, <2>8, MapscommitTable DEF Seeing
  <2>9. ASSUME NEW t \in Tables, rollbackTable(t) \/ truncateHeadTable(t)
        PROVE  Seeing' /\ Mapped
    BY ZenonT(40), <2>1, <2>9, MapsCutHead DEF Seeing
  <2>10. ASSUME NEW t \in Tables, truncateTailTable(t)
         PROVE  Seeing' /\ Mapped
    BY <2>1, <2>10, MapstruncateTailTable DEF Seeing
  <2>11. ASSUME NEW t \in Tables, syncTable(t)
         PROVE  Seeing' /\ Mapped
    BY Zenon, <2>1, <2>11, MapssyncTable DEF Seeing
  <2>12. ASSUME NEW t \in Tables, repairTable(t)
         PROVE  Seeing' /\ Mapped
    BY <2>1, <2>12, MapsrepairTable DEF Seeing
  <2> QED BY ZenonT(40), <2>1, <2>2, <2>3, <2>4, <2>5, <2>6, <2>7, <2>8, <2>9, <2>10, <2>11, <2>12 DEF Next, Silent
<1> QED BY <1>1, <1>2

\* The freezer implements one table of rows (freezer.go, freezer_batch.go): its
\* tables are written, truncated, flushed and repaired one after the other, and
\* yet the rows that all of them hold only grow at the head, are only cut where
\* a caller or the repair cuts them, and lose no flushed row to a power failure.
THEOREM StoreRefinement == RowsSpec => ImplementsStore
<1>1. RowsInit => Seeing /\ Rows!Init
  BY InitSeeing
<1>2. Seeing /\ [RowsNext]_<<vars, view>> => Seeing' /\ [Rows!StoreNext]_<<view, mode>>
  BY NextSeeing DEF Mapped
<1> QED BY <1>1, <1>2, PTL DEF RowsSpec, ImplementsStore, Rows!StoreSpec

=============================================================================
