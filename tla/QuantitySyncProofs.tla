--------------------------- MODULE QuantitySyncProofs ---------------------------
(***************************************************************************)
(* Theorems about QuantitySync, for any pages, versions, lines, quantities  *)
(* and number of faults.                                                    *)
(***************************************************************************)
EXTENDS QuantitySync, TLAPS

-----------------------------------------------------------------------------
(* Constants and tables *)

LEMMA LineOrderFacts ==
    /\ Len(LineOrder) \in Nat \ {0}
    /\ DOMAIN LineOrder = 1 .. Len(LineOrder)
    /\ 1 \in DOMAIN LineOrder
    /\ \A n \in DOMAIN LineOrder : LineOrder[n] \in Lines
  BY SyncAssumption DEF Lines

LEMMA VersionChosen == AnyVersion \in Versions
  BY SyncAssumption DEF AnyVersion

\* The kind and the line can be read off a key.
LEMMA KeyParts ==
    ASSUME NEW k1, NEW k2, NEW l1, NEW l2, KeyOf(k1, l1) = KeyOf(k2, l2)
    PROVE  k1 = k2 /\ l1 = l2
  BY DEF KeyOf

\* What an INSERT does to the items.
LEMMA Insertion ==
    ASSUME NEW b \in Seq(Row), NEW r \in Row, NEW c, c = Append(b, r)
    PROVE  /\ c \in Seq(Row)
           /\ Len(b) + 1 \in DOMAIN c
           /\ Len(b) + 1 \notin DOMAIN b
           /\ DOMAIN c = DOMAIN b \cup {Len(b) + 1}
           /\ \A i \in DOMAIN b : c[i] = b[i]
           /\ c[Len(b) + 1] = r
  OBVIOUS

\* The items keep what their keys and links are about.
ItemsKept == /\ boq' \in Seq(Row) /\ Item' = Item
             /\ \A i \in Item : boq'[i].by = boq[i].by

\* An UPDATE of a quantity keeps it, and every other row.
LEMMA QuantityWritten ==
    ASSUME boq \in Seq(Row), NEW i \in Item, NEW q \in Quantities \cup {NetOf[l] : l \in Lines},
           boq' = [boq EXCEPT ![i].qty = q]
    PROVE  /\ ItemsKept
           /\ \A j \in Item : boq'[j].ver = boq[j].ver /\ boq'[j].apu = boq[j].apu
           /\ boq'[i].qty = q /\ \A j \in Item : j # i => boq'[j] = boq[j]
  <1>1. boq \in [1 .. Len(boq) -> Row] /\ Len(boq) \in Nat /\ Item = 1 .. Len(boq)
    BY DEF Item
  <1>2. boq[i] \in Row
    BY <1>1
  <1> DEFINE r == [boq[i] EXCEPT !.qty = q]
  <1>3. r \in Row /\ r.by = boq[i].by /\ r.ver = boq[i].ver /\ r.apu = boq[i].apu /\ r.qty = q
    BY <1>2 DEF Row
  <1>4. boq' = [boq EXCEPT ![i] = r]
    OBVIOUS
  <1> HIDE DEF r
  <1>5. boq' \in [1 .. Len(boq) -> Row] /\ boq' \in Seq(Row)
    BY <1>1, <1>3, <1>4
  <1>6. Item' = Item
    BY <1>1, <1>5 DEF Item
  <1>7. boq'[i] = r /\ \A j \in Item : j # i => boq'[j] = boq[j]
    BY <1>1, <1>4
  <1> QED BY <1>3, <1>5, <1>6, <1>7 DEF ItemsKept

LEMMA RowIsALine == ASSUME TypeOK, NEW s \in Sessions PROVE Line(s) \in Lines
  BY LineOrderFacts DEF TypeOK, Line

LEMMA NewItemIsARow == ASSUME TypeOK, NEW s \in Sessions PROVE NewItem(s) \in Row
  BY RowIsALine, SyncAssumption DEF TypeOK, NewItem, Row

-----------------------------------------------------------------------------
(* How a row ends *)

PageOK == /\ pc \in [Sessions -> Phases]
          /\ ver \in [Sessions -> Versions]
          /\ seen \in [Sessions -> [Lines -> Item \cup {NoItem}]]
          /\ row \in [Sessions -> DOMAIN LineOrder]

LEMMA NextRowTypes ==
    ASSUME TypeOK, NEW s \in Sessions, NextRow(s), Item \subseteq Item'
    PROVE  /\ PageOK' /\ pc'[s] \in {"lookUp", "idle"}
           /\ \A t \in Sessions : t # s => /\ pc'[t] = pc[t] /\ seen'[t] = seen[t]
                                           /\ row'[t] = row[t] /\ ver'[t] = ver[t]
  <1>0. PageOK /\ NoLinks \in [Lines -> Item' \cup {NoItem}]
    BY DEF TypeOK, PageOK, NoLinks
  <1>1. row[s] \in Nat /\ row[s] \in 1 .. Len(LineOrder)
    BY <1>0, LineOrderFacts DEF PageOK
  <1>2. row[s] < Len(LineOrder) => row[s] + 1 \in DOMAIN LineOrder
    BY <1>1, LineOrderFacts
  <1>3. pc' = [pc EXCEPT ![s] = "lookUp"] \/ pc' = [pc EXCEPT ![s] = "idle"]
    BY DEF NextRow, Goto
  <1>4. (row' = [row EXCEPT ![s] = row[s] + 1] /\ row[s] < Len(LineOrder)) \/ row' = [row EXCEPT ![s] = 1]
    BY DEF NextRow
  <1>5. ver' = ver \/ ver' = [ver EXCEPT ![s] = AnyVersion]
    BY DEF NextRow, page
  <1>6. seen' = seen \/ seen' = [seen EXCEPT ![s] = NoLinks]
    BY DEF NextRow, page
  <1>7. pc' \in [Sessions -> Phases] /\ pc'[s] \in {"lookUp", "idle"}
    BY <1>0, <1>3 DEF PageOK, Phases
  <1>8. row' \in [Sessions -> DOMAIN LineOrder]
    BY <1>0, <1>2, <1>4, LineOrderFacts DEF PageOK
  <1>9. ver' \in [Sessions -> Versions]
    BY <1>0, <1>5, VersionChosen DEF PageOK
  <1>10. seen' \in [Sessions -> [Lines -> Item' \cup {NoItem}]]
    <2>1. seen \in [Sessions -> [Lines -> Item' \cup {NoItem}]]
      BY <1>0 DEF PageOK
    <2> QED BY <2>1, <1>0, <1>6
  <1>11. \A t \in Sessions : t # s => /\ pc'[t] = pc[t] /\ seen'[t] = seen[t]
                                      /\ row'[t] = row[t] /\ ver'[t] = ver[t]
    BY <1>0, <1>3, <1>4, <1>5, <1>6 DEF PageOK
  <1> QED BY <1>7, <1>8, <1>9, <1>10, <1>11 DEF PageOK

LEMMA FailTypes ==
    ASSUME TypeOK, NEW s \in Sessions, Fail(s), boq' = boq
    PROVE  /\ PageOK' /\ found' \in [Sessions -> Item' \cup {NoItem}]
           /\ pc'[s] = "failed"
           /\ \A t \in Sessions : t # s => /\ pc'[t] = pc[t] /\ seen'[t] = seen[t]
                                           /\ row'[t] = row[t] /\ found'[t] = found[t]
  <1>1. /\ PageOK /\ found \in [Sessions -> Item \cup {NoItem}]
        /\ pc' = [pc EXCEPT ![s] = "failed"] /\ row' = [row EXCEPT ![s] = 1]
        /\ found' = [found EXCEPT ![s] = NoItem] /\ ver' = ver /\ seen' = seen
    BY DEF Fail, Goto, page, TypeOK, PageOK
  <1>2. Item' = Item
    BY DEF Item
  <1>3. pc' \in [Sessions -> Phases] /\ pc'[s] = "failed"
    BY <1>1 DEF PageOK, Phases
  <1>4. row' \in [Sessions -> DOMAIN LineOrder]
    BY <1>1, LineOrderFacts DEF PageOK
  <1>5. found' \in [Sessions -> Item' \cup {NoItem}]
    BY <1>1, <1>2
  <1>6. seen' \in [Sessions -> [Lines -> Item' \cup {NoItem}]] /\ ver' \in [Sessions -> Versions]
    BY <1>1, <1>2 DEF PageOK
  <1> QED BY <1>1, <1>3, <1>4, <1>5, <1>6 DEF PageOK

\* A step that leaves items, actions and links alone keeps the invariant if the
\* sessions it moves to a commit or a stamp have the right item.
LEMMA TablesStill ==
    ASSUME Consistent, LinksOwnItem, boq' = boq, actions' = actions, link' = link,
           \A t \in Sessions : pc'[t] = "stamp" =>
               found'[t] \in Item /\ boq[found'[t]].by = LineOrder[row'[t]],
           \A t \in Sessions : pc'[t] = "commit" =>
               found'[t] \in {NoItem, seen'[t][LineOrder[row'[t]]]}
    PROVE  Consistent' /\ LinksOwnItem'
  BY DEF Consistent, LinksOwnItem, Line, Item

\* One that stops or starts a row of s without an item, the same for every table.
LEMMA TablesStillOf ==
    ASSUME Consistent, LinksOwnItem, boq' = boq, actions' = actions, link' = link,
           NEW s \in Sessions, pc'[s] \notin {"stamp", "commit"},
           \A t \in Sessions : t # s => /\ pc'[t] = pc[t] /\ seen'[t] = seen[t]
                                        /\ row'[t] = row[t] /\ found'[t] = found[t]
    PROVE  Consistent' /\ LinksOwnItem'
  <1>1. \A t \in Sessions : pc'[t] = "stamp" =>
            found'[t] \in Item /\ boq[found'[t]].by = LineOrder[row'[t]]
    BY DEF Consistent, Line
  <1>2. \A t \in Sessions : pc'[t] = "commit" =>
            found'[t] \in {NoItem, seen'[t][LineOrder[row'[t]]]}
    BY DEF Consistent, Line
  <1> QED BY <1>1, <1>2, TablesStill

\* Type correctness of the tables a page step leaves alone.
LEMMA TypesFromPage ==
    ASSUME TypeOK, UNCHANGED tables, PageOK',
           found' \in [Sessions -> Item' \cup {NoItem}],
           calm' \in [Sessions -> {"no", "fresh", "replay"}],
           faults' \in 0 .. MaxFaults
    PROVE  TypeOK'
  <1>1. /\ status' = status /\ archived' = archived /\ archiving' = archiving
        /\ boq' = boq /\ actions' = actions /\ link' = link
    BY DEF tables
  <1>2. Item' = Item
    BY <1>1 DEF Item
  <1>3. /\ status' \in [Versions -> {"open", "locked"}] /\ boq' \in Seq(Row)
        /\ archived' \subseteq Apus /\ archiving' \subseteq Apus
    BY <1>1 DEF TypeOK
  <1>4. /\ actions' \subseteq [key : SyncKeys, item : Item']
        /\ link' \in [Lines -> Item' \cup {NoItem}]
    BY <1>1, <1>2 DEF TypeOK
  <1>5. /\ pc' \in [Sessions -> Phases] /\ ver' \in [Sessions -> Versions]
        /\ seen' \in [Sessions -> [Lines -> Item' \cup {NoItem}]]
        /\ row' \in [Sessions -> DOMAIN LineOrder]
    BY DEF PageOK
  <1> QED BY <1>3, <1>4, <1>5 DEF TypeOK

-----------------------------------------------------------------------------
(* The inductive invariant *)

LEMMA InitInv == Init => IInv
  <1> SUFFICES ASSUME Init PROVE IInv
    OBVIOUS
  <1>1. boq \in Seq(Row) /\ Item = {}
    BY DEF Init, Item
  <1>2. NoLinks \in [Lines -> Item \cup {NoItem}]
    BY DEF NoLinks
  <1>3. TypeOK
    BY <1>1, <1>2, VersionChosen, LineOrderFacts, SyncAssumption DEF Init, TypeOK, Phases
  <1>4. Consistent
    BY <1>1 DEF Init, Consistent
  <1>5. LinksOwnItem
    BY DEF Init, LinksOwnItem, NoLinks
  <1> QED BY <1>3, <1>4, <1>5 DEF IInv

LEMMA OpenPageInv ==
    ASSUME IInv, NEW s \in Sessions, NEW v \in Versions, OpenPage(s, v), UNCHANGED faults
    PROVE  IInv'
  <1> USE DEF IInv
  <1>1. /\ pc' = [pc EXCEPT ![s] = "ready"] /\ row' = row /\ found' = found /\ calm' = calm
        /\ seen' = [seen EXCEPT ![s] = link] /\ ver' = [ver EXCEPT ![s] = v]
        /\ boq' = boq /\ actions' = actions /\ link' = link
    BY DEF OpenPage, Goto, tables
  <1>2. PageOK'
    BY <1>1 DEF TypeOK, PageOK, Phases, Item
  <1>5. /\ found' \in [Sessions -> Item' \cup {NoItem}]
        /\ calm' \in [Sessions -> {"no", "fresh", "replay"}]
        /\ faults' \in 0 .. MaxFaults /\ UNCHANGED tables
    BY <1>1 DEF TypeOK, Item, OpenPage
  <1>3. TypeOK'
    BY <1>2, <1>5, TypesFromPage
  <1>4. pc'[s] = "ready" /\ \A t \in Sessions : t # s => pc'[t] = pc[t] /\ seen'[t] = seen[t]
    BY <1>1 DEF TypeOK
  <1> QED BY <1>1, <1>3, <1>4, TablesStillOf

LEMMA ConfirmInv ==
    ASSUME IInv, NEW s \in Sessions, Confirm(s), UNCHANGED faults
    PROVE  IInv'
  <1> USE DEF IInv
  <1>1. /\ pc' = [pc EXCEPT ![s] = "lookUp"] /\ row' = [row EXCEPT ![s] = 1] /\ found' = found
        /\ seen' = seen /\ ver' = ver /\ boq' = boq /\ actions' = actions /\ link' = link
    BY DEF Confirm, Goto, tables, page
  <1>2. PageOK'
    BY <1>1, LineOrderFacts DEF TypeOK, PageOK, Phases, Item
  <1>3. calm' \in [Sessions -> {"no", "fresh", "replay"}]
    BY DEF Confirm, TypeOK
  <1>6. /\ found' \in [Sessions -> Item' \cup {NoItem}]
        /\ faults' \in 0 .. MaxFaults /\ UNCHANGED tables
    BY <1>1 DEF TypeOK, Item, Confirm
  <1>4. TypeOK'
    BY <1>2, <1>3, <1>6, TypesFromPage
  <1>5. pc'[s] = "lookUp" /\ \A t \in Sessions : t # s => pc'[t] = pc[t] /\ row'[t] = row[t]
    BY <1>1 DEF TypeOK
  <1> QED BY <1>1, <1>4, <1>5, TablesStillOf

LEMMA FailInv ==
    ASSUME IInv, NEW s \in Sessions, Fail(s), UNCHANGED <<tables, calm>>, faults' \in 0 .. MaxFaults
    PROVE  IInv'
  <1> USE DEF IInv
  <1>1. boq' = boq /\ actions' = actions /\ link' = link /\ calm' = calm
    BY DEF tables
  <1>3. calm' \in [Sessions -> {"no", "fresh", "replay"}]
    BY DEF TypeOK
  <1>4. PageOK' /\ found' \in [Sessions -> Item' \cup {NoItem}]
    BY <1>1, FailTypes
  <1>2. TypeOK'
    BY <1>3, <1>4, TypesFromPage
  <1> QED BY <1>1, <1>2, FailTypes, TablesStillOf

\* A row that ends without a stamp of its own.
LEMMA NextRowInv ==
    ASSUME IInv, NEW s \in Sessions, NextRow(s), UNCHANGED tables,
           found' \in [Sessions -> Item' \cup {NoItem}],
           \A t \in Sessions : t # s => found'[t] = found[t],
           calm' \in [Sessions -> {"no", "fresh", "replay"}], faults' \in 0 .. MaxFaults
    PROVE  IInv'
  <1> USE DEF IInv
  <1>1. boq' = boq /\ actions' = actions /\ link' = link /\ Item \subseteq Item'
    BY DEF tables, Item
  <1>2. TypeOK'
    BY <1>1, NextRowTypes, TypesFromPage
  <1>3. pc'[s] \notin {"stamp", "commit"}
    BY <1>1, NextRowTypes
  <1> QED BY <1>1, <1>2, <1>3, NextRowTypes, TablesStillOf


LEMMA LookUpInv ==
    ASSUME IInv, NEW s \in Sessions, LookUp(s), UNCHANGED faults
    PROVE  IInv'
  <1> USE DEF IInv
  <1>0. /\ boq' = boq /\ actions' = actions /\ link' = link /\ Item' = Item /\ UNCHANGED tables
        /\ calm' \in [Sessions -> {"no", "fresh", "replay"}] /\ faults' \in 0 .. MaxFaults
    BY DEF LookUp, tables, Item, TypeOK
  <1>1. CASE Recorded(Key(s, Line(s))) = {}
    <2>1. pc' = [pc EXCEPT ![s] = "check"] /\ ver' = ver /\ seen' = seen /\ row' = row /\ found' = found
      BY <1>1 DEF LookUp, Goto, page
    <2>2. PageOK' /\ found' \in [Sessions -> Item' \cup {NoItem}]
      BY <1>0, <2>1 DEF TypeOK, PageOK, Phases
    <2>3. pc'[s] = "check" /\ \A t \in Sessions : t # s => pc'[t] = pc[t]
      BY <2>1 DEF TypeOK
    <2> QED BY <1>0, <2>1, <2>2, <2>3, TypesFromPage, TablesStillOf
  <1>2. CASE Recorded(Key(s, Line(s))) # {}
    <2>1. PICK a \in Recorded(Key(s, Line(s))) : AfterReplay(s, a.item)
      BY <1>2 DEF LookUp
    <2>2. a \in actions /\ a.key = Key(s, Line(s)) /\ a.item \in Item
      BY <2>1 DEF Recorded, TypeOK
    <2>3. CASE Creates(s, Line(s))
      <3>1. /\ pc' = [pc EXCEPT ![s] = "stamp"] /\ ver' = ver /\ seen' = seen /\ row' = row
            /\ found' = [found EXCEPT ![s] = a.item]
        BY <2>1, <2>3 DEF AfterReplay, Goto, page
      <3>2. PageOK' /\ found' \in [Sessions -> Item' \cup {NoItem}]
        BY <1>0, <2>2, <3>1 DEF TypeOK, PageOK, Phases
      <3>3. boq[a.item].by = Line(s)
        BY <2>2, <2>3, RowIsALine DEF Consistent, Key
      <3>4. /\ pc'[s] = "stamp" /\ found'[s] = a.item
            /\ \A t \in Sessions : t # s => pc'[t] = pc[t] /\ found'[t] = found[t]
        BY <3>1 DEF TypeOK
      <3>5. \A t \in Sessions : pc'[t] = "stamp" =>
                found'[t] \in Item /\ boq[found'[t]].by = LineOrder[row'[t]]
        BY <2>2, <3>1, <3>3, <3>4 DEF Consistent, Line
      <3>6. \A t \in Sessions : pc'[t] = "commit" =>
                found'[t] \in {NoItem, seen'[t][LineOrder[row'[t]]]}
        BY <3>1, <3>4 DEF Consistent, Line
      <3> QED BY <1>0, <3>2, <3>5, <3>6, TypesFromPage, TablesStill
    <2>4. CASE ~Creates(s, Line(s))
      <3>1. NextRow(s) /\ found' = found
        BY <2>1, <2>4 DEF AfterReplay
      <3>2. found' \in [Sessions -> Item' \cup {NoItem}]
        BY <1>0, <3>1 DEF TypeOK
      <3> QED BY <1>0, <3>1, <3>2, NextRowInv
    <2> QED BY <2>3, <2>4
  <1> QED BY <1>1, <1>2

LEMMA CheckInv ==
    ASSUME IInv, NEW s \in Sessions, Check(s), UNCHANGED faults
    PROVE  IInv'
  <1> USE DEF IInv
  <1>0. /\ boq' = boq /\ actions' = actions /\ link' = link /\ Item' = Item /\ UNCHANGED <<tables, calm>>
        /\ calm' \in [Sessions -> {"no", "fresh", "replay"}] /\ faults' \in 0 .. MaxFaults
    BY DEF Check, tables, Item, TypeOK
  <1>1. CASE Fail(s)
    BY <1>0, <1>1, FailInv
  <1>2. CASE ~Fail(s)
    <2>1. pc' = [pc EXCEPT ![s] = "write"] /\ ver' = ver /\ seen' = seen /\ row' = row /\ found' = found
      BY <1>2 DEF Check, Goto, page
    <2>2. PageOK' /\ found' \in [Sessions -> Item' \cup {NoItem}]
      BY <1>0, <2>1 DEF TypeOK, PageOK, Phases
    <2>3. pc'[s] = "write" /\ \A t \in Sessions : t # s => pc'[t] = pc[t]
      BY <2>1 DEF TypeOK
    <2> QED BY <1>0, <2>1, <2>2, <2>3, TypesFromPage, TablesStillOf
  <1> QED BY <1>1, <1>2

LEMMA WriteInv ==
    ASSUME IInv, NEW s \in Sessions, Write(s), UNCHANGED faults
    PROVE  IInv'
  <1> USE DEF IInv
  <1>0. /\ boq' = boq /\ actions' = actions /\ link' = link /\ Item' = Item /\ UNCHANGED <<tables, calm>>
        /\ calm' \in [Sessions -> {"no", "fresh", "replay"}] /\ faults' \in 0 .. MaxFaults
    BY DEF Write, tables, Item, TypeOK
  <1>1. CASE Fail(s)
    BY <1>0, <1>1, FailInv
  <1>2. CASE ~Fail(s)
    <2> DEFINE i == IF RlsAdmits(Target(s, Line(s))) THEN seen[s][Line(s)] ELSE NoItem
    <2>1. /\ pc' = [pc EXCEPT ![s] = "commit"] /\ ver' = ver /\ seen' = seen /\ row' = row
          /\ found' = [found EXCEPT ![s] = i]
      BY <1>2 DEF Write, Goto, page
    <2>2. i \in Item \cup {NoItem} /\ i \in {NoItem, seen[s][Line(s)]}
      BY RowIsALine DEF TypeOK
    <2> HIDE DEF i
    <2>3. PageOK' /\ found' \in [Sessions -> Item' \cup {NoItem}]
      BY <1>0, <2>1, <2>2 DEF TypeOK, PageOK, Phases
    <2>4. /\ pc'[s] = "commit" /\ found'[s] = i
          /\ \A t \in Sessions : t # s => pc'[t] = pc[t] /\ found'[t] = found[t]
      BY <2>1 DEF TypeOK
    <2>5. \A t \in Sessions : pc'[t] = "stamp" =>
              found'[t] \in Item /\ boq[found'[t]].by = LineOrder[row'[t]]
      BY <2>1, <2>4 DEF Consistent, Line
    <2>6. \A t \in Sessions : pc'[t] = "commit" =>
              found'[t] \in {NoItem, seen'[t][LineOrder[row'[t]]]}
      BY <2>1, <2>2, <2>4 DEF Consistent, Line
    <2> QED BY <1>0, <2>3, <2>5, <2>6, TypesFromPage, TablesStill
  <1> QED BY <1>1, <1>2

\* The types of the tables, when items are only added or their quantities written.
LEMMA TypesWithItems ==
    ASSUME TypeOK, PageOK', Item \subseteq Item', boq' \in Seq(Row),
           UNCHANGED <<status, archived, archiving, faults>>,
           actions' \subseteq [key : SyncKeys, item : Item'],
           link' \in [Lines -> Item' \cup {NoItem}],
           found' \in [Sessions -> Item' \cup {NoItem}],
           calm' \in [Sessions -> {"no", "fresh", "replay"}]
    PROVE  TypeOK'
  BY DEF TypeOK, PageOK

LEMMA DisturbTypes ==
    ASSUME TypeOK, NEW s \in Sessions, Disturb(s) \/ DisturbAll
    PROVE  calm' \in [Sessions -> {"no", "fresh", "replay"}]
  BY DEF TypeOK, Disturb, DisturbAll

LEMMA KeyTypes ==
    ASSUME TypeOK, NEW s \in Sessions
    PROVE  Key(s, Line(s)) \in SyncKeys
  BY RowIsALine DEF Key, SyncKeys


\* The transaction of add_apu_to_boq commits.
LEMMA AddCommitInv ==
    ASSUME IInv, NEW s \in Sessions, pc[s] = "commit", Commit(s), UNCHANGED faults,
           KeyFree(Key(s, Line(s))), Creates(s, Line(s))
    PROVE  IInv'
  <1> USE DEF IInv
  <1> DEFINE n == Len(boq) + 1
             r == NewItem(s)
             a == [key |-> Key(s, Line(s)), item |-> n]
  <1>1. /\ boq' = Append(boq, r) /\ actions' = actions \cup {a} /\ link' = link
        /\ found' = [found EXCEPT ![s] = n] /\ pc' = [pc EXCEPT ![s] = "stamp"]
        /\ ver' = ver /\ seen' = seen /\ row' = row
        /\ UNCHANGED <<status, archived, archiving, faults>> /\ Disturb(s)
    BY DEF Commit, Goto, page
  <1>2. r \in Row /\ r.by = Line(s)
    BY NewItemIsARow DEF NewItem
  <1>3. boq \in Seq(Row)
    BY DEF TypeOK
  <1> HIDE DEF r
  <1>4. /\ boq' \in Seq(Row) /\ n \in Item' /\ n \notin Item /\ Item' = Item \cup {n}
        /\ \A i \in Item : boq'[i] = boq[i]
        /\ boq'[n] = r
    BY <1>1, <1>2, <1>3, Insertion DEF Item
  <1> HIDE DEF n
  <1>5. Line(s) \in Lines /\ a.key = KeyOf("wsc", Line(s)) /\ a.item = n /\ a.key \in SyncKeys
    BY RowIsALine, KeyTypes DEF Key
  <1>6. \A b \in actions : b.key # a.key /\ b.item \in Item
    BY DEF KeyFree, Recorded, TypeOK
  <1> HIDE DEF a
  <1>7. TypeOK'
    <2>1. PageOK'
      BY <1>1, <1>4 DEF TypeOK, PageOK, Phases
    <2>2. actions' \subseteq [key : SyncKeys, item : Item']
      BY <1>1, <1>4, <1>5 DEF TypeOK, a
    <2>3. link' \in [Lines -> Item' \cup {NoItem}] /\ found' \in [Sessions -> Item' \cup {NoItem}]
      BY <1>1, <1>4 DEF TypeOK
    <2> QED BY <1>1, <1>4, <2>1, <2>2, <2>3, DisturbTypes, TypesWithItems
  <1>8. Consistent'
    <2>1. \A i \in Item' : \E b \in actions' : b.key = KeyOf("wsc", boq'[i].by) /\ b.item = i
      <3>1. \A i \in Item : \E b \in actions : b.key = KeyOf("wsc", boq'[i].by) /\ b.item = i
        BY <1>4 DEF Consistent
      <3>2. a.key = KeyOf("wsc", boq'[n].by) /\ a.item = n
        BY <1>2, <1>4, <1>5
      <3> QED BY <1>1, <1>4, <3>1, <3>2
    <2>2. \A b, c \in actions' : b.key = c.key => b = c
      BY <1>1, <1>6 DEF Consistent
    <2>3. \A b \in actions', l \in Lines : b.key = KeyOf("wsc", l) => boq'[b.item].by = l
      <3>1. \A b \in actions, l \in Lines : b.key = KeyOf("wsc", l) => boq'[b.item].by = l
        BY <1>4, <1>6 DEF Consistent
      <3>2. \A l \in Lines : a.key = KeyOf("wsc", l) => boq'[a.item].by = l
        BY <1>2, <1>4, <1>5, KeyParts
      <3> QED BY <1>1, <3>1, <3>2
    <2>4. /\ pc'[s] = "stamp" /\ found'[s] = n
          /\ \A t \in Sessions : t # s => pc'[t] = pc[t] /\ found'[t] = found[t]
      BY <1>1 DEF TypeOK
    <2>5. \A t \in Sessions : pc'[t] = "stamp" => found'[t] \in Item' /\ boq'[found'[t]].by = Line(t)'
      <3>1. \A t \in Sessions : Line(t)' = Line(t)
        BY <1>1 DEF Line
      <3>2. found'[s] \in Item' /\ boq'[found'[s]].by = Line(s)
        BY <1>2, <1>4, <2>4
      <3>3. ASSUME NEW t \in Sessions, t # s, pc'[t] = "stamp"
            PROVE  found'[t] \in Item' /\ boq'[found'[t]].by = Line(t)
        BY <1>4, <2>4, <3>3 DEF Consistent
      <3> QED BY <3>1, <3>2, <3>3
    <2>6. \A t \in Sessions : pc'[t] = "commit" => found'[t] \in {NoItem, seen'[t][Line(t)']}
      BY <1>1, <2>4 DEF Consistent, Line
    <2> QED BY <2>1, <2>2, <2>3, <2>5, <2>6 DEF Consistent
  <1>9. LinksOwnItem'
    BY <1>1, <1>4 DEF LinksOwnItem, TypeOK
  <1> QED BY <1>7, <1>8, <1>9

\* The transaction of update_boq_item_quantity commits.
LEMMA UpdateCommitInv ==
    ASSUME IInv, NEW s \in Sessions, pc[s] = "commit", Commit(s), UNCHANGED faults,
           KeyFree(Key(s, Line(s))), ~Creates(s, Line(s))
    PROVE  IInv'
  <1> USE DEF IInv
  <1> DEFINE i == seen[s][Line(s)]
             a == [key |-> Key(s, Line(s)), item |-> i]
  <1>1. /\ boq' = IF found[s] = NoItem THEN boq
                  ELSE [boq EXCEPT ![found[s]].qty = NetOf[Line(s)]]
        /\ actions' = actions \cup {a} /\ link' = link
        /\ found' = [found EXCEPT ![s] = NoItem] /\ NextRow(s)
        /\ UNCHANGED <<status, archived, archiving, faults>> /\ Disturb(s)
    BY DEF Commit, Measured
  <1>2. Line(s) \in Lines /\ i \in Item /\ found[s] \in Item \cup {NoItem}
    BY RowIsALine DEF TypeOK, Creates
  <1>3. ItemsKept
    <2>1. NetOf[Line(s)] \in Quantities \cup {NetOf[l] : l \in Lines} /\ boq \in Seq(Row)
      BY <1>2 DEF TypeOK
    <2>2. CASE found[s] = NoItem
      BY <1>1, <2>1, <2>2 DEF ItemsKept, Item
    <2>3. CASE found[s] # NoItem
      <3>1. found[s] \in Item /\ boq' = [boq EXCEPT ![found[s]].qty = NetOf[Line(s)]]
        BY <1>1, <1>2, <2>3
      <3> QED BY <2>1, <3>1, QuantityWritten
    <2> QED BY <2>2, <2>3
  <1>4. a.key = KeyOf("wsq", Line(s)) /\ a.item = i /\ a.key \in SyncKeys
    BY KeyTypes DEF Key
  <1>5. \A b \in actions : b.key # a.key /\ b.item \in Item
    BY DEF KeyFree, Recorded, TypeOK
  <1>6. a \in [key : SyncKeys, item : Item]
    BY <1>2, <1>4
  <1> HIDE DEF a, i
  <1>7. /\ PageOK' /\ pc'[s] \in {"lookUp", "idle"}
        /\ \A t \in Sessions : t # s => pc'[t] = pc[t] /\ seen'[t] = seen[t] /\ row'[t] = row[t]
    BY <1>1, <1>3, NextRowTypes DEF ItemsKept
  <1>8. TypeOK'
    <2>1. actions' \subseteq [key : SyncKeys, item : Item']
      BY <1>1, <1>3, <1>6 DEF TypeOK, ItemsKept
    <2>2. link' \in [Lines -> Item' \cup {NoItem}] /\ found' \in [Sessions -> Item' \cup {NoItem}]
      BY <1>1, <1>3 DEF TypeOK, ItemsKept
    <2> QED BY <1>1, <1>3, <1>7, <2>1, <2>2, DisturbTypes, TypesWithItems DEF ItemsKept
  <1>9. Consistent'
    <2>1. \A j \in Item' : \E b \in actions' : b.key = KeyOf("wsc", boq'[j].by) /\ b.item = j
      BY <1>1, <1>3 DEF Consistent, ItemsKept
    <2>2. \A b, c \in actions' : b.key = c.key => b = c
      BY <1>1, <1>5 DEF Consistent
    <2>3. \A b \in actions', l \in Lines : b.key = KeyOf("wsc", l) => boq'[b.item].by = l
      <3>1. \A b \in actions, l \in Lines : b.key = KeyOf("wsc", l) => boq'[b.item].by = l
        BY <1>3, <1>5 DEF Consistent, ItemsKept
      <3>2. \A l \in Lines : a.key # KeyOf("wsc", l)
        BY <1>4, KeyParts
      <3> QED BY <1>1, <3>1, <3>2
    <2>4. \A t \in Sessions : t # s => found'[t] = found[t]
      BY <1>1 DEF TypeOK
    <2>5. \A t \in Sessions : pc'[t] = "stamp" => found'[t] \in Item' /\ boq'[found'[t]].by = Line(t)'
      BY <1>3, <1>7, <2>4 DEF Consistent, Line, ItemsKept
    <2>6. \A t \in Sessions : pc'[t] = "commit" => found'[t] \in {NoItem, seen'[t][Line(t)']}
      BY <1>7, <2>4 DEF Consistent, Line
    <2> QED BY <2>1, <2>2, <2>3, <2>5, <2>6 DEF Consistent
  <1>10. LinksOwnItem'
    BY <1>1, <1>3 DEF LinksOwnItem, TypeOK, ItemsKept
  <1> QED BY <1>8, <1>9, <1>10

LEMMA CommitInv ==
    ASSUME IInv, NEW s \in Sessions, Commit(s), UNCHANGED faults
    PROVE  IInv'
  <1>1. CASE ~KeyFree(Key(s, Line(s)))
    <2>1. Fail(s) /\ UNCHANGED <<tables, calm>>
      BY <1>1 DEF Commit
    <2> QED BY <2>1, FailInv DEF IInv, TypeOK
  <1>2. CASE KeyFree(Key(s, Line(s))) /\ Creates(s, Line(s))
    BY <1>2, AddCommitInv DEF Commit
  <1>3. CASE KeyFree(Key(s, Line(s))) /\ ~Creates(s, Line(s))
    BY <1>3, UpdateCommitInv DEF Commit
  <1> QED BY <1>1, <1>2, <1>3

LEMMA StampInv ==
    ASSUME IInv, NEW s \in Sessions, Stamp(s), UNCHANGED faults
    PROVE  IInv'
  <1> USE DEF IInv
  <1>1. /\ pc[s] = "stamp" /\ link' = [link EXCEPT ![Line(s)] = found[s]]
        /\ found' = [found EXCEPT ![s] = NoItem] /\ NextRow(s) /\ Disturb(s)
        /\ UNCHANGED <<status, archived, archiving, boq, actions, faults>>
    BY DEF Stamp
  <1>2. Item' = Item /\ boq' \in Seq(Row) /\ Line(s) \in Lines
    BY <1>1, RowIsALine DEF Item, TypeOK
  <1>3. found[s] \in Item /\ boq[found[s]].by = Line(s)
    BY <1>1 DEF Consistent
  <1>4. /\ PageOK' /\ pc'[s] \in {"lookUp", "idle"}
        /\ \A t \in Sessions : t # s => pc'[t] = pc[t] /\ seen'[t] = seen[t] /\ row'[t] = row[t]
    BY <1>1, <1>2, NextRowTypes
  <1>5. TypeOK'
    <2>1. link' \in [Lines -> Item' \cup {NoItem}] /\ found' \in [Sessions -> Item' \cup {NoItem}]
      BY <1>1, <1>2, <1>3 DEF TypeOK
    <2>2. actions' \subseteq [key : SyncKeys, item : Item']
      BY <1>1, <1>2 DEF TypeOK
    <2> QED BY <1>1, <1>2, <1>4, <2>1, <2>2, DisturbTypes, TypesWithItems
  <1>6. Consistent'
    <2>1. \A t \in Sessions : t # s => found'[t] = found[t]
      BY <1>1 DEF TypeOK
    <2>2. \A t \in Sessions : pc'[t] = "stamp" => found'[t] \in Item' /\ boq'[found'[t]].by = Line(t)'
      BY <1>1, <1>2, <1>4, <2>1 DEF Consistent, Line
    <2>3. \A t \in Sessions : pc'[t] = "commit" => found'[t] \in {NoItem, seen'[t][Line(t)']}
      BY <1>4, <2>1 DEF Consistent, Line
    <2> QED BY <1>1, <1>2, <2>2, <2>3 DEF Consistent
  <1>7. LinksOwnItem'
    BY <1>1, <1>2, <1>3 DEF LinksOwnItem, TypeOK
  <1> QED BY <1>5, <1>6, <1>7

LEMMA FaultInv ==
    ASSUME IInv, NEW s \in Sessions, Fault(s)
    PROVE  IInv'
  <1>1. faults' \in 0 .. MaxFaults
    BY SyncAssumption DEF Fault, IInv, TypeOK
  <1>2. CASE Die(s)
    BY <1>1, <1>2, FailInv DEF Die
  <1>3. CASE LoseStamp(s)
    <2>1. /\ NextRow(s) /\ UNCHANGED tables /\ found' = [found EXCEPT ![s] = NoItem]
          /\ calm' = [calm EXCEPT ![s] = "no"]
      BY <1>3 DEF LoseStamp
    <2>2. Item' = Item
      BY <2>1 DEF tables, Item
    <2>3. /\ found' \in [Sessions -> Item' \cup {NoItem}]
          /\ \A t \in Sessions : t # s => found'[t] = found[t]
          /\ calm' \in [Sessions -> {"no", "fresh", "replay"}]
      BY <2>1, <2>2 DEF IInv, TypeOK
    <2> QED BY <1>1, <2>1, <2>3, NextRowInv
  <1> QED BY <1>2, <1>3 DEF Fault

LEMMA OthersInv ==
    ASSUME IInv, Others
    PROVE  IInv'
  <1> USE DEF IInv
  <1>1. ASSUME NEW i \in Item, NEW q \in Quantities, EditQuantity(i, q)
        PROVE  IInv'
    <2>1. /\ boq' = [boq EXCEPT ![i].qty = q] /\ DisturbAll
          /\ UNCHANGED <<status, archived, archiving, actions, link, pc, ver, seen, row, found, faults>>
      BY <1>1 DEF EditQuantity, page, Others
    <2>2. ItemsKept
      <3>1. boq \in Seq(Row) /\ boq' = [boq EXCEPT ![i].qty = q]
        BY <2>1 DEF TypeOK
      <3> QED BY <3>1, QuantityWritten
    <2>3. TypeOK'
      <3>1. PageOK' /\ found' \in [Sessions -> Item' \cup {NoItem}]
        BY <2>1, <2>2 DEF TypeOK, PageOK, ItemsKept
      <3>2. actions' \subseteq [key : SyncKeys, item : Item'] /\ link' \in [Lines -> Item' \cup {NoItem}]
        BY <2>1, <2>2 DEF TypeOK, ItemsKept
      <3>3. calm' \in [Sessions -> {"no", "fresh", "replay"}]
        BY <2>1 DEF DisturbAll
      <3> QED BY <2>1, <2>2, <3>1, <3>2, <3>3, TypesWithItems DEF ItemsKept
    <2>4. Consistent'
      <3>1. \A t \in Sessions : Line(t)' = Line(t)
        BY <2>1 DEF Line
      <3>2. \A b \in actions : b.item \in Item
        BY DEF TypeOK
      <3> QED BY <2>1, <2>2, <3>1, <3>2 DEF Consistent, ItemsKept
    <2>5. LinksOwnItem'
      BY <2>1, <2>2 DEF LinksOwnItem, TypeOK, ItemsKept
    <2> QED BY <2>3, <2>4, <2>5
  <1>2. ASSUME UNCHANGED <<boq, actions, link, pc, ver, seen, row, found, faults>>,
               status' \in [Versions -> {"open", "locked"}],
               archived' \subseteq Apus, archiving' \subseteq Apus,
               calm' \in [Sessions -> {"no", "fresh", "replay"}]
        PROVE  IInv'
    <2>1. Item' = Item
      BY <1>2 DEF Item
    <2>2. TypeOK'
      BY <1>2, <2>1 DEF TypeOK
    <2>3. \A t \in Sessions : Line(t)' = Line(t)
      BY <1>2 DEF Line
    <2>4. Consistent' /\ LinksOwnItem'
      BY <1>2, <2>1, <2>3 DEF Consistent, LinksOwnItem
    <2> QED BY <2>2, <2>4
  <1>3. ASSUME NEW v \in Versions, Issue(v)
        PROVE  IInv'
    BY <1>2, <1>3 DEF Issue, TypeOK, page, DisturbAll, Others
  <1>4. ASSUME NEW a \in Apus, ArchiveCheck(a) \/ ArchiveWrite(a)
        PROVE  IInv'
    BY <1>2, <1>4 DEF ArchiveCheck, ArchiveWrite, TypeOK, page, Others
  <1> QED BY <1>1, <1>3, <1>4 DEF Others

LEMMA NextInv == IInv /\ [Next]_vars => IInv'
  <1> SUFFICES ASSUME IInv, [Next]_vars PROVE IInv'
    OBVIOUS
  <1>1. CASE Next
    <2>1. ASSUME NEW s \in Sessions, Load(s) \/ Send(s)
          PROVE  IInv'
      BY <2>1, OpenPageInv, ConfirmInv DEF Load, Send
    <2>2. ASSUME NEW s \in Sessions, Serve(s)
          PROVE  IInv'
      BY <2>2, LookUpInv, CheckInv, WriteInv, CommitInv, StampInv DEF Serve
    <2> QED BY <1>1, <2>1, <2>2, FaultInv, OthersInv DEF Next
  <1>2. CASE UNCHANGED vars
    <2>1. UNCHANGED <<status, archived, archiving, boq, actions, link, pc, ver, seen, row, found, calm, faults>>
      BY <1>2 DEF vars, tables, page
    <2>2. Item' = Item /\ \A t \in Sessions : Line(t)' = Line(t)
      BY <2>1 DEF Item, Line
    <2>3. TypeOK'
      BY <2>1, <2>2 DEF IInv, TypeOK
    <2>4. Consistent' /\ LinksOwnItem'
      BY <2>1, <2>2 DEF IInv, Consistent, LinksOwnItem
    <2> QED BY <2>3, <2>4 DEF IInv
  <1> QED BY <1>1, <1>2

-----------------------------------------------------------------------------
(* Theorems *)

\* The invariant holds of every reachable state.
THEOREM Invariance == Spec => []IInv
  BY InitInv, NextInv, PTL DEF Spec

\* The tables and pages hold values of their columns and fields, for any number
\* of pages, versions and lines.
THEOREM TypeCorrect == Spec => []TypeOK
  <1>1. IInv => TypeOK
    BY DEF IInv
  <1> QED BY <1>1, Invariance, PTL

\* However many pages send the group, die and try again, a line gets one item.
THEOREM OneItemPerLineHolds == Spec => []OneItemPerLine
  <1>1. IInv => OneItemPerLine
    <2> SUFFICES ASSUME IInv, NEW i \in Item, NEW j \in Item, boq[i].by = boq[j].by
                 PROVE  i = j
      BY DEF OneItemPerLine
    <2>1. PICK a \in actions : a.key = KeyOf("wsc", boq[i].by) /\ a.item = i
      BY DEF IInv, Consistent
    <2>2. PICK b \in actions : b.key = KeyOf("wsc", boq[j].by) /\ b.item = j
      BY DEF IInv, Consistent
    <2>3. a = b
      BY <2>1, <2>2 DEF IInv, Consistent
    <2> QED BY <2>1, <2>2, <2>3
  <1> QED BY <1>1, Invariance, PTL

\* A stamp, on time, late or by a retry, links a line to the item of its own key.
THEOREM LinksOwnItemHolds == Spec => []LinksOwnItem
  <1>1. IInv => LinksOwnItem
    BY DEF IInv
  <1> QED BY <1>1, Invariance, PTL


-----------------------------------------------------------------------------
(* What archived APUs and locked versions are safe from *)

\* A session's step is its own.
LEMMA OwnStep ==
    ASSUME TypeOK, NEW s \in Sessions, Load(s) \/ Send(s) \/ Serve(s) \/ Fault(s)
    PROVE  \A t \in Sessions : t # s => /\ pc'[t] = pc[t] /\ seen'[t] = seen[t] /\ row'[t] = row[t]
                                        /\ ver'[t] = ver[t] /\ found'[t] = found[t]
  <1>1. CASE Load(s)
    BY <1>1 DEF Load, OpenPage, Goto, TypeOK
  <1>2. CASE Send(s)
    BY <1>2 DEF Send, Confirm, Goto, page, TypeOK
  <1>3. ASSUME NextRow(s) PROVE \A t \in Sessions : t # s => /\ pc'[t] = pc[t] /\ seen'[t] = seen[t]
                                                        /\ row'[t] = row[t] /\ ver'[t] = ver[t]
    BY <1>3 DEF NextRow, Goto, page, TypeOK
  <1>4. ASSUME Fail(s) PROVE \A t \in Sessions : t # s => /\ pc'[t] = pc[t] /\ seen'[t] = seen[t]
                                                     /\ row'[t] = row[t] /\ ver'[t] = ver[t] /\ found'[t] = found[t]
    BY <1>4 DEF Fail, Goto, page, TypeOK
  <1>5. CASE LookUp(s)
    BY <1>3, <1>5 DEF LookUp, AfterReplay, Goto, page, TypeOK
  <1>6. CASE Check(s)
    BY <1>4, <1>6 DEF Check, Goto, page, TypeOK
  <1>7. CASE Write(s)
    BY <1>4, <1>7 DEF Write, Goto, page, TypeOK
  <1>8. CASE Commit(s)
    <2>1. CASE ~KeyFree(Key(s, Line(s)))
      BY <1>4, <1>8, <2>1 DEF Commit
    <2>2. CASE KeyFree(Key(s, Line(s))) /\ Creates(s, Line(s))
      BY <1>8, <2>2 DEF Commit, Goto, page, TypeOK
    <2>3. CASE KeyFree(Key(s, Line(s))) /\ ~Creates(s, Line(s))
      <3>1. NextRow(s) /\ found' = [found EXCEPT ![s] = NoItem]
        BY <1>8, <2>3 DEF Commit
      <3> QED BY <1>3, <3>1 DEF TypeOK
    <2> QED BY <2>1, <2>2, <2>3
  <1>9. CASE Stamp(s)
    BY <1>3, <1>9 DEF Stamp, TypeOK
  <1>10. CASE Fault(s)
    BY <1>3, <1>4, <1>10 DEF Fault, LoseStamp, Die, TypeOK
  <1> QED BY <1>1, <1>2, <1>5, <1>6, <1>7, <1>8, <1>9, <1>10 DEF Serve

\* Only Check leads to a write, and only Write to a commit; neither changes an item.
LEMMA OwnPhase ==
    ASSUME TypeOK, NEW s \in Sessions, Load(s) \/ Send(s) \/ Serve(s) \/ Fault(s)
    PROVE  \/ pc'[s] \notin {"write", "commit"}
           \/ /\ Check(s) /\ pc'[s] = "write" /\ seen' = seen /\ row' = row
              /\ ~(Creates(s, Line(s)) /\ ~Addable(ApuOf[Line(s)]))
           \/ /\ Write(s) /\ pc[s] = "write" /\ pc'[s] = "commit" /\ seen' = seen /\ row' = row
              /\ ver' = ver /\ boq' = boq
              /\ found'[s] = IF RlsAdmits(Target(s, Line(s))) THEN seen[s][Line(s)] ELSE NoItem
              /\ ~(Creates(s, Line(s)) /\ ~RlsAdmits(Target(s, Line(s))))
  <1>1. CASE Load(s) \/ Send(s)
    BY <1>1 DEF Load, Send, OpenPage, Confirm, Goto, TypeOK
  <1>2. ASSUME NextRow(s) PROVE pc'[s] \notin {"write", "commit"}
    BY <1>2 DEF NextRow, Goto, TypeOK
  <1>3. ASSUME Fail(s) PROVE pc'[s] \notin {"write", "commit"}
    BY <1>3 DEF Fail, Goto, TypeOK
  <1>4. CASE LookUp(s)
    BY <1>2, <1>4 DEF LookUp, AfterReplay, Goto, TypeOK
  <1>5. CASE Check(s)
    BY <1>3, <1>5 DEF Check, Goto, page, TypeOK
  <1>6. CASE Write(s)
    <2>1. CASE Creates(s, Line(s)) /\ ~RlsAdmits(Target(s, Line(s)))
      BY <1>3, <1>6, <2>1 DEF Write
    <2>2. CASE ~(Creates(s, Line(s)) /\ ~RlsAdmits(Target(s, Line(s))))
      BY <1>6, <2>2 DEF Write, Goto, page, tables, TypeOK
    <2> QED BY <2>1, <2>2
  <1>7. CASE Commit(s)
    <2>1. CASE KeyFree(Key(s, Line(s))) /\ Creates(s, Line(s))
      BY <1>7, <2>1 DEF Commit, Goto, TypeOK
    <2>2. CASE ~(KeyFree(Key(s, Line(s))) /\ Creates(s, Line(s)))
      BY <1>2, <1>3, <1>7, <2>2 DEF Commit
    <2> QED BY <2>1, <2>2
  <1>8. CASE Stamp(s)
    BY <1>2, <1>8 DEF Stamp
  <1>9. CASE Fault(s)
    BY <1>2, <1>3, <1>9 DEF Fault, LoseStamp, Die
  <1> QED BY <1>1, <1>4, <1>5, <1>6, <1>7, <1>8, <1>9 DEF Serve

\* The ways in which a step changes the items.
LEMMA ItemsOfStep ==
    ASSUME IInv, Next
    PROVE  \/ boq' = boq
           \/ \E s \in Sessions : /\ pc[s] = "commit" /\ Creates(s, Line(s))
                                  /\ boq' = Append(boq, NewItem(s))
           \/ \E s \in Sessions : /\ pc[s] = "commit" /\ ~Creates(s, Line(s)) /\ found[s] # NoItem
                                  /\ boq' = [boq EXCEPT ![found[s]].qty = NetOf[Line(s)]]
           \/ \E i \in Item, q \in Quantities :
                 ~Locked(boq[i].ver) /\ boq' = [boq EXCEPT ![i].qty = q]
  <1>1. ASSUME NEW s \in Sessions, Load(s) \/ Send(s) \/ Fault(s)
        PROVE  boq' = boq
    BY <1>1 DEF Load, Send, Fault, OpenPage, Confirm, LoseStamp, Die, tables
  <1>2. ASSUME NEW s \in Sessions, LookUp(s) \/ Check(s) \/ Write(s) \/ Stamp(s)
        PROVE  boq' = boq
    BY <1>2 DEF LookUp, Check, Write, Stamp, tables
  <1>3. ASSUME NEW s \in Sessions, Commit(s)
        PROVE  \/ boq' = boq
               \/ /\ pc[s] = "commit" /\ Creates(s, Line(s)) /\ boq' = Append(boq, NewItem(s))
               \/ /\ pc[s] = "commit" /\ ~Creates(s, Line(s)) /\ found[s] # NoItem
                  /\ boq' = [boq EXCEPT ![found[s]].qty = NetOf[Line(s)]]
    <2>1. CASE ~KeyFree(Key(s, Line(s)))
      BY <1>3, <2>1 DEF Commit, tables
    <2>2. CASE KeyFree(Key(s, Line(s))) /\ Creates(s, Line(s))
      BY <1>3, <2>2 DEF Commit
    <2>3. CASE KeyFree(Key(s, Line(s))) /\ ~Creates(s, Line(s))
      BY <1>3, <2>3 DEF Commit, Measured
    <2> QED BY <2>1, <2>2, <2>3
  <1>4. ASSUME Others
        PROVE  \/ boq' = boq
               \/ \E i \in Item, q \in Quantities :
                     ~Locked(boq[i].ver) /\ boq' = [boq EXCEPT ![i].qty = q]
    BY <1>4 DEF Others, EditQuantity, Issue, ArchiveCheck, ArchiveWrite
  <1> QED BY <1>1, <1>2, <1>3, <1>4 DEF Next, Serve

\* The others of the system leave the pages alone, and archived APUs archived.
LEMMA OthersPages ==
    ASSUME Others
    PROVE  UNCHANGED <<pc, ver, seen, row, found>>
  BY DEF Others, EditQuantity, Issue, ArchiveCheck, ArchiveWrite, page

\* An item keeps its line, its version and its APU.
LEMMA ItemsGrow ==
    ASSUME IInv, Next
    PROVE  /\ Item \subseteq Item'
           /\ \A i \in Item : boq'[i].ver = boq[i].ver /\ boq'[i].apu = boq[i].apu
  <1>0. boq \in Seq(Row) /\ Item = DOMAIN boq
    BY DEF IInv, TypeOK, Item
  <1>1. CASE boq' = boq
    BY <1>1 DEF Item
  <1>2. ASSUME NEW s \in Sessions, boq' = Append(boq, NewItem(s))
        PROVE  /\ Item \subseteq Item'
               /\ \A i \in Item : boq'[i].ver = boq[i].ver /\ boq'[i].apu = boq[i].apu
    <2>1. NewItem(s) \in Row
      BY NewItemIsARow DEF IInv
    <2> QED BY <1>0, <1>2, <2>1, Insertion DEF Item
  <1>3. ASSUME NEW i \in Item, NEW q \in Quantities \cup {NetOf[l] : l \in Lines},
               boq' = [boq EXCEPT ![i].qty = q]
        PROVE  /\ Item \subseteq Item'
               /\ \A j \in Item : boq'[j].ver = boq[j].ver /\ boq'[j].apu = boq[j].apu
    BY <1>0, <1>3, QuantityWritten DEF ItemsKept
  <1>4. ASSUME NEW s \in Sessions, found[s] # NoItem,
               boq' = [boq EXCEPT ![found[s]].qty = NetOf[Line(s)]]
        PROVE  /\ Item \subseteq Item'
               /\ \A j \in Item : boq'[j].ver = boq[j].ver /\ boq'[j].apu = boq[j].apu
    <2>1. found[s] \in Item /\ NetOf[Line(s)] \in Quantities \cup {NetOf[l] : l \in Lines}
      BY <1>4, RowIsALine DEF IInv, TypeOK
    <2> QED BY <1>3, <1>4, <2>1
  <1> QED BY <1>1, <1>2, <1>3, <1>4, ItemsOfStep


LEMMA ArchivedStep ==
    ASSUME IInv, Next, NEW a \in archived
    PROVE  Adding(a)' \subseteq Adding(a) /\ (Adding(a) = {} => Uses(a)' = Uses(a))
  <1>1. Adding(a)' \subseteq Adding(a)
    <2> SUFFICES ASSUME NEW t \in Sessions, pc'[t] \in {"write", "commit"},
                        Creates(t, Line(t))', ApuOf[Line(t)'] = a
                 PROVE  t \in Adding(a)
      BY DEF Adding
    <2>1. ASSUME pc'[t] = pc[t], seen'[t] = seen[t], row'[t] = row[t]
          PROVE  t \in Adding(a)
      BY <2>1 DEF Adding, Creates, Line
    <2>2. CASE Others
      BY <2>1, <2>2, OthersPages
    <2>3. ASSUME NEW s \in Sessions, Load(s) \/ Send(s) \/ Serve(s) \/ Fault(s)
          PROVE  t \in Adding(a)
      <3>1. CASE t # s
        BY <2>1, <2>3, <3>1, OwnStep DEF IInv
      <3>2. CASE t = s
        <4>1. /\ seen' = seen /\ row' = row
              /\ \/ pc[s] = "write"
                 \/ ~(Creates(s, Line(s)) /\ ~Addable(ApuOf[Line(s)]))
          BY <2>3, <3>2, OwnPhase DEF IInv
        <4>2. Line(s)' = Line(s) /\ (Creates(s, Line(s))' <=> Creates(s, Line(s)))
          BY <4>1 DEF Line, Creates
        <4>3. Creates(s, Line(s)) /\ ApuOf[Line(s)] = a
          BY <3>2, <4>2
        <4>4. pc[s] = "write"
          BY <4>1, <4>3 DEF Addable
        <4> QED BY <3>2, <4>3, <4>4 DEF Adding
      <3> QED BY <3>1, <3>2
    <2> QED BY <2>2, <2>3 DEF Next
  <1>2. ASSUME Adding(a) = {} PROVE Uses(a)' = Uses(a)
    <2>0. boq \in Seq(Row) /\ Item = DOMAIN boq
      BY DEF IInv, TypeOK, Item
    <2>1. Uses(a) \subseteq Uses(a)'
      BY ItemsGrow DEF Uses
    <2>2. CASE Item' = Item
      BY <2>2, ItemsGrow DEF Uses
    <2>3. ASSUME NEW s \in Sessions, pc[s] = "commit", Creates(s, Line(s)),
                 boq' = Append(boq, NewItem(s))
          PROVE  Uses(a)' \subseteq Uses(a)
      <3>1. NewItem(s) \in Row
        BY NewItemIsARow DEF IInv
      <3>2. /\ Item' = Item \cup {Len(boq) + 1} /\ boq'[Len(boq) + 1] = NewItem(s)
            /\ \A i \in Item : boq'[i] = boq[i]
        BY <2>0, <2>3, <3>1, Insertion DEF Item
      <3>3. ApuOf[Line(s)] # a
        BY <1>2, <2>3 DEF Adding
      <3>4. NewItem(s).apu # a
        BY <3>3 DEF NewItem
      <3> QED BY <3>2, <3>4 DEF Uses
    <2>4. ASSUME NEW i \in Item, NEW q, boq' = [boq EXCEPT ![i].qty = q]
          PROVE  Item' = Item
      BY <2>4 DEF Item
    <2>5. ASSUME NEW s \in Sessions, boq' = [boq EXCEPT ![found[s]].qty = NetOf[Line(s)]]
          PROVE  Item' = Item
      BY <2>5 DEF Item
    <2>6. boq' = boq => Item' = Item
      BY DEF Item
    <2> QED BY <2>1, <2>2, <2>3, <2>4, <2>5, <2>6, ItemsOfStep
  <1> QED BY <1>1, <1>2

LEMMA LockedStep ==
    ASSUME IInv, Next, NEW v \in Versions, Locked(v)
    PROVE  Admitted(v)' \subseteq Admitted(v) /\ (Admitted(v) = {} => Content(v)' = Content(v))
  <1>1. Admitted(v)' \subseteq Admitted(v)
    <2> SUFFICES ASSUME NEW t \in Sessions, pc'[t] = "commit", Target(t, Line(t))' = v,
                        Creates(t, Line(t))' \/ found'[t] # NoItem
                 PROVE  t \in Admitted(v)
      BY DEF Admitted
    <2>0. Line(t) \in Lines /\ seen[t][Line(t)] \in Item \cup {NoItem}
      BY RowIsALine DEF IInv, TypeOK
    <2>1. ASSUME pc'[t] = pc[t], seen'[t] = seen[t], row'[t] = row[t], ver'[t] = ver[t], found'[t] = found[t]
          PROVE  t \in Admitted(v)
      <3>1. Line(t)' = Line(t) /\ (Creates(t, Line(t))' <=> Creates(t, Line(t)))
        BY <2>1 DEF Line, Creates
      <3>2. Target(t, Line(t))' = Target(t, Line(t))
        BY <2>0, <2>1, <3>1, ItemsGrow DEF Target, Creates
      <3> QED BY <2>1, <3>1, <3>2 DEF Admitted
    <2>2. CASE Others
      BY <2>1, <2>2, OthersPages
    <2>3. ASSUME NEW s \in Sessions, Load(s) \/ Send(s) \/ Serve(s) \/ Fault(s)
          PROVE  t \in Admitted(v)
      <3>1. CASE t # s
        BY <2>1, <2>3, <3>1, OwnStep DEF IInv
      <3>2. CASE t = s
        <4>1. /\ seen' = seen /\ row' = row /\ ver' = ver /\ boq' = boq
              /\ found'[t] = IF RlsAdmits(Target(t, Line(t))) THEN seen[t][Line(t)] ELSE NoItem
              /\ ~(Creates(t, Line(t)) /\ ~RlsAdmits(Target(t, Line(t))))
          BY <2>3, <3>2, OwnPhase DEF IInv
        <4>2. /\ Line(t)' = Line(t) /\ (Creates(t, Line(t))' <=> Creates(t, Line(t)))
              /\ Target(t, Line(t))' = Target(t, Line(t))
          BY <4>1 DEF Line, Creates, Target
        <4>3. ~RlsAdmits(Target(t, Line(t)))
          BY <4>2 DEF RlsAdmits
        <4> QED BY <4>1, <4>2, <4>3
      <3> QED BY <3>1, <3>2
    <2> QED BY <2>2, <2>3 DEF Next
  <1>2. ASSUME Admitted(v) = {} PROVE Content(v)' = Content(v)
    <2>0. boq \in Seq(Row) /\ Item = DOMAIN boq
      BY DEF IInv, TypeOK, Item
    <2>1. CASE boq' = boq
      BY <2>1 DEF Content, Item
    <2>2. ASSUME NEW s \in Sessions, pc[s] = "commit", Creates(s, Line(s)),
                 boq' = Append(boq, NewItem(s))
          PROVE  Content(v)' = Content(v)
      <3>1. NewItem(s) \in Row
        BY NewItemIsARow DEF IInv
      <3>2. /\ Item' = Item \cup {Len(boq) + 1} /\ boq'[Len(boq) + 1] = NewItem(s)
            /\ \A i \in Item : boq'[i] = boq[i]
        BY <2>0, <2>2, <3>1, Insertion DEF Item
      <3>3. Target(s, Line(s)) # v
        BY <1>2, <2>2 DEF Admitted
      <3>4. NewItem(s).ver # v
        BY <2>2, <3>3 DEF NewItem, Target
      <3> QED BY <3>2, <3>4 DEF Content
    <2>3. ASSUME NEW i \in Item, NEW q \in Quantities \cup {NetOf[l] : l \in Lines},
                 boq' = [boq EXCEPT ![i].qty = q], boq[i].ver # v
          PROVE  Content(v)' = Content(v)
      <3>1. /\ Item' = Item /\ boq'[i].ver # v
            /\ \A j \in Item : j # i => boq'[j] = boq[j]
        BY <2>0, <2>3, QuantityWritten DEF ItemsKept
      <3>2. \A j \in Item : boq'[j].ver = v <=> boq[j].ver = v
        BY <2>3, <3>1
      <3>3. \A j \in Item : boq[j].ver = v => boq'[j] = boq[j]
        BY <2>3, <3>1
      <3> QED BY <3>1, <3>2, <3>3 DEF Content
    <2>4. ASSUME NEW s \in Sessions, pc[s] = "commit", ~Creates(s, Line(s)), found[s] # NoItem,
                 boq' = [boq EXCEPT ![found[s]].qty = NetOf[Line(s)]]
          PROVE  Content(v)' = Content(v)
      <3>1. found[s] \in Item /\ NetOf[Line(s)] \in Quantities \cup {NetOf[l] : l \in Lines}
        BY <2>4, RowIsALine DEF IInv, TypeOK
      <3>2. found[s] = seen[s][Line(s)]
        BY <2>4 DEF IInv, Consistent
      <3>3. boq[found[s]].ver # v
        BY <1>2, <2>4, <3>2 DEF Admitted, Target
      <3> QED BY <2>3, <2>4, <3>1, <3>3
    <2>5. ASSUME NEW i \in Item, NEW q \in Quantities, ~Locked(boq[i].ver),
                 boq' = [boq EXCEPT ![i].qty = q]
          PROVE  Content(v)' = Content(v)
      BY <2>3, <2>5
    <2> QED BY <2>1, <2>2, <2>4, <2>5, ItemsOfStep
  <1> QED BY <1>1, <1>2

\* Once an APU is archived no call but those that had found it live adds it.
THEOREM ArchivedStaysUnusedHolds == Spec => ArchivedStaysUnused
  <1>1. IInv /\ [Next]_vars =>
           [\A a \in archived : /\ Adding(a)' \subseteq Adding(a)
                                /\ (Adding(a) = {} => Uses(a)' = Uses(a))]_vars
    BY ArchivedStep
  <1> QED BY <1>1, Invariance, PTL DEF Spec, ArchivedStaysUnused

\* Once a version is locked its items change only by admitted statements.
THEOREM LockedStaysHolds == Spec => LockedStays
  <1>1. IInv /\ [Next]_vars =>
           [\A v \in Versions : Locked(v) => /\ Admitted(v)' \subseteq Admitted(v)
                                             /\ (Admitted(v) = {} => Content(v)' = Content(v))]_vars
    BY LockedStep
  <1> QED BY <1>1, Invariance, PTL DEF Spec, LockedStays

-----------------------------------------------------------------------------
(* What a confirmation that nobody disturbed has done *)

\* What a page was loaded with is still linked, and is the item of its line.
SeenInv == \A s \in Sessions, l \in Lines :
    seen[s][l] # NoItem => link[l] # NoItem /\ boq[seen[s][l]].by = l

\* every row whose key the actions as hold was carried out in the BOQ b
AllCarried(b, as, s) ==
    \A l \in Lines : {a \in as : a.key = Key(s, l)} # {} => CarriedOut(b, s, l)

\* The rows before the one in hand are linked; those of a confirmation with new
\* keys were carried out, and the version it writes to is still open.
CalmOk(s) == pc[s] \in Acting =>
    /\ calm[s] # "no" => \A n \in 1 .. row[s] - 1 : link[LineOrder[n]] # NoItem
    /\ calm[s] = "fresh" =>
         /\ AllCarried(boq, actions, s)
         /\ \A n \in 1 .. row[s] - 1 : CarriedOut(boq, s, LineOrder[n])
         /\ pc[s] = "stamp" => CarriedOut(boq, s, Line(s))
         /\ pc[s] \in {"write", "commit"} => ~Locked(Target(s, Line(s)))
         /\ pc[s] = "commit" /\ ~Creates(s, Line(s)) => found[s] = seen[s][Line(s)]

DoneInv == IInv /\ SeenInv /\ \A s \in Sessions : CalmOk(s)

\* An item keeps the line that created it.
LEMMA ItemsKeepLine ==
    ASSUME IInv, Next
    PROVE  \A i \in Item : i \in Item' /\ boq'[i].by = boq[i].by
  <1>0. boq \in Seq(Row) /\ Item = DOMAIN boq
    BY DEF IInv, TypeOK, Item
  <1>1. CASE boq' = boq
    BY <1>1 DEF Item
  <1>2. ASSUME NEW s \in Sessions, boq' = Append(boq, NewItem(s))
        PROVE  \A i \in Item : i \in Item' /\ boq'[i].by = boq[i].by
    <2>1. NewItem(s) \in Row
      BY NewItemIsARow DEF IInv
    <2> QED BY <1>0, <1>2, <2>1, Insertion DEF Item
  <1>3. ASSUME NEW i \in Item, NEW q \in Quantities \cup {NetOf[l] : l \in Lines},
               boq' = [boq EXCEPT ![i].qty = q]
        PROVE  \A j \in Item : j \in Item' /\ boq'[j].by = boq[j].by
    BY <1>0, <1>3, QuantityWritten DEF ItemsKept
  <1>4. ASSUME NEW s \in Sessions, found[s] # NoItem,
               boq' = [boq EXCEPT ![found[s]].qty = NetOf[Line(s)]]
        PROVE  \A j \in Item : j \in Item' /\ boq'[j].by = boq[j].by
    <2>1. found[s] \in Item /\ NetOf[Line(s)] \in Quantities \cup {NetOf[l] : l \in Lines}
      BY <1>4, RowIsALine DEF IInv, TypeOK
    <2> QED BY <1>3, <1>4, <2>1
  <1> QED BY <1>1, <1>2, <1>3, <1>4, ItemsOfStep

\* Only a stamp changes a link, and it sets it.
LEMMA LinksOfStep ==
    ASSUME IInv, Next
    PROVE  link' = link \/ \E s \in Sessions : /\ pc[s] = "stamp" /\ found[s] \in Item
                                               /\ link' = [link EXCEPT ![Line(s)] = found[s]]
  <1>1. ASSUME NEW s \in Sessions, Load(s) \/ Send(s) \/ Fault(s)
        PROVE  link' = link
    BY <1>1 DEF Load, Send, Fault, OpenPage, Confirm, LoseStamp, Die, tables
  <1>2. ASSUME NEW s \in Sessions, LookUp(s) \/ Check(s) \/ Write(s) \/ Commit(s)
        PROVE  link' = link
    BY <1>2 DEF LookUp, Check, Write, Commit, tables
  <1>3. ASSUME NEW s \in Sessions, Stamp(s)
        PROVE  pc[s] = "stamp" /\ found[s] \in Item /\ link' = [link EXCEPT ![Line(s)] = found[s]]
    BY <1>3 DEF Stamp, IInv, Consistent
  <1>4. CASE Others
    BY <1>4 DEF Others, EditQuantity, Issue, ArchiveCheck, ArchiveWrite
  <1> QED BY <1>1, <1>2, <1>3, <1>4 DEF Next, Serve

LEMMA ItemsAreNumbers == ASSUME TypeOK, NEW i \in Item PROVE i # NoItem
BY DEF TypeOK, Item, NoItem

LEMMA LinksStay ==
    ASSUME IInv, Next
    PROVE  \A l \in Lines : link[l] # NoItem => link'[l] # NoItem
BY LinksOfStep, ItemsAreNumbers DEF IInv, TypeOK

LEMMA SeenOfStep ==
    ASSUME IInv, Next, NEW t \in Sessions
    PROVE  seen'[t] = seen[t] \/ seen'[t] = NoLinks \/ (seen'[t] = link /\ boq' = boq /\ link' = link)
  <1>0. TypeOK
    BY DEF IInv
  <1>1. CASE Others
    BY <1>1, OthersPages
  <1>2. ASSUME NEW s \in Sessions, Load(s) \/ Send(s) \/ Serve(s) \/ Fault(s), t # s
        PROVE  seen'[t] = seen[t]
    BY <1>0, <1>2, OwnStep
  <1>3. ASSUME NEW v \in Versions, OpenPage(t, v)
        PROVE  seen'[t] = link /\ boq' = boq /\ link' = link
    BY <1>0, <1>3 DEF OpenPage, tables, TypeOK
  <1>4. ASSUME NextRow(t) PROVE seen'[t] = seen[t] \/ seen'[t] = NoLinks
    BY <1>0, <1>4 DEF NextRow, page, TypeOK
  <1>5. ASSUME UNCHANGED page PROVE seen'[t] = seen[t]
    BY <1>5 DEF page
  <1>6. CASE Send(t)
    BY <1>5, <1>6 DEF Send, Confirm
  <1>7. CASE Serve(t)
    BY <1>4, <1>5, <1>7 DEF Serve, LookUp, AfterReplay, Check, Write, Commit, Stamp, Fail
  <1>8. CASE Fault(t)
    BY <1>4, <1>5, <1>8 DEF Fault, LoseStamp, Die, Fail
  <1> QED BY <1>1, <1>2, <1>3, <1>6, <1>7, <1>8 DEF Next, Load

LEMMA SeenNext ==
    ASSUME IInv, SeenInv, Next
    PROVE  SeenInv'
  <1> SUFFICES ASSUME NEW t \in Sessions, NEW l \in Lines, seen'[t][l] # NoItem
               PROVE  link'[l] # NoItem /\ boq'[seen'[t][l]].by = l
    BY DEF SeenInv
  <1>1. CASE seen'[t] = seen[t]
    <2>1. seen[t][l] \in Item /\ link[l] # NoItem /\ boq[seen[t][l]].by = l
      BY <1>1 DEF SeenInv, IInv, TypeOK
    <2> QED BY <1>1, <2>1, ItemsKeepLine, LinksStay
  <1>2. CASE seen'[t] = NoLinks
    BY <1>2 DEF NoLinks
  <1>3. CASE seen'[t] = link /\ boq' = boq /\ link' = link
    BY <1>3 DEF IInv, LinksOwnItem
  <1> QED BY <1>1, <1>2, <1>3, SeenOfStep

-----------------------------------------------------------------------------
(* The step of a session keeps what its own confirmation has done *)

\* What a page says of a row while its page and the items stay.
LEMMA SamePage ==
    ASSUME NEW s \in Sessions, boq' = boq, actions' = actions, status' = status,
           seen'[s] = seen[s], ver'[s] = ver[s], row'[s] = row[s]
    PROVE  /\ Line(s)' = Line(s)
           /\ \A l \in Lines : /\ Creates(s, l)' <=> Creates(s, l)
                               /\ CarriedOut(boq, s, l)' <=> CarriedOut(boq, s, l)
                               /\ Locked(Target(s, l))' <=> Locked(Target(s, l))
           /\ AllCarried(boq, actions, s)' <=> AllCarried(boq, actions, s)
  <1>1. Line(s)' = Line(s)
    BY DEF Line
  <1>2. \A l \in Lines : Creates(s, l)' <=> Creates(s, l)
    BY DEF Creates
  <1>3. \A l \in Lines : CarriedOut(boq, s, l)' <=> CarriedOut(boq, s, l)
    BY <1>2 DEF CarriedOut
  <1>4. \A l \in Lines : Locked(Target(s, l))' <=> Locked(Target(s, l))
    BY <1>2 DEF Locked, Target
  <1>5. \A l \in Lines : Key(s, l)' = Key(s, l)
    BY <1>2 DEF Key, KeyOf
  <1>6. AllCarried(boq, actions, s)' <=> AllCarried(boq, actions, s)
    BY <1>3, <1>5 DEF AllCarried
  <1> QED BY <1>1, <1>2, <1>3, <1>4, <1>6

LEMMA EarlierLines ==
    ASSUME TypeOK, NEW s \in Sessions
    PROVE  \A n \in 1 .. row[s] - 1 : LineOrder[n] \in Lines
  BY LineOrderFacts DEF TypeOK

\* A confirmation keeps going through the phases of a row.
LEMMA SameRow ==
    ASSUME TypeOK, NEW s \in Sessions, CalmOk(s), pc[s] \in Acting,
           boq' = boq, actions' = actions, status' = status, link' = link,
           calm'[s] = calm[s], seen'[s] = seen[s], ver'[s] = ver[s], row'[s] = row[s],
           calm[s] = "fresh" =>
             /\ pc'[s] = "stamp" => CarriedOut(boq, s, Line(s))
             /\ pc'[s] \in {"write", "commit"} => ~Locked(Target(s, Line(s)))
             /\ pc'[s] = "commit" /\ ~Creates(s, Line(s)) => found'[s] = seen[s][Line(s)]
    PROVE  CalmOk(s)'
  <1>1. \A n \in 1 .. row[s] - 1 : LineOrder[n] \in Lines
    BY EarlierLines
  <1>2. Line(s) \in Lines
    BY RowIsALine
  <1>3. \A n \in 1 .. row[s] - 1 : (CarriedOut(boq, s, LineOrder[n])' <=> CarriedOut(boq, s, LineOrder[n]))
    BY <1>1, SamePage
  <1>4. /\ Line(s)' = Line(s)
        /\ Creates(s, Line(s))' <=> Creates(s, Line(s))
        /\ CarriedOut(boq, s, Line(s))' <=> CarriedOut(boq, s, Line(s))
        /\ Locked(Target(s, Line(s)))' <=> Locked(Target(s, Line(s)))
    <2>1. Line(s)' = Line(s)
      BY SamePage
    <2> DEFINE l == Line(s)
    <2>2. /\ l \in Lines /\ l' = l
      BY <2>1, <1>2
    <2>3. /\ Creates(s, l)' <=> Creates(s, l)
          /\ CarriedOut(boq, s, l)' <=> CarriedOut(boq, s, l)
          /\ Locked(Target(s, l))' <=> Locked(Target(s, l))
      BY <2>1, <2>2, SamePage DEF Creates, CarriedOut, Locked, Target
    <2> QED BY <2>1, <2>3
  <1>5. AllCarried(boq, actions, s)' <=> AllCarried(boq, actions, s)
    BY SamePage
  <1>6. calm[s] # "no" => \A n \in 1 .. row[s] - 1 : link[LineOrder[n]] # NoItem
    BY DEF CalmOk
  <1>7. calm[s] = "fresh" => /\ AllCarried(boq, actions, s)
                             /\ \A n \in 1 .. row[s] - 1 : CarriedOut(boq, s, LineOrder[n])
    BY DEF CalmOk
  <1> QED BY <1>3, <1>4, <1>5, <1>6, <1>7 DEF CalmOk

\* Nor does a session that is not disturbed lose what it has done.
LEMMA CalmSame ==
    ASSUME TypeOK, NEW t \in Sessions, CalmOk(t),
           boq' = boq, actions' = actions, status' = status, link' = link,
           pc'[t] = pc[t], seen'[t] = seen[t], ver'[t] = ver[t], row'[t] = row[t],
           found'[t] = found[t], calm'[t] = calm[t]
    PROVE  CalmOk(t)'
  <1>1. CASE pc[t] \notin Acting
    BY <1>1 DEF CalmOk
  <1>2. CASE pc[t] \in Acting
    <2>1. calm[t] = "fresh" =>
             /\ pc'[t] = "stamp" => CarriedOut(boq, t, Line(t))
             /\ pc'[t] \in {"write", "commit"} => ~Locked(Target(t, Line(t)))
             /\ pc'[t] = "commit" /\ ~Creates(t, Line(t)) => found'[t] = seen[t][Line(t)]
      BY <1>2 DEF CalmOk
    <2> QED BY <1>2, <2>1, SameRow
  <1> QED BY <1>1, <1>2

LEMMA CalmLost ==
    ASSUME NEW t \in Sessions, calm'[t] = "no"
    PROVE  CalmOk(t)'
  BY DEF CalmOk

\* The row in hand and those before it are linked and, with new keys, were
\* carried out, once the step is over.
RowDone(s) ==
    /\ calm[s] # "no" => \A n \in 1 .. row[s] : link'[LineOrder[n]] # NoItem
    /\ calm[s] = "fresh" => /\ AllCarried(boq', actions', s)
                            /\ \A n \in 1 .. row[s] : CarriedOut(boq', s, LineOrder[n])

\* The next row starts with what the last one has left.
LEMMA NextRowCalm ==
    ASSUME TypeOK, NEW s \in Sessions, NextRow(s), RowDone(s), calm'[s] \in {"no", calm[s]}
    PROVE  CalmOk(s)'
  <1>0. row[s] \in 1 .. Len(LineOrder) /\ row[s] \in Nat
    BY LineOrderFacts DEF TypeOK
  <1>1. CASE row[s] < Len(LineOrder)
    <2>1. pc'[s] = "lookUp" /\ row'[s] = row[s] + 1 /\ seen' = seen /\ ver' = ver
      BY <1>1 DEF NextRow, Goto, page, TypeOK
    <2>2. 1 .. row'[s] - 1 = 1 .. row[s]
      BY <1>0, <2>1
    <2>3. \A l \in Lines : Key(s, l)' = Key(s, l) /\ (CarriedOut(boq, s, l)' <=> CarriedOut(boq', s, l))
      BY <2>1 DEF Key, KeyOf, Creates, CarriedOut
    <2>4. calm[s] = "fresh" => AllCarried(boq, actions, s)'
      BY <2>3 DEF RowDone, AllCarried
    <2>5. calm[s] = "fresh" => \A n \in 1 .. row[s] : CarriedOut(boq, s, LineOrder[n])'
      <3>1. \A n \in 1 .. row[s] : LineOrder[n] \in Lines
        BY <1>0, LineOrderFacts
      <3> QED BY <3>1, <2>3 DEF RowDone
    <2>6. calm[s] # "no" => \A n \in 1 .. row[s] : link'[LineOrder[n]] # NoItem
      BY DEF RowDone
    <2> QED BY <2>1, <2>2, <2>4, <2>5, <2>6 DEF CalmOk
  <1>2. CASE ~(row[s] < Len(LineOrder))
    <2>1. pc'[s] = "idle"
      BY <1>2 DEF NextRow, Goto, TypeOK
    <2> QED BY <2>1 DEF CalmOk, Acting
  <1> QED BY <1>1, <1>2

-----------------------------------------------------------------------------
(* The steps that end a row *)

\* Recording the key of a row that was carried out keeps the others.
LEMMA RecordedCarried ==
    ASSUME NEW s \in Sessions, Line(s) \in Lines, NEW i,
           actions' = actions \cup {[key |-> Key(s, Line(s)), item |-> i]},
           AllCarried(boq, actions, s), CarriedOut(boq', s, Line(s)),
           \A l \in Lines : CarriedOut(boq, s, l) => CarriedOut(boq', s, l)
    PROVE  AllCarried(boq', actions', s)
  <1> SUFFICES ASSUME NEW l \in Lines, NEW a \in actions', a.key = Key(s, l)
               PROVE  CarriedOut(boq', s, l)
    BY DEF AllCarried
  <1>1. CASE a \in actions
    BY <1>1 DEF AllCarried
  <1>2. CASE a = [key |-> Key(s, Line(s)), item |-> i]
    <2>1. Key(s, l) = Key(s, Line(s))
      BY <1>2
    <2>2. l = Line(s)
      BY <2>1, KeyParts DEF Key
    <2> QED BY <2>2
  <1> QED BY <1>1, <1>2

\* The row in hand joins those before it.
LEMMA RowJoins ==
    ASSUME TypeOK, NEW s \in Sessions,
           calm[s] # "no" => /\ \A n \in 1 .. row[s] - 1 : link'[LineOrder[n]] # NoItem
                             /\ link'[Line(s)] # NoItem,
           calm[s] = "fresh" => /\ AllCarried(boq', actions', s)
                                /\ \A n \in 1 .. row[s] - 1 : CarriedOut(boq', s, LineOrder[n])
                                /\ CarriedOut(boq', s, Line(s))
    PROVE  RowDone(s)
  <1>1. row[s] \in 1 .. Len(LineOrder) /\ row[s] \in Nat
    BY LineOrderFacts DEF TypeOK
  <1>2. \A n \in 1 .. row[s] : n \in 1 .. row[s] - 1 \/ LineOrder[n] = Line(s)
    BY <1>1 DEF Line
  <1> QED BY <1>2 DEF RowDone

\* A stored answer of an update: the line was linked when the page was loaded.
LEMMA ReplayDone ==
    ASSUME TypeOK, SeenInv, NEW s \in Sessions, CalmOk(s), pc[s] = "lookUp",
           Recorded(Key(s, Line(s))) # {}, ~Creates(s, Line(s)), UNCHANGED tables
    PROVE  RowDone(s)
  <1>1. boq' = boq /\ actions' = actions /\ link' = link /\ Line(s) \in Lines
    BY RowIsALine DEF tables
  <1>2. link[Line(s)] # NoItem
    BY <1>1 DEF SeenInv, Creates
  <1>3. calm[s] = "fresh" => CarriedOut(boq, s, Line(s))
    BY <1>1 DEF CalmOk, AllCarried, Recorded, Acting
  <1> QED BY <1>1, <1>2, <1>3, RowJoins DEF CalmOk, Acting

LEMMA StampDone ==
    ASSUME IInv, NEW s \in Sessions, CalmOk(s), Stamp(s)
    PROVE  RowDone(s)
  <1>0. TypeOK /\ boq' = boq /\ actions' = actions /\ pc[s] = "stamp" /\ Line(s) \in Lines
    BY RowIsALine DEF Stamp, IInv
  <1>1. found[s] # NoItem
    BY <1>0, ItemsAreNumbers DEF IInv, Consistent
  <1>2. link'[Line(s)] # NoItem /\ \A l \in Lines : link[l] # NoItem => link'[l] # NoItem
    BY <1>0, <1>1 DEF Stamp, TypeOK
  <1>3. \A n \in 1 .. row[s] - 1 : LineOrder[n] \in Lines
    BY <1>0, EarlierLines
  <1> QED BY <1>0, <1>2, <1>3, RowJoins DEF CalmOk, Acting

\* An UPDATE of the item of the row in hand.
LEMMA UpdateDone ==
    ASSUME IInv, SeenInv, NEW s \in Sessions, CalmOk(s), Commit(s),
           KeyFree(Key(s, Line(s))), ~Creates(s, Line(s))
    PROVE  RowDone(s)
  <1>0. /\ TypeOK /\ pc[s] = "commit" /\ link' = link /\ Line(s) \in Lines
        /\ boq \in Seq(Row) /\ Item = DOMAIN boq
    BY RowIsALine DEF Commit, IInv, TypeOK, Item
  <1>1. /\ boq' = IF found[s] = NoItem THEN boq ELSE [boq EXCEPT ![found[s]].qty = NetOf[Line(s)]]
        /\ actions' = actions \cup {[key |-> Key(s, Line(s)), item |-> seen[s][Line(s)]]}
    BY DEF Commit, Measured
  <1> DEFINE i == seen[s][Line(s)]
  <1>2. /\ i # NoItem /\ i \in Item /\ boq[i].by = Line(s) /\ link[Line(s)] # NoItem
    BY <1>0 DEF SeenInv, Creates, TypeOK
  <1>3. ASSUME calm[s] = "fresh"
        PROVE  /\ CarriedOut(boq', s, Line(s))
               /\ \A l \in Lines : CarriedOut(boq, s, l) => CarriedOut(boq', s, l)
    <2>1. found[s] = i
      BY <1>0, <1>3 DEF CalmOk, Acting
    <2>2. NetOf[Line(s)] \in Quantities \cup {NetOf[l] : l \in Lines}
      BY <1>0
    <2>3. boq' = [boq EXCEPT ![i].qty = NetOf[Line(s)]]
      BY <1>1, <1>2, <2>1
    <2> HIDE DEF i
    <2>4. /\ Item' = Item /\ boq'[i].qty = NetOf[Line(s)]
          /\ \A j \in Item : boq'[j].by = boq[j].by /\ boq'[j].ver = boq[j].ver
          /\ \A j \in Item : j # i => boq'[j] = boq[j]
      BY <1>0, <1>2, <2>2, <2>3, QuantityWritten DEF ItemsKept
    <2>5. CarriedOut(boq', s, Line(s))
      BY <1>2, <2>4 DEF CarriedOut, Item
    <2>6. ASSUME NEW l \in Lines, CarriedOut(boq, s, l) PROVE CarriedOut(boq', s, l)
      <3>1. PICK j \in Item : /\ boq[j].by = l /\ boq[j].qty = NetOf[l]
                              /\ (Creates(s, l) => boq[j].ver = ver[s])
        BY <2>6 DEF CarriedOut, Item
      <3>2. j = i => l = Line(s)
        BY <1>2, <3>1
      <3>3. boq'[j].qty = NetOf[l]
        BY <2>4, <3>1, <3>2
      <3>4. j \in DOMAIN boq'
        BY <2>4 DEF Item
      <3> QED BY <2>4, <3>1, <3>3, <3>4 DEF CarriedOut
    <2> QED BY <2>5, <2>6
  <1>4. \A n \in 1 .. row[s] - 1 : LineOrder[n] \in Lines
    BY <1>0, EarlierLines
  <1>5. ASSUME calm[s] = "fresh"
        PROVE  /\ AllCarried(boq', actions', s)
               /\ \A n \in 1 .. row[s] - 1 : CarriedOut(boq', s, LineOrder[n])
    <2>1. /\ AllCarried(boq, actions, s)
          /\ \A n \in 1 .. row[s] - 1 : CarriedOut(boq, s, LineOrder[n])
      BY <1>0, <1>5 DEF CalmOk, Acting
    <2>2. AllCarried(boq', actions', s)
      BY <1>0, <1>1, <1>3, <1>5, <2>1, RecordedCarried
    <2> QED BY <1>3, <1>4, <1>5, <2>1, <2>2
  <1>6. calm[s] # "no" => \A n \in 1 .. row[s] - 1 : link'[LineOrder[n]] # NoItem
    BY <1>0 DEF CalmOk, Acting
  <1> QED BY <1>0, <1>2, <1>3, <1>5, <1>6, RowJoins

\* An INSERT of the item of the row in hand: it is carried out, and to be stamped.
LEMMA AddCalm ==
    ASSUME IInv, NEW s \in Sessions, CalmOk(s), Commit(s),
           KeyFree(Key(s, Line(s))), Creates(s, Line(s))
    PROVE  CalmOk(s)'
  <1>0. /\ TypeOK /\ pc[s] = "commit" /\ link' = link /\ Line(s) \in Lines
        /\ boq \in Seq(Row) /\ Item = DOMAIN boq /\ NewItem(s) \in Row
    BY RowIsALine, NewItemIsARow DEF Commit, IInv, TypeOK, Item
  <1>1. /\ boq' = Append(boq, NewItem(s))
        /\ actions' = actions \cup {[key |-> Key(s, Line(s)), item |-> Len(boq) + 1]}
        /\ pc'[s] = "stamp" /\ calm'[s] = calm[s] /\ seen' = seen /\ ver' = ver /\ row' = row
    BY <1>0 DEF Commit, Goto, Disturb, page, TypeOK
  <1>2. /\ Len(boq) + 1 \in DOMAIN boq' /\ boq'[Len(boq) + 1] = NewItem(s)
        /\ \A j \in Item : j \in DOMAIN boq' /\ boq'[j] = boq[j]
    BY <1>0, <1>1, Insertion
  <1>3. CarriedOut(boq', s, Line(s))
    BY <1>2 DEF CarriedOut, NewItem
  <1>4. \A l \in Lines : CarriedOut(boq, s, l) => CarriedOut(boq', s, l)
    BY <1>2 DEF CarriedOut, Item
  <1>5. \A n \in 1 .. row[s] - 1 : LineOrder[n] \in Lines
    BY <1>0, EarlierLines
  <1>6. ASSUME calm[s] = "fresh"
        PROVE  /\ AllCarried(boq', actions', s)
               /\ \A n \in 1 .. row[s] - 1 : CarriedOut(boq', s, LineOrder[n])
    <2>1. /\ AllCarried(boq, actions, s)
          /\ \A n \in 1 .. row[s] - 1 : CarriedOut(boq, s, LineOrder[n])
      BY <1>0, <1>6 DEF CalmOk, Acting
    <2>2. AllCarried(boq', actions', s)
      BY <1>0, <1>1, <1>3, <1>4, <2>1, RecordedCarried
    <2> QED BY <1>4, <1>5, <2>1, <2>2
  <1>7. calm[s] # "no" => \A n \in 1 .. row[s] - 1 : link'[LineOrder[n]] # NoItem
    BY <1>0 DEF CalmOk, Acting
  <1>8. /\ \A l : (CarriedOut(boq, s, l)' <=> CarriedOut(boq', s, l))
        /\ AllCarried(boq, actions, s)' <=> AllCarried(boq', actions', s)
    <2>1. \A l : (CarriedOut(boq, s, l)' <=> CarriedOut(boq', s, l))
      BY <1>1 DEF CarriedOut, Creates
    <2>2. \A l : Key(s, l)' = Key(s, l)
      BY <1>1 DEF Key, KeyOf, Creates
    <2> QED BY <2>1, <2>2 DEF AllCarried
  <1>9. calm[s] = "fresh" =>
          /\ AllCarried(boq, actions, s)'
          /\ \A n \in 1 .. row[s] - 1 : CarriedOut(boq, s, LineOrder[n])'
          /\ CarriedOut(boq, s, Line(s))'
    <2>1. Line(s)' = Line(s)
      BY <1>1 DEF Line
    <2> QED BY <2>1, <1>3, <1>6, <1>8 DEF CarriedOut
  <1> QED BY <1>1, <1>7, <1>9 DEF CalmOk

-----------------------------------------------------------------------------
(* Every step keeps what a confirmation has done *)

LEMMA FailCalm ==
    ASSUME TypeOK, NEW s \in Sessions, Fail(s)
    PROVE  CalmOk(s)'
  <1>1. pc'[s] = "failed"
    BY DEF Fail, Goto, TypeOK
  <1> QED BY <1>1 DEF CalmOk, Acting

LEMMA ConfirmCalm ==
    ASSUME TypeOK, NEW s \in Sessions, Confirm(s)
    PROVE  CalmOk(s)'
  <1>1. /\ pc'[s] = "lookUp" /\ row'[s] = 1 /\ actions' = actions /\ seen' = seen
        /\ calm'[s] = "fresh" => \A l \in Lines : Recorded(Key(s, l)) = {}
    BY DEF Confirm, Goto, tables, page, TypeOK
  <1>2. \A l \in Lines : Key(s, l)' = Key(s, l)
    BY <1>1 DEF Key, KeyOf, Creates
  <1>3. calm'[s] = "fresh" => AllCarried(boq, actions, s)'
    BY <1>1, <1>2 DEF AllCarried, Recorded
  <1>4. 1 .. row'[s] - 1 = {}
    BY <1>1
  <1> QED BY <1>1, <1>3, <1>4 DEF CalmOk

LEMMA LookUpCalm ==
    ASSUME TypeOK, SeenInv, NEW s \in Sessions, CalmOk(s), LookUp(s)
    PROVE  CalmOk(s)'
  <1>0. /\ pc[s] = "lookUp" /\ pc[s] \in Acting /\ UNCHANGED tables /\ calm' = calm
        /\ boq' = boq /\ actions' = actions /\ status' = status /\ link' = link
    BY DEF LookUp, tables, Acting
  <1>1. CASE Recorded(Key(s, Line(s))) = {}
    <2>1. pc'[s] = "check" /\ seen' = seen /\ ver' = ver /\ row' = row
      BY <1>1 DEF LookUp, Goto, page, TypeOK
    <2> QED BY <1>0, <2>1, SameRow
  <1>2. CASE Recorded(Key(s, Line(s))) # {} /\ Creates(s, Line(s))
    <2>1. pc'[s] = "stamp" /\ seen' = seen /\ ver' = ver /\ row' = row
      BY <1>2 DEF LookUp, AfterReplay, Goto, page, TypeOK
    <2>2. calm[s] = "fresh" => CarriedOut(boq, s, Line(s))
      BY <1>0, <1>2, RowIsALine DEF CalmOk, AllCarried, Recorded
    <2> QED BY <1>0, <2>1, <2>2, SameRow
  <1>3. CASE Recorded(Key(s, Line(s))) # {} /\ ~Creates(s, Line(s))
    <2>1. NextRow(s)
      BY <1>3 DEF LookUp, AfterReplay
    <2> QED BY <1>0, <1>3, <2>1, ReplayDone, NextRowCalm
  <1> QED BY <1>1, <1>2, <1>3

LEMMA CheckCalm ==
    ASSUME TypeOK, NEW s \in Sessions, CalmOk(s), Check(s)
    PROVE  CalmOk(s)'
  <1>0. /\ pc[s] = "check" /\ pc[s] \in Acting /\ calm' = calm
        /\ boq' = boq /\ actions' = actions /\ status' = status /\ link' = link
    BY DEF Check, tables, Acting
  <1>1. CASE Fail(s)
    BY <1>1, FailCalm
  <1>2. CASE ~Fail(s)
    <2>1. /\ pc'[s] = "write" /\ seen' = seen /\ ver' = ver /\ row' = row
          /\ ~Locked(Target(s, Line(s)))
      BY <1>2 DEF Check, Goto, page, TypeOK
    <2> QED BY <1>0, <2>1, SameRow
  <1> QED BY <1>1, <1>2

LEMMA WriteCalm ==
    ASSUME TypeOK, NEW s \in Sessions, CalmOk(s), Write(s)
    PROVE  CalmOk(s)'
  <1>0. /\ pc[s] = "write" /\ pc[s] \in Acting /\ calm' = calm
        /\ boq' = boq /\ actions' = actions /\ status' = status /\ link' = link
    BY DEF Write, tables, Acting
  <1>1. CASE Fail(s)
    BY <1>1, FailCalm
  <1>2. CASE ~Fail(s)
    <2>1. /\ pc'[s] = "commit" /\ seen' = seen /\ ver' = ver /\ row' = row
          /\ ~Locked(Target(s, Line(s))) => found'[s] = seen[s][Line(s)]
      BY <1>2 DEF Write, Goto, page, TypeOK, RlsAdmits
    <2>2. calm[s] = "fresh" => ~Locked(Target(s, Line(s)))
      BY <1>0 DEF CalmOk
    <2> QED BY <1>0, <2>1, <2>2, SameRow
  <1> QED BY <1>1, <1>2

LEMMA CommitCalm ==
    ASSUME IInv, SeenInv, NEW s \in Sessions, CalmOk(s), Commit(s)
    PROVE  CalmOk(s)'
  <1>1. CASE ~KeyFree(Key(s, Line(s)))
    BY <1>1, FailCalm DEF Commit, IInv
  <1>2. CASE KeyFree(Key(s, Line(s))) /\ Creates(s, Line(s))
    BY <1>2, AddCalm
  <1>3. CASE KeyFree(Key(s, Line(s))) /\ ~Creates(s, Line(s))
    <2>1. NextRow(s) /\ calm'[s] = calm[s]
      BY <1>3 DEF Commit, Disturb
    <2> QED BY <1>3, <2>1, UpdateDone, NextRowCalm DEF IInv
  <1> QED BY <1>1, <1>2, <1>3

LEMMA StampCalm ==
    ASSUME IInv, NEW s \in Sessions, CalmOk(s), Stamp(s)
    PROVE  CalmOk(s)'
  <1>1. NextRow(s) /\ calm'[s] = calm[s]
    BY DEF Stamp, Disturb
  <1> QED BY <1>1, StampDone, NextRowCalm DEF IInv

\* A session's own steps.
LEMMA OwnCalm ==
    ASSUME IInv, SeenInv, NEW s \in Sessions, CalmOk(s), Load(s) \/ Send(s) \/ Serve(s) \/ Fault(s)
    PROVE  CalmOk(s)'
  <1>0. TypeOK
    BY DEF IInv
  <1>1. CASE Load(s)
    <2>1. pc'[s] = "ready"
      BY <1>0, <1>1 DEF Load, OpenPage, Goto, TypeOK
    <2> QED BY <2>1 DEF CalmOk, Acting
  <1>2. CASE Send(s)
    BY <1>0, <1>2, ConfirmCalm DEF Send
  <1>3. CASE Serve(s)
    BY <1>0, <1>3, LookUpCalm, CheckCalm, WriteCalm, CommitCalm, StampCalm DEF Serve
  <1>4. CASE Fault(s)
    <2>1. CASE Die(s)
      BY <1>0, <2>1, FailCalm DEF Die
    <2>2. CASE LoseStamp(s)
      <3>1. calm'[s] = "no"
        BY <1>0, <2>2 DEF LoseStamp, TypeOK
      <3> QED BY <3>1, CalmLost
    <2> QED BY <1>4, <2>1, <2>2 DEF Fault
  <1> QED BY <1>1, <1>2, <1>3, <1>4

\* The steps of another session disturb it or write nothing.
LEMMA DisturbsOrReads ==
    ASSUME TypeOK, NEW s \in Sessions, Load(s) \/ Send(s) \/ Serve(s) \/ Fault(s),
           NEW t \in Sessions, t # s
    PROVE  \/ calm'[t] = "no"
           \/ UNCHANGED tables /\ calm'[t] = calm[t]
  <1>1. CASE Load(s) \/ Send(s)
    BY <1>1 DEF Load, Send, OpenPage, Confirm, TypeOK
  <1>2. CASE LookUp(s) \/ Check(s) \/ Write(s)
    BY <1>2 DEF LookUp, Check, Write
  <1>3. CASE Commit(s)
    BY <1>3 DEF Commit, Disturb
  <1>4. CASE Stamp(s)
    BY <1>4 DEF Stamp, Disturb
  <1>5. CASE Fault(s)
    BY <1>5 DEF Fault, LoseStamp, Die, TypeOK
  <1> QED BY <1>1, <1>2, <1>3, <1>4, <1>5 DEF Serve

LEMMA OtherCalm ==
    ASSUME TypeOK, NEW s \in Sessions, Load(s) \/ Send(s) \/ Serve(s) \/ Fault(s),
           NEW t \in Sessions, t # s, CalmOk(t)
    PROVE  CalmOk(t)'
  <1>1. CASE calm'[t] = "no"
    BY <1>1, CalmLost
  <1>2. CASE UNCHANGED tables /\ calm'[t] = calm[t]
    <2>1. boq' = boq /\ actions' = actions /\ status' = status /\ link' = link
      BY <1>2 DEF tables
    <2>2. /\ pc'[t] = pc[t] /\ seen'[t] = seen[t] /\ row'[t] = row[t]
          /\ ver'[t] = ver[t] /\ found'[t] = found[t]
      BY OwnStep
    <2> QED BY <1>2, <2>1, <2>2, CalmSame
  <1> QED BY <1>1, <1>2, DisturbsOrReads

LEMMA OthersCalm ==
    ASSUME TypeOK, Others, NEW t \in Sessions, CalmOk(t)
    PROVE  CalmOk(t)'
  <1>1. \/ calm'[t] = "no"
        \/ calm' = calm /\ boq' = boq /\ actions' = actions /\ status' = status /\ link' = link
    BY DEF Others, EditQuantity, Issue, ArchiveCheck, ArchiveWrite, DisturbAll
  <1>2. CASE calm'[t] = "no"
    BY <1>2, CalmLost
  <1>3. CASE calm' = calm /\ boq' = boq /\ actions' = actions /\ status' = status /\ link' = link
    BY <1>3, OthersPages, CalmSame
  <1> QED BY <1>1, <1>2, <1>3

LEMMA CalmNext ==
    ASSUME IInv, SeenInv, \A s \in Sessions : CalmOk(s), Next
    PROVE  \A s \in Sessions : CalmOk(s)'
  <1> SUFFICES ASSUME NEW t \in Sessions PROVE CalmOk(t)'
    OBVIOUS
  <1>1. CASE Others
    BY <1>1, OthersCalm DEF IInv
  <1>2. ASSUME NEW s \in Sessions, Load(s) \/ Send(s) \/ Serve(s) \/ Fault(s)
        PROVE  CalmOk(t)'
    <2>1. CASE t = s
      BY <1>2, <2>1, OwnCalm
    <2>2. CASE t # s
      BY <1>2, <2>2, OtherCalm DEF IInv
    <2> QED BY <2>1, <2>2
  <1> QED BY <1>1, <1>2 DEF Next

LEMMA DoneNext == DoneInv /\ [Next]_vars => DoneInv'
  <1> SUFFICES ASSUME DoneInv, [Next]_vars PROVE DoneInv'
    OBVIOUS
  <1>1. CASE Next
    <2>1. SeenInv'
      BY <1>1, SeenNext DEF DoneInv
    <2>2. IInv'
      BY <1>1, NextInv DEF DoneInv
    <2>3. \A s \in Sessions : CalmOk(s)'
      BY <1>1, CalmNext DEF DoneInv
    <2> QED BY <2>1, <2>2, <2>3 DEF DoneInv
  <1>2. CASE UNCHANGED vars
    <2>1. /\ UNCHANGED <<status, boq, actions, link, pc, ver, seen, row, found, calm>>
          /\ UNCHANGED vars
      BY <1>2 DEF vars, tables, page
    <2>2. \A s \in Sessions : CalmOk(s)'
      BY <2>1, CalmSame DEF DoneInv, IInv
    <2>3. SeenInv'
      BY <2>1 DEF DoneInv, SeenInv
    <2>4. IInv'
      BY <1>2, NextInv DEF DoneInv
    <2> QED BY <2>2, <2>3, <2>4 DEF DoneInv
  <1> QED BY <1>1, <1>2

LEMMA DoneInit == Init => DoneInv
  <1> SUFFICES ASSUME Init PROVE DoneInv
    OBVIOUS
  <1>1. SeenInv
    BY DEF Init, SeenInv, NoLinks
  <1>2. \A s \in Sessions : CalmOk(s)
    BY DEF Init, CalmOk, Acting
  <1> QED BY <1>1, <1>2, InitInv DEF DoneInv

LEMMA DoneInvariance == Spec => []DoneInv
  <1> QED BY DoneInit, DoneNext, PTL DEF Spec

-----------------------------------------------------------------------------
(* What an answered confirmation promises *)

\* A confirmation that answers has done its last row, unless its stamp was lost.
LEMMA AnswerDone ==
    ASSUME DoneInv, Next, NEW s \in Sessions, Answers(s), calm'[s] # "no"
    PROVE  /\ row[s] = Len(LineOrder) /\ calm[s] = calm'[s] /\ RowDone(s)
  <1>0. TypeOK /\ IInv /\ SeenInv /\ CalmOk(s)
    BY DEF DoneInv, IInv
  <1>1. pc[s] \in Acting /\ pc'[s] = "idle"
    BY DEF Answers
  <1>2. ~Others /\ \A t \in Sessions \ {s} : ~(Load(t) \/ Send(t) \/ Serve(t) \/ Fault(t))
    <2>1. pc'[s] # pc[s]
      BY <1>1 DEF Acting
    <2> QED BY <1>0, <2>1, OthersPages, OwnStep
  <1>3. Load(s) \/ Send(s) \/ Serve(s) \/ Fault(s)
    BY <1>2 DEF Next
  <1>4. ~Load(s) /\ ~Send(s) /\ ~Fail(s) /\ ~LoseStamp(s) /\ ~Check(s) /\ ~Write(s)
    <2>1. ~Load(s) /\ ~Send(s) /\ ~Fail(s)
      BY <1>0, <1>1 DEF Load, Send, Fail, OpenPage, Confirm, Goto, TypeOK
    <2>2. ~LoseStamp(s)
      BY <1>0 DEF LoseStamp, TypeOK
    <2>3. ~Check(s) /\ ~Write(s)
      BY <1>0, <1>1, <2>1 DEF Check, Write, Goto, TypeOK
    <2> QED BY <2>1, <2>2, <2>3
  <1>5. LookUp(s) \/ Commit(s) \/ Stamp(s)
    BY <1>3, <1>4 DEF Serve, Fault, Die
  <1>6. ASSUME NextRow(s) PROVE row[s] = Len(LineOrder)
    <2>1. row[s] \in 1 .. Len(LineOrder) /\ ~(row[s] < Len(LineOrder))
      BY <1>0, <1>1, <1>6, LineOrderFacts DEF NextRow, Goto, TypeOK
    <2> QED BY <2>1, LineOrderFacts
  <1>7. CASE LookUp(s)
    <2>1. Recorded(Key(s, Line(s))) # {} /\ ~Creates(s, Line(s))
      BY <1>0, <1>1, <1>7 DEF LookUp, AfterReplay, Goto, TypeOK
    <2>2. NextRow(s) /\ UNCHANGED tables /\ calm' = calm /\ pc[s] = "lookUp"
      BY <1>7, <2>1 DEF LookUp, AfterReplay
    <2> QED BY <1>0, <1>6, <2>1, <2>2, ReplayDone
  <1>8. CASE Commit(s)
    <2>1. KeyFree(Key(s, Line(s)))
      BY <1>4, <1>8 DEF Commit
    <2>2. ~Creates(s, Line(s))
      BY <1>0, <1>1, <1>8, <2>1 DEF Commit, Goto, TypeOK
    <2>3. NextRow(s) /\ calm'[s] = calm[s]
      BY <1>8, <2>1, <2>2 DEF Commit, Disturb
    <2> QED BY <1>0, <1>6, <1>8, <2>1, <2>2, <2>3, UpdateDone
  <1>9. CASE Stamp(s)
    <2>1. NextRow(s) /\ calm'[s] = calm[s]
      BY <1>9 DEF Stamp, Disturb
    <2> QED BY <1>0, <1>6, <1>9, <2>1, StampDone
  <1> QED BY <1>5, <1>7, <1>8, <1>9

LEMMA LinesInOrder ==
    \A l \in Lines : \E n \in 1 .. Len(LineOrder) : LineOrder[n] = l
  BY LineOrderFacts DEF Lines

\* A confirmation with new keys that nobody disturbed and whose stamps arrived
\* answers only when every row was carried out: the item of the line has the
\* quantity measured and, if the row was to create it, is in the version selected.
THEOREM FreshConfirmIsDoneHolds == Spec => FreshConfirmIsDone
  <1>1. DoneInv /\ [Next]_vars =>
          [\A s \in Sessions : Answers(s) /\ calm'[s] = "fresh" =>
             \A l \in Lines : CarriedOut(boq', s, l)]_vars
    <2> SUFFICES ASSUME DoneInv, Next, NEW s \in Sessions, Answers(s), calm'[s] = "fresh",
                        NEW l \in Lines
                 PROVE  CarriedOut(boq', s, l)
      OBVIOUS
    <2>1. row[s] = Len(LineOrder) /\ calm[s] = "fresh" /\ RowDone(s)
      BY AnswerDone
    <2> QED BY <2>1, LinesInOrder DEF RowDone
  <1> QED BY <1>1, DoneInvariance, PTL DEF Spec, FreshConfirmIsDone

\* A confirmation that nobody disturbed and whose stamps arrived answers only
\* when every line is linked to the item its key created, by this try or another.
THEOREM RetryAdoptsHolds == Spec => RetryAdopts
  <1>1. DoneInv /\ [Next]_vars =>
          [\A s \in Sessions : Answers(s) /\ calm'[s] # "no" =>
             \A l \in Lines : link'[l] # NoItem /\ boq'[link'[l]].by = l]_vars
    <2> SUFFICES ASSUME DoneInv, Next, NEW s \in Sessions, Answers(s), calm'[s] # "no",
                        NEW l \in Lines
                 PROVE  link'[l] # NoItem /\ boq'[link'[l]].by = l
      OBVIOUS
    <2>1. row[s] = Len(LineOrder) /\ calm[s] # "no" /\ RowDone(s)
      BY AnswerDone
    <2>2. link'[l] # NoItem
      BY <2>1, LinesInOrder DEF RowDone
    <2>3. LinksOwnItem'
      BY NextInv DEF DoneInv, IInv
    <2> QED BY <2>2, <2>3 DEF LinksOwnItem
  <1> QED BY <1>1, DoneInvariance, PTL DEF Spec, RetryAdopts
=============================================================================
