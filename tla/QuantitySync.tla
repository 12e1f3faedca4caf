---------------------------- MODULE QuantitySync ----------------------------
(***************************************************************************)
(* A group of measured lines is sent to the BOQ of an estimate version.    *)
(*                                                                         *)
(* The page is loaded with the lines, their links and the open versions;   *)
(* the user previews, then confirms; confirmSyncAction processes the rows  *)
(* one by one: a row without a link calls add_apu_to_boq and then stamps   *)
(* the line, a row with one calls update_boq_item_quantity.  Each RPC is a *)
(* transaction: look the idempotency key up in apu_manual_actions, check,  *)
(* write, record the key.  The first error ends the action, and the page   *)
(* keeps the preview for another try.  Other users send the same group,    *)
(* edit quantities, issue versions and archive APUs meanwhile.             *)
(*                                                                         *)
(* Items are numbered in the order they are created: nothing deletes one.  *)
(* One step of this module is one statement of PostgreSQL, and a commit.   *)
(***************************************************************************)
EXTENDS Naturals, Sequences

CONSTANTS Sessions,      \* pages open on the group, of any user
          Versions,      \* estimate versions, all open at first
          Issuable,      \* those that somebody may issue
          Apus,          \* manual APU templates
          LineOrder,     \* the lines of the group, by sort_order
          ApuOf,         \* apu_template_id of a line
          NetOf,         \* result_net of a line, computed when it was created
          Quantities,    \* the quantities typed in the BOQ editor
          MaxFaults      \* bound: processes that die and stamps that are lost

Lines == {LineOrder[n] : n \in DOMAIN LineOrder}

ASSUME SyncAssumption ==
    /\ Versions # {} /\ Issuable \subseteq Versions
    /\ LineOrder \in Seq(Lines) /\ LineOrder # <<>>
    /\ ApuOf \in [Lines -> Apus]
    /\ NetOf \in [Lines -> Nat]
    /\ Quantities \subseteq Nat
    /\ MaxFaults \in Nat

VARIABLES status,    \* [Versions -> {"open", "locked"}]
          archived,  \* the archived APUs
          archiving, \* those whose archive call has passed its checks
          boq,       \* boq_items: the n-th is the n-th created
          actions,   \* the keyed rows of apu_manual_actions
          link,      \* boq_item_id of each line, 0 for NULL
          pc,        \* what each session does
          ver,       \* the version its page has selected
          seen,      \* the links its page was loaded with
          row,       \* the row it processes
          found,     \* the item it updates or stamps, 0 for an UPDATE that sees no row
          calm,      \* "no" once another wrote or a stamp was lost since Confirm; else
                     \* "fresh" or "replay": whether its keys were all new
          faults     \* deaths and lost stamps so far

tables == <<status, archived, archiving, boq, actions, link>>
page   == <<ver, seen>>
vars   == <<tables, pc, page, row, found, calm, faults>>

NoItem == 0
NoLinks == [l \in Lines |-> NoItem]
AnyVersion == CHOOSE v \in Versions : TRUE
Item == DOMAIN boq
\* by: the line whose key created the item, as apu_manual_actions records it
Row == [by : Lines, ver : Versions, apu : Apus, qty : Quantities \cup {NetOf[l] : l \in Lines}]

Phases == {"idle", "ready", "lookUp", "check", "write", "commit", "stamp", "failed"}
Acting == {"lookUp", "check", "write", "commit", "stamp"}

Init ==
    /\ status = [v \in Versions |-> "open"]
    /\ archived = {}
    /\ archiving = {}
    /\ faults = 0
    /\ boq = <<>>
    /\ actions = {}
    /\ link = NoLinks
    /\ pc = [s \in Sessions |-> "idle"]
    /\ ver = [s \in Sessions |-> AnyVersion]
    /\ seen = [s \in Sessions |-> NoLinks]
    /\ row = [s \in Sessions |-> 1]
    /\ found = [s \in Sessions |-> NoItem]
    /\ calm = [s \in Sessions |-> "no"]

-----------------------------------------------------------------------------
(* The rows of the preview *)

Locked(v) == status[v] = "locked"
Line(s)   == LineOrder[row[s]]
Creates(s, l) == seen[s][l] = NoItem

\* one key for each line, quantity and kind of call, whatever the version
KeyWithoutLine(kind, l) == <<kind, NetOf[l]>>     \* mutant: the line is not part of the key
KeyOf(kind, l) == <<kind, l, NetOf[l]>>
Key(s, l) == KeyOf(IF Creates(s, l) THEN "wsc" ELSE "wsq", l)

Recorded(k) == {a \in actions : a.key = k}

Goto(s, label) == pc' = [pc EXCEPT ![s] = label]

\* a write by s disturbs the confirmations of the others
Disturb(s) == calm' = [t \in Sessions |-> IF t = s THEN calm[t] ELSE "no"]
DisturbAll == calm' = [t \in Sessions |-> "no"]

\* SyncPage and SyncPanel.preview: the versions listed are open when it loads.
\* A retry after an error may keep the old page instead.
OpenPage(s, v) ==
    /\ pc[s] \in {"idle", "failed"}
    /\ ~Locked(v)
    /\ Goto(s, "ready")
    /\ ver' = [ver EXCEPT ![s] = v]
    /\ seen' = [seen EXCEPT ![s] = link]
    /\ UNCHANGED <<tables, row, found, calm>>

\* SyncPanel.confirm, also again after an error
Confirm(s) ==
    /\ pc[s] \in {"ready", "failed"}
    /\ Goto(s, "lookUp")
    /\ row' = [row EXCEPT ![s] = 1]
    /\ calm' = [calm EXCEPT ![s] = IF \A l \in Lines : Recorded(Key(s, l)) = {}
                                    THEN "fresh" ELSE "replay"]
    /\ UNCHANGED <<tables, page, found>>

\* the next row of confirmSyncAction, or its answer, with which the page is refreshed
NextRow(s) ==
    IF row[s] < Len(LineOrder)
    THEN /\ Goto(s, "lookUp")
         /\ row' = [row EXCEPT ![s] = @ + 1]
         /\ UNCHANGED page
    ELSE /\ Goto(s, "idle")
         /\ row' = [row EXCEPT ![s] = 1]
         /\ ver' = [ver EXCEPT ![s] = AnyVersion]
         /\ seen' = [seen EXCEPT ![s] = NoLinks]

\* the RPC raises: its transaction is rolled back and the action stops
Fail(s) ==
    /\ Goto(s, "failed")
    /\ row' = [row EXCEPT ![s] = 1]
    /\ found' = [found EXCEPT ![s] = NoItem]
    /\ UNCHANGED page

-----------------------------------------------------------------------------
(* add_apu_to_boq and update_boq_item_quantity *)

\* the key is looked up before anything is checked: the stored answer is
\* returned even when the version is locked by now, or another one is selected
ReplayIsDone(s, i) == NextRow(s) /\ UNCHANGED found   \* mutant: a replay needs no stamp
AfterReplay(s, i) ==
    IF Creates(s, Line(s))
    THEN Goto(s, "stamp") /\ found' = [found EXCEPT ![s] = i] /\ UNCHANGED <<page, row>>
    ELSE NextRow(s) /\ UNCHANGED found

LookUp(s) ==
    /\ pc[s] = "lookUp"
    /\ IF Recorded(Key(s, Line(s))) = {}
       THEN Goto(s, "check") /\ UNCHANGED <<page, row, found>>
       ELSE \E a \in Recorded(Key(s, Line(s))) : AfterReplay(s, a.item)
    /\ UNCHANGED <<tables, calm>>

\* the version whose BOQ the row writes to
Target(s, l) == IF Creates(s, l) THEN ver[s] ELSE boq[seen[s][l]].ver

ArchiveUnchecked(a) == TRUE      \* mutant: the RPC as it was before APUs could be archived
Addable(a) == a \notin archived

\* version_locked, then apu_archived; the version is tested again by row-level security
Check(s) ==
    /\ pc[s] = "check"
    /\ IF Locked(Target(s, Line(s))) \/ (Creates(s, Line(s)) /\ ~Addable(ApuOf[Line(s)]))
       THEN Fail(s)
       ELSE Goto(s, "write") /\ UNCHANGED <<page, row, found>>
    /\ UNCHANGED <<tables, calm>>

RlsMissing(v) == TRUE            \* mutant: no row policies
RlsAdmits(v) == ~Locked(v)

\* INSERT is refused with an error, UPDATE sees no row and goes on
Write(s) ==
    /\ pc[s] = "write"
    /\ LET l == Line(s) IN
       IF Creates(s, l) /\ ~RlsAdmits(Target(s, l))
       THEN Fail(s)
       ELSE /\ Goto(s, "commit")
            /\ found' = [found EXCEPT ![s] = IF RlsAdmits(Target(s, l)) THEN seen[s][l] ELSE NoItem]
            /\ UNCHANGED <<page, row>>
    /\ UNCHANGED <<tables, calm>>

\* apu_manual_actions_org_idempotency_uq
NoUniqueIndex(k) == TRUE         \* mutant: the index on (organization_id, idempotency_key) is missing
KeyFree(k) == Recorded(k) = {}

Added(old, l) == old + NetOf[l]  \* mutant: adds what was measured to what is there
Measured(old, l) == NetOf[l]

NewItem(s) == [by |-> Line(s), ver |-> ver[s], apu |-> ApuOf[Line(s)], qty |-> NetOf[Line(s)]]

\* the action is recorded and the transaction commits; a key recorded meanwhile
\* undoes the write as well
Commit(s) ==
    /\ pc[s] = "commit"
    /\ LET l == Line(s)
           record(i) == actions' = actions \cup {[key |-> Key(s, l), item |-> i]}
       IN
       CASE ~KeyFree(Key(s, l)) -> Fail(s) /\ UNCHANGED <<tables, calm>>
         [] KeyFree(Key(s, l)) /\ Creates(s, l) ->
              /\ boq' = Append(boq, NewItem(s))
              /\ record(Len(boq) + 1)
              /\ found' = [found EXCEPT ![s] = Len(boq) + 1]
              /\ Goto(s, "stamp")
              /\ Disturb(s)
              /\ UNCHANGED <<status, archived, archiving, link, page, row>>
         [] OTHER ->
              /\ boq' = IF found[s] = NoItem THEN boq ELSE [boq EXCEPT ![found[s]].qty = Measured(@, l)]
              /\ record(seen[s][l])
              /\ found' = [found EXCEPT ![s] = NoItem]
              /\ NextRow(s)
              /\ Disturb(s)
              /\ UNCHANGED <<status, archived, archiving, link>>

-----------------------------------------------------------------------------
(* After the RPC *)

\* UPDATE of the line's boq_item_id, by a call of its own
Stamp(s) ==
    /\ pc[s] = "stamp"
    /\ link' = [link EXCEPT ![Line(s)] = found[s]]
    /\ found' = [found EXCEPT ![s] = NoItem]
    /\ NextRow(s)
    /\ Disturb(s)
    /\ UNCHANGED <<status, archived, archiving, boq, actions>>

\* its error is dropped, and the row counts as created
LoseStamp(s) ==
    /\ pc[s] = "stamp"
    /\ found' = [found EXCEPT ![s] = NoItem]
    /\ NextRow(s)
    /\ calm' = [calm EXCEPT ![s] = "no"]
    /\ UNCHANGED tables

\* the process dies, or its answer is lost: the page shows an error
Die(s) ==
    /\ pc[s] \in Acting
    /\ Fail(s)
    /\ UNCHANGED <<tables, calm>>

-----------------------------------------------------------------------------
(* The rest of the system *)

\* the BOQ editor, of an open version
EditQuantity(i, q) ==
    /\ i \in Item
    /\ ~Locked(boq[i].ver)
    /\ boq[i].qty # q
    /\ boq' = [boq EXCEPT ![i].qty = q]
    /\ DisturbAll
    /\ UNCHANGED <<status, archived, archiving, actions, link, pc, page, row, found>>

Issue(v) ==
    /\ v \in Issuable
    /\ ~Locked(v)
    /\ status' = [status EXCEPT ![v] = "locked"]
    /\ DisturbAll
    /\ UNCHANGED <<archived, archiving, boq, actions, link, pc, page, row, found>>

Uses(a) == {i \in Item : boq[i].apu = a}

\* archive_apu_template: the APU is live and has no items ...
ArchiveCheck(a) ==
    /\ a \notin archived \cup archiving
    /\ Uses(a) = {}
    /\ archiving' = archiving \cup {a}
    /\ UNCHANGED <<status, archived, boq, actions, link, pc, page, row, found, calm>>

\* ... and a later statement archives it, looking at neither again
ArchiveWrite(a) ==
    /\ a \in archiving
    /\ archived' = archived \cup {a}
    /\ archiving' = archiving \ {a}
    /\ UNCHANGED <<status, boq, actions, link, pc, page, row, found, calm>>

-----------------------------------------------------------------------------
(* Specification *)

Serve(s) == (LookUp(s) \/ Check(s) \/ Write(s) \/ Commit(s) \/ Stamp(s)) /\ UNCHANGED faults
Load(s)  == (\E v \in Versions : OpenPage(s, v)) /\ UNCHANGED faults
Send(s)  == Confirm(s) /\ UNCHANGED faults
Fault(s) == (LoseStamp(s) \/ Die(s)) /\ faults < MaxFaults /\ faults' = faults + 1
Others   == UNCHANGED faults /\
            \/ \E i \in Item, q \in Quantities : EditQuantity(i, q)
            \/ \E v \in Versions : Issue(v)
            \/ \E a \in Apus : ArchiveCheck(a) \/ ArchiveWrite(a)

Next == (\E s \in Sessions : Load(s) \/ Send(s) \/ Serve(s) \/ Fault(s)) \/ Others

Spec == Init /\ [][Next]_vars

-----------------------------------------------------------------------------
(* Properties *)

SyncKeys == {KeyOf(kind, l) : kind \in {"wsc", "wsq"}, l \in Lines}

\* The tables and pages hold values of their columns and fields.
TypeOK ==
    /\ status \in [Versions -> {"open", "locked"}]
    /\ archived \subseteq Apus /\ archiving \subseteq Apus
    /\ boq \in Seq(Row)
    /\ actions \subseteq [key : SyncKeys, item : Item]
    /\ link \in [Lines -> Item \cup {NoItem}]
    /\ pc \in [Sessions -> Phases]
    /\ ver \in [Sessions -> Versions]
    /\ seen \in [Sessions -> [Lines -> Item \cup {NoItem}]]
    /\ row \in [Sessions -> DOMAIN LineOrder]
    /\ found \in [Sessions -> Item \cup {NoItem}]
    /\ calm \in [Sessions -> {"no", "fresh", "replay"}]
    /\ faults \in 0 .. MaxFaults

\* A line is in the BOQ once: two pages that send it at once, a second click
\* after an error, a lost answer and a lost stamp never create a second item.
OneItemPerLine == \A i, j \in Item : boq[i].by = boq[j].by => i = j

\* A line is linked to the item its own key created, whichever page stamps it.
LinksOwnItem == \A l \in Lines : link[l] # NoItem => boq[link[l]].by = l

\* The keyed actions, the items and the stamps under way tell the same story.
Consistent ==
    /\ \A i \in Item : \E a \in actions : a.key = KeyOf("wsc", boq[i].by) /\ a.item = i
    /\ \A a, b \in actions : a.key = b.key => a = b
    /\ \A a \in actions, l \in Lines : a.key = KeyOf("wsc", l) => boq[a.item].by = l
    /\ \A s \in Sessions : pc[s] = "stamp" => found[s] \in Item /\ boq[found[s]].by = Line(s)
    /\ \A s \in Sessions : pc[s] = "commit" => found[s] \in {NoItem, seen[s][Line(s)]}

IInv == TypeOK /\ Consistent /\ LinksOwnItem

Adding(a)   == {s \in Sessions : /\ pc[s] \in {"write", "commit"}
                                 /\ Creates(s, Line(s)) /\ ApuOf[Line(s)] = a}
Admitted(v) == {s \in Sessions : /\ pc[s] = "commit" /\ Target(s, Line(s)) = v
                                 /\ Creates(s, Line(s)) \/ found[s] # NoItem}
Content(v)  == {<<i, boq[i]>> : i \in {j \in Item : boq[j].ver = v}}

\* Calls that found an APU live may still add it after it is archived; no other
\* call joins them, and without them the items of the APU are settled.
ArchivedStaysUnused ==
    [][\A a \in archived : /\ Adding(a)' \subseteq Adding(a)
                           /\ (Adding(a) = {} => Uses(a)' = Uses(a))]_vars

\* The items of a locked version change only by statements that row-level
\* security admitted before: neither a stale page nor a retry reaches them.
LockedStays ==
    [][\A v \in Versions : Locked(v) => /\ Admitted(v)' \subseteq Admitted(v)
                                        /\ (Admitted(v) = {} => Content(v)' = Content(v))]_vars

\* s answers that it has created and updated its rows
Answers(s) == pc[s] \in Acting /\ pc'[s] = "idle"

\* the row of l was carried out in the BOQ b: its item has the quantity
\* measured, and a new one is in the version selected
CarriedOut(b, s, l) ==
    \E i \in DOMAIN b : /\ b[i].by = l /\ b[i].qty = NetOf[l]
                        /\ (Creates(s, l) => b[i].ver = ver[s])

\* A confirmation with new keys that nobody disturbed and whose stamps arrived
\* has carried out every row.
FreshConfirmIsDone ==
    [][\A s \in Sessions : Answers(s) /\ calm'[s] = "fresh" =>
         \A l \in Lines : CarriedOut(boq', s, l)]_vars

\* A confirmation that nobody disturbed and whose stamps arrived leaves every
\* line linked to its item, also one created by an earlier try that died or
\* lost its stamp.
RetryAdopts ==
    [][\A s \in Sessions : Answers(s) /\ calm'[s] # "no" =>
         \A l \in Lines : link'[l] # NoItem /\ boq'[link'[l]].by = l]_vars

\* Comment: each row the user approved is created or updated, whether it was
\* sent before or not.  (app/(dashboard)/quantities/workspace/actions.ts:111)
EveryConfirmIsDone ==
    [][\A s \in Sessions : Answers(s) /\ calm'[s] # "no" =>
         \A l \in Lines : CarriedOut(boq', s, l)]_vars
=============================================================================
