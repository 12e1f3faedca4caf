--------------------------- MODULE EstimateVersions ---------------------------
(***************************************************************************)
(* The versions of one estimate and the sessions that edit, import, issue   *)
(* and clone them (apps/web/server/estimates and its SQL migrations).       *)
(*                                                                         *)
(* A server method is a sequence of PostgREST calls and every call is a     *)
(* transaction of its own, so a method is several actions here.  A write    *)
(* statement is two of them: Admit, where row-level security evaluates      *)
(* app.estimate_version_locked on the snapshot the statement started with,  *)
(* and Commit, where its effect becomes visible.  Issuing updates another   *)
(* row (the version), so it does not wait for admitted child writes.        *)
(*                                                                         *)
(* A version is named by its number: UNIQUE (estimate_id, version_number).  *)
(* A row keeps its key in the clone, which makes the clone's old-to-new map *)
(* the identity on the chapters it copied.  sort_order, codes, descriptions *)
(* and prices are not modelled: an item has one amount, its subtotal.       *)
(***************************************************************************)
EXTENDS Naturals, FiniteSets, FiniteSetsExt

CONSTANTS
    Sessions,       \* authenticated requests that run at the same time
    Chapters,       \* keys of chapter rows (fresh uuids)
    Items,          \* keys of item rows (fresh uuids)
    Amounts,        \* subtotals of items, names of chapters, AIU settings
    Ops,            \* the operations this workload performs
    MaxVersion,     \* bound: number of versions of the estimate
    NoOne           \* no session, no key, no rules

ASSUME VersionsAssumption ==
    /\ MaxVersion \in Nat \ {0}
    /\ Amounts \subseteq Nat /\ 0 \in Amounts
    /\ IsFiniteSet(Sessions)
    /\ NoOne \notin Sessions \cup Chapters \cup Items \cup Amounts

Versions == 1 .. MaxVersion

VARIABLES
    status,     \* version -> "none" (no row), "draft", "issued"
    source,     \* version -> source_version_id (0 when NULL)
    issuer,     \* version -> issued_by
    book,       \* version -> its chapters, items and AIU rules
    pc,         \* session -> next step of its request
    req,        \* session -> what it asked for
    ver,        \* session -> the version it read as active
    reply,      \* session -> outcome of its last request
    estLock,    \* holder of the FOR UPDATE lock on the estimates row
    verLock,    \* version -> holder of the FOR UPDATE lock on its row
    number,     \* session -> version_number its clone has taken
    copy,       \* session -> the rows its clone has inserted, uncommitted
    calm        \* history: no admitted write was pending at the first copy

db    == <<status, source, issuer, book>>
clone == <<number, copy, calm>>
locks == <<estLock, verLock>>
vars  == <<db, pc, req, ver, reply, locks, clone>>

-----------------------------------------------------------------------------
(* Rows and totals *)

LockedStatuses == {"approved", "issued", "archived"}
RowStates      == {"absent", "live", "archived"}
ChapterRow     == [st : RowStates, val : Amounts]
ItemRow        == [st : RowStates, ch : Chapters \cup {NoOne}, val : Amounts]
Book           == [chapters : [Chapters -> ChapterRow],
                   items    : [Items -> ItemRow],
                   aiu      : Amounts \cup {NoOne}]

NoBook == [chapters |-> [c \in Chapters |-> [st |-> "absent", val |-> 0]],
           items    |-> [i \in Items |-> [st |-> "absent", ch |-> NoOne, val |-> 0]],
           aiu      |-> NoOne]

HasChapter(b, c) == c \in Chapters /\ b.chapters[c].st # "absent"
HasItem(b, i)    == i \in Items /\ b.items[i].st # "absent"
IsEmpty(b)       == ~(\E c \in Chapters : HasChapter(b, c)) /\ ~(\E i \in Items : HasItem(b, i))

\* versionRollup: archived chapters hide all their items, archived items only themselves
ActiveItems(b)    == {i \in Items : b.items[i].st = "live" /\ b.chapters[b.items[i].ch].st = "live"}
ActiveChapters(b) == {c \in Chapters : b.chapters[c].st = "live"}
DirectTotal(b)    == MapThenSumSet(LAMBDA i : b.items[i].val, ActiveItems(b))

Exists(v) == status[v] # "none"
Locked(v) == status[v] \in LockedStatuses
Active    == Max({v \in Versions : Exists(v)})

-----------------------------------------------------------------------------
(* Requests *)

CreatesRow == {"createEstimateChapter", "createBoqItem", "importBoq"}
OfChapter  == {"createEstimateChapter", "updateEstimateChapter", "archiveEstimateChapter",
               "restoreEstimateChapter", "createBoqItem", "updateBoqItem", "importBoq"}
OfItem     == {"createBoqItem", "updateBoqItem", "archiveBoqItem", "restoreBoqItem", "importBoq"}
OfValue    == {"createEstimateChapter", "updateEstimateChapter", "createBoqItem", "updateBoqItem",
               "importBoq", "updateEstimateVersionAiu"}

\* what a request names: its chapter (the one the item is in), item, target
\* chapter of a move, and new value
Requests ==
    {r \in [op   : OfChapter \cup OfItem \cup OfValue,
            ch   : Chapters \cup {NoOne},
            item : Items \cup {NoOne},
            to   : Chapters \cup {NoOne},
            val  : Amounts] :
        /\ r.ch \in Chapters <=> r.op \in OfChapter
        /\ r.item \in Items <=> r.op \in OfItem
        /\ r.to \in Chapters <=> r.op = "updateBoqItem"
        /\ r.op \notin OfValue => r.val = 0}

NoReq == [op |-> "none", ch |-> NoOne, item |-> NoOne, to |-> NoOne, val |-> 0]

EditRequests   == {r \in Requests : r.op \in Ops \ {"importBoq"}}
ImportRequests == {r \in Requests : r.op \in Ops \cap {"importBoq"}}

\* UPDATE without .select(): a row that RLS filters out is not an error
Silent == {"updateEstimateChapter", "archiveEstimateChapter", "restoreEstimateChapter",
           "archiveBoqItem", "restoreBoqItem"}

\* keys are fresh uuids: no row and no request under way has them
Claims(s) == IF req[s].op \in CreatesRow THEN {req[s].ch, req[s].item} ELSE {}
Fresh(v, r) ==
    /\ r.op \in {"createEstimateChapter", "importBoq"} => ~HasChapter(book[v], r.ch)
    /\ r.op \in {"createBoqItem", "importBoq"} => ~HasItem(book[v], r.item)
    /\ \A t \in Sessions :
          /\ r.op \in {"createEstimateChapter", "importBoq"} => r.ch \notin Claims(t)
          /\ r.op \in {"createBoqItem", "importBoq"} => r.item \notin Claims(t)

\* the row of chapter r.ch, of item r.item, once the write r has committed
ChapterAfter(r, row) ==
    CASE r.op = "createEstimateChapter"  -> [st |-> "live", val |-> r.val]
      [] r.op = "importBoq"              -> [st |-> "live", val |-> 0]
      [] r.op = "updateEstimateChapter"  -> [row EXCEPT !.val = r.val]
      [] r.op = "archiveEstimateChapter" -> [row EXCEPT !.st = "archived"]
      [] r.op = "restoreEstimateChapter" -> [row EXCEPT !.st = "live"]
      [] OTHER                           -> row

\* an update that names no other target chapter does not write chapter_id
ItemAfter(r, row) ==
    CASE r.op \in {"createBoqItem", "importBoq"} -> [st |-> "live", ch |-> r.ch, val |-> r.val]
      [] r.op = "updateBoqItem"  -> [row EXCEPT !.val = r.val, !.ch = IF r.to = r.ch THEN @ ELSE r.to]
      [] r.op = "archiveBoqItem" -> [row EXCEPT !.st = "archived"]
      [] r.op = "restoreBoqItem" -> [row EXCEPT !.st = "live"]
      [] OTHER                   -> row

Apply(r, b) ==
    [chapters |-> [c \in Chapters |-> IF c = r.ch THEN ChapterAfter(r, b.chapters[c]) ELSE b.chapters[c]],
     items    |-> [i \in Items |-> IF i = r.item THEN ItemAfter(r, b.items[i]) ELSE b.items[i]],
     aiu      |-> IF r.op = "updateEstimateVersionAiu" THEN r.val ELSE b.aiu]

\* INSERTs of child rows take FOR KEY SHARE on the version row (foreign key)
InsertsRow(r, b) ==
    \/ r.op \in {"createEstimateChapter", "createBoqItem"}
    \/ r.op = "updateEstimateVersionAiu" /\ b.aiu = NoOne

\* an admitted write of version v that has not committed yet
InFlight(v) == \E s \in Sessions : pc[s] = "sent" /\ ver[s] = v

\* replies are told apart as far as the properties do: the errors that services
\* throw, and the refusals of RLS, are all "error"
Replies == {"none", "ok", "error", "aborted", "null_chapter_id", "unique_violation"}
Kind(a) == IF a \in Replies THEN a ELSE "error"

-----------------------------------------------------------------------------
TypeOK ==
    /\ status \in [Versions -> {"none", "draft", "issued"}]
    /\ source \in [Versions -> 0 .. MaxVersion]
    /\ issuer \in [Versions -> Sessions \cup {NoOne}]
    /\ book \in [Versions -> Book]
    /\ pc \in [Sessions -> {"idle", "check", "send", "sent", "import", "importing", "issue",
                            "clone", "cloneChapters", "cloneItems", "cloneAiu"}]
    /\ req \in [Sessions -> Requests \cup {NoReq}]
    /\ ver \in [Sessions -> 0 .. MaxVersion]
    /\ reply \in [Sessions -> Replies]
    /\ estLock \in Sessions \cup {NoOne}
    /\ verLock \in [Versions -> Sessions \cup {NoOne}]
    /\ number \in [Sessions -> 0 .. MaxVersion]
    /\ copy \in [Sessions -> Book]
    /\ calm \in [Sessions -> BOOLEAN]

\* create_estimate_with_initial_version leaves one empty draft
Init ==
    /\ status = [v \in Versions |-> IF v = 1 THEN "draft" ELSE "none"]
    /\ source = [v \in Versions |-> 0]
    /\ issuer = [v \in Versions |-> NoOne]
    /\ book = [v \in Versions |-> NoBook]
    /\ pc = [s \in Sessions |-> "idle"]
    /\ req = [s \in Sessions |-> NoReq]
    /\ ver = [s \in Sessions |-> 0]
    /\ reply = [s \in Sessions |-> "none"]
    /\ estLock = NoOne
    /\ verLock = [v \in Versions |-> NoOne]
    /\ number = [s \in Sessions |-> 0]
    /\ copy = [s \in Sessions |-> NoBook]
    /\ calm = [s \in Sessions |-> FALSE]

Goto(s, l)   == pc' = [pc EXCEPT ![s] = l]
Answer(s, a) == reply' = [reply EXCEPT ![s] = Kind(a)]

\* the request read version v as active and goes on at step l
Start(s, r, l) ==
    /\ Goto(s, l)
    /\ req' = [req EXCEPT ![s] = r]
    /\ ver' = [ver EXCEPT ![s] = Active]
    /\ Answer(s, "none")
    /\ UNCHANGED <<db, locks, clone>>

\* a lock taken by a transaction goes with it
EstLockKept(s)  == estLock          \* mutant: a lock of the connection, not of the transaction
EstLockAfter(s) == IF estLock = s THEN NoOne ELSE estLock

\* the request ends with answer a; its transaction, if any, releases its locks
Finish(s, a) ==
    /\ Goto(s, "idle")
    /\ Answer(s, a)
    /\ req' = [req EXCEPT ![s] = NoReq]
    /\ ver' = [ver EXCEPT ![s] = 0]
    /\ estLock' = EstLockAfter(s)
    /\ verLock' = [v \in Versions |-> IF verLock[v] = s THEN NoOne ELSE verLock[v]]
    /\ number' = [number EXCEPT ![s] = 0]
    /\ copy' = [copy EXCEPT ![s] = NoBook]
    /\ calm' = [calm EXCEPT ![s] = FALSE]

\* the first read of a request already refuses it
Refuse(s, a) == pc[s] = "idle" /\ Answer(s, a) /\ UNCHANGED <<db, pc, req, ver, locks, clone>>

-----------------------------------------------------------------------------
(* Editing: read the active version, read the row, send the statement *)

LockedError(r) == IF r.op = "updateEstimateVersionAiu" THEN "AiuVersionLockedError"
                                                      ELSE "BoqVersionLockedError"

AssertEditableActiveVersion(s, r) ==
    /\ pc[s] = "idle"
    /\ Fresh(Active, r)
    /\ IF Locked(Active) THEN Refuse(s, LockedError(r)) ELSE Start(s, r, "check")

\* the second read of operation op: refuse with error a unless ok holds
CheckRow(s, op, ok, a) ==
    /\ pc[s] = "check" /\ req[s].op = op
    /\ IF ok THEN Goto(s, "send") /\ UNCHANGED <<db, req, ver, reply, locks, clone>>
             ELSE Finish(s, a) /\ UNCHANGED db

ChapterUnchecked(s) == TRUE         \* mutant: no assertChapterInVersion
AssertChapterInVersion(s) == HasChapter(book[ver[s]], req[s].ch)

CreateEstimateChapter(s) == CheckRow(s, "createEstimateChapter", TRUE, "none")
UpdateEstimateChapter(s) ==
    CheckRow(s, "updateEstimateChapter", AssertChapterInVersion(s), "ChapterNotFoundError")
ArchiveEstimateChapter(s) ==
    CheckRow(s, "archiveEstimateChapter",
             AssertChapterInVersion(s) /\ book[ver[s]].chapters[req[s].ch].st = "live",
             IF AssertChapterInVersion(s) THEN "BoqAlreadyArchivedError" ELSE "ChapterNotFoundError")
RestoreEstimateChapter(s) ==
    CheckRow(s, "restoreEstimateChapter",
             AssertChapterInVersion(s) /\ book[ver[s]].chapters[req[s].ch].st = "archived",
             IF AssertChapterInVersion(s) THEN "BoqNotArchivedError" ELSE "ChapterNotFoundError")
CreateBoqItem(s) == CheckRow(s, "createBoqItem", AssertChapterInVersion(s), "ChapterNotFoundError")
UpdateBoqItem(s) ==
    LET found == HasItem(book[ver[s]], req[s].item) /\ book[ver[s]].items[req[s].item].ch = req[s].ch
    IN  CheckRow(s, "updateBoqItem", found /\ HasChapter(book[ver[s]], req[s].to),
                 IF found THEN "TargetChapterNotFoundError" ELSE "BoqItemNotFoundError")
ArchiveBoqItem(s) ==
    LET found == HasItem(book[ver[s]], req[s].item)
    IN  CheckRow(s, "archiveBoqItem", found /\ book[ver[s]].items[req[s].item].st = "live",
                 IF found THEN "BoqAlreadyArchivedError" ELSE "BoqItemNotFoundError")
RestoreBoqItem(s) ==
    LET found == HasItem(book[ver[s]], req[s].item)
    IN  CheckRow(s, "restoreBoqItem", found /\ book[ver[s]].items[req[s].item].st = "archived",
                 IF found THEN "BoqNotArchivedError" ELSE "BoqItemNotFoundError")
UpdateEstimateVersionAiu(s) == CheckRow(s, "updateEstimateVersionAiu", TRUE, "none")

\* RLS on the statement's snapshot: NOT app.estimate_version_locked(...)
RlsMissing(v) == TRUE               \* mutant: no version_locked in the row policies
RlsAdmits(v) == ~Locked(v)

Admit(s) ==
    /\ pc[s] = "send"
    /\ IF RlsAdmits(ver[s])
       THEN Goto(s, "sent") /\ UNCHANGED <<db, req, ver, reply, locks, clone>>
       ELSE /\ Finish(s, IF req[s].op \in Silent THEN "ok" ELSE "rls_error")
            /\ UNCHANGED db

Commit(s) ==
    /\ pc[s] = "sent"
    /\ InsertsRow(req[s], book[ver[s]]) => verLock[ver[s]] = NoOne
    /\ book' = [book EXCEPT ![ver[s]] = Apply(req[s], @)]
    /\ Finish(s, "ok")
    /\ UNCHANGED <<status, source, issuer>>

-----------------------------------------------------------------------------
(* Import: import_boq_into_version, one transaction under the version lock *)

AssertImportableVersion(s, r) ==
    /\ pc[s] = "idle"
    /\ Fresh(Active, r)
    /\ IF Locked(Active) THEN Refuse(s, "ImportVersionLockedError")
       ELSE IF ActiveChapters(book[Active]) # {} \/ ActiveItems(book[Active]) # {}
       THEN Refuse(s, "ImportVersionNotEmptyError")
       ELSE Start(s, r, "import")

\* both conditions are checked again under the lock; SELECT ... FOR UPDATE also
\* applies the UPDATE policy, so a version issued meanwhile is "not found"
ImportAdmitsRows(v) == ~Locked(v)   \* mutant: trusts the server's earlier check
ImportAdmits(v) == ~Locked(v) /\ IsEmpty(book[v])

ImportLock(s) ==
    LET v == ver[s] IN
    /\ pc[s] = "import"
    /\ verLock[v] = NoOne
    /\ IF ImportAdmits(v)
       THEN /\ Goto(s, "importing")
            /\ verLock' = [verLock EXCEPT ![v] = s]
            /\ UNCHANGED <<db, req, ver, reply, estLock, clone>>
       ELSE /\ Finish(s, IF Locked(v) THEN "EstimateNotFoundError" ELSE "version_not_empty")
            /\ UNCHANGED db

ImportCommit(s) ==
    /\ pc[s] = "importing"
    /\ book' = [book EXCEPT ![ver[s]] = Apply(req[s], @)]
    /\ Finish(s, "ok")
    /\ UNCHANGED <<status, source, issuer>>

-----------------------------------------------------------------------------
(* Issue: read the active version, then one UPDATE filtered by RLS *)

IssueRead(s) ==
    /\ "issue" \in Ops
    /\ pc[s] = "idle"
    /\ IF status[Active] # "draft" THEN Refuse(s, "VersionNotDraftError")
                                   ELSE Start(s, NoReq, "issue")

\* USING (status not locked) is evaluated again on the current row; a row it
\* filters is not an error, and the re-read answers with whatever is there
RowAlwaysUpdatable(v) == TRUE       \* mutant: no status in the USING clause of estimate_versions
RowUpdatable(v) == ~Locked(v)

IssueUpdate(s) ==
    LET v == ver[s] IN
    /\ pc[s] = "issue"
    /\ verLock[v] = NoOne
    /\ IF ~RowUpdatable(v) THEN UNCHANGED <<status, issuer>>
       ELSE /\ status' = [status EXCEPT ![v] = "issued"]
            /\ issuer' = [issuer EXCEPT ![v] = s]
    /\ Finish(s, "ok")
    /\ UNCHANGED <<source, book>>

-----------------------------------------------------------------------------
(* Clone: clone_issued_estimate_version, one transaction, a snapshot per   *)
(* statement, serialised on the estimates row                              *)

Cloning == {"clone", "cloneChapters", "cloneItems", "cloneAiu"}

CloneRead(s) ==
    /\ "clone" \in Ops
    /\ pc[s] = "idle"
    /\ Active + Cardinality({t \in Sessions : pc[t] \in Cloning}) < MaxVersion
    /\ IF status[Active] # "issued" THEN Refuse(s, "VersionNotIssuedError")
                                    ELSE Start(s, NoReq, "clone")

NoForUpdate(s) == TRUE              \* mutant: no FOR UPDATE on estimates
LockFree(s) == estLock = NoOne

\* max(version_number) + 1, read under the lock
SkippedNumber == Active + 2         \* mutant: max(version_number) + 1, incremented again
NextNumber == Active + 1

CloneLock(s) ==
    /\ pc[s] = "clone"
    /\ LockFree(s)
    /\ IF status[ver[s]] # "issued"
       THEN Finish(s, "VersionNotIssuedError") /\ UNCHANGED db
       ELSE /\ Goto(s, "cloneChapters")
            /\ estLock' = s
            /\ number' = [number EXCEPT ![s] = NextNumber]
            /\ UNCHANGED <<db, req, ver, reply, verLock, copy, calm>>

CloneChapters(s) ==
    /\ pc[s] = "cloneChapters"
    /\ copy' = [copy EXCEPT ![s].chapters = book[ver[s]].chapters]
    /\ calm' = [calm EXCEPT ![s] = ~InFlight(ver[s])]
    /\ Goto(s, "cloneItems")
    /\ UNCHANGED <<db, req, ver, reply, locks, number>>

\* v_map ->> chapter_id is NULL for an item of a chapter copied too early to be
\* mapped, and chapter_id is NOT NULL
Unmapped(s) == {i \in Items : HasItem(book[ver[s]], i)
                              /\ ~HasChapter(copy[s], book[ver[s]].items[i].ch)}

\* archived items are copied too, as archived
CopiedLiveItems(v) ==               \* mutant: leaves the archived items out
    [i \in Items |-> IF book[v].items[i].st = "archived" THEN NoBook.items[i] ELSE book[v].items[i]]
CopiedItems(v) == book[v].items

CloneItems(s) ==
    /\ pc[s] = "cloneItems"
    /\ IF Unmapped(s) # {} THEN Finish(s, "null_chapter_id") /\ UNCHANGED db
       ELSE /\ copy' = [copy EXCEPT ![s].items = CopiedItems(ver[s])]
            /\ Goto(s, "cloneAiu")
            /\ UNCHANGED <<db, req, ver, reply, locks, number, calm>>

CloneCommit(s) ==
    LET n == number[s] IN
    /\ pc[s] = "cloneAiu"
    /\ IF Exists(n) THEN Finish(s, "unique_violation") /\ UNCHANGED db
       ELSE /\ status' = [status EXCEPT ![n] = "draft"]
            /\ source' = [source EXCEPT ![n] = ver[s]]
            /\ book' = [book EXCEPT ![n] = [copy[s] EXCEPT !.aiu = book[ver[s]].aiu]]
            /\ Finish(s, "ok")
            /\ UNCHANGED issuer

-----------------------------------------------------------------------------
\* the request dies between two calls or its transaction rolls back
Abort(s) == pc[s] # "idle" /\ Finish(s, "aborted") /\ UNCHANGED db

Begin(s) ==
    \/ \E r \in EditRequests : AssertEditableActiveVersion(s, r)
    \/ \E r \in ImportRequests : AssertImportableVersion(s, r)
    \/ IssueRead(s)
    \/ CloneRead(s)

Check(s) ==
    \/ CreateEstimateChapter(s)  \/ UpdateEstimateChapter(s)
    \/ ArchiveEstimateChapter(s) \/ RestoreEstimateChapter(s)
    \/ CreateBoqItem(s)  \/ UpdateBoqItem(s)
    \/ ArchiveBoqItem(s) \/ RestoreBoqItem(s)
    \/ UpdateEstimateVersionAiu(s)

Continue(s) ==
    \/ Check(s) \/ Admit(s) \/ Commit(s)
    \/ ImportLock(s) \/ ImportCommit(s)
    \/ IssueUpdate(s)
    \/ CloneLock(s) \/ CloneChapters(s) \/ CloneItems(s) \/ CloneCommit(s)

Next == \E s \in Sessions : Begin(s) \/ Continue(s) \/ Abort(s)

Spec == Init /\ [][Next]_vars

\* a request that was started goes on; row locks are granted in arrival order
FairSpec == Spec /\ \A s \in Sessions : SF_vars(Continue(s))

-----------------------------------------------------------------------------
(* Properties *)

Frozen(v) == Locked(v) /\ ~InFlight(v)

\* A version that is locked and has no admitted write pending never changes
\* again: not its rows, its AIU, its status or its issuer, and no write is ever
\* admitted to it.  Immutability of an issued version rests on the RLS guards
\* of chapters, boq_items and indirect_cost_rules and on the USING clause of
\* estimate_versions.
FrozenForever ==
    [][\A v \in Versions : Frozen(v) =>
          /\ Frozen(v)'
          /\ book'[v] = book[v] /\ status'[v] = status[v]
          /\ issuer'[v] = issuer[v] /\ source'[v] = source[v]]_vars

\* Two sessions that issue the same version at once cannot overwrite each
\* other's issued_by: once set, with or without writes pending, it stays.
IssuerKept ==
    [][\A v \in Versions : issuer[v] # NoOne => issuer'[v] = issuer[v]]_vars

\* Concurrent clones never reach the unique index on (estimate_id,
\* version_number): the lock on the estimates row already gives them distinct
\* numbers, each one above the newest committed version.
ClonesSerialised ==
    /\ \A s \in Sessions : reply[s] # "unique_violation"
    /\ \A s, t \in Sessions : number[s] # 0 /\ number[s] = number[t] => s = t
    /\ \A s \in Sessions : number[s] # 0 => number[s] = Active + 1

\* Every version but the first was cloned from an older, issued version, and
\* version numbers have no gaps, whatever clones failed or died on the way.
Lineage ==
    /\ \A v \in Versions \ {1} : Exists(v) => /\ source[v] \in 1 .. (v - 1)
                                             /\ status[source[v]] = "issued"
    /\ \A v \in Versions : Exists(v) => \A w \in 1 .. v : Exists(w)

\* Every item, of an edited, imported or cloned version, hangs from a chapter
\* of the same version, although the check and the write are two calls and the
\* clone reads chapters and items at two instants.
ItemsHangFromChapters ==
    \A v \in Versions : \A i \in Items :
        HasItem(book[v], i) => HasChapter(book[v], book[v].items[i].ch)

\* The clone never meets an item whose chapter it did not copy, so its insert
\* of boq_items never fails on chapter_id NOT NULL.
CloneNeverUnmapped == \A s \in Sessions : reply[s] # "null_chapter_id"

\* When no admitted write was pending on the source at the clone's first
\* copy, the clone starts with exactly the source's rows and the same total,
\* and the source is still what it was.
CloneKeepsContent ==
    [][\A s \in Sessions :
          pc[s] = "cloneAiu" /\ calm[s] /\ pc'[s] = "idle" /\ reply'[s] = "ok" =>
              /\ book'[number[s]] = book[ver[s]]
              /\ DirectTotal(book'[number[s]]) = DirectTotal(book'[ver[s]])]_vars

\* An import lands in a version that is open and still empty when it lands,
\* not only when its emptiness was checked: no chapter created meanwhile and no
\* second import is mixed with it.
ImportIntoEmpty ==
    [][\A s \in Sessions :
          pc[s] = "importing" /\ pc'[s] = "idle" /\ reply'[s] = "ok" =>
              IsEmpty(book[ver[s]]) /\ ~Locked(ver[s])]_vars

\* Every request that started ends: nobody waits for a row lock for ever.
RequestsEnd == \A s \in Sessions : (pc[s] # "idle") ~> (pc[s] = "idle")

Phase(v) == CASE ~Exists(v) -> "free"
              [] Exists(v) /\ ~Locked(v) -> "open"
              [] Locked(v) /\ InFlight(v) -> "closing"
              [] Frozen(v) -> "frozen"

\* The versions implement the life cycle their readers rely on: opened once in
\* numeric order, edited while open, closed once, then frozen for ever.
Lifecycle == INSTANCE VersionLifecycle WITH
                 Contents <- Book, content <- book, phase <- [v \in Versions |-> Phase(v)]
LifecycleSpec == Lifecycle!Spec

\* Contract: a locked version is immutable.  (docs/ESTIMATE_ISSUE_CLONE_CONTRACT.md, rule 2)
\* A write admitted before the issue breaks it: no run checks it (README, section 7).
LockedIsImmutable ==
    [][\A v \in Versions : Locked(v) => book'[v] = book[v]]_vars

-----------------------------------------------------------------------------
(* Inductive invariant *)

Copying == {"cloneChapters", "cloneItems", "cloneAiu"}
Cloners == {s \in Sessions : pc[s] \in Cloning}
Top(n)  == \A v \in Versions : Exists(v) <=> v <= n

\* versions have no gaps and there is room for the clones under way
Numbered == \E n \in Versions : Top(n) /\ n + Cardinality(Cloners) <= MaxVersion

\* a request works on a version that exists, with the arguments of its kind
Located ==
    \A s \in Sessions :
        /\ pc[s] # "idle" => ver[s] \in Versions /\ Exists(ver[s])
        /\ pc[s] \in {"check", "send", "sent"} => req[s] \in EditRequests
        /\ pc[s] \in {"import", "importing"} => req[s] \in ImportRequests
        /\ pc[s] \in Copying => status[ver[s]] = "issued"

\* rows are never deleted, so what the check has seen is still there
Checked ==
    \A s \in Sessions : pc[s] \in {"send", "sent"} =>
        /\ req[s].op \in OfChapter \ {"createEstimateChapter", "updateBoqItem"}
              => HasChapter(book[ver[s]], req[s].ch)
        /\ req[s].op \in OfItem \ {"createBoqItem"} => HasItem(book[ver[s]], req[s].item)
        /\ req[s].op = "updateBoqItem" => HasChapter(book[ver[s]], req[s].to)

\* at most one clone is past the estimates lock, and it has the next number
CloneLocked ==
    \A s \in Sessions :
        /\ pc[s] \in Copying => estLock = s /\ Top(number[s] - 1) /\ number[s] \in Versions
        /\ pc[s] \notin Copying => estLock # s /\ number[s] = 0

\* an import holds its version, which stays open and empty meanwhile
ImportLocked ==
    /\ \A s \in Sessions : pc[s] = "importing" =>
          verLock[ver[s]] = s /\ status[ver[s]] = "draft" /\ IsEmpty(book[ver[s]])
    /\ \A v \in Versions, s \in Sessions : verLock[v] = s => pc[s] = "importing" /\ ver[s] = v

\* chapters that items, and writes still under way, refer to are in the copy
Mapped ==
    \A s \in Sessions :
        /\ pc[s] = "cloneItems" =>
              /\ \A i \in Items : HasItem(book[ver[s]], i) => HasChapter(copy[s], book[ver[s]].items[i].ch)
              /\ \A t \in Sessions : pc[t] = "sent" /\ ver[t] = ver[s] =>
                    /\ req[t].op = "createBoqItem" => HasChapter(copy[s], req[t].ch)
                    /\ req[t].op = "updateBoqItem" => HasChapter(copy[s], req[t].to)
        /\ pc[s] = "cloneAiu" =>
              \A i \in Items : HasItem(copy[s], i) => HasChapter(copy[s], copy[s].items[i].ch)

\* with no write pending at its first copy, the clone holds the source's rows
CalmCopy ==
    \A s \in Sessions : pc[s] \in {"cloneItems", "cloneAiu"} /\ calm[s] =>
        /\ ~InFlight(ver[s])
        /\ copy[s].chapters = book[ver[s]].chapters
        /\ pc[s] = "cloneAiu" => copy[s].items = book[ver[s]].items

Sourced ==
    /\ \A v \in Versions \ {1} : Exists(v) => source[v] \in 1 .. (v - 1) /\ status[source[v]] = "issued"
    /\ \A v \in Versions : issuer[v] # NoOne => status[v] = "issued"

CleanReplies == \A s \in Sessions : reply[s] \notin {"unique_violation", "null_chapter_id"}

IInv ==
    /\ TypeOK /\ Numbered /\ Located /\ Checked /\ CloneLocked /\ ImportLocked
    /\ Mapped /\ CalmCopy /\ ItemsHangFromChapters /\ Sourced /\ CleanReplies

=============================================================================
