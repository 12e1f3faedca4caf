------------------------ MODULE EstimateVersionsProofs ------------------------
(***************************************************************************)
(* Theorems about EstimateVersions, for any sessions, rows and workload.    *)
(***************************************************************************)
EXTENDS EstimateVersions, FiniteSetTheorems, TLAPS

USE VersionsAssumption
USE DEF EstLockAfter, ImportAdmits, RowUpdatable, NextNumber, CopiedItems, LockedError

-----------------------------------------------------------------------------
(* The operators of the model *)

LEMMA RequestType ==
    ASSUME NEW r \in Requests
    PROVE  /\ r.op \in OfChapter => r.ch \in Chapters
           /\ r.op \in OfItem => r.item \in Items
           /\ r.op = "updateBoqItem" => r.to \in Chapters
           /\ r.val \in Amounts
  BY DEF Requests, OfChapter, OfItem, OfValue

LEMMA NoBookType == NoBook \in Book
  BY DEF NoBook, Book, ChapterRow, ItemRow, RowStates

LEMMA ChapterAfterType ==
    ASSUME NEW r \in Requests, NEW row \in ChapterRow
    PROVE  /\ ChapterAfter(r, row) \in ChapterRow
           /\ row.st # "absent" => ChapterAfter(r, row).st # "absent"
           /\ r.op \notin {"createEstimateChapter", "importBoq"} /\ row.st = "absent"
                 /\ r.op \notin {"archiveEstimateChapter", "restoreEstimateChapter"}
              => ChapterAfter(r, row).st = "absent"
  BY RequestType DEF ChapterAfter, ChapterRow, RowStates

LEMMA ItemAfterType ==
    ASSUME NEW r \in Requests, NEW row \in ItemRow
    PROVE  /\ ItemAfter(r, row) \in ItemRow
           /\ row.st # "absent" => ItemAfter(r, row).st # "absent"
           /\ r.op \notin {"createBoqItem", "importBoq", "archiveBoqItem", "restoreBoqItem"}
                 /\ row.st = "absent"
              => ItemAfter(r, row).st = "absent"
           /\ \/ ItemAfter(r, row).ch = row.ch
              \/ r.op \in {"createBoqItem", "importBoq"} /\ ItemAfter(r, row).ch = r.ch
              \/ r.op = "updateBoqItem" /\ ItemAfter(r, row).ch = r.to
  BY RequestType DEF ItemAfter, ItemRow, RowStates, OfChapter

LEMMA ApplyType ==
    ASSUME NEW r \in Requests, NEW b \in Book
    PROVE  Apply(r, b) \in Book
  BY RequestType, ChapterAfterType, ItemAfterType DEF Apply, Book

LEMMA ActiveIsTop ==
    ASSUME NEW n \in Versions, Top(n)
    PROVE  Active = n
  <1>1. n \in {v \in Versions : Exists(v)} /\ \A v \in {w \in Versions : Exists(w)} : n >= v
    BY DEF Top, Versions
  <1> QED BY <1>1 DEF Active, Max, Versions

LEMMA TopUnique ==
    ASSUME NEW n \in Versions, Top(n), NEW m \in Int, Top(m), 0 <= m, m <= MaxVersion
    PROVE  m = n
  BY DEF Top, Versions

-----------------------------------------------------------------------------
(* The invariant holds initially *)

LEMMA InitInv == Init => IInv
  <1> SUFFICES ASSUME Init PROVE IInv
    OBVIOUS
  <1>1. TypeOK
    BY NoBookType DEF Init, TypeOK, Replies
  <1>2. Numbered
    <2>1. Top(1)
      BY DEF Init, Top, Exists, Versions
    <2>2. Cloners = {}
      BY DEF Init, Cloners, Cloning
    <2> QED BY <2>1, <2>2, FS_EmptySet DEF Numbered, Versions
  <1>3. Located /\ Checked /\ CloneLocked /\ Mapped /\ CalmCopy /\ CleanReplies
    BY DEF Init, Located, Checked, CloneLocked, Mapped, CalmCopy, CleanReplies, Copying
  <1>4. ImportLocked
    BY DEF Init, ImportLocked
  <1>5. ItemsHangFromChapters
    BY DEF Init, ItemsHangFromChapters, HasItem, NoBook
  <1>6. Sourced
    BY DEF Init, Sourced, Exists
  <1> QED BY <1>1, <1>2, <1>3, <1>4, <1>5, <1>6 DEF IInv

-----------------------------------------------------------------------------
(* A request that starts *)

StartKind(r, l) ==
    \/ l = "check" /\ r \in EditRequests
    \/ l = "import" /\ r \in ImportRequests
    \/ l = "issue" /\ r = NoReq
    \/ l = "clone" /\ r = NoReq /\ Active + Cardinality(Cloners) < MaxVersion

BadReplies == {"unique_violation", "null_chapter_id"}

\* an answer is stored as its kind, and only a failure of the clone is a bad one
LEMMA KindType ==
    ASSUME NEW a
    PROVE  Kind(a) \in Replies /\ (a \notin BadReplies => Kind(a) \notin BadReplies)
  BY DEF Kind, Replies, BadReplies

LEMMA StartInv ==
    ASSUME IInv, NEW s \in Sessions, NEW r, NEW l, pc[s] = "idle", StartKind(r, l), Start(s, r, l)
    PROVE  IInv'
  <1> USE DEF IInv, Start, Goto, Answer, Kind, Replies, db, locks, clone
  <1>0. PICK n \in Versions : Top(n) /\ n + Cardinality(Cloners) <= MaxVersion
    BY DEF Numbered
  <1>a. Active = n
    BY <1>0, ActiveIsTop
  <1>b. Exists(Active) /\ Active \in Versions
    BY <1>0, <1>a DEF Top, Versions
  <1>1. TypeOK'
    <2>1. r \in Requests \cup {NoReq} /\ l \in {"check", "import", "issue", "clone"}
      BY DEF StartKind, EditRequests, ImportRequests
    <2>2. Active \in 0 .. MaxVersion
      BY <1>b DEF Versions
    <2> QED BY <2>1, <2>2 DEF TypeOK, Replies
  <1>2. Numbered'
    <2>1. Top(n)'
      BY <1>0 DEF Top, Exists
    <2>2. CASE l = "clone"
      <3>1. Cloners' = Cloners \cup {s}
        BY <2>2 DEF Cloners, Cloning, TypeOK
      <3>2. s \notin Cloners /\ IsFiniteSet(Cloners)
        BY FS_Subset DEF Cloners, Cloning
      <3>3. Cardinality(Cloners') = Cardinality(Cloners) + 1 /\ Cardinality(Cloners) \in Nat
        BY <3>1, <3>2, FS_AddElement, FS_CardinalityType
      <3>4. n + Cardinality(Cloners) < MaxVersion
        BY <2>2, <1>a DEF StartKind
      <3> QED BY <2>1, <3>3, <3>4 DEF Numbered, Versions
    <2>3. CASE l # "clone"
      <3>1. Cloners' = Cloners
        BY <2>3 DEF Cloners, Cloning, TypeOK, StartKind
      <3> QED BY <2>1, <3>1, <1>0 DEF Numbered
    <2> QED BY <2>2, <2>3
  <1>3. Located'
    BY <1>b DEF Located, StartKind, TypeOK, Exists, Copying
  <1>4. Checked' /\ CleanReplies'
    BY DEF Checked, CleanReplies, StartKind, TypeOK
  <1>5. CloneLocked'
    BY DEF CloneLocked, StartKind, TypeOK, Copying, Top, Exists
  <1>6. ImportLocked'
    BY DEF ImportLocked, StartKind, TypeOK
  <1>7. Mapped'
    BY DEF Mapped, StartKind, TypeOK
  <1>8. CalmCopy'
    BY DEF CalmCopy, InFlight, StartKind, TypeOK
  <1>9. ItemsHangFromChapters' /\ Sourced'
    BY DEF ItemsHangFromChapters, Sourced, Exists
  <1> QED BY <1>1, <1>2, <1>3, <1>4, <1>5, <1>6, <1>7, <1>8, <1>9

-----------------------------------------------------------------------------
(* A request that ends *)

\* what Finish does to the sessions, whatever happens to the database
Ended(s, a) ==
    /\ pc'[s] = "idle" /\ number'[s] = 0 /\ ver'[s] = 0 /\ reply'[s] = Kind(a)
    /\ reply' \in [Sessions -> Replies]
    /\ \A t \in Sessions \ {s} :
          /\ pc'[t] = pc[t] /\ req'[t] = req[t] /\ ver'[t] = ver[t] /\ reply'[t] = reply[t]
          /\ number'[t] = number[t] /\ copy'[t] = copy[t] /\ calm'[t] = calm[t]
    /\ estLock' # s /\ estLock' \in Sessions \cup {NoOne}
    /\ \A t \in Sessions \ {s} : estLock' = t <=> estLock = t
    /\ \A v \in Versions : /\ verLock'[v] # s
                           /\ \A t \in Sessions \ {s} : verLock'[v] = t <=> verLock[v] = t
    /\ verLock' \in [Versions -> Sessions \cup {NoOne}]
    /\ pc' \in [Sessions -> {"idle", "check", "send", "sent", "import", "importing", "issue",
                             "clone", "cloneChapters", "cloneItems", "cloneAiu"}]
    /\ req' \in [Sessions -> Requests \cup {NoReq}]
    /\ ver' \in [Sessions -> 0 .. MaxVersion] /\ number' \in [Sessions -> 0 .. MaxVersion]
    /\ copy' \in [Sessions -> Book] /\ calm' \in [Sessions -> BOOLEAN]

LEMMA FinishEnds ==
    ASSUME TypeOK, NEW s \in Sessions, NEW a, Finish(s, a)
    PROVE  Ended(s, a)
  <1>1. /\ pc'[s] = "idle" /\ number'[s] = 0 /\ ver'[s] = 0 /\ reply'[s] = Kind(a)
        /\ reply' \in [Sessions -> Replies]
    BY KindType DEF TypeOK, Finish, Goto, Answer
  <1>2. \A t \in Sessions \ {s} :
          /\ pc'[t] = pc[t] /\ req'[t] = req[t] /\ ver'[t] = ver[t] /\ reply'[t] = reply[t]
          /\ number'[t] = number[t] /\ copy'[t] = copy[t] /\ calm'[t] = calm[t]
    BY DEF TypeOK, Finish, Goto, Answer
  <1>3. /\ estLock' # s /\ estLock' \in Sessions \cup {NoOne}
        /\ \A t \in Sessions \ {s} : estLock' = t <=> estLock = t
    BY DEF TypeOK, Finish
  <1>4. /\ \A v \in Versions : /\ verLock'[v] # s
                              /\ \A t \in Sessions \ {s} : verLock'[v] = t <=> verLock[v] = t
        /\ verLock' \in [Versions -> Sessions \cup {NoOne}]
    BY DEF TypeOK, Finish
  <1>5. /\ pc' \in [Sessions -> {"idle", "check", "send", "sent", "import", "importing", "issue",
                                 "clone", "cloneChapters", "cloneItems", "cloneAiu"}]
        /\ req' \in [Sessions -> Requests \cup {NoReq}]
        /\ ver' \in [Sessions -> 0 .. MaxVersion] /\ number' \in [Sessions -> 0 .. MaxVersion]
    BY DEF TypeOK, Finish, Goto
  <1>6. copy' \in [Sessions -> Book] /\ calm' \in [Sessions -> BOOLEAN]
    BY NoBookType DEF TypeOK, Finish
  <1> QED BY <1>1, <1>2, <1>3, <1>4, <1>5, <1>6 DEF Ended

LEMMA FinishCloners ==
    ASSUME TypeOK, NEW s \in Sessions, NEW a, Finish(s, a)
    PROVE  /\ Cardinality(Cloners') \in Nat /\ Cardinality(Cloners) \in Nat
           /\ Cardinality(Cloners') <= Cardinality(Cloners)
           /\ s \in Cloners => Cardinality(Cloners') = Cardinality(Cloners) - 1
  <1>1. Cloners' = Cloners \ {s}
    BY FinishEnds DEF Ended, Cloners, Cloning, TypeOK
  <1>2. IsFiniteSet(Cloners)
    BY FS_Subset DEF Cloners
  <1>3. /\ IsFiniteSet(Cloners')
        /\ Cardinality(Cloners') = IF s \in Cloners THEN Cardinality(Cloners) - 1
                                   ELSE Cardinality(Cloners)
    BY <1>1, <1>2, FS_RemoveElement
  <1>4. Cardinality(Cloners) \in Nat /\ Cardinality(Cloners') \in Nat
    BY <1>2, <1>3, FS_CardinalityType
  <1> QED BY <1>3, <1>4

\* a request that leaves the database alone
LEMMA FinishInv ==
    ASSUME IInv, NEW s \in Sessions, NEW a, a \notin BadReplies, Finish(s, a), UNCHANGED db
    PROVE  IInv'
  <1>e. Ended(s, a)
    BY FinishEnds DEF IInv
  <1> USE <1>e DEF Ended, IInv, db
  <1>1. TypeOK'
    BY DEF TypeOK
  <1>2. Numbered'
    <2>1. PICK n \in Versions : Top(n) /\ n + Cardinality(Cloners) <= MaxVersion
      BY DEF Numbered
    <2>2. Top(n)'
      BY <2>1 DEF Top, Exists
    <2> QED BY <2>1, <2>2, FinishCloners DEF Numbered, Versions
  <1>3. Located'
    BY DEF Located, Exists, Copying
  <1>4. Checked' /\ CleanReplies'
    BY KindType DEF Checked, CleanReplies, BadReplies
  <1>5. CloneLocked'
    BY DEF CloneLocked, Copying, Top, Exists
  <1>6. ImportLocked'
    BY DEF ImportLocked, Located, IsEmpty, HasChapter, HasItem
  <1>7. Mapped'
    BY DEF Mapped
  <1>8. CalmCopy'
    BY DEF CalmCopy, InFlight
  <1>9. ItemsHangFromChapters' /\ Sourced'
    BY DEF ItemsHangFromChapters, Sourced, Exists
  <1> QED BY <1>1, <1>2, <1>3, <1>4, <1>5, <1>6, <1>7, <1>8, <1>9

-----------------------------------------------------------------------------
(* A request that goes on without touching the database *)

\* what the second read of a request establishes
RowSeen(s) ==
    /\ req[s].op \in OfChapter \ {"createEstimateChapter", "updateBoqItem"}
          => HasChapter(book[ver[s]], req[s].ch)
    /\ req[s].op \in OfItem \ {"createBoqItem"} => HasItem(book[ver[s]], req[s].item)
    /\ req[s].op = "updateBoqItem" => HasChapter(book[ver[s]], req[s].to)

\* the parts that no step of this kind can disturb
LEMMA SameCloners ==
    ASSUME TypeOK, Numbered, NEW s \in Sessions, NEW l, Goto(s, l), UNCHANGED status,
           pc[s] \in Cloning <=> l \in Cloning
    PROVE  Numbered'
  <1>1. Cloners' = Cloners
    BY DEF Cloners, Cloning, TypeOK, Goto
  <1> QED BY <1>1 DEF Numbered, Top, Exists

LEMMA SendInv ==
    ASSUME IInv, NEW s \in Sessions, pc[s] = "check", RowSeen(s), Goto(s, "send"),
           UNCHANGED <<db, req, ver, reply, locks, clone>>
    PROVE  IInv'
  <1> USE DEF IInv, Goto, db, locks, clone
  <1>1. TypeOK'
    BY DEF TypeOK
  <1>2. Numbered'
    BY SameCloners DEF Cloning
  <1>3. Located' /\ CleanReplies'
    BY DEF Located, CleanReplies, TypeOK, Exists, Copying
  <1>4. Checked'
    BY DEF Checked, RowSeen, TypeOK, HasChapter, HasItem
  <1>5. CloneLocked'
    BY DEF CloneLocked, TypeOK, Copying, Top, Exists
  <1>6. ImportLocked'
    BY DEF ImportLocked, TypeOK, IsEmpty, HasChapter, HasItem
  <1>7. Mapped'
    <2>1. \A t \in Sessions : pc'[t] \in {"sent", "cloneItems", "cloneAiu"} => pc[t] = pc'[t]
      BY DEF TypeOK
    <2>2. Mapped /\ UNCHANGED <<book, req, ver, copy>>
      OBVIOUS
    <2> QED BY ONLY <2>1, <2>2 DEF Mapped, HasChapter, HasItem
  <1>8. CalmCopy'
    BY DEF CalmCopy, InFlight, TypeOK
  <1>9. ItemsHangFromChapters' /\ Sourced'
    BY DEF ItemsHangFromChapters, Sourced, Exists, HasChapter, HasItem
  <1> QED BY <1>1, <1>2, <1>3, <1>4, <1>5, <1>6, <1>7, <1>8, <1>9

LEMMA CheckRowInv ==
    ASSUME IInv, NEW s \in Sessions, NEW op, NEW ok \in BOOLEAN, NEW a, a \notin BadReplies,
           CheckRow(s, op, ok, a), ok /\ req[s].op = op => RowSeen(s)
    PROVE  IInv'
  BY SendInv, FinishInv DEF CheckRow

LEMMA CheckInv ==
    ASSUME IInv, NEW s \in Sessions, Check(s)
    PROVE  IInv'
  <1> USE CheckRowInv DEF RowSeen, AssertChapterInVersion, Replies, BadReplies, OfChapter, OfItem
  <1>1. CASE CreateEstimateChapter(s)
    BY <1>1 DEF CreateEstimateChapter
  <1>2. CASE UpdateEstimateChapter(s)
    BY <1>2 DEF UpdateEstimateChapter, HasChapter
  <1>3. CASE ArchiveEstimateChapter(s)
    BY <1>3 DEF ArchiveEstimateChapter, HasChapter
  <1>4. CASE RestoreEstimateChapter(s)
    BY <1>4 DEF RestoreEstimateChapter, HasChapter
  <1>5. CASE CreateBoqItem(s)
    BY <1>5 DEF CreateBoqItem, HasChapter
  <1>6. CASE UpdateBoqItem(s)
    BY <1>6 DEF UpdateBoqItem, HasChapter, HasItem
  <1>7. CASE ArchiveBoqItem(s)
    BY <1>7 DEF ArchiveBoqItem, HasItem
  <1>8. CASE RestoreBoqItem(s)
    BY <1>8 DEF RestoreBoqItem, HasItem
  <1>9. CASE UpdateEstimateVersionAiu(s)
    BY <1>9 DEF UpdateEstimateVersionAiu
  <1> QED BY <1>1, <1>2, <1>3, <1>4, <1>5, <1>6, <1>7, <1>8, <1>9 DEF Check

LEMMA AdmitInv ==
    ASSUME IInv, NEW s \in Sessions, Admit(s)
    PROVE  IInv'
  <1>a. CASE ~RlsAdmits(ver[s])
    BY <1>a, FinishInv DEF Admit, Replies, BadReplies
  <1>b. CASE RlsAdmits(ver[s])
    <2> USE <1>b DEF IInv, Admit, RlsAdmits, Goto, db, locks, clone
    <2>0. status[ver[s]] # "issued"
      BY DEF Locked, LockedStatuses
    <2>1. TypeOK'
      BY DEF TypeOK
    <2>2. Numbered'
      BY SameCloners DEF Cloning
    <2>3. Located' /\ CleanReplies'
      BY DEF Located, CleanReplies, TypeOK, Exists, Copying
    <2>4. Checked'
      BY DEF Checked, TypeOK, HasChapter, HasItem
    <2>5. CloneLocked'
      BY DEF CloneLocked, TypeOK, Copying, Top, Exists
    <2>6. ImportLocked'
      BY DEF ImportLocked, TypeOK, IsEmpty, HasChapter, HasItem
    <2>7. Mapped'
      <3>1. \A t \in Sessions : pc'[t] \in {"cloneItems", "cloneAiu"} => pc[t] = pc'[t] /\ ver[t] # ver[s]
        BY <2>0 DEF TypeOK, Located, Copying
      <3>2. \A t \in Sessions : pc'[t] = "sent" => t = s \/ pc[t] = "sent"
        BY DEF TypeOK
      <3>3. Mapped /\ UNCHANGED <<book, req, ver, copy>>
        OBVIOUS
      <3> QED BY ONLY <3>1, <3>2, <3>3 DEF Mapped, HasChapter, HasItem
    <2>8. CalmCopy'
      BY <2>0 DEF CalmCopy, InFlight, Located, Copying, TypeOK
    <2>9. ItemsHangFromChapters' /\ Sourced'
      BY DEF ItemsHangFromChapters, Sourced, Exists, HasChapter, HasItem
    <2> QED BY <2>1, <2>2, <2>3, <2>4, <2>5, <2>6, <2>7, <2>8, <2>9
  <1> QED BY <1>a, <1>b

-----------------------------------------------------------------------------
(* Writes to the rows of a version *)

\* rows never vanish
LEMMA ApplyKeeps ==
    ASSUME NEW r \in Requests, NEW b \in Book
    PROVE  /\ \A c : HasChapter(b, c) => HasChapter(Apply(r, b), c)
           /\ \A i : HasItem(b, i) => HasItem(Apply(r, b), i)
  BY ChapterAfterType, ItemAfterType DEF Apply, Book, HasChapter, HasItem

\* the rows request r needs in book b
Needs(r, b) ==
    /\ r.op \in {"updateEstimateChapter", "archiveEstimateChapter", "restoreEstimateChapter",
                "createBoqItem"} => HasChapter(b, r.ch)
    /\ r.op \in {"updateBoqItem", "archiveBoqItem", "restoreBoqItem"} => HasItem(b, r.item)
    /\ r.op = "updateBoqItem" => HasChapter(b, r.to)

\* an item of the new rows is an old one in its old chapter, or was put in r's chapter
LEMMA ApplyItem ==
    ASSUME NEW r \in Requests, NEW b \in Book, Needs(r, b), NEW i \in Items, HasItem(Apply(r, b), i)
    PROVE  \/ HasItem(b, i) /\ Apply(r, b).items[i].ch = b.items[i].ch
           \/ r.op \in {"createBoqItem", "importBoq"} /\ Apply(r, b).items[i].ch = r.ch
           \/ r.op = "updateBoqItem" /\ Apply(r, b).items[i].ch = r.to
  <1>1. b.items[i] \in ItemRow
    BY DEF Book
  <1>2. CASE i # r.item
    BY <1>2 DEF Apply, HasItem
  <1>3. CASE i = r.item /\ r.op \in {"createBoqItem", "importBoq"}
    BY <1>3 DEF Apply, ItemAfter
  <1>4. CASE i = r.item /\ r.op \notin {"createBoqItem", "importBoq"}
    <2>1. r.op \in OfItem
      BY <1>4 DEF Requests
    <2>2. HasItem(b, i)
      BY <1>4, <2>1 DEF Needs, OfItem
    <2> QED BY <1>1, <1>4, <2>2, ItemAfterType DEF Apply
  <1> QED BY <1>2, <1>3, <1>4

LEMMA ApplyHangs ==
    ASSUME NEW r \in Requests, NEW b \in Book, Needs(r, b),
           \A i \in Items : HasItem(b, i) => HasChapter(b, b.items[i].ch)
    PROVE  \A i \in Items : HasItem(Apply(r, b), i) => HasChapter(Apply(r, b), Apply(r, b).items[i].ch)
  <1> SUFFICES ASSUME NEW i \in Items, HasItem(Apply(r, b), i)
               PROVE  HasChapter(Apply(r, b), Apply(r, b).items[i].ch)
    OBVIOUS
  <1>1. CASE r.op = "importBoq" /\ Apply(r, b).items[i].ch = r.ch
    BY <1>1, RequestType DEF Apply, ChapterAfter, HasChapter, OfChapter
  <1> QED BY <1>1, ApplyItem, ApplyKeeps DEF Needs

LEMMA ApplyEmpty ==
    ASSUME NEW r \in Requests, NEW b \in Book, Needs(r, b), IsEmpty(b),
           r.op \notin {"createEstimateChapter", "createBoqItem", "importBoq"}
    PROVE  IsEmpty(Apply(r, b))
  <1>1. r.op = "updateEstimateVersionAiu"
    BY DEF Needs, IsEmpty, Requests, OfChapter, OfItem, OfValue, HasItem, HasChapter
  <1>2. r.ch = NoOne /\ r.item = NoOne
    BY <1>1 DEF Requests, OfChapter, OfItem
  <1> QED BY <1>2 DEF IsEmpty, HasChapter, HasItem, Apply

LEMMA EditInv ==
    ASSUME IInv, NEW s \in Sessions, Finish(s, "ok"), UNCHANGED <<status, source, issuer>>,
           pc[s] \in {"sent", "importing"},
           pc[s] = "sent" /\ InsertsRow(req[s], book[ver[s]]) => verLock[ver[s]] = NoOne,
           book' = [book EXCEPT ![ver[s]] = Apply(req[s], @)]
    PROVE  IInv'
  <1> DEFINE v == ver[s]
             r == req[s]
  <1> USE DEF IInv
  <1>e. Ended(s, "ok")
    BY FinishEnds DEF Replies
  <1>t. TypeOK
    OBVIOUS
  <1>v. v \in Versions /\ book[v] \in Book /\ r \in Requests
        /\ (pc[s] = "sent" <=> r.op # "importBoq") /\ (pc[s] = "importing" => status[v] = "draft")
    BY DEF Located, TypeOK, EditRequests, ImportRequests, ImportLocked
  <1>n. Needs(r, book[v])
    BY <1>v DEF Checked, Needs, OfChapter, OfItem
  <1>k. /\ \A w \in Versions : w # v => book'[w] = book[w]
        /\ book'[v] = Apply(r, book[v])
        /\ \A w \in Versions : \A c : HasChapter(book[w], c) => HasChapter(book'[w], c)
        /\ \A w \in Versions : \A i : HasItem(book[w], i) => HasItem(book'[w], i)
    BY <1>v, ApplyKeeps DEF TypeOK
  <1>1. TypeOK'
    <2>1. book' \in [Versions -> Book]
      BY <1>v, ApplyType DEF TypeOK
    <2> QED BY <1>e, <2>1 DEF Ended, TypeOK
  <1>2. Numbered'
    <2>1. PICK n \in Versions : Top(n) /\ n + Cardinality(Cloners) <= MaxVersion
      BY DEF Numbered
    <2>2. Top(n)'
      BY <2>1 DEF Top, Exists
    <2> QED BY <1>t, <2>1, <2>2, FinishCloners DEF Numbered, Versions
  <1>3. Located' /\ CleanReplies' /\ CloneLocked'
    BY <1>e DEF Ended, Kind, Replies, Located, CleanReplies, CloneLocked, Exists, Copying, Top
  <1>4. Checked'
    <2>1. \A t \in Sessions : pc'[t] \in {"send", "sent"} =>
             pc[t] = pc'[t] /\ req'[t] = req[t] /\ ver'[t] = ver[t] /\ ver[t] \in Versions
      BY <1>e DEF Ended, Located
    <2>2. Checked
      OBVIOUS
    <2> QED BY ONLY <1>k, <2>1, <2>2 DEF Checked
  <1>6. ImportLocked'
    <2>1. ASSUME NEW t \in Sessions, pc'[t] = "importing"
          PROVE  verLock'[ver'[t]] = t /\ status'[ver'[t]] = "draft" /\ IsEmpty(book'[ver'[t]])
      <3>1. t # s /\ pc[t] = "importing" /\ ver'[t] = ver[t] /\ ver[t] \in Versions
            /\ verLock[ver[t]] = t /\ IsEmpty(book[ver[t]]) /\ status[ver[t]] = "draft"
        BY <1>e, <2>1 DEF Ended, ImportLocked, Located
      <3>2. CASE ver[t] # v
        BY <1>e, <1>k, <3>1, <3>2 DEF Ended
      <3>3. CASE ver[t] = v
        <4>1. pc[s] = "sent" /\ verLock[v] # NoOne
          BY <3>1, <3>3 DEF ImportLocked
        <4>2. r.op \notin {"createEstimateChapter", "createBoqItem", "importBoq"}
          BY <4>1, <1>v DEF InsertsRow
        <4> QED BY <1>e, <1>k, <1>v, <1>n, <3>1, <3>3, <4>2, ApplyEmpty DEF Ended
      <3> QED BY <3>2, <3>3
    <2>2. \A w \in Versions, t \in Sessions : verLock'[w] = t => pc'[t] = "importing" /\ ver'[t] = w
      BY <1>e DEF Ended, ImportLocked
    <2> QED BY ONLY <2>1, <2>2 DEF ImportLocked
  <1>7. Mapped'
    <2>0. \A t \in Sessions : pc'[t] # "idle" =>
             t # s /\ pc[t] = pc'[t] /\ ver'[t] = ver[t] /\ req'[t] = req[t] /\ copy'[t] = copy[t]
             /\ ver[t] \in Versions
      BY <1>e DEF Ended, Located
    <2>1. ASSUME NEW t \in Sessions, pc'[t] = "cloneItems", NEW i \in Items, HasItem(book'[ver[t]], i)
          PROVE  HasChapter(copy[t], book'[ver[t]].items[i].ch)
      <3>1. pc[t] = "cloneItems" /\ ver[t] \in Versions /\ status[ver[t]] = "issued"
        BY <2>0, <2>1 DEF Located, Copying
      <3>2. CASE ver[t] # v
        BY <1>k, <2>1, <3>1, <3>2 DEF Mapped
      <3>3. CASE ver[t] = v
        <4>1. pc[s] = "sent"
          BY <1>v, <3>1, <3>3
        <4>2. /\ HasItem(book[v], i) => HasChapter(copy[t], book[v].items[i].ch)
              /\ r.op = "createBoqItem" => HasChapter(copy[t], r.ch)
              /\ r.op = "updateBoqItem" => HasChapter(copy[t], r.to)
          BY <3>1, <3>3, <4>1 DEF Mapped
        <4>3. HasItem(Apply(r, book[v]), i)
          BY <1>k, <2>1, <3>3
        <4> QED BY <1>k, <1>v, <1>n, <3>3, <4>1, <4>2, <4>3, ApplyItem
      <3> QED BY <3>2, <3>3
    <2>2. Mapped
      OBVIOUS
    <2> QED BY ONLY <2>0, <2>1, <2>2 DEF Mapped
  <1>8. CalmCopy'
    <2>1. ASSUME NEW t \in Sessions, pc'[t] \in {"cloneItems", "cloneAiu"}, calm'[t]
          PROVE  /\ t # s /\ pc[t] = pc'[t] /\ calm[t] /\ ver'[t] = ver[t] /\ copy'[t] = copy[t]
                 /\ ver[t] # v /\ ver[t] \in Versions
      <3>1. t # s /\ pc[t] = pc'[t] /\ calm[t] /\ ver'[t] = ver[t] /\ copy'[t] = copy[t]
            /\ status[ver[t]] = "issued" /\ ver[t] \in Versions
        BY <1>e, <2>1 DEF Ended, Located, Copying
      <3>2. pc[s] = "sent" => ver[t] # v
        BY <2>1, <3>1 DEF CalmCopy, InFlight
      <3> QED BY <1>v, <3>1, <3>2
    <2>2. \A w \in Versions : InFlight(w)' => InFlight(w)
      BY <1>e DEF Ended, InFlight
    <2>3. CalmCopy
      OBVIOUS
    <2> QED BY ONLY <1>k, <2>1, <2>2, <2>3 DEF CalmCopy
  <1>9. ItemsHangFromChapters'
    <2>1. \A i \in Items : HasItem(Apply(r, book[v]), i)
             => HasChapter(Apply(r, book[v]), Apply(r, book[v]).items[i].ch)
      BY <1>v, <1>n, ApplyHangs DEF ItemsHangFromChapters
    <2>2. ItemsHangFromChapters
      OBVIOUS
    <2> QED BY ONLY <1>k, <1>v, <2>1, <2>2 DEF ItemsHangFromChapters
  <1>10. Sourced'
    BY DEF Sourced, Exists
  <1> QED BY <1>1, <1>2, <1>3, <1>4, <1>6, <1>7, <1>8, <1>9, <1>10

LEMMA CommitInv ==
    ASSUME IInv, NEW s \in Sessions, Commit(s) \/ ImportCommit(s)
    PROVE  IInv'
  BY EditInv DEF Commit, ImportCommit

-----------------------------------------------------------------------------
(* Issue and import locks *)

LEMMA IssueInv ==
    ASSUME IInv, NEW s \in Sessions, IssueUpdate(s)
    PROVE  IInv'
  <1> DEFINE v == ver[s]
  <1>a. CASE Locked(v)
    BY <1>a, FinishInv DEF IssueUpdate, Replies, BadReplies, db
  <1>b. CASE ~Locked(v)
    <2> USE DEF IInv
    <2>e. Ended(s, "ok")
      BY FinishEnds DEF IssueUpdate, Replies
    <2>t. TypeOK /\ "ok" \in Replies /\ Finish(s, "ok")
      BY DEF IssueUpdate, Replies
    <2>v. v \in Versions /\ status[v] = "draft" /\ verLock[v] = NoOne
      BY <1>b DEF IssueUpdate, Located, Exists, Locked, LockedStatuses, TypeOK
    <2>u. /\ status' = [status EXCEPT ![v] = "issued"] /\ issuer' = [issuer EXCEPT ![v] = s]
          /\ UNCHANGED <<source, book>>
      BY <1>b DEF IssueUpdate
    <2>x. \A w \in Versions : Exists(w)' <=> Exists(w)
      BY <2>u, <2>v DEF Exists, TypeOK
    <2>1. TypeOK'
      BY <2>e, <2>u DEF Ended, TypeOK
    <2>2. Numbered'
      <3>1. PICK n \in Versions : Top(n) /\ n + Cardinality(Cloners) <= MaxVersion
        BY DEF Numbered
      <3>2. Top(n)'
        BY <2>x, <3>1 DEF Top
      <3> QED BY <2>t, <3>1, <3>2, FinishCloners DEF Numbered, Versions
    <2>3. Located' /\ CleanReplies'
      BY <2>e, <2>u, <2>v, <2>x DEF Ended, Kind, Replies, Located, CleanReplies, Copying, TypeOK
    <2>4. Checked'
      BY <2>e, <2>u DEF Ended, Checked
    <2>5. CloneLocked'
      BY <2>e, <2>x DEF Ended, CloneLocked, Copying, Top
    <2>6. ImportLocked'
      BY <2>e, <2>u, <2>v DEF Ended, ImportLocked, Located, TypeOK, IsEmpty, HasChapter, HasItem
    <2>7. Mapped'
      BY <2>e, <2>u DEF Ended, Mapped
    <2>8. CalmCopy'
      BY <2>e, <2>u DEF Ended, CalmCopy, InFlight
    <2>9. ItemsHangFromChapters'
      BY <2>u DEF ItemsHangFromChapters
    <2>10. Sourced'
      BY <2>u, <2>v, <2>x DEF Sourced, TypeOK
    <2> QED BY <2>1, <2>2, <2>3, <2>4, <2>5, <2>6, <2>7, <2>8, <2>9, <2>10
  <1> QED BY <1>a, <1>b

LEMMA ImportLockInv ==
    ASSUME IInv, NEW s \in Sessions, ImportLock(s)
    PROVE  IInv'
  <1> DEFINE v == ver[s]
  <1>a. CASE ~(~Locked(v) /\ IsEmpty(book[v]))
    BY <1>a, FinishInv DEF ImportLock, Replies, BadReplies
  <1>b. CASE ~Locked(v) /\ IsEmpty(book[v])
    <2> USE <1>b DEF IInv, ImportLock, Goto, db, clone
    <2>v. v \in Versions /\ status[v] = "draft"
      BY DEF Located, Exists, Locked, LockedStatuses, TypeOK
    <2>1. TypeOK'
      BY DEF TypeOK
    <2>2. Numbered'
      BY SameCloners DEF Cloning
    <2>3. Located' /\ CleanReplies'
      BY DEF Located, CleanReplies, TypeOK, Exists, Copying
    <2>4. Checked'
      BY DEF Checked, TypeOK, HasChapter, HasItem
    <2>5. CloneLocked'
      BY DEF CloneLocked, TypeOK, Copying, Top, Exists
    <2>6. ImportLocked'
      BY <2>v DEF ImportLocked, Located, TypeOK, IsEmpty, HasChapter, HasItem
    <2>7. Mapped'
      <3>1. \A t \in Sessions : pc'[t] \in {"sent", "cloneItems", "cloneAiu"} => pc[t] = pc'[t]
        BY DEF TypeOK
      <3>2. Mapped /\ UNCHANGED <<book, req, ver, copy>>
        OBVIOUS
      <3> QED BY ONLY <3>1, <3>2 DEF Mapped, HasChapter, HasItem
    <2>8. CalmCopy'
      BY DEF CalmCopy, InFlight, TypeOK
    <2>9. ItemsHangFromChapters' /\ Sourced'
      BY DEF ItemsHangFromChapters, Sourced, Exists, HasChapter, HasItem
    <2> QED BY <2>1, <2>2, <2>3, <2>4, <2>5, <2>6, <2>7, <2>8, <2>9
  <1> QED BY <1>a, <1>b

-----------------------------------------------------------------------------
(* Clone *)

LEMMA CloneLockInv ==
    ASSUME IInv, NEW s \in Sessions, CloneLock(s)
    PROVE  IInv'
  <1>a. CASE status[ver[s]] # "issued"
    BY <1>a, FinishInv DEF CloneLock, Replies, BadReplies
  <1>b. CASE status[ver[s]] = "issued"
    <2> USE <1>b DEF IInv, CloneLock, LockFree, Goto, db
    <2>0. PICK n \in Versions : Top(n) /\ n + Cardinality(Cloners) <= MaxVersion
      BY DEF Numbered
    <2>a. Active = n
      BY <2>0, ActiveIsTop
    <2>b. n + 1 \in Versions
      <3>1. s \in Cloners /\ IsFiniteSet(Cloners)
        BY FS_Subset DEF Cloners, Cloning
      <3>2. Cardinality(Cloners) # 0 /\ Cardinality(Cloners) \in Nat
        BY <3>1, FS_EmptySet, FS_CardinalityType
      <3> QED BY <2>0, <3>2 DEF Versions
    <2>u. /\ number' = [number EXCEPT ![s] = n + 1] /\ estLock' = s
          /\ pc' = [pc EXCEPT ![s] = "cloneChapters"]
          /\ UNCHANGED <<status, source, issuer, book, req, ver, reply, verLock, copy, calm>>
      BY <2>a
    <2>1. TypeOK'
      <3>1. TypeOK /\ n + 1 \in 0 .. MaxVersion
        BY <2>b DEF Versions
      <3> QED BY ONLY <2>u, <3>1, s \in Sessions DEF TypeOK
    <2>2. Numbered'
      BY SameCloners DEF Cloning
    <2>3. Located' /\ CleanReplies'
      BY DEF Located, CleanReplies, TypeOK, Exists, Copying
    <2>4. Checked'
      BY DEF Checked, TypeOK, HasChapter, HasItem
    <2>5. CloneLocked'
      <3>1. \A t \in Sessions : pc[t] \notin Copying
        BY DEF CloneLocked
      <3>2. \A w \in Versions : status'[w] # "none" <=> w <= n
        BY <2>0, <2>u DEF Top, Exists
      <3>3. number'[s] = n + 1 /\ number'[s] - 1 = n
        BY <2>u DEF Versions, TypeOK
      <3>4. TypeOK /\ CloneLocked
        OBVIOUS
      <3>5. \A w \in Versions : status'[w] # "none" <=> w <= number'[s] - 1
        BY ONLY <3>2, <3>3
      <3>6. pc'[s] \in Copying /\ \A t \in Sessions \ {s} :
                pc'[t] \notin Copying /\ number'[t] = 0 /\ estLock' # t
        BY ONLY <2>u, <3>1, <3>4, s \in Sessions DEF CloneLocked, TypeOK, Copying
      <3> QED BY ONLY <2>b, <2>u, <3>3, <3>5, <3>6 DEF CloneLocked, Top, Exists
    <2>6. ImportLocked'
      BY DEF ImportLocked, TypeOK, IsEmpty, HasChapter, HasItem
    <2>7. Mapped'
      <3>1. \A t \in Sessions : pc'[t] \in {"sent", "cloneItems", "cloneAiu"} => pc[t] = pc'[t]
        BY DEF TypeOK
      <3>2. Mapped /\ UNCHANGED <<book, req, ver, copy>>
        OBVIOUS
      <3> QED BY ONLY <3>1, <3>2 DEF Mapped, HasChapter, HasItem
    <2>8. CalmCopy'
      BY DEF CalmCopy, InFlight, TypeOK
    <2>9. ItemsHangFromChapters' /\ Sourced'
      BY DEF ItemsHangFromChapters, Sourced, Exists, HasChapter, HasItem
    <2> QED BY <2>1, <2>2, <2>3, <2>4, <2>5, <2>6, <2>7, <2>8, <2>9
  <1> QED BY <1>a, <1>b

\* at most one session copies, so the copies of the others are of no concern
LEMMA OneCopies ==
    ASSUME IInv, NEW s \in Sessions, NEW t \in Sessions, pc[s] \in Copying, pc[t] \in Copying
    PROVE  s = t
  BY DEF IInv, CloneLocked

LEMMA CloneChaptersInv ==
    ASSUME IInv, NEW s \in Sessions, CloneChapters(s)
    PROVE  IInv'
  <1> USE DEF IInv, CloneChapters, Goto, db, locks
  <1>o. \A t \in Sessions : pc[t] \in Copying => t = s
    BY OneCopies DEF Copying
  <1>v. ver[s] \in Versions /\ book[ver[s]] \in Book
        /\ copy \in [Sessions -> Book] /\ calm \in [Sessions -> BOOLEAN]
    BY DEF Located, TypeOK
  <1>c. copy'[s].chapters = book[ver[s]].chapters /\ pc'[s] = "cloneItems"
        /\ calm'[s] = ~InFlight(ver[s]) /\ \A t \in Sessions : t # s => pc'[t] = pc[t]
    BY <1>v DEF TypeOK, Book
  <1>1. TypeOK'
    <2>1. /\ copy' = [copy EXCEPT ![s].chapters = book[ver[s]].chapters]
          /\ calm' = [calm EXCEPT ![s] = ~InFlight(ver[s])]
          /\ pc' = [pc EXCEPT ![s] = "cloneItems"]
          /\ UNCHANGED <<status, source, issuer, book, req, ver, reply, estLock, verLock, number>>
      OBVIOUS
    <2>2. copy' \in [Sessions -> Book]
      BY ONLY <1>v, <2>1 DEF Book
    <2>3. calm' \in [Sessions -> BOOLEAN]
      BY ONLY <1>v, <2>1
    <2>4. TypeOK
      OBVIOUS
    <2> QED BY ONLY <2>1, <2>2, <2>3, <2>4 DEF TypeOK
  <1>2. Numbered'
    BY SameCloners DEF Cloning
  <1>3. Located' /\ CleanReplies'
    BY DEF Located, CleanReplies, TypeOK, Exists, Copying
  <1>4. Checked'
    BY DEF Checked, TypeOK, HasChapter, HasItem
  <1>5. CloneLocked'
    BY DEF CloneLocked, TypeOK, Copying, Top, Exists
  <1>6. ImportLocked'
    BY DEF ImportLocked, TypeOK, IsEmpty, HasChapter, HasItem
  <1>7. Mapped'
    <2>1. \A t \in Sessions : pc'[t] \in {"cloneItems", "cloneAiu"} => t = s
      BY <1>o, <1>c DEF Copying
    <2>2. \A t \in Sessions : pc'[t] = "sent" => pc[t] = "sent"
      BY <1>c
    <2>3. \A c : HasChapter(book[ver[s]], c) => HasChapter(copy'[s], c)
      BY <1>c DEF HasChapter
    <2>4. ItemsHangFromChapters /\ Checked /\ UNCHANGED <<book, req, ver>>
      OBVIOUS
    <2> QED BY ONLY <1>c, <1>v, <2>1, <2>2, <2>3, <2>4
            DEF Mapped, ItemsHangFromChapters, Checked, OfChapter
  <1>8. CalmCopy'
    <2>1. \A t \in Sessions : pc'[t] \in {"cloneItems", "cloneAiu"} => t = s
      BY <1>o, <1>c DEF Copying
    <2>2. \A w : InFlight(w)' => InFlight(w)
      BY <1>c DEF InFlight
    <2>3. UNCHANGED <<book, ver>>
      OBVIOUS
    <2> QED BY ONLY <1>c, <2>1, <2>2, <2>3 DEF CalmCopy
  <1>9. ItemsHangFromChapters' /\ Sourced'
    BY DEF ItemsHangFromChapters, Sourced, Exists, HasChapter, HasItem
  <1> QED BY <1>1, <1>2, <1>3, <1>4, <1>5, <1>6, <1>7, <1>8, <1>9

LEMMA CloneItemsInv ==
    ASSUME IInv, NEW s \in Sessions, CloneItems(s)
    PROVE  IInv'
  <1> USE DEF IInv, CloneItems, Goto, db, locks
  <1>u. Unmapped(s) = {}
    BY DEF Unmapped, Mapped
  <1>o. \A t \in Sessions : pc[t] \in Copying => t = s
    BY OneCopies DEF Copying
  <1>v. ver[s] \in Versions /\ book[ver[s]] \in Book /\ copy \in [Sessions -> Book]
    BY DEF Located, TypeOK
  <1>c. /\ copy'[s].items = book[ver[s]].items /\ copy'[s].chapters = copy[s].chapters
        /\ pc[s] = "cloneItems" /\ pc'[s] = "cloneAiu" /\ \A t \in Sessions : t # s => pc'[t] = pc[t]
    BY <1>u, <1>v DEF TypeOK, Book
  <1>1. TypeOK'
    <2>1. /\ copy' = [copy EXCEPT ![s].items = book[ver[s]].items]
          /\ pc' = [pc EXCEPT ![s] = "cloneAiu"]
          /\ UNCHANGED <<status, source, issuer, book, req, ver, reply, estLock, verLock, number, calm>>
      BY <1>u
    <2>2. copy' \in [Sessions -> Book]
      BY ONLY <1>v, <2>1 DEF Book
    <2>3. TypeOK
      OBVIOUS
    <2> QED BY ONLY <2>1, <2>2, <2>3 DEF TypeOK
  <1>2. Numbered'
    BY <1>u, SameCloners DEF Cloning
  <1>3. Located' /\ CleanReplies'
    BY <1>u DEF Located, CleanReplies, TypeOK, Exists, Copying
  <1>4. Checked'
    BY <1>u DEF Checked, TypeOK, HasChapter, HasItem
  <1>5. CloneLocked'
    BY <1>u DEF CloneLocked, TypeOK, Copying, Top, Exists
  <1>6. ImportLocked'
    BY <1>u DEF ImportLocked, TypeOK, IsEmpty, HasChapter, HasItem
  <1>7. Mapped'
    <2>1. \A t \in Sessions : pc'[t] \in {"cloneItems", "cloneAiu"} => t = s
      BY <1>o, <1>c DEF Copying
    <2>2. \A i \in Items : HasItem(copy'[s], i) => HasChapter(copy'[s], copy'[s].items[i].ch)
      <3>1. Mapped
        OBVIOUS
      <3> QED BY ONLY <1>c, <3>1 DEF Mapped, HasChapter, HasItem
    <2> QED BY ONLY <1>c, <2>1, <2>2 DEF Mapped
  <1>8. CalmCopy'
    <2>1. \A t \in Sessions : pc'[t] \in {"cloneItems", "cloneAiu"} => t = s
      BY <1>o, <1>c DEF Copying
    <2>2. \A w : InFlight(w)' => InFlight(w)
      BY <1>c, <1>u DEF InFlight
    <2>3. CalmCopy /\ UNCHANGED <<book, ver, calm>>
      BY <1>u
    <2> QED BY ONLY <1>c, <2>1, <2>2, <2>3 DEF CalmCopy
  <1>9. ItemsHangFromChapters' /\ Sourced'
    BY <1>u DEF ItemsHangFromChapters, Sourced, Exists, HasChapter, HasItem
  <1> QED BY <1>1, <1>2, <1>3, <1>4, <1>5, <1>6, <1>7, <1>8, <1>9

LEMMA CloneCommitInv ==
    ASSUME IInv, NEW s \in Sessions, CloneCommit(s)
    PROVE  IInv'
  <1>0. PICK n, v : n = number[s] /\ v = ver[s]
    OBVIOUS
  <1> USE <1>0 DEF IInv
  <1>p. pc[s] = "cloneAiu" /\ TypeOK
    BY DEF CloneCommit
  <1>n. n \in Versions /\ Top(n - 1) /\ estLock = s
    BY <1>p DEF CloneLocked, Copying
  <1>x. ~Exists(n)
    BY <1>n DEF Top, Versions
  <1>u. /\ status' = [status EXCEPT ![n] = "draft"]
        /\ source' = [source EXCEPT ![n] = v]
        /\ book' = [book EXCEPT ![n] = [copy[s] EXCEPT !.aiu = book[v].aiu]]
        /\ Finish(s, "ok") /\ UNCHANGED issuer
    BY <1>x DEF CloneCommit
  <1>e. Ended(s, "ok")
    BY <1>u, <1>p, FinishEnds
  <1>v. v \in Versions /\ Exists(v) /\ status[v] = "issued" /\ v # n /\ book[v] \in Book /\ copy[s] \in Book
    BY <1>p, <1>x DEF Located, Copying, TypeOK
  <1>b. book'[n] \in Book /\ book'[n].chapters = copy[s].chapters /\ book'[n].items = copy[s].items
    BY <1>u, <1>v, <1>n, <1>p DEF TypeOK, Book
  <1>k. \A w \in Versions : w # n => book'[w] = book[w] /\ status'[w] = status[w] /\ source'[w] = source[w]
    BY <1>u, <1>p DEF TypeOK
  <1>l. \A t \in Sessions : pc[t] # "idle" => ver[t] \in Versions /\ ver[t] # n
    BY <1>x DEF Located
  <1>o. \A t \in Sessions \ {s} : pc'[t] \notin Copying
    BY <1>p, <1>e, OneCopies DEF Copying, Ended
  <1>1. TypeOK'
    <2>1. /\ status' \in [Versions -> {"none", "draft", "issued"}]
          /\ source' \in [Versions -> 0 .. MaxVersion] /\ issuer' \in [Versions -> Sessions \cup {NoOne}]
      BY <1>u, <1>p, <1>v DEF TypeOK, Versions
    <2>2. book' \in [Versions -> Book]
      BY <1>u, <1>p, <1>b, <1>n DEF TypeOK
    <2> QED BY <1>e, <2>1, <2>2 DEF Ended, TypeOK
  <1>2. Numbered'
    <2>1. PICK m \in Versions : Top(m) /\ m + Cardinality(Cloners) <= MaxVersion
      BY DEF Numbered
    <2>2. m = n - 1
      BY <1>n, <2>1, TopUnique DEF Versions
    <2>3. Top(n)'
      <3>1. status'[n] # "none"
        BY <1>n, <1>u, <1>p DEF TypeOK
      <3>2. \A w \in Versions : w # n => (status'[w] # "none" <=> w <= n - 1)
        BY <1>k, <1>n DEF Top, Exists
      <3>3. \A w \in Versions : w <= n <=> w = n \/ w <= n - 1
        BY <1>n DEF Versions
      <3> QED BY ONLY <3>1, <3>2, <3>3, <1>n, VersionsAssumption DEF Top, Exists, Versions
    <2>4. s \in Cloners
      BY <1>p DEF Cloners, Cloning
    <2>5. /\ Cardinality(Cloners') \in Nat /\ Cardinality(Cloners) \in Nat
          /\ Cardinality(Cloners') = Cardinality(Cloners) - 1
      BY <1>u, <1>p, <2>4, FinishCloners
    <2>6. n + Cardinality(Cloners') <= MaxVersion
      BY <1>n, <2>1, <2>2, <2>5 DEF Versions
    <2> QED BY ONLY <1>n, <2>3, <2>6 DEF Numbered
  <1>3. Located' /\ CleanReplies'
    BY <1>e, <1>k, <1>l, <1>o DEF Ended, Kind, Replies, Located, CleanReplies, Exists, Copying
  <1>4. Checked'
    BY <1>e, <1>k, <1>l DEF Ended, Checked, HasChapter, HasItem
  <1>5. CloneLocked'
    <2>1. \A t \in Sessions \ {s} : estLock' # t /\ number'[t] = 0
      BY <1>e, <1>n, <1>o DEF Ended, CloneLocked
    <2>2. pc'[s] = "idle" /\ estLock' # s /\ number'[s] = 0
      BY <1>e DEF Ended
    <2> QED BY ONLY <1>o, <2>1, <2>2 DEF CloneLocked, Copying
  <1>6. ImportLocked'
    BY <1>e, <1>k, <1>l DEF Ended, ImportLocked, IsEmpty, HasChapter, HasItem
  <1>7. Mapped' /\ CalmCopy'
    BY <1>e, <1>o DEF Ended, Mapped, CalmCopy, Copying
  <1>8. ItemsHangFromChapters'
    <2>1. \A i \in Items : HasItem(copy[s], i) => HasChapter(copy[s], copy[s].items[i].ch)
      BY <1>p DEF Mapped
    <2>2. ItemsHangFromChapters
      OBVIOUS
    <2> QED BY ONLY <1>b, <1>k, <2>1, <2>2 DEF ItemsHangFromChapters, HasItem, HasChapter
  <1>9. Sourced'
    <2>1. v \in 1 .. (n - 1)
      BY <1>n, <1>v DEF Top, Versions
    <2>2. \A w \in Versions \ {1} : Exists(w)' => source'[w] \in 1 .. (w - 1) /\ status'[source'[w]] = "issued"
      <3> SUFFICES ASSUME NEW w \in Versions \ {1}, Exists(w)'
                   PROVE  source'[w] \in 1 .. (w - 1) /\ status'[source'[w]] = "issued"
        OBVIOUS
      <3>1. CASE w = n
        BY <1>k, <1>u, <1>v, <1>n, <1>p, <2>1, <3>1 DEF TypeOK
      <3>2. CASE w # n
        <4>1. Exists(w)
          BY <1>k, <3>2 DEF Exists
        <4>2. source[w] \in 1 .. (w - 1) /\ status[source[w]] = "issued" /\ source[w] \in Versions
          BY <4>1 DEF Sourced, Versions
        <4>3. source[w] # n
          BY <1>x, <4>2 DEF Exists
        <4> QED BY <1>k, <3>2, <4>2, <4>3
      <3> QED BY <3>1, <3>2
    <2>3. \A w \in Versions : issuer'[w] # NoOne => status'[w] = "issued"
      BY <1>k, <1>u, <1>x, <1>n DEF Sourced, Exists
    <2> QED BY ONLY <2>2, <2>3 DEF Sourced
  <1> QED BY <1>1, <1>2, <1>3, <1>4, <1>5, <1>6, <1>7, <1>8, <1>9

-----------------------------------------------------------------------------
(* The invariant is inductive *)

\* every part but CleanReplies is about the variables other than reply
LEMMA SameInv ==
    ASSUME IInv, UNCHANGED <<db, pc, req, ver, locks, clone>>, reply' \in [Sessions -> Replies], CleanReplies'
    PROVE  IInv'
  <1> USE DEF IInv, db, locks, clone
  <1>1. TypeOK'
    BY DEF TypeOK
  <1>2. Numbered' /\ Located' /\ Checked' /\ CloneLocked'
    BY DEF Numbered, Located, Checked, CloneLocked, Cloners, Top, Exists, HasChapter, HasItem
  <1>3. ImportLocked'
    BY DEF ImportLocked, IsEmpty, HasChapter, HasItem
  <1>4. Mapped'
    <2>1. Mapped /\ UNCHANGED <<pc, req, ver, book, copy>>
      OBVIOUS
    <2> QED BY ONLY <2>1 DEF Mapped, HasChapter, HasItem
  <1>5. CalmCopy'
    BY DEF CalmCopy, InFlight
  <1>6. ItemsHangFromChapters' /\ Sourced'
    BY DEF ItemsHangFromChapters, Sourced, Exists, HasChapter, HasItem
  <1> QED BY <1>1, <1>2, <1>3, <1>4, <1>5, <1>6

LEMMA RefuseInv ==
    ASSUME IInv, NEW s \in Sessions, NEW a, a \notin BadReplies, Refuse(s, a)
    PROVE  IInv'
  <1>1. reply' \in [Sessions -> Replies] /\ CleanReplies'
    BY KindType DEF IInv, TypeOK, Refuse, Answer, CleanReplies, BadReplies
  <1> QED BY <1>1, SameInv DEF Refuse

LEMMA BeginInv ==
    ASSUME IInv, NEW s \in Sessions, Begin(s)
    PROVE  IInv'
  <1> USE DEF Replies, BadReplies, StartKind
  <1>1. ASSUME NEW r \in EditRequests, AssertEditableActiveVersion(s, r) PROVE IInv'
    BY <1>1, StartInv, RefuseInv DEF AssertEditableActiveVersion
  <1>2. ASSUME NEW r \in ImportRequests, AssertImportableVersion(s, r) PROVE IInv'
    BY <1>2, StartInv, RefuseInv DEF AssertImportableVersion
  <1>3. CASE IssueRead(s)
    BY <1>3, StartInv, RefuseInv DEF IssueRead
  <1>4. CASE CloneRead(s)
    BY <1>4, StartInv, RefuseInv DEF CloneRead, Cloners
  <1> QED BY <1>1, <1>2, <1>3, <1>4 DEF Begin

LEMMA NextInv == IInv /\ [Next]_vars => IInv'
  <1> SUFFICES ASSUME IInv, [Next]_vars PROVE IInv'
    OBVIOUS
  <1>1. ASSUME NEW s \in Sessions, Begin(s) PROVE IInv'
    BY <1>1, BeginInv
  <1>2. ASSUME NEW s \in Sessions, Continue(s) PROVE IInv'
    BY <1>2, CheckInv, AdmitInv, CommitInv, IssueInv, ImportLockInv, CloneLockInv,
       CloneChaptersInv, CloneItemsInv, CloneCommitInv DEF Continue
  <1>3. ASSUME NEW s \in Sessions, Abort(s) PROVE IInv'
    BY <1>3, FinishInv DEF Abort, Replies, BadReplies
  <1>4. CASE UNCHANGED vars
    <2>1. reply' \in [Sessions -> Replies] /\ CleanReplies'
      BY <1>4 DEF vars, IInv, TypeOK, CleanReplies
    <2> QED BY <1>4, <2>1, SameInv DEF vars, db, locks, clone
  <1> QED BY <1>1, <1>2, <1>3, <1>4 DEF Next

\* The inductive invariant: what the sessions have read stays true, locks are
\* held by who works under them, and a clone copies what it will insert.
THEOREM Invariance == Spec => []IInv
  BY InitInv, NextInv, PTL DEF Spec

-----------------------------------------------------------------------------
(* Invariants *)

\* The variables always have their types, for any sessions, rows and bound.
THEOREM TypeCorrect == Spec => []TypeOK
  <1>1. IInv => TypeOK
    BY DEF IInv
  <1> QED BY <1>1, Invariance, PTL

\* Concurrent clones get distinct, consecutive version numbers: the unique
\* index of estimate_versions is never what stops one.
THEOREM ClonesAreSerialised == Spec => []ClonesSerialised
  <1>1. IInv => ClonesSerialised
    <2> SUFFICES ASSUME IInv PROVE ClonesSerialised
      OBVIOUS
    <2>1. \A s \in Sessions : number[s] # 0 => pc[s] \in Copying
      BY DEF IInv, CloneLocked
    <2>2. \A s, t \in Sessions : number[s] # 0 /\ number[s] = number[t] => s = t
      BY <2>1, OneCopies
    <2>3. \A s \in Sessions : reply[s] # "unique_violation"
      BY DEF IInv, CleanReplies
    <2>4. ASSUME NEW s \in Sessions, number[s] # 0
          PROVE  number[s] = Active + 1
      <3>1. PICK n \in Versions : Top(n)
        BY DEF IInv, Numbered
      <3>2. number[s] \in Versions /\ Top(number[s] - 1)
        BY <2>1, <2>4 DEF IInv, CloneLocked
      <3>3. number[s] - 1 = n
        BY <3>1, <3>2, TopUnique DEF Versions
      <3> QED BY <3>1, <3>2, <3>3, ActiveIsTop DEF Versions
    <2> QED BY <2>2, <2>3, <2>4 DEF ClonesSerialised
  <1> QED BY <1>1, Invariance, PTL

\* Every version but the first comes from an older issued one; numbers have no gaps.
THEOREM LineageHolds == Spec => []Lineage
  <1>1. IInv => Lineage
    BY DEF IInv, Lineage, Sourced, Numbered, Top, Versions
  <1> QED BY <1>1, Invariance, PTL

\* Every item hangs from a chapter of its own version.
THEOREM ItemsHang == Spec => []ItemsHangFromChapters
  <1>1. IInv => ItemsHangFromChapters
    BY DEF IInv
  <1> QED BY <1>1, Invariance, PTL

\* No clone ever fails because an item's chapter was not copied.
THEOREM ClonesMapAll == Spec => []CloneNeverUnmapped
  <1>1. IInv => CloneNeverUnmapped
    BY DEF IInv, CleanReplies, CloneNeverUnmapped
  <1> QED BY <1>1, Invariance, PTL

-----------------------------------------------------------------------------
(* Action properties *)

\* What a step does to the database.
LEMMA DbSteps ==
    ASSUME [Next]_vars
    PROVE  \/ UNCHANGED db
           \/ \E s \in Sessions : Commit(s) \/ ImportCommit(s) \/ IssueUpdate(s) \/ CloneCommit(s)
  <1>1. ASSUME NEW s \in Sessions, Begin(s) PROVE UNCHANGED db
    BY <1>1 DEF Begin, AssertEditableActiveVersion, AssertImportableVersion, IssueRead, CloneRead,
                Refuse, Start, db
  <1>2. ASSUME NEW s \in Sessions, Check(s) PROVE UNCHANGED db
    BY <1>2 DEF Check, CreateEstimateChapter, UpdateEstimateChapter, ArchiveEstimateChapter,
                RestoreEstimateChapter, CreateBoqItem, UpdateBoqItem, ArchiveBoqItem,
                RestoreBoqItem, UpdateEstimateVersionAiu, CheckRow, db
  <1>3. ASSUME NEW s \in Sessions,
               Admit(s) \/ ImportLock(s) \/ CloneLock(s) \/ CloneChapters(s) \/ CloneItems(s) \/ Abort(s)
        PROVE  UNCHANGED db
    BY <1>3 DEF Admit, ImportLock, CloneLock, CloneChapters, CloneItems, Abort, db
  <1> QED BY <1>1, <1>2, <1>3 DEF Next, Continue, vars, db

\* Only Admit makes a session's write pending, and only on an unlocked version.
LEMMA Admissions ==
    ASSUME IInv, [Next]_vars, NEW v \in Versions, Locked(v), InFlight(v)'
    PROVE  InFlight(v)
  <1>1. PICK t \in Sessions : pc'[t] = "sent" /\ ver'[t] = v
    BY DEF InFlight
  <1>2. CASE pc[t] = "sent" /\ ver[t] = v
    BY <1>2 DEF InFlight
  <1>3. CASE ~(pc[t] = "sent" /\ ver[t] = v)
    <2>1. ~UNCHANGED vars
      BY <1>1, <1>3 DEF vars
    <2>2. PICK s \in Sessions : Begin(s) \/ Continue(s) \/ Abort(s)
      BY <2>1 DEF Next
    <2>3. ~Begin(s)
      BY <1>1, <1>3 DEF Begin, AssertEditableActiveVersion, AssertImportableVersion, IssueRead,
                        CloneRead, Refuse, Start, Goto, IInv, TypeOK
    <2>4. ~Check(s)
      BY <1>1, <1>3 DEF Check, CreateEstimateChapter, UpdateEstimateChapter, ArchiveEstimateChapter,
                RestoreEstimateChapter, CreateBoqItem, UpdateBoqItem, ArchiveBoqItem,
                RestoreBoqItem, UpdateEstimateVersionAiu, CheckRow, Finish, Goto, IInv, TypeOK
    <2>5. ~(\/ Commit(s) \/ ImportCommit(s) \/ IssueUpdate(s) \/ CloneCommit(s) \/ Abort(s))
      BY <1>1, <1>3 DEF Commit, ImportCommit, IssueUpdate, CloneCommit, Abort, Finish, Goto, IInv, TypeOK
    <2>6. ~(ImportLock(s) \/ CloneLock(s) \/ CloneChapters(s) \/ CloneItems(s))
      BY <1>1, <1>3 DEF ImportLock, CloneLock, CloneChapters, CloneItems, Finish, Goto, IInv, TypeOK
    <2>7. Admit(s)
      BY <2>2, <2>3, <2>4, <2>5, <2>6 DEF Continue
    <2> QED BY <1>1, <1>3, <2>7 DEF Admit, RlsAdmits, Finish, Goto, IInv, TypeOK
  <1> QED BY <1>2, <1>3

\* What each of the four writers may touch.
LEMMA Writers ==
    ASSUME IInv, NEW s \in Sessions, NEW v \in Versions, Exists(v)
    PROVE  /\ Commit(s) =>
                /\ UNCHANGED <<status, source, issuer>>
                /\ book'[v] # book[v] => InFlight(v)
           /\ ImportCommit(s) =>
                /\ UNCHANGED <<status, source, issuer>>
                /\ book'[v] # book[v] => status[v] = "draft"
           /\ IssueUpdate(s) =>
                /\ UNCHANGED <<source, book>>
                /\ Locked(v) => status'[v] = status[v] /\ issuer'[v] = issuer[v]
           /\ CloneCommit(s) =>
                /\ UNCHANGED issuer
                /\ status'[v] = status[v] /\ source'[v] = source[v] /\ book'[v] = book[v]
  <1> USE DEF IInv
  <1>1. Commit(s) => /\ UNCHANGED <<status, source, issuer>>
                     /\ book'[v] # book[v] => InFlight(v)
    BY DEF Commit, InFlight, TypeOK
  <1>2. ImportCommit(s) => /\ UNCHANGED <<status, source, issuer>>
                           /\ book'[v] # book[v] => status[v] = "draft"
    BY DEF ImportCommit, ImportLocked, TypeOK
  <1>3. IssueUpdate(s) => /\ UNCHANGED <<source, book>>
                          /\ Locked(v) => status'[v] = status[v] /\ issuer'[v] = issuer[v]
    BY DEF IssueUpdate, TypeOK
  <1>4. CloneCommit(s) => ~Exists(number[s])
    BY DEF CloneCommit, CloneLocked, Copying, Top, Versions
  <1>5. CloneCommit(s) => /\ UNCHANGED issuer
                          /\ status'[v] = status[v] /\ source'[v] = source[v] /\ book'[v] = book[v]
    BY <1>4 DEF CloneCommit, TypeOK
  <1> QED BY <1>1, <1>2, <1>3, <1>5

\* Once a locked version has no admitted write pending, nothing about it ever
\* changes again and no write is admitted to it.
THEOREM FrozenIsForever == Spec => FrozenForever
  <1>1. ASSUME IInv, [Next]_vars, NEW v \in Versions, Frozen(v)
        PROVE  /\ Frozen(v)'
               /\ book'[v] = book[v] /\ status'[v] = status[v]
               /\ issuer'[v] = issuer[v] /\ source'[v] = source[v]
    <2>1. Exists(v) /\ Locked(v) /\ ~InFlight(v) /\ status[v] # "draft"
      BY <1>1 DEF Frozen, Exists, Locked, LockedStatuses
    <2>2. /\ book'[v] = book[v] /\ status'[v] = status[v]
          /\ issuer'[v] = issuer[v] /\ source'[v] = source[v]
      BY <1>1, <2>1, DbSteps, Writers DEF db
    <2>3. ~InFlight(v)'
      BY <1>1, <2>1, Admissions
    <2> QED BY <2>1, <2>2, <2>3 DEF Frozen, Locked
  <1>2. IInv /\ [Next]_vars =>
          [\A v \in Versions : Frozen(v) =>
             /\ Frozen(v)'
             /\ book'[v] = book[v] /\ status'[v] = status[v]
             /\ issuer'[v] = issuer[v] /\ source'[v] = source[v]]_vars
    BY <1>1
  <1> QED BY <1>2, Invariance, PTL DEF Spec, FrozenForever

\* Whoever issued a version first stays its issuer.
THEOREM IssuerIsKept == Spec => IssuerKept
  <1>1. IInv /\ [Next]_vars =>
          [\A v \in Versions : issuer[v] # NoOne => issuer'[v] = issuer[v]]_vars
    <2> SUFFICES ASSUME IInv, [Next]_vars, NEW v \in Versions, issuer[v] # NoOne
                 PROVE  issuer'[v] = issuer[v]
      OBVIOUS
    <2>1. Exists(v) /\ Locked(v)
      BY DEF IInv, Sourced, Exists, Locked, LockedStatuses
    <2> QED BY <2>1, DbSteps, Writers DEF db
  <1> QED BY <1>1, Invariance, PTL DEF Spec, IssuerKept

\* An import lands in a version that is open and empty at that very step.
THEOREM ImportsIntoEmpty == Spec => ImportIntoEmpty
  <1>1. IInv /\ [Next]_vars =>
          [\A s \in Sessions :
             pc[s] = "importing" /\ pc'[s] = "idle" /\ reply'[s] = "ok" =>
                 IsEmpty(book[ver[s]]) /\ ~Locked(ver[s])]_vars
    BY DEF IInv, ImportLocked, Locked, LockedStatuses
  <1> QED BY <1>1, Invariance, PTL DEF Spec, ImportIntoEmpty

\* A step of one session leaves the others' pending writes pending.
LEMMA OthersPending ==
    ASSUME IInv, NEW s \in Sessions, Begin(s) \/ Continue(s) \/ Abort(s)
    PROVE  \A t \in Sessions \ {s} : pc'[t] = pc[t] /\ ver'[t] = ver[t]
  <1> USE DEF IInv, TypeOK, Finish, Goto
  <1>1. CASE Begin(s)
    BY <1>1 DEF Begin, AssertEditableActiveVersion, AssertImportableVersion, IssueRead, CloneRead,
                Refuse, Start
  <1>2. CASE Check(s)
    BY <1>2 DEF Check, CreateEstimateChapter, UpdateEstimateChapter, ArchiveEstimateChapter,
                RestoreEstimateChapter, CreateBoqItem, UpdateBoqItem, ArchiveBoqItem,
                RestoreBoqItem, UpdateEstimateVersionAiu, CheckRow
  <1>3. CASE Admit(s) \/ Commit(s) \/ ImportLock(s) \/ ImportCommit(s) \/ IssueUpdate(s) \/ Abort(s)
    BY <1>3 DEF Admit, Commit, ImportLock, ImportCommit, IssueUpdate, Abort
  <1>4. CASE CloneLock(s) \/ CloneChapters(s) \/ CloneItems(s) \/ CloneCommit(s)
    BY <1>4 DEF CloneLock, CloneChapters, CloneItems, CloneCommit
  <1> QED BY <1>1, <1>2, <1>3, <1>4 DEF Continue

\* A clone whose source was quiet when it started inserts exactly the source's
\* rows and rules, so the new version starts with the source's total.
THEOREM CloneKeeps == Spec => CloneKeepsContent
  <1>1. ASSUME IInv, [Next]_vars, NEW s \in Sessions,
               pc[s] = "cloneAiu", calm[s], pc'[s] = "idle", reply'[s] = "ok"
        PROVE  book'[number[s]] = book[ver[s]] /\ DirectTotal(book'[number[s]]) = DirectTotal(book'[ver[s]])
    <2>1. CloneCommit(s)
      <3>1. ~UNCHANGED vars
        BY <1>1 DEF vars
      <3>2. PICK t \in Sessions : Begin(t) \/ Continue(t) \/ Abort(t)
        BY <1>1, <3>1 DEF Next
      <3>3. t = s
        BY <1>1, <3>2, OthersPending
      <3>4. ~Begin(s)
        BY <1>1 DEF Begin, AssertEditableActiveVersion, AssertImportableVersion, IssueRead, CloneRead
      <3>5. ~Abort(s)
        BY <1>1 DEF Abort, Finish, Answer, Kind, Replies, IInv, TypeOK
      <3>6. ~Check(s)
        BY <1>1 DEF Check, CreateEstimateChapter, UpdateEstimateChapter, ArchiveEstimateChapter,
                RestoreEstimateChapter, CreateBoqItem, UpdateBoqItem, ArchiveBoqItem,
                RestoreBoqItem, UpdateEstimateVersionAiu, CheckRow
      <3> QED BY <1>1, <3>2, <3>3, <3>4, <3>5, <3>6 DEF Continue, Admit, Commit, ImportLock,
                 ImportCommit, IssueUpdate, CloneLock, CloneChapters, CloneItems
    <2>2. /\ number[s] \in Versions /\ ~Exists(number[s]) /\ ver[s] \in Versions /\ Exists(ver[s])
          /\ book[ver[s]] \in Book /\ copy[s] \in Book
      BY <1>1 DEF IInv, CloneLocked, Copying, Top, Versions, Located, TypeOK
    <2>3. copy[s].chapters = book[ver[s]].chapters /\ copy[s].items = book[ver[s]].items
      BY <1>1 DEF IInv, CalmCopy
    <2>4. book' = [book EXCEPT ![number[s]] = [copy[s] EXCEPT !.aiu = book[ver[s]].aiu]]
      BY <2>1, <2>2 DEF CloneCommit
    <2>5. [copy[s] EXCEPT !.aiu = book[ver[s]].aiu] = book[ver[s]]
      BY <2>2, <2>3 DEF Book
    <2>6. book'[number[s]] = book[ver[s]] /\ book'[ver[s]] = book[ver[s]]
      BY <1>1, <2>2, <2>4, <2>5 DEF IInv, TypeOK
    <2> QED BY <2>6
  <1>2. IInv /\ [Next]_vars =>
          [\A s \in Sessions :
             pc[s] = "cloneAiu" /\ calm[s] /\ pc'[s] = "idle" /\ reply'[s] = "ok" =>
                 /\ book'[number[s]] = book[ver[s]]
                 /\ DirectTotal(book'[number[s]]) = DirectTotal(book'[ver[s]])]_vars
    BY <1>1
  <1> QED BY <1>2, Invariance, PTL DEF Spec, CloneKeepsContent

-----------------------------------------------------------------------------
(* Refinement of VersionLifecycle *)

phase == [v \in Versions |-> Phase(v)]

LEMMA PhaseValue ==
    ASSUME NEW v \in Versions
    PROVE  /\ phase[v] = IF ~Exists(v) THEN "free" ELSE IF ~Locked(v) THEN "open"
                         ELSE IF InFlight(v) THEN "closing" ELSE "frozen"
           /\ phase'[v] = IF ~Exists(v)' THEN "free" ELSE IF ~Locked(v)' THEN "open"
                          ELSE IF InFlight(v)' THEN "closing" ELSE "frozen"
  <1>1. Locked(v) => Exists(v)
    BY DEF Locked, LockedStatuses, Exists
  <1>2. Locked(v)' => Exists(v)'
    BY DEF Locked, LockedStatuses, Exists
  <1>3. Phase(v) = IF ~Exists(v) THEN "free" ELSE IF ~Locked(v) THEN "open"
                   ELSE IF InFlight(v) THEN "closing" ELSE "frozen"
    BY <1>1 DEF Phase, Frozen
  <1>4. Phase(v)' = IF ~Exists(v)' THEN "free" ELSE IF ~Locked(v)' THEN "open"
                    ELSE IF InFlight(v)' THEN "closing" ELSE "frozen"
    BY <1>2 DEF Phase, Frozen
  <1> QED BY <1>3, <1>4 DEF phase

\* Only the version whose admitted write ends can stop having writes pending.
LEMMA PendingElsewhere ==
    ASSUME IInv, NEW s \in Sessions, Begin(s) \/ Continue(s) \/ Abort(s),
           NEW w \in Versions, pc[s] = "sent" => w # ver[s]
    PROVE  Locked(w) => (InFlight(w)' <=> InFlight(w))
  <1>1. InFlight(w) => InFlight(w)'
    BY OthersPending DEF InFlight
  <1>2. [Next]_vars
    BY DEF Next
  <1> QED BY <1>1, <1>2, Admissions

\* A step that leaves the database alone freezes a version or changes nothing.
LEMMA QuietStep ==
    ASSUME IInv, NEW s \in Sessions, Begin(s) \/ Continue(s) \/ Abort(s), UNCHANGED db
    PROVE  Lifecycle!Next \/ UNCHANGED <<phase, book>>
  <1>1. \A w \in Versions : (Exists(w)' <=> Exists(w)) /\ (Locked(w)' <=> Locked(w))
    BY DEF db, Exists, Locked
  <1>2. CASE \E v \in Versions : pc[s] = "sent" /\ v = ver[s] /\ Locked(v) /\ ~InFlight(v)'
    <2>0. PICK v \in Versions : pc[s] = "sent" /\ v = ver[s] /\ Locked(v) /\ ~InFlight(v)'
      BY <1>2
    <2>1. InFlight(v) /\ Exists(v)
      BY <2>0 DEF InFlight, Locked, LockedStatuses, Exists
    <2>2. phase[v] = "closing"
      BY <2>0, <2>1, PhaseValue
    <2>3. phase' = [phase EXCEPT ![v] = "frozen"]
      <3>1. \A w \in Versions \ {v} : phase'[w] = phase[w]
        BY <1>1, <2>0, PendingElsewhere, PhaseValue
      <3>2. phase'[v] = "frozen"
        BY <1>1, <2>0, <2>1, PhaseValue
      <3> QED BY <3>1, <3>2 DEF phase
    <2>4. book[v] \in Book /\ book' = [book EXCEPT ![v] = book[v]]
      BY DEF IInv, TypeOK, db
    <2>5. Lifecycle!Freeze(v)
      BY <2>2, <2>3, <2>4 DEF Lifecycle!Freeze, phase
    <2> QED BY <2>5 DEF Lifecycle!Next, Lifecycle!Numbers, Versions
  <1>3. CASE ~\E v \in Versions : pc[s] = "sent" /\ v = ver[s] /\ Locked(v) /\ ~InFlight(v)'
    <2>1. ASSUME NEW w \in Versions PROVE phase'[w] = phase[w]
      <3>1. CASE pc[s] = "sent" /\ w = ver[s] /\ Locked(w)
        <4>1. InFlight(w) /\ InFlight(w)'
          BY <1>3, <3>1 DEF InFlight
        <4> QED BY <1>1, <4>1, PhaseValue
      <3>2. CASE pc[s] = "sent" => w # ver[s]
        BY <1>1, <3>2, PendingElsewhere, PhaseValue
      <3>3. CASE ~Locked(w)
        BY <1>1, <3>3, PhaseValue
      <3> QED BY <3>1, <3>2, <3>3
    <2> QED BY <2>1 DEF phase, db
  <1> QED BY <1>2, <1>3

LEMMA CommitStep ==
    ASSUME IInv, NEW s \in Sessions, Commit(s)
    PROVE  Lifecycle!Next
  <1>0. PICK v \in Versions : v = ver[s] /\ Exists(v) /\ pc[s] = "sent"
    BY DEF Commit, IInv, Located
  <1>1. InFlight(v) /\ req[s] \in Requests /\ book[v] \in Book
    BY <1>0 DEF InFlight, IInv, Located, EditRequests, TypeOK
  <1>2. UNCHANGED status /\ book' = [book EXCEPT ![v] = Apply(req[s], book[v])]
    BY <1>0 DEF Commit
  <1>3. Apply(req[s], book[v]) \in Book
    BY <1>1, ApplyType
  <1>4. \A w \in Versions : (Exists(w)' <=> Exists(w)) /\ (Locked(w)' <=> Locked(w))
    BY <1>2 DEF Exists, Locked
  <1>5. \A w \in Versions \ {v} : phase'[w] = phase[w]
    BY <1>0, <1>4, PendingElsewhere, PhaseValue DEF Continue
  <1>6. phase[v] = IF Locked(v) THEN "closing" ELSE "open"
    BY <1>0, <1>1, PhaseValue
  <1>7. CASE Locked(v) /\ ~InFlight(v)'
    <2>1. phase'[v] = "frozen"
      BY <1>0, <1>4, <1>7, PhaseValue
    <2>2. phase' = [phase EXCEPT ![v] = "frozen"]
      BY <1>5, <2>1 DEF phase
    <2>3. Lifecycle!Freeze(v)
      BY <1>2, <1>3, <1>6, <1>7, <2>2 DEF Lifecycle!Freeze, phase
    <2> QED BY <2>3 DEF Lifecycle!Next, Lifecycle!Numbers, Versions
  <1>8. CASE ~(Locked(v) /\ ~InFlight(v)')
    <2>1. phase'[v] = phase[v]
      BY <1>0, <1>1, <1>4, <1>8, PhaseValue
    <2>2. UNCHANGED phase
      BY <1>5, <2>1 DEF phase
    <2>3. Lifecycle!Edit(v)
      BY <1>2, <1>3, <1>6, <2>2 DEF Lifecycle!Edit, phase
    <2> QED BY <2>3 DEF Lifecycle!Next, Lifecycle!Numbers, Versions
  <1> QED BY <1>7, <1>8

LEMMA ImportStep ==
    ASSUME IInv, NEW s \in Sessions, ImportCommit(s)
    PROVE  Lifecycle!Next
  <1>0. PICK v \in Versions : v = ver[s] /\ Exists(v) /\ pc[s] = "importing" /\ status[v] = "draft"
    BY DEF ImportCommit, IInv, Located, ImportLocked
  <1>1. req[s] \in Requests /\ book[v] \in Book
    BY <1>0 DEF IInv, Located, ImportRequests, TypeOK
  <1>2. UNCHANGED status /\ book' = [book EXCEPT ![v] = Apply(req[s], book[v])]
    BY <1>0 DEF ImportCommit
  <1>3. Apply(req[s], book[v]) \in Book
    BY <1>1, ApplyType
  <1>4. \A w \in Versions : (Exists(w)' <=> Exists(w)) /\ (Locked(w)' <=> Locked(w))
    BY <1>2 DEF Exists, Locked
  <1>5. UNCHANGED phase
    BY <1>0, <1>4, PendingElsewhere, PhaseValue DEF Continue, phase
  <1>6. phase[v] = "open"
    BY <1>0, PhaseValue DEF Locked, LockedStatuses
  <1>7. Lifecycle!Edit(v)
    BY <1>2, <1>3, <1>5, <1>6 DEF Lifecycle!Edit, phase
  <1> QED BY <1>7 DEF Lifecycle!Next, Lifecycle!Numbers, Versions

LEMMA IssueStep ==
    ASSUME IInv, NEW s \in Sessions, IssueUpdate(s), ~Locked(ver[s])
    PROVE  Lifecycle!Next
  <1>0. PICK v \in Versions : v = ver[s] /\ Exists(v) /\ pc[s] = "issue"
    BY DEF IssueUpdate, IInv, Located
  <1>1. status' = [status EXCEPT ![v] = "issued"] /\ UNCHANGED book
    BY <1>0 DEF IssueUpdate
  <1>2. \A w \in Versions \ {v} : (Exists(w)' <=> Exists(w)) /\ (Locked(w)' <=> Locked(w))
    BY <1>1 DEF Exists, Locked, IInv, TypeOK
  <1>3. Exists(v)' /\ Locked(v)'
    BY <1>1 DEF Exists, Locked, LockedStatuses, IInv, TypeOK
  <1>4. \A w \in Versions \ {v} : phase'[w] = phase[w]
    BY <1>0, <1>2, PendingElsewhere, PhaseValue DEF Continue
  <1>5. phase[v] = "open" /\ phase'[v] \in {"closing", "frozen"}
    BY <1>0, <1>3, PhaseValue
  <1>6. phase' = [phase EXCEPT ![v] = phase'[v]]
    BY <1>4 DEF phase
  <1>7. Lifecycle!Close(v)
    BY <1>1, <1>5, <1>6 DEF Lifecycle!Close, phase
  <1> QED BY <1>7 DEF Lifecycle!Next, Lifecycle!Numbers, Versions

LEMMA CloneStep ==
    ASSUME IInv, NEW s \in Sessions, CloneCommit(s)
    PROVE  Lifecycle!Next
  <1>0. PICK n \in Versions, v \in Versions :
            n = number[s] /\ v = ver[s] /\ pc[s] = "cloneAiu" /\ Top(n - 1) /\ status[v] = "issued"
    BY DEF CloneCommit, IInv, CloneLocked, Located, Copying
  <1>1. ~Exists(n) /\ Exists(v) /\ Locked(v) /\ \A w \in 1 .. (n - 1) : w \in Versions /\ Exists(w)
    BY <1>0 DEF Top, Versions, Exists, Locked, LockedStatuses
  <1>2. /\ status' = [status EXCEPT ![n] = "draft"]
        /\ book' = [book EXCEPT ![n] = [copy[s] EXCEPT !.aiu = book[v].aiu]]
    BY <1>0, <1>1 DEF CloneCommit
  <1>3. [copy[s] EXCEPT !.aiu = book[v].aiu] \in Book
    <2>1. copy[s] \in Book /\ book[v] \in Book
      BY <1>0 DEF IInv, TypeOK
    <2> QED BY ONLY <2>1 DEF Book
  <1>4. \A w \in Versions \ {n} : (Exists(w)' <=> Exists(w)) /\ (Locked(w)' <=> Locked(w))
    BY <1>2 DEF Exists, Locked, IInv, TypeOK
  <1>5. Exists(n)' /\ ~Locked(n)'
    BY <1>2 DEF Exists, Locked, LockedStatuses, IInv, TypeOK
  <1>6. \A w \in Versions \ {n} : phase'[w] = phase[w]
    BY <1>0, <1>4, PendingElsewhere, PhaseValue DEF Continue
  <1>7. phase[n] = "free" /\ phase'[n] = "open"
    BY <1>1, <1>5, PhaseValue
  <1>8. phase' = [phase EXCEPT ![n] = "open"]
    BY <1>6, <1>7 DEF phase
  <1>9. phase[v] \in {"closing", "frozen"} /\ \A w \in 1 .. (n - 1) : phase[w] # "free"
    BY <1>1, PhaseValue
  <1>10. Lifecycle!Open(n)
    <2>1. \E w \in Lifecycle!Numbers : phase[w] \in {"closing", "frozen"}
      BY <1>9 DEF Lifecycle!Numbers, Versions
    <2> QED BY ONLY <1>2, <1>3, <1>7, <1>8, <1>9, <2>1 DEF Lifecycle!Open, phase
  <1> QED BY <1>10 DEF Lifecycle!Next, Lifecycle!Numbers, Versions

LEMMA StepRefines == IInv /\ [Next]_vars => [Lifecycle!Next]_<<phase, book>>
  <1> SUFFICES ASSUME IInv, [Next]_vars PROVE Lifecycle!Next \/ UNCHANGED <<phase, book>>
    OBVIOUS
  <1>1. ASSUME NEW s \in Sessions, Begin(s) \/ Continue(s) \/ Abort(s), UNCHANGED db
        PROVE  Lifecycle!Next \/ UNCHANGED <<phase, book>>
    BY <1>1, QuietStep
  <1>2. ASSUME NEW s \in Sessions, Commit(s) \/ ImportCommit(s) \/ CloneCommit(s)
        PROVE  Lifecycle!Next
    BY <1>2, CommitStep, ImportStep, CloneStep
  <1>3. ASSUME NEW s \in Sessions, IssueUpdate(s)
        PROVE  Lifecycle!Next \/ UNCHANGED <<phase, book>>
    <2>1. Locked(ver[s]) => UNCHANGED db
      BY <1>3 DEF IssueUpdate, db
    <2> QED BY <1>1, <1>3, <2>1, IssueStep DEF Continue
  <1>4. CASE UNCHANGED vars
    BY <1>4 DEF vars, db, phase, Phase, Frozen, Exists, Locked, InFlight
  <1> QED BY <1>1, <1>2, <1>3, <1>4, DbSteps DEF Next

LEMMA InitRefines == Init => Lifecycle!Init
  <1> SUFFICES ASSUME Init PROVE Lifecycle!Init
    OBVIOUS
  <1>1. \A v \in Versions : phase[v] = IF v = 1 THEN "open" ELSE "free"
    BY PhaseValue DEF Init, Exists, Locked, LockedStatuses
  <1>2. phase = [v \in Versions |-> IF v = 1 THEN "open" ELSE "free"]
    BY <1>1 DEF phase
  <1>3. book \in [Versions -> Book]
    BY InitInv DEF IInv, TypeOK
  <1> QED BY <1>2, <1>3 DEF Lifecycle!Init, Lifecycle!Numbers, Versions, phase

\* The sessions, statements and locks implement the life cycle: every step opens,
\* edits, closes or freezes one version, or is invisible.
THEOREM Refinement == Spec => LifecycleSpec
  <1>1. IInv /\ [Next]_vars => [Lifecycle!Next]_<<phase, book>>
    BY StepRefines
  <1>2. Init => Lifecycle!Init
    BY InitRefines
  <1> QED BY <1>1, <1>2, Invariance, PTL DEF Spec, LifecycleSpec, Lifecycle!Spec, phase

=============================================================================
