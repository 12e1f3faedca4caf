------------------------------ MODULE PriceReview ------------------------------
(***************************************************************************)
(* The review of price observations (apps/web/server/pricing): observations *)
(* of one resource are created pending, and reviewers approve or reject     *)
(* them one by one (db-observation-repository.ts) or in bulk (review/).     *)
(*                                                                         *)
(* Every PostgREST call is a transaction of its own.  A bulk request reads  *)
(* the statuses, inserts its row of price_observation_bulk_actions, which   *)
(* UNIQUE (organization_id, idempotency_key) makes a barrier, updates the   *)
(* rows chunk by chunk and at last writes the outcome into its action row.  *)
(* It may die between any two calls, and the browser may send the same      *)
(* confirmation, with the key of its modal, more than once.                 *)
(*                                                                         *)
(* Prices, batches, warnings, reasons, times, reports and summaries        *)
(* are not modelled; a row that RLS hides is one no selection names.        *)
(***************************************************************************)
EXTENDS Naturals, FiniteSets

CONSTANTS
    Sessions,       \* reviewers' requests that run at the same time
    Observations,   \* rows of resource_price_observations
    Keys,           \* idempotency keys, one per confirmation modal
    Chunk,          \* BULK_UPDATE_CHUNK
    Ops,            \* the operations this workload performs
    OneByOne,       \* the rows that it also reviews one by one
    NoOne           \* no session, no key, no observation

ASSUME ReviewAssumption ==
    /\ Chunk \in Nat \ {0}
    /\ IsFiniteSet(Observations)
    /\ NoOne \notin Sessions \cup Keys \cup Observations

VARIABLES
    obs,        \* observation -> its status, approved_by and approved_at
    modal,      \* key -> what the user confirms with it
    action,     \* key -> its row of price_observation_bulk_actions
    pc,         \* session -> next step of its request
    req,        \* session -> what it was asked for
    work,       \* session -> the bulk request's executable, remaining and updated rows
    reply,      \* session -> the answer to its last request
    ledger      \* history: key -> the rows its executions really changed

vars == <<obs, modal, action, pc, req, work, reply, ledger>>

Verdicts == {"approve", "reject"}
Statuses == {"absent", "pending", "approved", "rejected"}
Reviewed == {"approved", "rejected"}

NoModal  == [type |-> "none", ids |-> {}]
NoAction == [st |-> "none", by |-> NoOne, type |-> "none", selected |-> {},
             succeeded |-> {}, skipped |-> {}]
NoReq    == [op |-> "none", key |-> NoOne, id |-> NoOne]
NoWork   == [exec |-> {}, todo |-> {}, updated |-> {}]
NoReply  == [kind |-> "none", key |-> NoOne, ids |-> {}]

Rows == SUBSET Observations

TypeOK ==
    /\ obs \in [Observations -> [st : Statuses, by : Sessions \cup {NoOne}]]
    /\ modal \in [Keys -> [type : Verdicts \cup {"none"}, ids : Rows]]
    /\ action \in [Keys -> [st : {"none", "open", "done"}, by : Sessions \cup {NoOne},
                            type : Verdicts \cup {"none"}, selected : Rows,
                            succeeded : Rows, skipped : Rows]]
    /\ pc \in [Sessions -> {"idle", "create", "find", "update", "complete", "write"}]
    /\ req \in [Sessions -> [op : Verdicts \cup {"bulk", "none"}, key : Keys \cup {NoOne},
                             id : Observations \cup {NoOne}]]
    /\ work \in [Sessions -> [exec : Rows, todo : Rows, updated : Rows]]
    /\ reply \in [Sessions -> [kind : {"none", "failed", "ObservationAlreadyReviewedError", "ok",
                                       "executed", "alreadyExecuted"},
                               key : Keys \cup {NoOne}, ids : Rows]]
    /\ ledger \in [Keys -> Rows]

Init ==
    /\ obs = [o \in Observations |-> [st |-> "absent", by |-> NoOne]]
    /\ modal = [k \in Keys |-> NoModal]
    /\ action = [k \in Keys |-> NoAction]
    /\ pc = [s \in Sessions |-> "idle"]
    /\ req = [s \in Sessions |-> NoReq]
    /\ work = [s \in Sessions |-> NoWork]
    /\ reply = [s \in Sessions |-> NoReply]
    /\ ledger = [k \in Keys |-> {}]

Goto(s, l) == pc' = [pc EXCEPT ![s] = l]

Begin(s, r, l) ==
    /\ pc[s] = "idle"
    /\ Goto(s, l)
    /\ req' = [req EXCEPT ![s] = r]
    /\ reply' = [reply EXCEPT ![s] = NoReply]

Finish(s, kind, k, ids) ==
    /\ Goto(s, "idle")
    /\ req' = [req EXCEPT ![s] = NoReq]
    /\ work' = [work EXCEPT ![s] = NoWork]
    /\ reply' = [reply EXCEPT ![s] = [kind |-> kind, key |-> k, ids |-> ids]]

-----------------------------------------------------------------------------
(* Observations, and their review one by one *)

\* registered by hand, by an import or by the price monitor: always pending
CreateResourcePriceObservation(o) ==
    /\ obs[o].st = "absent"
    /\ obs' = [obs EXCEPT ![o].st = "pending"]
    /\ UNCHANGED <<modal, action, pc, req, work, reply, ledger>>

AnyStatus(o)  == obs[o].st # "absent"   \* mutant: reviews a row that was decided
Reviewable(o) == obs[o].st = "pending"

\* approveResourcePriceObservation, rejectResourcePriceObservation: the read ...
ReadStatus(s, v, o) ==
    /\ v \in Ops /\ o \in OneByOne
    /\ obs[o].st # "absent"
    /\ IF Reviewable(o)
       THEN Begin(s, [op |-> v, key |-> NoOne, id |-> o], "write") /\ UNCHANGED work
       ELSE pc[s] = "idle" /\ Finish(s, "ObservationAlreadyReviewedError", NoOne, {})
    /\ UNCHANGED <<obs, modal, action, ledger>>

StatusOf(v) == IF v = "approve" THEN "approved" ELSE "rejected"

\* ... and the UPDATE by id, which does not look at the status again
WriteStatus(s) ==
    /\ pc[s] = "write"
    /\ obs' = [obs EXCEPT ![req[s].id] = [st |-> StatusOf(req[s].op), by |-> s]]
    /\ Finish(s, "ok", NoOne, {})
    /\ UNCHANGED <<modal, action, ledger>>

-----------------------------------------------------------------------------
(* Bulk review *)

\* the page, however old, selects rows it has listed; the key is a fresh uuid
OpenModal(k, v) ==
    /\ "bulk" \in Ops
    /\ modal[k] = NoModal
    /\ \E ids \in SUBSET {o \in Observations : obs[o].st # "absent"} \ {{}} :
          modal' = [modal EXCEPT ![k] = [type |-> v, ids |-> ids]]
    /\ UNCHANGED <<obs, action, pc, req, work, reply, ledger>>

\* the user confirms, or the confirmation arrives again: getObservationStatuses
Classify(s, k) ==
    LET exec == {o \in modal[k].ids : obs[o].st = "pending"} IN
    /\ modal[k] # NoModal
    /\ Begin(s, [op |-> "bulk", key |-> k, id |-> NoOne], "create")
    /\ work' = [work EXCEPT ![s] = [exec |-> exec, todo |-> exec, updated |-> {}]]
    /\ UNCHANGED <<obs, modal, action, ledger>>

NeverTaken(k) == FALSE               \* mutant: no UNIQUE (organization_id, idempotency_key)
KeyTaken(k)   == action[k].st # "none"

AfterChunks(todo) == IF todo = {} THEN "complete" ELSE "update"

CreateBulkAction(s) ==
    LET k == req[s].key IN
    /\ pc[s] = "create"
    /\ IF KeyTaken(k)
       THEN Goto(s, "find") /\ UNCHANGED action
       ELSE /\ Goto(s, AfterChunks(work[s].todo))
            /\ action' = [action EXCEPT ![k] =
                   [NoAction EXCEPT !.st = "open", !.by = s, !.type = modal[k].type,
                                    !.selected = modal[k].ids]]
    /\ UNCHANGED <<obs, modal, req, work, reply, ledger>>

OriginalSelection(k) == action[k].selected   \* mutant: answers with what was selected
Original(k) == action[k].succeeded

\* resultFromExistingAction
FindBulkActionByKey(s) ==
    LET k == req[s].key IN
    /\ pc[s] = "find"
    /\ Finish(s, "alreadyExecuted", k, Original(k))
    /\ UNCHANGED <<obs, modal, action, ledger>>

AnyRow(o)    == TRUE                 \* mutant: no status = 'pending' in the UPDATE
Updatable(o) == obs[o].st = "pending"

\* one statement of bulkUpdateStatus; it evaluates its filter on the current rows
UpdateChunk(s) ==
    LET k == req[s].key
        w == work[s]
        size == IF Cardinality(w.todo) < Chunk THEN Cardinality(w.todo) ELSE Chunk
    IN
    /\ pc[s] = "update"
    /\ \E chunk \in SUBSET w.todo :
          LET changed == {o \in chunk : Updatable(o)} IN
          /\ Cardinality(chunk) = size
          /\ obs' = [o \in Observations |->
                        IF o \in changed
                        THEN [st |-> StatusOf(action[k].type), by |-> s]
                        ELSE obs[o]]
          /\ work' = [work EXCEPT ![s].todo = w.todo \ chunk, ![s].updated = w.updated \cup changed]
          /\ ledger' = [ledger EXCEPT ![k] = @ \cup changed]
          /\ Goto(s, AfterChunks(w.todo \ chunk))
    /\ UNCHANGED <<modal, action, req, reply>>

Executable(s) == work[s].exec        \* mutant: reports the rows it meant to update
Succeeded(s)  == work[s].updated

\* what is not succeeded is skipped: not_pending at the read, or update_failed
CompleteBulkAction(s) ==
    LET k == req[s].key IN
    /\ pc[s] = "complete"
    /\ action' = [action EXCEPT ![k].st = "done", ![k].succeeded = Succeeded(s),
                                ![k].skipped = modal[k].ids \ Succeeded(s)]
    /\ Finish(s, "executed", k, Succeeded(s))
    /\ UNCHANGED <<obs, modal, ledger>>

\* a call fails or the request dies; what is committed stays
Fail(s) ==
    /\ pc[s] # "idle"
    /\ Finish(s, "failed", req[s].key, {})
    /\ UNCHANGED <<obs, modal, action, ledger>>

Next ==
    \/ \E o \in Observations : CreateResourcePriceObservation(o)
    \/ \E k \in Keys, v \in Verdicts : OpenModal(k, v)
    \/ \E s \in Sessions :
          \/ \E v \in Verdicts, o \in Observations : ReadStatus(s, v, o)
          \/ WriteStatus(s)
          \/ \E k \in Keys : Classify(s, k)
          \/ CreateBulkAction(s) \/ FindBulkActionByKey(s)
          \/ UpdateChunk(s) \/ CompleteBulkAction(s)
          \/ Fail(s)

Spec == Init /\ [][Next]_vars

-----------------------------------------------------------------------------
(* Properties *)

Executing(s) == pc[s] \in {"update", "complete"}

\* However often a confirmation is sent, and whatever dies, at most one request
\* ever executes under its key.
KeyRunsOnce ==
    \A s, t \in Sessions :
        Executing(s) /\ Executing(t) /\ req[s].key = req[t].key => s = t

\* Two bulk actions with overlapping selections never both change a row, so an
\* observation is counted as approved or rejected by one action at most.
NoDoubleClaim == \A k, l \in Keys : k # l => ledger[k] \cap ledger[l] = {}

\* A completed action's audit row is exact: it names the rows it changed as
\* succeeded, although others reviewed some of them after they were read as
\* pending, and all the others of the selection as skipped.
AuditTruth ==
    \A k \in Keys : action[k].st = "done" =>
        /\ action[k].succeeded = ledger[k]
        /\ action[k].skipped = action[k].selected \ ledger[k]

\* No answer claims a row that was not changed under the key of the request,
\* whether it comes from the execution or from the recorded action.
RepliesTruthful ==
    \A s \in Sessions :
        /\ reply[s].kind = "executed" => reply[s].ids = ledger[reply[s].key]
        /\ reply[s].kind = "alreadyExecuted" => reply[s].ids \subseteq ledger[reply[s].key]

\* A modal that names no verdict has not been opened.
Opened == \A k \in Keys : modal[k].type = "none" => modal[k] = NoModal

\* What a request in flight was asked for.
Requested ==
    \A s \in Sessions :
        /\ pc[s] \in {"create", "find", "update", "complete"} =>
              /\ req[s].op = "bulk"
              /\ req[s].key \in Keys
              /\ modal[req[s].key].type \in Verdicts
              /\ work[s].todo \subseteq modal[req[s].key].ids
        /\ pc[s] = "create" => work[s].updated = {}
        /\ pc[s] = "write" => /\ req[s].op \in Verdicts \cap Ops
                               /\ req[s].id \in Observations
                               /\ obs[req[s].id].st # "absent"

\* Whoever executes owns the open action of its key, and has counted every row
\* that was changed under it.
Barrier ==
    \A s \in Sessions : Executing(s) =>
        LET k == req[s].key IN
        /\ action[k].st = "open" /\ action[k].by = s
        /\ action[k].type = modal[k].type
        /\ action[k].selected = modal[k].ids
        /\ work[s].updated = ledger[k]

\* An action records nothing before it is done, and changes nothing before it exists.
Unrecorded ==
    \A k \in Keys :
        /\ action[k].st = "none" => ledger[k] = {}
        /\ action[k].st # "done" => action[k].succeeded = {}

\* A row that an action changed stays reviewed.
ClaimsReviewed == \A k \in Keys : \A o \in ledger[k] : obs[o].st \in Reviewed

AnswersRecorded ==
    \A s \in Sessions : reply[s].kind \in {"executed", "alreadyExecuted"} =>
        /\ reply[s].key \in Keys
        /\ reply[s].kind = "executed" => action[reply[s].key].st = "done"

IInv ==
    /\ TypeOK /\ Opened /\ Requested /\ Barrier /\ Unrecorded /\ ClaimsReviewed
    /\ NoDoubleClaim /\ AuditTruth /\ AnswersRecorded /\ RepliesTruthful

\* A bulk action never overwrites a row that was reviewed meanwhile; only the
\* individual review can, because its UPDATE does not filter on the status.
BulkKeepsReviewed ==
    [][\A o \in Observations : obs[o].st \in Reviewed /\ obs'[o] # obs[o] =>
          \E s \in Sessions : pc[s] = "write" /\ req[s].id = o /\ pc'[s] = "idle"]_vars

\* Review implements ReviewDecisions: a chunk decides the rows it changes in one
\* decision, all of them waiting then, though they were read as pending calls
\* before; a row that was decided is decided again only by a reviewer who had
\* found it waiting in an individual review, and otherwise never.
Decisions == INSTANCE ReviewDecisions WITH
                 Deciders <- Sessions,
                 verdict <- [o \in Observations |-> obs[o].st],
                 decider <- [o \in Observations |-> obs[o].by],
                 inHand <- [s \in Sessions |-> IF pc[s] = "write" THEN req[s].id ELSE NoOne]
DecisionsSpec == Decisions!Spec

\* Contract: history is not overwritten: what was reviewed stays as it was
\* decided.  (docs/PRICE_INTELLIGENCE_FOUNDATION_CONTRACT.md, rule 2)
\* Two individual reviews break it: no run checks it (README, section 7).
HistoryKept ==
    [][\A o \in Observations : obs[o].st \in Reviewed => obs'[o] = obs[o]]_vars

\* Contract: the audit is complete: rows that an action has changed are among
\* its succeededIds once nobody executes it.
\* (docs/PRICE_OBSERVATION_REVIEW_CENTER_V1_CONTRACT.md, rule 9)
\* A crash between chunks breaks it: no run checks it (README, section 7).
AuditComplete ==
    \A k \in Keys : (\A s \in Sessions : Executing(s) => req[s].key # k) =>
        ledger[k] \subseteq action[k].succeeded

=============================================================================
