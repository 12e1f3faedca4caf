--------------------------- MODULE PriceReviewProofs ---------------------------
(***************************************************************************)
(* Theorems about PriceReview, for any requests, observations, keys, size   *)
(* of chunk and workload.                                                   *)
(***************************************************************************)
EXTENDS PriceReview, TLAPS

USE ReviewAssumption

ObsRow    == [st : Statuses, by : Sessions \cup {NoOne}]
ActionRow == [st : {"none", "open", "done"}, by : Sessions \cup {NoOne},
              type : Verdicts \cup {"none"}, selected : Rows, succeeded : Rows, skipped : Rows]
WorkRow   == [exec : Rows, todo : Rows, updated : Rows]

-----------------------------------------------------------------------------
(* The inductive invariant *)

LEMMA InitInv == Init => IInv
  <1> SUFFICES ASSUME Init PROVE IInv
    OBVIOUS
  <1>1. TypeOK
    BY DEF Init, TypeOK, NoModal, NoAction, NoReq, NoWork, NoReply, Statuses, Rows
  <1>2. Opened /\ Requested /\ Barrier /\ Unrecorded /\ ClaimsReviewed /\ NoDoubleClaim
    BY DEF Init, Opened, NoModal, Requested, Barrier, Executing, Unrecorded, ClaimsReviewed, NoDoubleClaim, NoAction
  <1>3. AuditTruth /\ AnswersRecorded /\ RepliesTruthful
    BY DEF Init, AuditTruth, AnswersRecorded, RepliesTruthful, NoAction, NoReply
  <1> QED BY <1>1, <1>2, <1>3 DEF IInv

LEMMA CreateInv ==
    ASSUME IInv, NEW o \in Observations, CreateResourcePriceObservation(o)
    PROVE  IInv'
  <1> USE DEF IInv, CreateResourcePriceObservation
  <1>1. TypeOK'
    <2>1. obs[o] \in ObsRow /\ obs \in [Observations -> ObsRow]
      BY DEF TypeOK, ObsRow
    <2>2. [obs[o] EXCEPT !.st = "pending"] \in ObsRow
      BY <2>1 DEF ObsRow, Statuses
    <2>3. obs' = [obs EXCEPT ![o] = [obs[o] EXCEPT !.st = "pending"]]
      OBVIOUS
    <2>4. obs' \in [Observations -> ObsRow]
      BY <2>1, <2>2, <2>3
    <2> QED BY <2>4 DEF TypeOK, ObsRow
  <1>2. Opened' /\ Requested' /\ Barrier' /\ Unrecorded' /\ NoDoubleClaim'
    BY DEF Opened, Requested, Barrier, Executing, Unrecorded, NoDoubleClaim
  <1>3. ClaimsReviewed'
    BY DEF ClaimsReviewed, Reviewed, TypeOK, Rows
  <1>4. AuditTruth' /\ AnswersRecorded' /\ RepliesTruthful'
    BY DEF AuditTruth, AnswersRecorded, RepliesTruthful
  <1> QED BY <1>1, <1>2, <1>3, <1>4

LEMMA OpenModalInv ==
    ASSUME IInv, NEW k \in Keys, NEW v \in Verdicts, OpenModal(k, v)
    PROVE  IInv'
  <1> USE DEF IInv, OpenModal
  <1>1. TypeOK'
    BY DEF TypeOK, Verdicts, Rows
  <1>2. \A s \in Sessions : pc[s] \in {"create", "find", "update", "complete"} => req[s].key # k
    BY DEF Opened, Requested, NoModal, Verdicts
  <1>3. \A l \in Keys : l # k => modal'[l] = modal[l]
    BY DEF TypeOK
  <1>4. Unrecorded' /\ ClaimsReviewed' /\ NoDoubleClaim'
    BY DEF Unrecorded, ClaimsReviewed, NoDoubleClaim
  <1>6. modal'[k].type = v
    BY DEF TypeOK
  <1>7. Opened'
    BY <1>3, <1>6 DEF Opened, Verdicts
  <1>8. Requested'
    BY <1>2, <1>3 DEF Requested
  <1>9. Barrier'
    <2> SUFFICES ASSUME NEW s \in Sessions, Executing(s)
                 PROVE  modal'[req[s].key] = modal[req[s].key]
      BY DEF Barrier, Executing
    <2> QED BY <1>2, <1>3 DEF Executing, Requested
  <1>5. AuditTruth' /\ AnswersRecorded' /\ RepliesTruthful'
    BY DEF AuditTruth, AnswersRecorded, RepliesTruthful
  <1> QED BY <1>1, <1>4, <1>5, <1>7, <1>8, <1>9

LEMMA ReadStatusInv ==
    ASSUME IInv, NEW s \in Sessions, NEW v \in Verdicts, NEW o \in Observations,
           ReadStatus(s, v, o)
    PROVE  IInv'
  <1> USE DEF IInv
  <1> DEFINE pending == obs[o].st = "pending"
             nextReq == IF pending THEN [op |-> v, key |-> NoOne, id |-> o] ELSE NoReq
             nextWork == IF pending THEN work[s] ELSE NoWork
             answer == IF pending THEN "none" ELSE "ObservationAlreadyReviewedError"
  <1>0. /\ pc' = [pc EXCEPT ![s] = IF pending THEN "write" ELSE "idle"]
        /\ req' = [req EXCEPT ![s] = nextReq]
        /\ work' = [work EXCEPT ![s] = nextWork]
        /\ reply' = [reply EXCEPT ![s] = [kind |-> answer, key |-> NoOne, ids |-> {}]]
    <2>1. CASE pending
      BY <2>1 DEF ReadStatus, Reviewable, Begin, Goto, NoReply, TypeOK
    <2>2. CASE ~pending
      BY <2>2 DEF ReadStatus, Reviewable, Finish, Goto
    <2> QED BY <2>1, <2>2
  <1>a. v \in Ops /\ UNCHANGED <<obs, modal, action, ledger>>
    BY DEF ReadStatus
  <1>1. TypeOK'
    <2>1. NoWork \in WorkRow /\ work \in [Sessions -> WorkRow]
      BY DEF TypeOK, NoWork, WorkRow, Rows
    <2>2. work' \in [Sessions -> WorkRow]
      BY <1>0, <2>1
    <2>3. req' \in [Sessions -> [op : Verdicts \cup {"bulk", "none"}, key : Keys \cup {NoOne},
                                 id : Observations \cup {NoOne}]]
      BY <1>0 DEF TypeOK, NoReq
    <2>4. reply' \in [Sessions -> [kind : {"none", "failed", "ObservationAlreadyReviewedError", "ok",
                                       "executed", "alreadyExecuted"},
                                   key : Keys \cup {NoOne}, ids : Rows]]
      BY <1>0 DEF TypeOK, Rows
    <2>5. pc' \in [Sessions -> {"idle", "create", "find", "update", "complete", "write"}]
      BY <1>0 DEF TypeOK
    <2> QED BY <1>a, <2>2, <2>3, <2>4, <2>5 DEF TypeOK, WorkRow
  <1>2. \A t \in Sessions \ {s} : pc'[t] = pc[t] /\ req'[t] = req[t] /\ work'[t] = work[t]
                                 /\ reply'[t] = reply[t]
    BY <1>0 DEF TypeOK
  <1>3. /\ pc'[s] \in {"write", "idle"}
        /\ pc'[s] = "write" => req'[s].op = v /\ req'[s].id = o /\ obs[o].st # "absent"
        /\ reply'[s].kind \notin {"executed", "alreadyExecuted"}
    BY <1>0 DEF TypeOK
  <1>4. Opened'
    BY <1>a DEF Opened
  <1>5. Requested'
    BY <1>a, <1>2, <1>3 DEF Requested
  <1>6. Barrier'
    BY <1>a, <1>2, <1>3 DEF Barrier, Executing
  <1>7. Unrecorded' /\ ClaimsReviewed' /\ NoDoubleClaim' /\ AuditTruth'
    BY <1>a DEF Unrecorded, ClaimsReviewed, NoDoubleClaim, AuditTruth
  <1>8. AnswersRecorded' /\ RepliesTruthful'
    BY <1>a, <1>2, <1>3 DEF AnswersRecorded, RepliesTruthful
  <1> QED BY <1>1, <1>4, <1>5, <1>6, <1>7, <1>8

LEMMA WriteStatusInv ==
    ASSUME IInv, NEW s \in Sessions, WriteStatus(s)
    PROVE  IInv'
  <1> USE DEF IInv, WriteStatus, Finish, Goto
  <1>1. TypeOK'
    BY DEF TypeOK, Requested, StatusOf, Statuses, NoReq, NoWork, Rows
  <1>0. \A o \in Observations : obs[o].st # "absent" => obs'[o].st # "absent"
    BY DEF TypeOK, StatusOf
  <1>a. Requested'
    BY <1>0 DEF Requested, TypeOK
  <1>2. Opened' /\ Barrier'
    BY DEF Opened, Requested, Barrier, Executing, TypeOK
  <1>3. ClaimsReviewed'
    BY DEF ClaimsReviewed, StatusOf, Reviewed, TypeOK, Rows
  <1>4. Unrecorded' /\ NoDoubleClaim' /\ AuditTruth'
    BY DEF Unrecorded, NoDoubleClaim, AuditTruth
  <1>5. AnswersRecorded' /\ RepliesTruthful'
    BY DEF AnswersRecorded, RepliesTruthful, TypeOK
  <1> QED BY <1>1, <1>a, <1>2, <1>3, <1>4, <1>5

LEMMA ClassifyInv ==
    ASSUME IInv, NEW s \in Sessions, NEW k \in Keys, Classify(s, k)
    PROVE  IInv'
  <1> USE DEF IInv, Classify, Begin, Goto
  <1>1. TypeOK'
    BY DEF TypeOK, NoReply, Rows
  <1>2. modal[k].type \in Verdicts
    BY DEF TypeOK, NoModal, Opened, Verdicts
  <1>3. Opened' /\ Requested' /\ Barrier'
    BY <1>2 DEF Opened, Requested, Barrier, Executing, TypeOK
  <1>4. Unrecorded' /\ ClaimsReviewed' /\ NoDoubleClaim' /\ AuditTruth'
    BY DEF Unrecorded, ClaimsReviewed, NoDoubleClaim, AuditTruth
  <1>5. AnswersRecorded' /\ RepliesTruthful'
    BY DEF AnswersRecorded, RepliesTruthful, TypeOK, NoReply
  <1> QED BY <1>1, <1>3, <1>4, <1>5

LEMMA CreateBulkActionInv ==
    ASSUME IInv, NEW s \in Sessions, CreateBulkAction(s)
    PROVE  IInv'
  <1> DEFINE k == req[s].key
  <1> USE DEF IInv, CreateBulkAction, Goto
  <1>0. k \in Keys /\ modal[k].type \in Verdicts /\ work[s].updated = {}
    BY DEF Opened, Requested
  <1>1. CASE KeyTaken(k)
    <2>1. TypeOK'
      BY <1>1 DEF TypeOK
    <2>2. Opened' /\ Requested' /\ Barrier'
      BY <1>1 DEF Opened, Requested, Barrier, Executing, TypeOK
    <2>3. Unrecorded' /\ ClaimsReviewed' /\ NoDoubleClaim' /\ AuditTruth'
      BY <1>1 DEF Unrecorded, ClaimsReviewed, NoDoubleClaim, AuditTruth
    <2>4. AnswersRecorded' /\ RepliesTruthful'
      BY <1>1 DEF AnswersRecorded, RepliesTruthful
    <2> QED BY <2>1, <2>2, <2>3, <2>4
  <1>2. CASE ~KeyTaken(k)
    <2>0. action[k].st = "none" /\ ledger[k] = {}
      BY <1>0, <1>2 DEF KeyTaken, Unrecorded
    <2>1. action' = [action EXCEPT ![k] =
              [st |-> "open", by |-> s, type |-> modal[k].type, selected |-> modal[k].ids,
               succeeded |-> {}, skipped |-> {}]]
      BY <1>2 DEF NoAction
    <2>2. pc' = [pc EXCEPT ![s] = AfterChunks(work[s].todo)]
          /\ work' = work
      BY <1>2
    <2>3. AfterChunks(work[s].todo) \in {"update", "complete"}
      BY DEF AfterChunks
    <2>4. TypeOK'
      <3>1. modal[k].ids \in Rows
        BY <1>0 DEF TypeOK
      <3>2. [st |-> "open", by |-> s, type |-> modal[k].type, selected |-> modal[k].ids,
             succeeded |-> {}, skipped |-> {}] \in ActionRow
        BY <1>0, <3>1 DEF ActionRow, Rows
      <3>3. action' \in [Keys -> ActionRow]
        BY <2>1, <3>2 DEF TypeOK, ActionRow
      <3> QED BY <2>2, <2>3, <3>3 DEF TypeOK, ActionRow, WorkRow
    <2>5. Opened' /\ Requested'
      BY <1>0, <2>2, <2>3 DEF Opened, Requested, TypeOK
    <2>6. \A t \in Sessions : Executing(t) => req[t].key # k
      BY <2>0 DEF Barrier, Executing
    <2>7. Barrier'
      <3> SUFFICES ASSUME NEW t \in Sessions, Executing(t)'
                   PROVE  /\ action'[req[t].key].st = "open" /\ action'[req[t].key].by = t
                          /\ action'[req[t].key].type = modal[req[t].key].type
                          /\ action'[req[t].key].selected = modal[req[t].key].ids
                          /\ work'[t].updated = ledger[req[t].key]
        BY DEF Barrier
      <3>1. CASE t = s
        <4>1. action'[k] = [st |-> "open", by |-> s, type |-> modal[k].type,
                            selected |-> modal[k].ids, succeeded |-> {}, skipped |-> {}]
          BY <1>0, <2>1 DEF TypeOK
        <4>2. work'[s].updated = {}
          BY <1>0, <2>2 DEF TypeOK
        <4> QED BY <3>1, <4>1, <4>2, <2>0
      <3>2. CASE t # s
        <4>1. Executing(t) /\ work'[t] = work[t]
          BY <3>2, <2>2 DEF Executing, TypeOK
        <4>2. req[t].key # k /\ req[t].key \in Keys
          BY <4>1, <2>6 DEF Requested, Executing
        <4>3. action'[req[t].key] = action[req[t].key]
          BY <4>2, <2>1 DEF TypeOK
        <4> QED BY <4>1, <4>3 DEF Barrier
      <3> QED BY <3>1, <3>2
    <2>8. Unrecorded' /\ ClaimsReviewed' /\ NoDoubleClaim'
      BY <1>0, <2>1 DEF Unrecorded, ClaimsReviewed, NoDoubleClaim, TypeOK
    <2>9. AuditTruth'
      BY <1>0, <2>1 DEF AuditTruth, TypeOK
    <2>10. AnswersRecorded' /\ RepliesTruthful'
      BY <1>0, <2>0, <2>1 DEF AnswersRecorded, RepliesTruthful, TypeOK
    <2> QED BY <2>4, <2>5, <2>7, <2>8, <2>9, <2>10
  <1> QED BY <1>1, <1>2

LEMMA FindInv ==
    ASSUME IInv, NEW s \in Sessions, FindBulkActionByKey(s)
    PROVE  IInv'
  <1> DEFINE k == req[s].key
  <1> USE DEF IInv, FindBulkActionByKey, Finish, Goto, Original
  <1>0. k \in Keys
    BY DEF Opened, Requested
  <1>1. action[k].succeeded \subseteq ledger[k]
    BY <1>0 DEF AuditTruth, Unrecorded
  <1>2. TypeOK'
    BY <1>0 DEF TypeOK, NoReq, NoWork, Rows
  <1>3. Opened' /\ Requested' /\ Barrier'
    BY DEF Opened, Requested, Barrier, Executing, TypeOK
  <1>4. Unrecorded' /\ ClaimsReviewed' /\ NoDoubleClaim' /\ AuditTruth'
    BY DEF Unrecorded, ClaimsReviewed, NoDoubleClaim, AuditTruth
  <1>5. AnswersRecorded' /\ RepliesTruthful'
    BY <1>0, <1>1 DEF AnswersRecorded, RepliesTruthful, TypeOK
  <1> QED BY <1>2, <1>3, <1>4, <1>5

\* What one statement of bulkUpdateStatus does, with its rows named.
LEMMA ChunkEffect ==
    ASSUME IInv, NEW s \in Sessions, UpdateChunk(s)
    PROVE  \E chunk \in SUBSET work[s].todo, changed \in SUBSET Observations :
              /\ changed = {o \in chunk : obs[o].st = "pending"}
              /\ obs' = [o \in Observations |->
                            IF o \in changed
                            THEN [st |-> StatusOf(action[req[s].key].type), by |-> s]
                            ELSE obs[o]]
              /\ work' = [work EXCEPT ![s].todo = work[s].todo \ chunk,
                                      ![s].updated = work[s].updated \cup changed]
              /\ ledger' = [ledger EXCEPT ![req[s].key] = ledger[req[s].key] \cup changed]
              /\ pc' = [pc EXCEPT ![s] = AfterChunks(work[s].todo \ chunk)]
  <1>1. work[s].todo \subseteq Observations
    BY DEF IInv, TypeOK, Rows
  <1>2. req[s].key \in Keys
    BY DEF IInv, Requested, UpdateChunk
  <1> QED BY <1>1, <1>2 DEF UpdateChunk, Updatable, Goto, IInv, TypeOK

LEMMA UpdateChunkInv ==
    ASSUME IInv, NEW s \in Sessions, UpdateChunk(s)
    PROVE  IInv'
  <1> DEFINE k == req[s].key
  <1> USE DEF IInv
  <1>a. /\ pc[s] = "update" /\ UNCHANGED <<modal, action, req, reply>>
    BY DEF UpdateChunk
  <1>0. /\ k \in Keys /\ Executing(s)
        /\ action[k].st = "open" /\ action[k].by = s
        /\ work[s].updated = ledger[k] /\ work[s].todo \subseteq modal[k].ids
    BY <1>a DEF Opened, Requested, Barrier, Executing
  <1>b. PICK chunk \in SUBSET work[s].todo, changed \in SUBSET Observations :
              /\ changed = {o \in chunk : obs[o].st = "pending"}
              /\ obs' = [o \in Observations |->
                            IF o \in changed
                            THEN [st |-> StatusOf(action[k].type), by |-> s]
                            ELSE obs[o]]
              /\ work' = [work EXCEPT ![s].todo = work[s].todo \ chunk,
                                      ![s].updated = work[s].updated \cup changed]
              /\ ledger' = [ledger EXCEPT ![k] = ledger[k] \cup changed]
              /\ pc' = [pc EXCEPT ![s] = AfterChunks(work[s].todo \ chunk)]
    BY ChunkEffect
  <1>c. AfterChunks(work[s].todo \ chunk) \in {"update", "complete"}
    BY DEF AfterChunks
  <1>d. \A t \in Sessions : Executing(t) /\ t # s => req[t].key # k
    BY <1>0 DEF Barrier
  <1>e. \A l \in Keys : ledger[l] \cap changed = {}
    BY <1>b DEF ClaimsReviewed, Reviewed
  <1>1. TypeOK'
    <2>1. obs' \in [Observations -> [st : Statuses, by : Sessions \cup {NoOne}]]
      BY <1>b DEF TypeOK, StatusOf, Statuses
    <2>2. work' \in [Sessions -> [exec : Rows, todo : Rows, updated : Rows]]
      <3>1. work[s] \in WorkRow /\ changed \in Rows
        BY DEF TypeOK, WorkRow, Rows
      <3>2. [work[s] EXCEPT !.todo = work[s].todo \ chunk,
                            !.updated = work[s].updated \cup changed] \in WorkRow
        BY <3>1 DEF WorkRow, Rows
      <3>3. work' = [work EXCEPT ![s] = [work[s] EXCEPT !.todo = work[s].todo \ chunk,
                                             !.updated = work[s].updated \cup changed]]
        BY <1>b DEF TypeOK
      <3> QED BY <3>2, <3>3 DEF TypeOK, WorkRow
    <2>3. ledger' \in [Keys -> Rows]
      BY <1>b, <1>0 DEF TypeOK, Rows
    <2>4. pc' \in [Sessions -> {"idle", "create", "find", "update", "complete", "write"}]
      BY <1>b, <1>c DEF TypeOK
    <2> QED BY <1>a, <2>1, <2>2, <2>3, <2>4 DEF TypeOK
  <1>2. Opened' /\ Requested'
    <2>1. \A o \in Observations : obs[o].st # "absent" => obs'[o].st # "absent"
      BY <1>b DEF StatusOf
    <2> QED BY <2>1, <1>a, <1>b, <1>c DEF Opened, Requested, TypeOK
  <1>3. Barrier'
    <2> SUFFICES ASSUME NEW t \in Sessions, Executing(t)'
                 PROVE  /\ action[req[t].key].st = "open" /\ action[req[t].key].by = t
                        /\ action[req[t].key].type = modal[req[t].key].type
                        /\ action[req[t].key].selected = modal[req[t].key].ids
                        /\ work'[t].updated = ledger'[req[t].key]
      BY <1>a DEF Barrier
    <2>1. CASE t = s
      BY <2>1, <1>0, <1>b DEF Barrier, TypeOK
    <2>2. CASE t # s
      <3>1. Executing(t) /\ req[t].key # k
        BY <2>2, <1>b, <1>d DEF Executing, TypeOK
      <3> QED BY <3>1, <2>2, <1>b DEF Barrier, TypeOK
    <2> QED BY <2>1, <2>2
  <1>4. Unrecorded'
    BY <1>a, <1>0, <1>b DEF Unrecorded, TypeOK
  <1>5. ClaimsReviewed'
    <2> SUFFICES ASSUME NEW l \in Keys, NEW o \in ledger'[l]
                 PROVE  obs'[o].st \in Reviewed
      BY DEF ClaimsReviewed
    <2>1. o \in ledger[l] \cup changed /\ o \in Observations
      BY <1>b DEF TypeOK, Rows
    <2> QED BY <2>1, <1>b DEF ClaimsReviewed, StatusOf, Reviewed
  <1>6. NoDoubleClaim'
    BY <1>b, <1>e, <1>0 DEF NoDoubleClaim, TypeOK
  <1>7. AuditTruth'
    BY <1>a, <1>b, <1>0 DEF AuditTruth, TypeOK
  <1>8. AnswersRecorded'
    BY <1>a DEF AnswersRecorded
  <1>9. RepliesTruthful'
    BY <1>a, <1>b, <1>0 DEF RepliesTruthful, AnswersRecorded, TypeOK
  <1> QED BY <1>1, <1>2, <1>3, <1>4, <1>5, <1>6, <1>7, <1>8, <1>9

LEMMA CompleteInv ==
    ASSUME IInv, NEW s \in Sessions, CompleteBulkAction(s)
    PROVE  IInv'
  <1> DEFINE k == req[s].key
  <1> USE DEF IInv
  <1>a. /\ pc[s] = "complete"
        /\ pc' = [pc EXCEPT ![s] = "idle"] /\ req' = [req EXCEPT ![s] = NoReq]
        /\ work' = [work EXCEPT ![s] = NoWork]
        /\ reply' = [reply EXCEPT ![s] = [kind |-> "executed", key |-> k, ids |-> work[s].updated]]
        /\ UNCHANGED <<obs, modal, ledger>>
    BY DEF CompleteBulkAction, Finish, Goto, Succeeded
  <1>0. /\ k \in Keys /\ Executing(s)
        /\ action[k].st = "open" /\ action[k].by = s
        /\ work[s].updated = ledger[k] /\ action[k].selected = modal[k].ids
    BY <1>a DEF Requested, Barrier, Executing
  <1>d. \A t \in Sessions : Executing(t) /\ t # s => req[t].key # k
    BY <1>0 DEF Barrier
  <1>e. action' = [action EXCEPT ![k] =
            [action[k] EXCEPT !.st = "done", !.succeeded = work[s].updated,
                              !.skipped = modal[k].ids \ work[s].updated]]
    BY <1>0 DEF CompleteBulkAction, Succeeded, TypeOK
  <1>1. TypeOK'
    <2>1. action[k] \in ActionRow /\ work[s].updated \in Rows /\ modal[k].ids \in Rows
      BY <1>0 DEF TypeOK, ActionRow
    <2>2. [action[k] EXCEPT !.st = "done", !.succeeded = work[s].updated,
                            !.skipped = modal[k].ids \ work[s].updated] \in ActionRow
      BY <2>1 DEF ActionRow, Rows
    <2>3. action' \in [Keys -> ActionRow]
      BY <1>e, <2>2 DEF TypeOK, ActionRow
    <2>4. work' \in [Sessions -> WorkRow]
      BY <1>a DEF TypeOK, WorkRow, NoWork, Rows
    <2>5. /\ req' \in [Sessions -> [op : Verdicts \cup {"bulk", "none"}, key : Keys \cup {NoOne},
                                    id : Observations \cup {NoOne}]]
          /\ pc' \in [Sessions -> {"idle", "create", "find", "update", "complete", "write"}]
      BY <1>a DEF TypeOK, NoReq
    <2>6. reply' \in [Sessions -> [kind : {"none", "failed", "ObservationAlreadyReviewedError", "ok",
                                       "executed", "alreadyExecuted"},
                                   key : Keys \cup {NoOne}, ids : Rows]]
      BY <1>0, <1>a, <2>1 DEF TypeOK
    <2> QED BY <1>a, <2>3, <2>4, <2>5, <2>6 DEF TypeOK, ActionRow, WorkRow
  <1>2. Opened' /\ Requested'
    BY <1>a DEF Opened, Requested, TypeOK
  <1>3. Barrier'
    <2> SUFFICES ASSUME NEW t \in Sessions, Executing(t)'
                 PROVE  /\ action'[req'[t].key].st = "open" /\ action'[req'[t].key].by = t
                        /\ action'[req'[t].key].type = modal[req'[t].key].type
                        /\ action'[req'[t].key].selected = modal[req'[t].key].ids
                        /\ work'[t].updated = ledger[req'[t].key]
      BY <1>a DEF Barrier
    <2>1. t # s /\ Executing(t) /\ req'[t] = req[t] /\ work'[t] = work[t]
      BY <1>a DEF Executing, TypeOK
    <2>2. req[t].key # k /\ req[t].key \in Keys
      BY <2>1, <1>d DEF Requested, Executing
    <2>3. action'[req[t].key] = action[req[t].key]
      BY <2>2, <1>e DEF TypeOK
    <2> QED BY <2>1, <2>3 DEF Barrier
  <1>4. Unrecorded'
    BY <1>0, <1>a, <1>e DEF Unrecorded, TypeOK
  <1>5. ClaimsReviewed' /\ NoDoubleClaim'
    BY <1>a DEF ClaimsReviewed, NoDoubleClaim
  <1>6. AuditTruth'
    BY <1>0, <1>a, <1>e DEF AuditTruth, TypeOK
  <1>7. AnswersRecorded'
    BY <1>0, <1>a, <1>e DEF AnswersRecorded, TypeOK
  <1>8. RepliesTruthful'
    BY <1>0, <1>a DEF RepliesTruthful, TypeOK
  <1> QED BY <1>1, <1>2, <1>3, <1>4, <1>5, <1>6, <1>7, <1>8

LEMMA FailInv ==
    ASSUME IInv, NEW s \in Sessions, Fail(s)
    PROVE  IInv'
  <1> USE DEF IInv, Fail, Finish, Goto
  <1>1. TypeOK'
    BY DEF TypeOK, NoReq, NoWork, Rows
  <1>2. Opened' /\ Requested' /\ Barrier'
    BY DEF Opened, Requested, Barrier, Executing, TypeOK
  <1>3. Unrecorded' /\ ClaimsReviewed' /\ NoDoubleClaim' /\ AuditTruth'
    BY DEF Unrecorded, ClaimsReviewed, NoDoubleClaim, AuditTruth
  <1>4. AnswersRecorded' /\ RepliesTruthful'
    BY DEF AnswersRecorded, RepliesTruthful, TypeOK
  <1> QED BY <1>1, <1>2, <1>3, <1>4

LEMMA StutterInv ==
    ASSUME IInv, UNCHANGED vars
    PROVE  IInv'
  <1>1. TypeOK'
    BY DEF IInv, TypeOK, vars
  <1>2. Opened' /\ Requested' /\ Barrier' /\ Unrecorded' /\ ClaimsReviewed' /\ NoDoubleClaim'
    BY DEF IInv, vars, Opened, Requested, Barrier, Executing, Unrecorded, ClaimsReviewed, NoDoubleClaim
  <1>3. AuditTruth' /\ AnswersRecorded' /\ RepliesTruthful'
    BY DEF IInv, vars, AuditTruth, AnswersRecorded, RepliesTruthful
  <1> QED BY <1>1, <1>2, <1>3 DEF IInv

LEMMA NextInv == IInv /\ [Next]_vars => IInv'
  BY CreateInv, OpenModalInv, ReadStatusInv, WriteStatusInv, ClassifyInv,
     CreateBulkActionInv, FindInv, UpdateChunkInv, CompleteInv, FailInv, StutterInv
     DEF Next

\* The requests, actions and observations stay consistent in every reachable state.
THEOREM Invariance == Spec => []IInv
  <1>1. Init => IInv
    BY InitInv
  <1>2. IInv /\ [Next]_vars => IInv'
    BY NextInv
  <1> QED BY <1>1, <1>2, PTL DEF Spec

-----------------------------------------------------------------------------
(* Safety *)

\* Every variable keeps its type.
THEOREM TypeCorrect == Spec => []TypeOK
  <1>1. IInv => TypeOK
    BY DEF IInv
  <1> QED BY <1>1, Invariance, PTL

\* The UNIQUE key of bulk actions lets one request at most execute a confirmation.
THEOREM OneExecution == Spec => []KeyRunsOnce
  <1>1. IInv => KeyRunsOnce
    BY DEF IInv, Barrier, KeyRunsOnce
  <1> QED BY <1>1, Invariance, PTL

\* Overlapping bulk actions never change the same observation.
THEOREM ClaimsAreDisjoint == Spec => []NoDoubleClaim
  <1>1. IInv => NoDoubleClaim
    BY DEF IInv
  <1> QED BY <1>1, Invariance, PTL

\* The audit row of a completed action names exactly the observations it changed.
THEOREM AuditIsTrue == Spec => []AuditTruth
  <1>1. IInv => AuditTruth
    BY DEF IInv
  <1> QED BY <1>1, Invariance, PTL

\* No answer of a bulk review claims an observation that was not changed.
THEOREM RepliesAreTruthful == Spec => []RepliesTruthful
  <1>1. IInv => RepliesTruthful
    BY DEF IInv
  <1> QED BY <1>1, Invariance, PTL

\* Only an individual review can touch an observation that was already reviewed.
THEOREM BulkKeeps == Spec => BulkKeepsReviewed
  <1> DEFINE Kept == \A o \in Observations : obs[o].st \in Reviewed /\ obs'[o] # obs[o] =>
                        \E s \in Sessions : pc[s] = "write" /\ req[s].id = o /\ pc'[s] = "idle"
  <1>1. IInv /\ [Next]_vars => [Kept]_vars
    <2> SUFFICES ASSUME IInv, Next, NEW o \in Observations,
                        obs[o].st \in Reviewed, obs'[o] # obs[o]
                 PROVE  \E s \in Sessions : pc[s] = "write" /\ req[s].id = o /\ pc'[s] = "idle"
      BY DEF vars
    <2>1. ASSUME NEW p \in Observations, CreateResourcePriceObservation(p) PROVE FALSE
      BY <2>1 DEF CreateResourcePriceObservation, Reviewed, IInv, TypeOK
    <2>2. ASSUME NEW s \in Sessions, UpdateChunk(s) PROVE FALSE
      BY <2>2, ChunkEffect DEF Reviewed
    <2>3. ASSUME NEW s \in Sessions, WriteStatus(s)
          PROVE  pc[s] = "write" /\ req[s].id = o /\ pc'[s] = "idle"
      BY <2>3 DEF WriteStatus, Finish, Goto, IInv, TypeOK
    <2>4. obs' # obs
      OBVIOUS
    <2> QED BY <2>1, <2>2, <2>3, <2>4
            DEF Next, OpenModal, ReadStatus, Classify, CreateBulkAction,
                FindBulkActionByKey, CompleteBulkAction, Fail
  <1> QED BY <1>1, Invariance, PTL DEF Spec, BulkKeepsReviewed

-----------------------------------------------------------------------------
(* Refinement of ReviewDecisions *)

verdict == [o \in Observations |-> obs[o].st]
decider == [o \in Observations |-> obs[o].by]
inHand  == [s \in Sessions |-> IF pc[s] = "write" THEN req[s].id ELSE NoOne]

\* A request that does not enter or leave the second call of an individual
\* review takes nothing in hand.
LEMMA HandStays ==
    ASSUME NEW s \in Sessions, pc[s] # "write", pc'[s] # "write",
           \A t \in Sessions \ {s} : pc'[t] = pc[t] /\ req'[t] = req[t]
    PROVE  inHand' = inHand
  BY DEF inHand

\* What every step of a request leaves alone.
LEMMA OneRequest ==
    ASSUME TypeOK, NEW s \in Sessions,
           \/ \E v \in Verdicts, o \in Observations : ReadStatus(s, v, o)
           \/ WriteStatus(s)
           \/ \E k \in Keys : Classify(s, k)
           \/ CreateBulkAction(s) \/ FindBulkActionByKey(s)
           \/ UpdateChunk(s) \/ CompleteBulkAction(s)
           \/ Fail(s)
    PROVE  \A t \in Sessions \ {s} : pc'[t] = pc[t] /\ req'[t] = req[t]
  <1>1. ASSUME NEW kind, NEW k, NEW ids, Finish(s, kind, k, ids)
        PROVE  \A t \in Sessions \ {s} : pc'[t] = pc[t] /\ req'[t] = req[t]
    BY <1>1 DEF Finish, Goto, TypeOK
  <1>2. ASSUME NEW r, NEW l, Begin(s, r, l)
        PROVE  \A t \in Sessions \ {s} : pc'[t] = pc[t] /\ req'[t] = req[t]
    BY <1>2 DEF Begin, Goto, TypeOK
  <1>3. ASSUME NEW l, Goto(s, l), req' = req
        PROVE  \A t \in Sessions \ {s} : pc'[t] = pc[t] /\ req'[t] = req[t]
    BY <1>3 DEF Goto, TypeOK
  <1>4. CASE \E v \in Verdicts, o \in Observations : ReadStatus(s, v, o)
    BY <1>1, <1>2, <1>4 DEF ReadStatus
  <1>5. CASE WriteStatus(s) \/ FindBulkActionByKey(s) \/ CompleteBulkAction(s) \/ Fail(s)
    BY <1>1, <1>5 DEF WriteStatus, FindBulkActionByKey, CompleteBulkAction, Fail
  <1>6. CASE \E k \in Keys : Classify(s, k)
    BY <1>2, <1>6 DEF Classify
  <1>7. CASE CreateBulkAction(s) \/ UpdateChunk(s)
    BY <1>3, <1>7 DEF CreateBulkAction, UpdateChunk
  <1> QED BY <1>4, <1>5, <1>6, <1>7

LEMMA CreateSubmits ==
    ASSUME IInv, NEW o \in Observations, CreateResourcePriceObservation(o)
    PROVE  Decisions!Submit(o)
  <1>1. obs[o].st = "absent" /\ obs' = [obs EXCEPT ![o] = [obs[o] EXCEPT !.st = "pending"]]
    BY DEF CreateResourcePriceObservation
  <1>2. \A p \in Observations : obs \in [Observations -> ObsRow] /\ obs[p] \in ObsRow
    BY DEF IInv, TypeOK, ObsRow
  <1>3. /\ obs'[o].st = "pending" /\ obs'[o].by = obs[o].by
        /\ \A p \in Observations \ {o} : obs'[p] = obs[p]
    BY <1>1, <1>2 DEF ObsRow
  <1>4. verdict' = [verdict EXCEPT ![o] = "pending"]
    BY <1>3 DEF verdict
  <1>5. decider' = decider
    BY <1>3 DEF decider
  <1>6. inHand' = inHand
    BY DEF CreateResourcePriceObservation, inHand
  <1> QED BY <1>1, <1>4, <1>5, <1>6 DEF Decisions!Submit, verdict, decider, inHand

\* A chunk is one decision about rows that all wait.
LEMMA ChunkDecides ==
    ASSUME IInv, NEW s \in Sessions, UpdateChunk(s)
    PROVE  Decisions!Next
  <1>1. action[req[s].key].type \in Verdicts
    BY DEF IInv, Barrier, Executing, Requested, UpdateChunk
  <1>2. PICK changed \in SUBSET Observations :
            /\ \A o \in changed : obs[o].st = "pending"
            /\ obs' = [o \in Observations |->
                          IF o \in changed
                          THEN [st |-> StatusOf(action[req[s].key].type), by |-> s]
                          ELSE obs[o]]
    BY ChunkEffect
  <1>3. PICK v \in {"approved", "rejected"} : v = StatusOf(action[req[s].key].type)
    BY <1>1 DEF StatusOf
  <1>4. \A o \in Observations :
            /\ obs'[o].st = IF o \in changed THEN v ELSE obs[o].st
            /\ obs'[o].by = IF o \in changed THEN s ELSE obs[o].by
    BY <1>2, <1>3
  <1>5. verdict' = [o \in Observations |-> IF o \in changed THEN v ELSE verdict[o]]
    BY <1>4 DEF verdict
  <1>6. decider' = [o \in Observations |-> IF o \in changed THEN s ELSE decider[o]]
    BY <1>4 DEF decider
  <1>7. \A o \in changed : verdict[o] = "pending"
    BY <1>2 DEF verdict
  <1>8. inHand' = inHand
    <2>1. pc[s] # "write" /\ pc'[s] # "write"
      BY DEF UpdateChunk, Goto, AfterChunks, IInv, TypeOK
    <2> QED BY <2>1, OneRequest, HandStays DEF IInv
  <1>9. Decisions!Decide(s, changed, v)
    BY <1>5, <1>6, <1>7, <1>8 DEF Decisions!Decide, verdict, decider, inHand
  <1> QED BY <1>9 DEF Decisions!Next

\* The read of an individual review takes a waiting row in hand ...
LEMMA ReadTakes ==
    ASSUME IInv, NEW s \in Sessions, NEW v \in Verdicts, NEW o \in Observations, ReadStatus(s, v, o)
    PROVE  Decisions!Next \/ UNCHANGED <<verdict, decider, inHand>>
  <1>1. obs' = obs /\ pc[s] = "idle"
    BY DEF ReadStatus, Begin
  <1>2. verdict' = verdict /\ decider' = decider
    BY <1>1 DEF verdict, decider
  <1>3. CASE ~Reviewable(o)
    <2>1. pc'[s] # "write"
      BY <1>3 DEF ReadStatus, Finish, Goto, IInv, TypeOK
    <2>2. \A t \in Sessions \ {s} : pc'[t] = pc[t] /\ req'[t] = req[t]
      BY OneRequest DEF IInv
    <2> QED BY <1>1, <1>2, <2>1, <2>2, HandStays
  <1>4. CASE Reviewable(o)
    <2>1. pc'[s] = "write" /\ req'[s].id = o
      BY <1>4 DEF ReadStatus, Begin, Goto, IInv, TypeOK
    <2>2. \A t \in Sessions \ {s} : pc'[t] = pc[t] /\ req'[t] = req[t]
      BY OneRequest DEF IInv
    <2>3. inHand[s] = NoOne /\ inHand' = [inHand EXCEPT ![s] = o]
      BY <1>1, <2>1, <2>2 DEF inHand
    <2>4. verdict[o] = "pending" /\ o \in OneByOne
      BY <1>4 DEF ReadStatus, Reviewable, verdict
    <2>5. Decisions!Take(s, o)
      BY <1>2, <2>3, <2>4 DEF Decisions!Take, verdict, decider, inHand
    <2> QED BY <2>4, <2>5 DEF Decisions!Next
  <1> QED BY <1>3, <1>4

\* ... and the UPDATE judges it.
LEMMA WriteJudges ==
    ASSUME IInv, NEW s \in Sessions, WriteStatus(s)
    PROVE  Decisions!Next
  <1>1. req[s].id \in Observations /\ pc[s] = "write"
    BY DEF WriteStatus, IInv, Requested
  <1>2. PICK o \in Observations : o = req[s].id
    BY <1>1
  <1>3. PICK v \in {"approved", "rejected"} : v = StatusOf(req[s].op)
    BY DEF StatusOf
  <1>4. obs \in [Observations -> ObsRow]
    BY DEF IInv, TypeOK, ObsRow
  <1>5. /\ obs'[o].st = v /\ obs'[o].by = s
        /\ \A p \in Observations \ {o} : obs'[p] = obs[p]
    BY <1>2, <1>3, <1>4 DEF WriteStatus
  <1>6. verdict' = [verdict EXCEPT ![o] = v] /\ decider' = [decider EXCEPT ![o] = s]
    BY <1>5 DEF verdict, decider
  <1>7. inHand[s] = o /\ o # NoOne
    BY <1>1, <1>2, ReviewAssumption DEF inHand
  <1>8. inHand' = [inHand EXCEPT ![s] = NoOne]
    <2>1. pc'[s] # "write"
      BY DEF WriteStatus, Finish, Goto, IInv, TypeOK
    <2>2. \A t \in Sessions \ {s} : pc'[t] = pc[t] /\ req'[t] = req[t]
      BY OneRequest DEF IInv
    <2> QED BY <2>1, <2>2 DEF inHand
  <1>9. Decisions!Judge(s, v)
    BY <1>6, <1>7, <1>8 DEF Decisions!Judge, verdict, decider, inHand
  <1> QED BY <1>9 DEF Decisions!Next

LEMMA FailPutsBack ==
    ASSUME IInv, NEW s \in Sessions, Fail(s)
    PROVE  Decisions!Next
  <1>1. verdict' = verdict /\ decider' = decider
    BY DEF Fail, verdict, decider
  <1>2. inHand' = [inHand EXCEPT ![s] = NoOne]
    <2>1. pc'[s] # "write"
      BY DEF Fail, Finish, Goto, IInv, TypeOK
    <2>2. \A t \in Sessions \ {s} : pc'[t] = pc[t] /\ req'[t] = req[t]
      BY OneRequest DEF IInv
    <2> QED BY <2>1, <2>2 DEF inHand
  <1>3. Decisions!PutBack(s)
    BY <1>1, <1>2 DEF Decisions!PutBack, verdict, decider, inHand
  <1> QED BY <1>3 DEF Decisions!Next

\* The other calls of a bulk review are no decision.
LEMMA OthersStutter ==
    ASSUME IInv, NEW s \in Sessions,
           (\E k \in Keys : Classify(s, k)) \/ CreateBulkAction(s) \/ FindBulkActionByKey(s)
               \/ CompleteBulkAction(s)
    PROVE  UNCHANGED <<verdict, decider, inHand>>
  <1>1. obs' = obs
    BY DEF Classify, CreateBulkAction, FindBulkActionByKey, CompleteBulkAction
  <1>2. pc[s] # "write" /\ pc'[s] # "write"
    BY DEF Classify, CreateBulkAction, FindBulkActionByKey, CompleteBulkAction,
           Begin, Finish, Goto, AfterChunks, IInv, TypeOK
  <1>3. inHand' = inHand
    BY <1>2, OneRequest, HandStays DEF IInv
  <1> QED BY <1>1, <1>3 DEF verdict, decider

LEMMA StepDecides ==
    ASSUME IInv, [Next]_vars
    PROVE  [Decisions!Next]_<<verdict, decider, inHand>>
  <1>1. CASE UNCHANGED vars \/ \E k \in Keys, v \in Verdicts : OpenModal(k, v)
    <2>1. obs' = obs /\ pc' = pc /\ req' = req
      BY <1>1 DEF vars, OpenModal
    <2> QED BY <2>1 DEF verdict, decider, inHand
  <1>2. ASSUME NEW o \in Observations, CreateResourcePriceObservation(o)
        PROVE  Decisions!Next
    BY <1>2, CreateSubmits DEF Decisions!Next
  <1> QED BY <1>1, <1>2, ReadTakes, WriteJudges, ChunkDecides, FailPutsBack, OthersStutter DEF Next

\* Review implements ReviewDecisions, whatever requests there are and whatever
\* dies: bulk decisions are final, and a row is judged again only by a reviewer
\* who had it in hand since before it was decided.
THEOREM ReviewImplementsDecisions == Spec => DecisionsSpec
  <1>1. IInv /\ [Next]_vars => [Decisions!Next]_<<verdict, decider, inHand>>
    BY StepDecides
  <1>2. Init => Decisions!Init
    BY DEF Init, Decisions!Init, verdict, decider, inHand
  <1> QED BY <1>1, <1>2, Invariance, PTL
          DEF Spec, DecisionsSpec, Decisions!Spec, verdict, decider, inHand

=============================================================================
