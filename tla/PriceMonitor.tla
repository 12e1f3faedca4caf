------------------------------ MODULE PriceMonitor ------------------------------
(***************************************************************************)
(* The price monitor (apps/web/server/pricing/monitor): targets are checked *)
(* by a scheduled run, which the cron endpoint starts every day under an    *)
(* advisory lock, and by manual runs, which take no lock.  A run belongs to *)
(* one organisation and is created once per key, UNIQUE (organization_id,   *)
(* idempotency_key).  Each target is checked against its baseline, a price  *)
(* that differs is proposed as a pending observation, and the target is     *)
(* rescheduled.                                                             *)
(*                                                                         *)
(* Every database call is a transaction of its own and needs a connection   *)
(* of the instance's pool, in which the lock occupies one.  A run may meet  *)
(* an error, or be killed, between any two calls.  Time advances in ticks.  *)
(*                                                                         *)
(* Fetching and extraction are one choice of a price or a failure.  A       *)
(* target has a resource of its own; currency, unit, warnings, results,     *)
(* last_checked_at, last_success_at and baseline_observation_id are not     *)
(* modelled.                                                                *)
(***************************************************************************)
EXTENDS Integers, FiniteSets

CONSTANTS
    Workers,        \* instances of the server, each with one run at a time
    Targets,        \* rows of price_monitor_targets
    OrgOf,          \* target -> its organisation
    Prices,         \* prices a page may show
    Cadences,       \* days between two checks
    PoolMax,        \* connections of an instance: DEFAULT_POSTGRES_POOL_MAX
    BatchLimit,     \* MONITOR_BATCH_LIMIT
    DayLength,      \* ticks of a day
    OrgWindow,      \* MONITOR_MANUAL_WINDOW_SECONDS, in ticks; that of a target is one
    StaleAfter,     \* MONITOR_STALE_RUN_MINUTES, in ticks
    MaxLife,        \* maxDuration, in ticks
    Schedule,       \* ticks of a day at which the cron endpoint is called
    Ops,            \* what happens in this workload
    Edited,         \* the targets that it pauses or gives another cadence
    MaxTime,        \* bound of the clock
    NoOne           \* no worker, target, organisation or price

ASSUME MonitorAssumption ==
    /\ {PoolMax, BatchLimit, DayLength, OrgWindow} \subseteq Nat \ {0}
    /\ StaleAfter \in Nat /\ MaxLife \in Nat /\ MaxTime \in Nat
    /\ MaxLife <= StaleAfter /\ MaxLife < DayLength
    /\ Cadences \subseteq Nat \ {0} /\ Cadences # {}
    /\ Schedule \subseteq 0 .. DayLength - 1
    /\ DOMAIN OrgOf = Targets
    /\ IsFiniteSet(Targets)
    /\ NoOne \notin Workers \cup Targets \cup Prices

VARIABLES
    target,     \* target -> its row
    streak,     \* history: target -> failed results since its last good one
    pending,    \* target -> price -> pending observations of its source
    baseline,   \* target -> price findBaseline returns
    runs,       \* rows of price_monitor_runs
    lock,       \* holder of the advisory lock price_monitor_global_run
    now,        \* the clock
    pc,         \* worker -> next step of its run
    work        \* worker -> local variables of its run

table == <<target, streak, pending, baseline>>
vars  == <<table, runs, lock, now, pc, work>>

Orgs     == {OrgOf[t] : t \in Targets}
Triggers == {"scheduled", "manual-org", "manual-target"}
RunKeys  == [trigger : Triggers, org : Orgs \cup {NoOne}, id : Targets \cup {NoOne},
             slot : 0 .. MaxTime]
Rows     == [key : RunKeys, st : {"running", "completed", "partial", "failed"},
             started : 0 .. MaxTime]
NoKey    == [trigger |-> "scheduled", org |-> NoOne, id |-> NoOne, slot |-> 0]

\* what a listing returns of a target
Snapshots  == [id : Targets, cadence : Cadences, failures : Nat]
NoSnapshot == [id |-> NoOne]

\* the iteration of processOrgTargets for one target, and a run
Nowhere == [target |-> NoSnapshot, at |-> 0, price |-> NoOne, good |-> FALSE]
NoWork  == [trigger |-> "scheduled", born |-> 0, listed |-> 0, due |-> {}, plan |-> {},
            key |-> NoKey, queue |-> {}, here |-> Nowhere,
            anyGood |-> FALSE, anyFailed |-> FALSE, thrown |-> FALSE]

Checks == [target : Snapshots \cup {NoSnapshot}, at : Nat, price : Prices \cup {NoOne},
           good : BOOLEAN]
Works  == [trigger : Triggers, born : 0 .. MaxTime, listed : 0 .. MaxTime,
           due : SUBSET Targets, plan : SUBSET Snapshots, key : RunKeys, queue : SUBSET Snapshots,
           here : Checks, anyGood : BOOLEAN, anyFailed : BOOLEAN, thrown : BOOLEAN]

TypeOK ==
    /\ target \in [Targets -> [st : {"enabled", "paused"}, cadence : Cadences,
                               next : Nat, failures : Nat]]
    /\ streak \in [Targets -> Nat]
    /\ pending \in [Targets -> [Prices -> Nat]]
    /\ baseline \in [Targets -> Prices \cup {NoOne}]
    /\ runs \in SUBSET Rows
    /\ \A r, q \in runs : r.key = q.key => r = q
    /\ lock \in Workers \cup {NoOne}
    /\ now \in 0 .. MaxTime
    /\ pc \in [Workers -> {"idle", "recover", "list", "create", "check", "find", "insert",
                           "record", "update", "finish", "abort", "release"}]
    /\ work \in [Workers -> Works]

Init ==
    /\ target \in [Targets -> [st : {"enabled"}, cadence : Cadences, next : {0}, failures : {0}]]
    /\ streak = [t \in Targets |-> 0]
    /\ pending = [t \in Targets |-> [p \in Prices |-> 0]]
    /\ baseline = [t \in Targets |-> NoOne]
    /\ runs = {}
    /\ lock = NoOne
    /\ now = 0
    /\ pc = [w \in Workers |-> "idle"]
    /\ work = [w \in Workers |-> NoWork]

Goto(w, l) == pc' = [pc EXCEPT ![w] = l]

Scheduled(w) == work[w].trigger = "scheduled"

\* the connection that holds the lock serves no other call
PoolHasFree(w) == (IF lock = w THEN 1 ELSE 0) < PoolMax

\* a call at step l: the pool gives a connection
Calling(w, l) == pc[w] = l /\ PoolHasFree(w)

\* the call has committed; its answer may be lost
Answered(w, l, onError) == Goto(w, l) \/ ("error" \in Ops /\ Goto(w, onError))

Return(w) == Goto(w, "idle") /\ work' = [work EXCEPT ![w] = NoWork]

\* an error that no catch turns into an outcome; a scheduled run has its finally
Unwind(w) ==
    IF Scheduled(w)
    THEN /\ Goto(w, "release")
         /\ work' = [work EXCEPT ![w] = [NoWork EXCEPT !.born = work[w].born, !.thrown = TRUE]]
    ELSE Return(w)

-----------------------------------------------------------------------------
(* The runs *)

IgnoresLock == TRUE                  \* mutant: no advisory lock
LockAvailable == lock = NoOne

\* runScheduledMonitor: a holder of the lock makes it answer already_running
TryAcquireRunLock(w) ==
    /\ "cron" \in Ops
    /\ pc[w] = "idle"
    /\ now % DayLength \in Schedule
    /\ LockAvailable
    /\ lock' = w
    /\ Goto(w, "recover")
    /\ work' = [work EXCEPT ![w] = [NoWork EXCEPT !.born = now]]
    /\ UNCHANGED <<table, runs, now>>

AnyRunning(r) == r.st = "running"    \* mutant: no age in the WHERE
Stale(r) == r.st = "running" /\ r.started + StaleAfter < now

RecoverStaleRuns(w) ==
    /\ Calling(w, "recover")
    /\ runs' = {IF Stale(r) THEN [r EXCEPT !.st = "failed"] ELSE r : r \in runs}
    /\ Goto(w, "list")
    /\ UNCHANGED <<table, lock, now, work>>

Due(t) == target[t].st = "enabled" /\ target[t].next <= now

Snapshot(t) == [id |-> t, cadence |-> target[t].cadence, failures |-> target[t].failures]

\* ORDER BY next_check_at LIMIT BatchLimit
Listings(due) ==
    {{Snapshot(t) : t \in batch} :
        batch \in {b \in SUBSET due :
            /\ Cardinality(b) = IF Cardinality(due) < BatchLimit THEN Cardinality(due) ELSE BatchLimit
            /\ \A t \in b, u \in due \ b : target[t].next <= target[u].next}}

NoFinally(plan) == IF plan = {} THEN "idle" ELSE "create"    \* mutant: forgets the lock
AfterOrg(plan) == IF plan = {} THEN "release" ELSE "create"

ListDueTargets(w) ==
    /\ Calling(w, "list")
    /\ \E listing \in Listings({t \in Targets : Due(t)}) :
          /\ work' = [work EXCEPT ![w].listed = now, ![w].plan = listing,
                                  ![w].due = {s.id : s \in listing}]
          /\ Goto(w, AfterOrg(listing))
    /\ UNCHANGED <<table, runs, lock, now>>

\* runManualMonitor of an organisation: its due targets, of those that RLS shows
ManualOrg(w, org) ==
    /\ "org" \in Ops
    /\ pc[w] = "idle"
    /\ \E listing \in Listings({t \in Targets : OrgOf[t] = org /\ Due(t)}) :
          work' = [work EXCEPT ![w] =
              [NoWork EXCEPT !.trigger = "manual-org", !.born = now, !.plan = listing,
                             !.key = [trigger |-> "manual-org", org |-> org, id |-> NoOne,
                                      slot |-> now \div OrgWindow]]]
    /\ Goto(w, "create")
    /\ UNCHANGED <<table, runs, lock, now>>

\* runManualMonitor of one target, due or not
ManualTarget(w, t) ==
    /\ "target" \in Ops
    /\ pc[w] = "idle"
    /\ work' = [work EXCEPT ![w] =
           [NoWork EXCEPT !.trigger = "manual-target", !.born = now,
                          !.plan = IF target[t].st = "enabled" THEN {Snapshot(t)} ELSE {},
                          !.key = [trigger |-> "manual-target", org |-> OrgOf[t], id |-> t,
                                   slot |-> now]]]
    /\ Goto(w, "create")
    /\ UNCHANGED <<table, runs, lock, now>>

KeyTaken(k) == \E r \in runs : r.key = k

AfterTarget(queue) == IF queue = {} THEN "finish" ELSE "check"

Mine(w, org) == {s \in work[w].plan : OrgOf[s.id] = org}

KeyOf(w, org) ==
    IF Scheduled(w)
    THEN [trigger |-> "scheduled", org |-> org, id |-> NoOne, slot |-> work[w].listed \div DayLength]
    ELSE work[w].key

\* a taken key: a scheduled run leaves the organisation to the run of the day
DuplicateWindow(w, org) ==
    LET rest == work[w].plan \ Mine(w, org) IN
    /\ KeyTaken(KeyOf(w, org))
    /\ IF Scheduled(w)
       THEN /\ Goto(w, AfterOrg(rest))
            /\ work' = [work EXCEPT ![w].plan = rest,
                                    ![w].due = @ \ {s.id : s \in Mine(w, org)}]
       ELSE Return(w)
    /\ UNCHANGED runs

RunCreated(w, org) ==
    /\ ~KeyTaken(KeyOf(w, org))
    /\ runs' = runs \cup {[key |-> KeyOf(w, org), st |-> "running", started |-> now]}
    /\ \/ /\ work' = [work EXCEPT ![w].plan = @ \ Mine(w, org), ![w].key = KeyOf(w, org),
                    ![w].queue = Mine(w, org), ![w].anyGood = FALSE, ![w].anyFailed = FALSE]
          /\ Goto(w, AfterTarget(Mine(w, org)))
       \/ "error" \in Ops /\ Unwind(w)

\* runForOrg, of one organisation of the plan
CreateRun(w) ==
    /\ Calling(w, "create")
    /\ \E org \in IF Scheduled(w) THEN {OrgOf[s.id] : s \in work[w].plan} ELSE {work[w].key.org} :
          DuplicateWindow(w, org) \/ RunCreated(w, org)
    /\ UNCHANGED <<table, lock, now>>

RunStatusFrom(w) ==
    IF ~work[w].anyFailed THEN "completed" ELSE IF work[w].anyGood THEN "partial" ELSE "failed"

SetRun(key, st) == runs' = {IF r.key = key THEN [r EXCEPT !.st = st] ELSE r : r \in runs}

FinishRun(w) ==
    /\ Calling(w, "finish")
    /\ SetRun(work[w].key, RunStatusFrom(w))
    /\ \/ /\ Scheduled(w)
          /\ Goto(w, AfterOrg(work[w].plan))
          /\ work' = [work EXCEPT ![w].anyGood = FALSE, ![w].anyFailed = FALSE]
       \/ ~Scheduled(w) /\ Return(w)
       \/ "error" \in Ops /\ Goto(w, "abort") /\ UNCHANGED work
    /\ UNCHANGED <<table, lock, now>>

\* the catch of runForOrg, which throws again
FinishFailedRun(w) ==
    /\ Calling(w, "abort")
    /\ SetRun(work[w].key, "failed")
    /\ Unwind(w)
    /\ UNCHANGED <<table, lock, now>>

\* the finally of runScheduledMonitor, on the connection that holds the lock
ReleaseRunLock(w) ==
    /\ pc[w] = "release"
    /\ lock' = NoOne
    /\ Return(w)
    /\ UNCHANGED <<table, runs, now>>

-----------------------------------------------------------------------------
(* One target *)

\* the page shows p and the baseline is read, or the check fails
CheckTarget(w) ==
    /\ Calling(w, "check")
    /\ \E s \in work[w].queue, p \in Prices \cup {NoOne} :
          /\ work' = [work EXCEPT ![w].queue = @ \ {s},
                                  ![w].here = [Nowhere EXCEPT !.target = s, !.at = now,
                                                              !.price = p, !.good = p # NoOne]]
          /\ Goto(w, IF p \in {NoOne, baseline[s.id]} THEN "record" ELSE "find")
    /\ UNCHANGED <<table, runs, lock, now>>

NeverIdentical(here) == FALSE        \* mutant: proposes without a look
IdenticalPending(here) == pending[here.target.id][here.price] > 0

FindIdenticalPending(w) ==
    /\ Calling(w, "find")
    /\ Goto(w, IF IdenticalPending(work[w].here) THEN "record" ELSE "insert")
    /\ UNCHANGED <<table, runs, lock, now, work>>

\* an error here is the outcome invalid_response, also if the row has committed
CreatePendingObservation(w) ==
    /\ Calling(w, "insert")
    /\ pending' = [pending EXCEPT ![work[w].here.target.id][work[w].here.price] = @ + 1]
    /\ \E lost \in IF "error" \in Ops THEN BOOLEAN ELSE {FALSE} :
          work' = [work EXCEPT ![w].here.good = ~lost]
    /\ Goto(w, "record")
    /\ UNCHANGED <<target, streak, baseline, runs, lock, now>>

RecordResult(w) ==
    LET here == work[w].here IN
    /\ Calling(w, "record")
    /\ streak' = [streak EXCEPT ![here.target.id] = IF here.good THEN 0 ELSE @ + 1]
    /\ work' = [work EXCEPT ![w] = [work[w] EXCEPT !.anyGood = @ \/ here.good,
                                                   !.anyFailed = @ \/ ~here.good,
                                                   !.here = [here EXCEPT !.price = NoOne]]]
    /\ Answered(w, "update", "abort")
    /\ UNCHANGED <<target, pending, baseline, runs, lock, now>>

NoDelay(here) == here.at             \* mutant: forgets the cadence
NextCheckAt(here) == here.at + here.target.cadence * DayLength

NeverReset(here) ==                  \* mutant: a good check does not start again
    IF here.good THEN here.target.failures ELSE here.target.failures + 1
Failures(here) == IF here.good THEN 0 ELSE here.target.failures + 1

\* written from the row as it was listed
UpdateTargetAfterCheck(w) ==
    LET here == work[w].here
        t    == here.target.id
    IN
    /\ Calling(w, "update")
    /\ target' = [target EXCEPT ![t].next = NextCheckAt(here), ![t].failures = Failures(here)]
    /\ work' = [work EXCEPT ![w].here = Nowhere]
    /\ Answered(w, AfterTarget(work[w].queue), "abort")
    /\ UNCHANGED <<streak, pending, baseline, runs, lock, now>>

-----------------------------------------------------------------------------
(* Errors, users and time *)

\* a call fails without effect; runForOrg catches what its try encloses
CallFails(w) ==
    /\ "error" \in Ops
    /\ \/ /\ pc[w] \in {"recover", "list", "create", "abort"}
          /\ Unwind(w)
       \/ /\ pc[w] \in {"record", "update", "finish"}
          /\ Goto(w, "abort")
          /\ UNCHANGED work
       \/ /\ pc[w] \in {"find", "insert"}
          /\ Goto(w, "record")
          /\ work' = [work EXCEPT ![w].here.good = FALSE]
    /\ UNCHANGED <<table, runs, lock, now>>

\* the instance is killed; closing its session frees the lock
Die(w) ==
    /\ "die" \in Ops
    /\ pc[w] # "idle"
    /\ lock' = IF lock = w THEN NoOne ELSE lock
    /\ Return(w)
    /\ UNCHANGED <<table, runs, now>>

SetTargetEnabled(t) ==
    /\ "pause" \in Ops /\ t \in Edited
    /\ \E st \in {"enabled", "paused"} : target' = [target EXCEPT ![t].st = st]
    /\ UNCHANGED <<streak, pending, baseline, runs, lock, now, pc, work>>

UpdateTargetCadence(t) ==
    /\ "cadence" \in Ops /\ t \in Edited
    /\ \E c \in Cadences : target' = [target EXCEPT ![t].cadence = c]
    /\ UNCHANGED <<streak, pending, baseline, runs, lock, now, pc, work>>

\* a reviewer decides a pending observation; the latest approved is the baseline
Review(t, p) ==
    /\ "review" \in Ops
    /\ pending[t][p] > 0
    /\ pending' = [pending EXCEPT ![t][p] = @ - 1]
    /\ baseline' \in {baseline, [baseline EXCEPT ![t] = p]}
    /\ UNCHANGED <<target, streak, runs, lock, now, pc, work>>

\* the platform lets no run live longer than MaxLife
Tick ==
    /\ now < MaxTime
    /\ \A w \in Workers : pc[w] # "idle" => now < work[w].born + MaxLife
    /\ now' = now + 1
    /\ UNCHANGED <<table, runs, lock, pc, work>>

Step(w) ==
    \/ RecoverStaleRuns(w) \/ ListDueTargets(w) \/ CreateRun(w)
    \/ CheckTarget(w) \/ FindIdenticalPending(w) \/ CreatePendingObservation(w)
    \/ RecordResult(w) \/ UpdateTargetAfterCheck(w)
    \/ FinishRun(w) \/ FinishFailedRun(w) \/ ReleaseRunLock(w)

Next ==
    \/ \E w \in Workers :
          \/ TryAcquireRunLock(w)
          \/ \E org \in Orgs : ManualOrg(w, org)
          \/ \E t \in Targets : ManualTarget(w, t)
          \/ Step(w) \/ CallFails(w) \/ Die(w)
    \/ \E t \in Targets :
          \/ SetTargetEnabled(t) \/ UpdateTargetCadence(t)
          \/ \E p \in Prices : Review(t, p)
    \/ Tick

Spec == Init /\ [][Next]_vars

\* an instance goes on with its run as long as it can
FairSpec == Spec /\ \A w \in Workers : WF_vars(Step(w))

-----------------------------------------------------------------------------
(* Properties *)

Checking(w) == pc[w] \in {"find", "insert", "record", "update"}
InHand(w)   == (IF pc[w] = "check" \/ Checking(w) THEN work[w].queue ELSE {})
                  \cup (IF Checking(w) THEN {work[w].here.target} ELSE {})

\* A run that is still being worked on is never marked failed by the recovery
\* of another invocation: its row says running until its own worker ends it.
LiveRunIsRunning ==
    \A w \in Workers : pc[w] = "check" \/ Checking(w) =>
        \E r \in runs : r.key = work[w].key /\ r.st = "running"

\* A scheduled run works on rows as it listed them: what it has in hand is still
\* due, with the count of failures that it will write on, because no other run has
\* rescheduled the target since, neither a second invocation of the day nor one of
\* the next.  (A run that dies or fails before updateTargetAfterCheck has not
\* rescheduled it either: the next invocation lists the target again, as 5.6 of
\* docs/PRICE_MONITORING_AGENT_V1_CONTRACT.md says, and this does not forbid it.)
DueWhenChecked ==
    \A w \in Workers : Scheduled(w) => \A s \in InHand(w) :
        /\ target[s.id].next <= work[w].listed
        /\ target[s.id].failures = s.failures

\* Contract: a price that is pending is not proposed twice for the same source,
\* although the look for it and its insertion are two transactions, an answer
\* may be lost and reviews go on: the lock makes it true of scheduled runs.
\* (docs/PRICE_MONITORING_AGENT_V1_CONTRACT.md, 5.4)
NoDuplicatePending == \A t \in Targets, p \in Prices : pending[t][p] <= 1

\* A scheduled invocation that ends without an error has rescheduled every
\* target it listed, but those of an organisation whose run of the day existed:
\* none is left out by the grouping by organisation, by a pause or a cadence
\* changed meanwhile, nor set back by what a manual run read before.
ListedAreChecked ==
    \A w \in Workers : pc[w] = "release" /\ ~work[w].thrown =>
        \A t \in work[w].due : target[t].next > work[w].listed

\* Contract: a failed check counts, and only a good one starts again from 0.
\* (docs/PRICE_MONITORING_AGENT_V1_CONTRACT.md, 5.5)
FailuresCounted ==
    (\A w \in Workers : pc[w] = "idle") => \A t \in Targets : target[t].failures = streak[t]

\* Contract: the lock of a run is always given back.
\* (docs/PRICE_MONITORING_AGENT_V1_CONTRACT.md, 5.6)
LockReleased == \A w \in Workers : lock = w ~> lock # w

=============================================================================
