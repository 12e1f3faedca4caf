--------------------------- MODULE PriceMonitorProofs ---------------------------
(***************************************************************************)
(* Proofs about PriceMonitor, for any number of instances, targets,         *)
(* organisations and prices, any cadences and any schedule.                 *)
(*                                                                         *)
(* Each action of a run first gets a lemma, named after it (AcquireDoes ..  *)
(* ReleaseDoes), that says field by field what it does to the run's local   *)
(* variables.  Later steps cite these instead of the actions.  Acts(w) is a *)
(* step of the run of w, and World one of the users or of time.             *)
(*                                                                         *)
(* Two constant-level hypotheses name the workloads in which a property is  *)
(* true.  OneRunAtATime: there are no manual runs, which take no lock, or   *)
(* there is one instance.  NoErrors: no call fails and no instance is       *)
(* killed.                                                                  *)
(***************************************************************************)
EXTENDS PriceMonitor, TLAPS

LEMMA SlotOfTime ==
    ASSUME NEW n \in 0 .. MaxTime, NEW d \in Nat \ {0}
    PROVE  n \div d \in 0 .. MaxTime
<1>1. MaxTime \in Nat
  BY MonitorAssumption
<1>2. DEFINE q == n \div d
<1>3. q \in Int /\ n = d * q + (n % d) /\ n % d \in 0 .. d - 1
  BY <1>1, Z3
<1> HIDE DEF q
<1>4. q >= 0
  BY <1>1, <1>3, Z3
<1>5. q <= n
  BY <1>1, <1>3, <1>4, Z3
<1>6. QED
  BY <1>1, <1>3, <1>4, <1>5 DEF q

LEMMA CadenceIsDays ==
    ASSUME NEW c \in Cadences
    PROVE  c * DayLength \in Nat /\ c * DayLength >= DayLength /\ DayLength \in Nat
<1>1. c \in Nat \ {0} /\ DayLength \in Nat \ {0}
  BY MonitorAssumption
<1>2. QED
  BY <1>1, Z3

-----------------------------------------------------------------------------
(* Types *)

Steps == {"idle", "recover", "list", "create", "check", "find", "insert",
          "record", "update", "finish", "abort", "release"}

Statuses == {"running", "completed", "partial", "failed"}

LEMMA NowhereTyped == Nowhere \in Checks
  BY DEF Nowhere, Checks

LEMMA NoWorkTyped == NoWork \in Works
<1>1. NoKey \in RunKeys
  BY MonitorAssumption DEF NoKey, RunKeys, Triggers
<1>2. QED
  BY <1>1, NowhereTyped, MonitorAssumption DEF NoWork, Works, Triggers

LEMMA FreshTyped ==
    ASSUME NEW b \in 0 .. MaxTime
    PROVE  [NoWork EXCEPT !.born = b, !.thrown = TRUE] \in Works
  BY NoWorkTyped DEF Works

LEMMA FreshTyped2 ==
    ASSUME NEW b \in 0 .. MaxTime, NEW tr \in Triggers, NEW p \in SUBSET Snapshots, NEW k \in RunKeys
    PROVE  [NoWork EXCEPT !.trigger = tr, !.born = b, !.plan = p, !.key = k] \in Works
  BY NoWorkTyped DEF Works

LEMMA FreshTyped3 ==
    ASSUME NEW b \in 0 .. MaxTime
    PROVE  [NoWork EXCEPT !.born = b] \in Works
  BY NoWorkTyped DEF Works

LEMMA SnapshotTyped ==
    ASSUME TypeOK, NEW t \in Targets
    PROVE  Snapshot(t) \in Snapshots
  BY DEF TypeOK, Snapshot, Snapshots

LEMMA ListingTyped ==
    ASSUME TypeOK, NEW due \in SUBSET Targets, NEW l \in Listings(due)
    PROVE  /\ l \subseteq Snapshots
           /\ \A s \in l : s.id \in due /\ s = Snapshot(s.id)
<1>1. PICK b \in SUBSET due : l = {Snapshot(t) : t \in b}
  BY DEF Listings
<1>2. \A t \in b : Snapshot(t).id = t
  BY DEF Snapshot
<1>3. QED
  BY <1>1, <1>2, SnapshotTyped

LEMMA InitTyped == Init => TypeOK
  BY MonitorAssumption, NoWorkTyped DEF Init, TypeOK

LEMMA RowEnded ==
    ASSUME NEW q \in Rows, NEW st \in Statuses
    PROVE  LET r == [q EXCEPT !.st = st]
           IN  r \in Rows /\ r.key = q.key /\ r.started = q.started /\ r.st = st
BY DEF Rows, Statuses

LEMMA RecoverTyped ==
    ASSUME TypeOK, NEW w \in Workers, RecoverStaleRuns(w)
    PROVE  TypeOK'
<1> DEFINE new(r) == IF Stale(r) THEN [r EXCEPT !.st = "failed"] ELSE r
<1>1. \A q \in runs : new(q) \in Rows /\ new(q).key = q.key
  <2> TAKE q \in runs
  <2>1. q \in Rows /\ "failed" \in Statuses
    BY DEF TypeOK, Statuses
  <2>2. QED
    BY <2>1, RowEnded
<1>2. runs' = {new(r) : r \in runs}
  BY DEF RecoverStaleRuns
<1> HIDE DEF new
<1>3. runs' \in SUBSET Rows /\ \A r, q \in runs' : r.key = q.key => r = q
  BY <1>1, <1>2 DEF TypeOK
<1>4. QED
  BY <1>3 DEF TypeOK, RecoverStaleRuns, Goto, table

LEMMA SetRunTyped ==
    ASSUME TypeOK, NEW k, NEW st \in Statuses, SetRun(k, st)
    PROVE  runs' \in SUBSET Rows /\ \A r, q \in runs' : r.key = q.key => r = q
<1> DEFINE new(r) == IF r.key = k THEN [r EXCEPT !.st = st] ELSE r
<1>1. \A q \in runs : new(q) \in Rows /\ new(q).key = q.key
  <2> TAKE q \in runs
  <2>1. q \in Rows
    BY DEF TypeOK
  <2>2. QED
    BY <2>1, RowEnded
<1>2. runs' = {new(r) : r \in runs}
  BY DEF SetRun
<1> HIDE DEF new
<1>3. QED
  BY <1>1, <1>2 DEF TypeOK

-----------------------------------------------------------------------------
(* What each action does to the local variables, field by field *)

\* only w moves, and to a proper state
Frame(w) ==
    /\ pc' \in [Workers -> Steps] /\ work' \in [Workers -> Works]
    /\ \A v \in Workers \ {w} : pc'[v] = pc[v] /\ work'[v] = work[v]

SameRun(w) ==
    /\ work'[w].trigger = work[w].trigger
    /\ work'[w].born = work[w].born
    /\ work'[w].listed = work[w].listed
    /\ work'[w].key = work[w].key
    /\ work'[w].plan = work[w].plan
    /\ work'[w].due = work[w].due
    /\ work'[w].thrown = work[w].thrown

LEMMA Written ==
    ASSUME TypeOK, NEW w \in Workers, NEW f \in Works, NEW l \in Steps,
           work' = [work EXCEPT ![w] = f], Goto(w, l)
    PROVE  Frame(w) /\ work'[w] = f /\ pc'[w] = l
BY DEF TypeOK, Frame, Goto, Steps

LEMMA Unwritten ==
    ASSUME TypeOK, NEW w \in Workers, NEW l \in Steps, UNCHANGED work, Goto(w, l)
    PROVE  Frame(w) /\ work'[w] = work[w] /\ pc'[w] = l /\ SameRun(w)
BY DEF TypeOK, Frame, Goto, Steps, SameRun

LEMMA ReturnDoes ==
    ASSUME TypeOK, NEW w \in Workers, Return(w)
    PROVE  Frame(w) /\ work'[w] = NoWork /\ pc'[w] = "idle"
BY Written, NoWorkTyped DEF Return, Steps

LEMMA UnwindDoes ==
    ASSUME TypeOK, NEW w \in Workers, Unwind(w)
    PROVE  /\ Frame(w)
           /\ \/ ~Scheduled(w) /\ work'[w] = NoWork /\ pc'[w] = "idle"
              \/ /\ Scheduled(w) /\ pc'[w] = "release" /\ Scheduled(w)'
                 /\ work'[w].born = work[w].born /\ work'[w].thrown
                 /\ work'[w].due = {} /\ work'[w].plan = {} /\ work'[w].listed = 0
<1>1. CASE ~Scheduled(w)
  BY <1>1, ReturnDoes DEF Unwind
<1>2. CASE Scheduled(w)
  <2> DEFINE f == [NoWork EXCEPT !.born = work[w].born, !.thrown = TRUE]
  <2>1. f \in Works
    BY FreshTyped DEF TypeOK, Works
  <2>2. Goto(w, "release") /\ work' = [work EXCEPT ![w] = f]
    BY <1>2 DEF Unwind
  <2>3. f.born = work[w].born /\ f.thrown /\ f.due = {} /\ f.plan = {} /\ f.listed = 0
        /\ f.trigger = "scheduled"
    BY DEF NoWork
  <2> HIDE DEF f
  <2>4. Frame(w) /\ work'[w] = f /\ pc'[w] = "release"
    BY <2>1, <2>2, Written DEF Steps
  <2>5. QED
    BY <1>2, <2>3, <2>4 DEF Scheduled
<1>3. QED
  BY <1>1, <1>2

LEMMA AcquireDoes ==
    ASSUME TypeOK, NEW w \in Workers, TryAcquireRunLock(w)
    PROVE  /\ Frame(w) /\ pc[w] = "idle" /\ pc'[w] = "recover" /\ Scheduled(w)'
           /\ work'[w].born = now /\ work'[w].due = {} /\ work'[w].plan = {}
           /\ work'[w].listed = 0
<1> DEFINE f == [NoWork EXCEPT !.born = now]
<1>1. f \in Works
  BY FreshTyped3, MonitorAssumption DEF TypeOK
<1>2. Goto(w, "recover") /\ work' = [work EXCEPT ![w] = f] /\ pc[w] = "idle"
  BY DEF TryAcquireRunLock
<1>3. f.born = now /\ f.due = {} /\ f.plan = {} /\ f.listed = 0 /\ f.trigger = "scheduled"
  BY DEF NoWork
<1> HIDE DEF f
<1>4. Frame(w) /\ work'[w] = f /\ pc'[w] = "recover"
  BY <1>1, <1>2, Written DEF Steps
<1>5. QED
  BY <1>2, <1>3, <1>4 DEF Scheduled

\* a set of targets as the table has them, each once
Current(ss) == \A s \in ss : s.id \in Targets /\ s = Snapshot(s.id)

LEMMA ManualDoes ==
    ASSUME TypeOK, NEW w \in Workers, NEW p \in SUBSET Snapshots, NEW k \in RunKeys,
           NEW tr \in {"manual-org", "manual-target"}, pc[w] = "idle", Goto(w, "create"),
           work' = [work EXCEPT ![w] =
               [NoWork EXCEPT !.trigger = tr, !.born = now, !.plan = p, !.key = k]]
    PROVE  /\ Frame(w) /\ pc'[w] = "create" /\ ~Scheduled(w)'
           /\ work'[w].born = now /\ work'[w].due = {} /\ work'[w].plan = p
           /\ work'[w].listed = 0
<1> DEFINE f == [NoWork EXCEPT !.trigger = tr, !.born = now, !.plan = p, !.key = k]
<1>0. now \in 0 .. MaxTime /\ tr \in Triggers
  BY MonitorAssumption DEF TypeOK, Triggers
<1>1. f \in Works
  BY <1>0, FreshTyped2
<1>2. Goto(w, "create") /\ work' = [work EXCEPT ![w] = f]
  OBVIOUS
<1>3. f.born = now /\ f.due = {} /\ f.plan = p /\ f.trigger = tr /\ f.listed = 0
  BY DEF NoWork
<1> HIDE DEF f
<1>4. Frame(w) /\ work'[w] = f /\ pc'[w] = "create"
  BY <1>1, <1>2, Written DEF Steps
<1>5. QED
  BY <1>3, <1>4 DEF Scheduled

ManualEffect(w) ==
    /\ Frame(w) /\ pc[w] = "idle" /\ pc'[w] = "create" /\ ~Scheduled(w)'
    /\ work'[w].born = now /\ work'[w].due = {} /\ Current(work'[w].plan)
    /\ work'[w].listed = 0

LEMMA ManualOrgDoes ==
    ASSUME TypeOK, NEW w \in Workers, NEW org \in Orgs, ManualOrg(w, org)
    PROVE  ManualEffect(w)
<1>1. now \in Nat /\ now \in 0 .. MaxTime
  BY MonitorAssumption DEF TypeOK
<1>2. PICK listing \in Listings({t \in Targets : OrgOf[t] = org /\ Due(t)}) :
            work' = [work EXCEPT ![w] =
              [NoWork EXCEPT !.trigger = "manual-org", !.born = now, !.plan = listing,
                             !.key = [trigger |-> "manual-org", org |-> org, id |-> NoOne,
                                      slot |-> now \div OrgWindow]]]
  BY DEF ManualOrg
<1>3. listing \in SUBSET Snapshots /\ Current(listing)
  BY ListingTyped DEF Current
<1>4. [trigger |-> "manual-org", org |-> org, id |-> NoOne, slot |-> now \div OrgWindow] \in RunKeys
  BY <1>1, SlotOfTime, MonitorAssumption DEF RunKeys, Triggers
<1>5. pc[w] = "idle" /\ Goto(w, "create")
  BY DEF ManualOrg
<1>6. QED
  BY <1>2, <1>3, <1>4, <1>5, ManualDoes DEF ManualEffect

LEMMA ManualTargetDoes ==
    ASSUME TypeOK, NEW w \in Workers, NEW t \in Targets, ManualTarget(w, t)
    PROVE  ManualEffect(w)
<1> DEFINE k == [trigger |-> "manual-target", org |-> OrgOf[t], id |-> t, slot |-> now]
           p == IF target[t].st = "enabled" THEN {Snapshot(t)} ELSE {}
<1>1. k \in RunKeys
  BY DEF RunKeys, Triggers, Orgs, TypeOK
<1>2. p \in SUBSET Snapshots /\ Current(p)
  BY SnapshotTyped DEF Current, Snapshot
<1>3. /\ pc[w] = "idle" /\ Goto(w, "create")
      /\ work' = [work EXCEPT ![w] =
           [NoWork EXCEPT !.trigger = "manual-target", !.born = now, !.plan = p, !.key = k]]
  BY DEF ManualTarget
<1> HIDE DEF k, p
<1>4. QED
  BY <1>1, <1>2, <1>3, ManualDoes DEF ManualEffect

LEMMA ListDoes ==
    ASSUME TypeOK, NEW w \in Workers, ListDueTargets(w)
    PROVE  /\ Frame(w) /\ pc[w] = "list"
           /\ pc'[w] = AfterOrg(work'[w].plan)
           /\ work'[w].trigger = work[w].trigger /\ work'[w].born = work[w].born
           /\ work'[w].listed = now
           /\ work'[w].due = {s.id : s \in work'[w].plan}
           /\ Current(work'[w].plan)
           /\ \A s \in work'[w].plan : target[s.id].next <= now
<1>1. PICK listing \in Listings({t \in Targets : Due(t)}) :
          /\ work' = [work EXCEPT ![w].listed = now, ![w].plan = listing,
                                  ![w].due = {s.id : s \in listing}]
          /\ Goto(w, AfterOrg(listing))
  BY DEF ListDueTargets
<1>2. listing \in SUBSET Snapshots /\ {s.id : s \in listing} \in SUBSET Targets
  BY ListingTyped
<1>3. Current(listing) /\ \A s \in listing : target[s.id].next <= now
  BY ListingTyped DEF Due, Current
<1>4. now \in 0 .. MaxTime
  BY MonitorAssumption DEF TypeOK
<1> DEFINE f == [work[w] EXCEPT !.listed = now, !.plan = listing,
                                !.due = {s.id : s \in listing}]
<1>5. work[w] \in Works
  BY DEF TypeOK
<1>6. /\ f \in Works /\ f.listed = now /\ f.plan = listing /\ f.due = {s.id : s \in listing}
      /\ f.trigger = work[w].trigger /\ f.born = work[w].born
  BY <1>2, <1>4, <1>5 DEF Works
<1>7. work' = [work EXCEPT ![w] = f]
  BY <1>1 DEF TypeOK
<1> HIDE DEF f
<1> DEFINE l == AfterOrg(listing)
<1>8. l \in Steps /\ Goto(w, l)
  BY <1>1 DEF AfterOrg, Steps
<1> HIDE DEF l
<1>9. Frame(w) /\ work'[w] = f /\ pc'[w] = l
  BY <1>6, <1>7, <1>8, Written
<1>10. pc[w] = "list"
  BY DEF ListDueTargets, Calling
<1>11. QED
  BY <1>3, <1>6, <1>9, <1>10 DEF l

LEMMA KeyTyped ==
    ASSUME TypeOK, NEW w \in Workers,
           NEW org \in IF Scheduled(w) THEN {OrgOf[s.id] : s \in work[w].plan} ELSE {work[w].key.org}
    PROVE  KeyOf(w, org) \in RunKeys
<1>1. work[w] \in Works
  BY DEF TypeOK
<1>2. CASE ~Scheduled(w)
  BY <1>1, <1>2 DEF Works, KeyOf
<1>3. CASE Scheduled(w)
  <2>1. org \in Orgs
    BY <1>1, <1>3 DEF Works, Snapshots, Orgs
  <2>2. work[w].listed \div DayLength \in 0 .. MaxTime
    BY <1>1, SlotOfTime, MonitorAssumption DEF Works
  <2>3. QED
    BY <1>3, <2>1, <2>2 DEF KeyOf, RunKeys, Triggers
<1>4. QED
  BY <1>2, <1>3

Skipped(w, org) ==
    /\ Scheduled(w) /\ Frame(w) /\ pc[w] = "create" /\ pc'[w] = AfterOrg(work'[w].plan)
    /\ work'[w].trigger = work[w].trigger /\ work'[w].born = work[w].born
    /\ work'[w].listed = work[w].listed /\ work'[w].thrown = work[w].thrown
    /\ work'[w].plan = work[w].plan \ Mine(w, org)
    /\ work'[w].due = work[w].due \ {s.id : s \in Mine(w, org)}

LEMMA DuplicateDoes ==
    ASSUME TypeOK, NEW w \in Workers, NEW org, Calling(w, "create"), DuplicateWindow(w, org)
    PROVE  \/ Skipped(w, org)
           \/ ~Scheduled(w) /\ Frame(w) /\ work'[w] = NoWork /\ pc'[w] = "idle"
<1> DEFINE rest == work[w].plan \ Mine(w, org)
           f == [work[w] EXCEPT !.plan = rest, !.due = @ \ {s.id : s \in Mine(w, org)}]
           l == AfterOrg(rest)
<1>1. CASE ~Scheduled(w)
  BY <1>1, ReturnDoes DEF DuplicateWindow
<1>2. CASE Scheduled(w)
  <2>1. work[w] \in Works
    BY DEF TypeOK
  <2>2. /\ f \in Works /\ f.plan = rest /\ f.due = work[w].due \ {s.id : s \in Mine(w, org)}
        /\ f.trigger = work[w].trigger /\ f.born = work[w].born /\ f.listed = work[w].listed
        /\ f.thrown = work[w].thrown
    BY <2>1 DEF Works
  <2>3. work' = [work EXCEPT ![w] = f]
    BY <1>2 DEF TypeOK, DuplicateWindow
  <2> HIDE DEF f
  <2>4. l \in Steps /\ Goto(w, l)
    BY <1>2 DEF AfterOrg, Steps, DuplicateWindow
  <2> HIDE DEF l
  <2>5. Frame(w) /\ work'[w] = f /\ pc'[w] = l
    BY <2>2, <2>3, <2>4, Written
  <2>6. QED
    BY <1>2, <2>2, <2>5 DEF Calling, l, Skipped
<1>3. QED
  BY <1>1, <1>2

Began(w, org) ==
    /\ Frame(w) /\ pc[w] = "create" /\ pc'[w] = AfterTarget(work'[w].queue)
    /\ work'[w].trigger = work[w].trigger /\ work'[w].born = work[w].born
    /\ work'[w].listed = work[w].listed /\ work'[w].thrown = work[w].thrown
    /\ work'[w].due = work[w].due
    /\ work'[w].plan = work[w].plan \ Mine(w, org)
    /\ work'[w].queue = Mine(w, org) /\ work'[w].key = KeyOf(w, org)

LEMMA CreatedDoes ==
    ASSUME TypeOK, NEW w \in Workers, Calling(w, "create"),
           NEW org \in IF Scheduled(w) THEN {OrgOf[s.id] : s \in work[w].plan} ELSE {work[w].key.org},
           RunCreated(w, org)
    PROVE  Began(w, org) \/ Unwind(w)
<1> SUFFICES ASSUME ~Unwind(w) PROVE Began(w, org)
  OBVIOUS
<1> DEFINE mine == Mine(w, org)
           k == KeyOf(w, org)
           f == [work[w] EXCEPT !.plan = @ \ mine, !.key = k, !.queue = mine,
                                !.anyGood = FALSE, !.anyFailed = FALSE]
           l == AfterTarget(mine)
<1>1. work[w] \in Works
  BY DEF TypeOK
<1>2. work' = [work EXCEPT ![w] = f]
  BY DEF TypeOK, RunCreated
<1>3. l \in Steps /\ Goto(w, l)
  BY DEF AfterTarget, Steps, RunCreated
<1>4. mine \in SUBSET Snapshots
  BY <1>1 DEF Works, Mine
<1>5. k \in RunKeys
  BY KeyTyped
<1> HIDE DEF mine, k
<1>6. /\ f \in Works /\ f.plan = work[w].plan \ mine /\ f.key = k /\ f.queue = mine
      /\ f.trigger = work[w].trigger /\ f.born = work[w].born /\ f.listed = work[w].listed
      /\ f.thrown = work[w].thrown /\ f.due = work[w].due
  BY <1>1, <1>4, <1>5 DEF Works
<1> HIDE DEF f, l
<1>7. Frame(w) /\ work'[w] = f /\ pc'[w] = l
  BY <1>2, <1>3, <1>6, Written
<1>8. QED
  BY <1>6, <1>7 DEF Calling, l, mine, k, Began

SameTarget(w) ==
    /\ work'[w].queue = work[w].queue
    /\ work'[w].here.target = work[w].here.target
    /\ work'[w].here.at = work[w].here.at

Checked(w, s, p) ==
    /\ Frame(w) /\ SameRun(w)
    /\ pc[w] = "check" /\ pc'[w] \in {"record", "find"} /\ (pc'[w] = "find" => p \in Prices)
    /\ work'[w].queue = work[w].queue \ {s}
    /\ work'[w].here.target = s /\ work'[w].here.at = now /\ work'[w].here.price = p

LEMMA CheckDoes ==
    ASSUME TypeOK, NEW w \in Workers, CheckTarget(w)
    PROVE  \E s \in work[w].queue, p \in Prices \cup {NoOne} : Checked(w, s, p)
<1>1. PICK s \in work[w].queue, p \in Prices \cup {NoOne} :
          /\ work' = [work EXCEPT ![w].queue = @ \ {s},
                                  ![w].here = [Nowhere EXCEPT !.target = s, !.at = now,
                                                              !.price = p, !.good = p # NoOne]]
          /\ Goto(w, IF p \in {NoOne, baseline[s.id]} THEN "record" ELSE "find")
  BY DEF CheckTarget
<1>2. work[w] \in Works /\ now \in Nat /\ pc[w] = "check"
  BY MonitorAssumption DEF TypeOK, CheckTarget, Calling
<1>3. s \in Snapshots
  BY <1>2 DEF Works
<1> DEFINE c == [Nowhere EXCEPT !.target = s, !.at = now, !.price = p, !.good = p # NoOne]
           f == [work[w] EXCEPT !.queue = @ \ {s}, !.here = c]
           l == IF p \in {NoOne, baseline[s.id]} THEN "record" ELSE "find"
<1>4. c \in Checks /\ c.target = s /\ c.at = now /\ c.price = p
  BY <1>2, <1>3, NowhereTyped DEF Checks
<1>5. work' = [work EXCEPT ![w] = f]
  BY <1>1 DEF TypeOK
<1>6. l \in {"record", "find"} /\ l \in Steps /\ Goto(w, l) /\ (l = "find" => p \in Prices)
  BY <1>1 DEF Steps
<1> HIDE DEF c, l
<1>7. /\ f \in Works /\ f.queue = work[w].queue \ {s} /\ f.here = c
      /\ f.trigger = work[w].trigger /\ f.born = work[w].born /\ f.listed = work[w].listed
      /\ f.key = work[w].key /\ f.plan = work[w].plan /\ f.due = work[w].due
      /\ f.thrown = work[w].thrown
  BY <1>2, <1>4 DEF Works
<1> HIDE DEF f
<1>8. Frame(w) /\ work'[w] = f /\ pc'[w] = l
  BY <1>5, <1>6, <1>7, Written
<1>9. Checked(w, s, p)
  BY <1>2, <1>4, <1>6, <1>7, <1>8 DEF Checked, SameRun
<1>10. QED
  BY <1>1, <1>9

LEMMA FindDoes ==
    ASSUME TypeOK, NEW w \in Workers, FindIdenticalPending(w)
    PROVE  /\ Frame(w) /\ SameRun(w) /\ work'[w] = work[w] /\ pc[w] = "find"
           /\ pc'[w] \in {"record", "insert"}
           /\ pc'[w] = "insert" => ~IdenticalPending(work[w].here)
<1> DEFINE l == IF IdenticalPending(work[w].here) THEN "record" ELSE "insert"
<1>1. /\ pc[w] = "find" /\ Goto(w, l) /\ l \in Steps /\ l \in {"record", "insert"}
      /\ l = "insert" => ~IdenticalPending(work[w].here)
  BY DEF FindIdenticalPending, Calling, Steps
<1>2. UNCHANGED work
  BY DEF FindIdenticalPending
<1> HIDE DEF l
<1>3. QED
  BY <1>1, <1>2, Unwritten

\* here is written, and nothing else
LEMMA HereDoes ==
    ASSUME TypeOK, NEW w \in Workers, NEW l \in Steps, Goto(w, l), NEW c \in Checks,
           work' = [work EXCEPT ![w].here = c]
    PROVE  /\ Frame(w) /\ SameRun(w) /\ pc'[w] = l /\ work'[w].here = c
           /\ work'[w].queue = work[w].queue
<1> DEFINE f == [work[w] EXCEPT !.here = c]
<1>1. work[w] \in Works
  BY DEF TypeOK
<1>2. /\ f \in Works /\ f.here = c /\ f.queue = work[w].queue
      /\ f.trigger = work[w].trigger /\ f.born = work[w].born /\ f.listed = work[w].listed
      /\ f.key = work[w].key /\ f.plan = work[w].plan /\ f.due = work[w].due
      /\ f.thrown = work[w].thrown
  BY <1>1 DEF Works
<1>3. work' = [work EXCEPT ![w] = f]
  BY DEF TypeOK
<1> HIDE DEF f
<1>4. QED
  <2>0. f \in Works
    BY <1>2
  <2>1. Frame(w) /\ work'[w] = f /\ pc'[w] = l
    BY <2>0, <1>3, Written
  <2>2. QED
    BY <1>2, <2>1 DEF SameRun

LEMMA GoodWritten ==
    ASSUME TypeOK, NEW w \in Workers, NEW l \in Steps, Goto(w, l), NEW g \in BOOLEAN,
           work' = [work EXCEPT ![w].here.good = g]
    PROVE  Frame(w) /\ SameRun(w) /\ SameTarget(w) /\ pc'[w] = l
<1> DEFINE c == [work[w].here EXCEPT !.good = g]
<1>1. work[w].here \in Checks
  BY DEF TypeOK, Works
<1>2. c \in Checks /\ c.target = work[w].here.target /\ c.at = work[w].here.at
  BY <1>1 DEF Checks
<1>3. work' = [work EXCEPT ![w].here = c]
  BY DEF TypeOK
<1> HIDE DEF c
<1>4. QED
  <2>1. Frame(w) /\ SameRun(w) /\ pc'[w] = l /\ work'[w].here = c
        /\ work'[w].queue = work[w].queue
    BY <1>2, <1>3, HereDoes
  <2>2. QED
    BY <1>2, <2>1 DEF SameTarget

LEMMA InsertDoes ==
    ASSUME TypeOK, NEW w \in Workers, CreatePendingObservation(w)
    PROVE  Frame(w) /\ SameRun(w) /\ SameTarget(w) /\ pc[w] = "insert" /\ pc'[w] = "record"
<1>1. PICK lost \in BOOLEAN : work' = [work EXCEPT ![w].here.good = ~lost]
  BY DEF CreatePendingObservation
<1>2. Goto(w, "record") /\ "record" \in Steps /\ pc[w] = "insert"
  BY DEF CreatePendingObservation, Calling, Steps
<1>3. (~lost) \in BOOLEAN
  OBVIOUS
<1>4. QED
  BY <1>1, <1>2, <1>3, GoodWritten

LEMMA RecordDoes ==
    ASSUME TypeOK, NEW w \in Workers, RecordResult(w)
    PROVE  /\ Frame(w) /\ SameRun(w) /\ SameTarget(w) /\ work'[w].here.good = work[w].here.good
           /\ pc[w] = "record" /\ pc'[w] \in {"update", "abort"}
           /\ pc'[w] = "abort" => "error" \in Ops
<1> DEFINE here == work[w].here
           c == [here EXCEPT !.price = NoOne]
           f == [work[w] EXCEPT !.anyGood = @ \/ here.good, !.anyFailed = @ \/ ~here.good,
                                !.here = c]
<1>1. work[w] \in Works
  BY DEF TypeOK
<1>2. /\ c \in Checks /\ c.target = here.target /\ c.at = here.at /\ c.good = here.good
  BY <1>1 DEF Checks, Works
<1>3. work' = [work EXCEPT ![w] = f]
  BY DEF RecordResult
<1>4. (work[w].anyGood \/ here.good) \in BOOLEAN /\ (work[w].anyFailed \/ ~here.good) \in BOOLEAN
  OBVIOUS
<1> HIDE DEF c
<1>5. /\ f \in Works /\ f.here = c /\ f.queue = work[w].queue
      /\ f.trigger = work[w].trigger /\ f.born = work[w].born /\ f.listed = work[w].listed
      /\ f.key = work[w].key /\ f.plan = work[w].plan /\ f.due = work[w].due
      /\ f.thrown = work[w].thrown
  BY <1>1, <1>2, <1>4 DEF Works
<1> HIDE DEF f
<1>6. PICK l \in {"update", "abort"} : l \in Steps /\ Goto(w, l) /\ (l = "abort" => "error" \in Ops)
  BY DEF RecordResult, Answered, Steps
<1>7. f \in Works /\ l \in Steps /\ Goto(w, l)
  BY <1>5, <1>6
<1>8. Frame(w) /\ work'[w] = f /\ pc'[w] = l
  BY <1>3, <1>7, Written
<1>9. pc[w] = "record"
  BY DEF RecordResult, Calling
<1>10. QED
  BY <1>2, <1>5, <1>6, <1>8, <1>9 DEF SameRun, SameTarget

LEMMA UpdateDoes ==
    ASSUME TypeOK, NEW w \in Workers, UpdateTargetAfterCheck(w)
    PROVE  /\ Frame(w) /\ SameRun(w) /\ work'[w].queue = work[w].queue /\ work'[w].here = Nowhere
           /\ pc[w] = "update" /\ pc'[w] \in {AfterTarget(work[w].queue), "abort"}
           /\ pc'[w] = "abort" => "error" \in Ops
<1>1. PICK l \in {AfterTarget(work[w].queue), "abort"} :
          l \in Steps /\ Goto(w, l) /\ (l = "abort" => "error" \in Ops)
  BY DEF UpdateTargetAfterCheck, Answered, Steps, AfterTarget
<1>2. work' = [work EXCEPT ![w].here = Nowhere] /\ pc[w] = "update"
  BY DEF UpdateTargetAfterCheck, Calling
<1>3. QED
  BY <1>1, <1>2, HereDoes, NowhereTyped

LEMMA FinishDoes ==
    ASSUME TypeOK, NEW w \in Workers, FinishRun(w)
    PROVE  /\ pc[w] = "finish" /\ Frame(w)
           /\ \/ /\ Scheduled(w) /\ SameRun(w) /\ work'[w].queue = work[w].queue
                 /\ pc'[w] = AfterOrg(work[w].plan)
              \/ ~Scheduled(w) /\ work'[w] = NoWork /\ pc'[w] = "idle"
              \/ "error" \in Ops /\ work'[w] = work[w] /\ pc'[w] = "abort"
<1>1. pc[w] = "finish"
  BY DEF FinishRun, Calling
<1>2. CASE Scheduled(w) /\ Goto(w, AfterOrg(work[w].plan))
           /\ work' = [work EXCEPT ![w].anyGood = FALSE, ![w].anyFailed = FALSE]
  <2> DEFINE f == [work[w] EXCEPT !.anyGood = FALSE, !.anyFailed = FALSE]
             l == AfterOrg(work[w].plan)
  <2>1. work[w] \in Works
    BY DEF TypeOK
  <2>2. /\ f \in Works /\ f.queue = work[w].queue
        /\ f.trigger = work[w].trigger /\ f.born = work[w].born /\ f.listed = work[w].listed
        /\ f.key = work[w].key /\ f.plan = work[w].plan /\ f.due = work[w].due
        /\ f.thrown = work[w].thrown
    BY <2>1 DEF Works
  <2>3. work' = [work EXCEPT ![w] = f]
    BY <1>2 DEF TypeOK
  <2>4. l \in Steps /\ Goto(w, l)
    BY <1>2 DEF AfterOrg, Steps
  <2> HIDE DEF f, l
  <2>5. Frame(w) /\ work'[w] = f /\ pc'[w] = l
    BY <2>2, <2>3, <2>4, Written
  <2>6. QED
    BY <1>1, <1>2, <2>2, <2>5 DEF SameRun, l
<1>3. CASE ~Scheduled(w) /\ Return(w)
  BY <1>1, <1>3, ReturnDoes
<1>4. CASE "error" \in Ops /\ Goto(w, "abort") /\ UNCHANGED work
  <2>1. "abort" \in Steps
    BY DEF Steps
  <2>2. QED
    BY <1>1, <1>4, <2>1, Unwritten
<1>5. QED
  BY <1>2, <1>3, <1>4 DEF FinishRun

LEMMA CallFailsDoes ==
    ASSUME TypeOK, NEW w \in Workers, CallFails(w)
    PROVE  /\ "error" \in Ops
           /\ \/ pc[w] \in {"recover", "list", "create", "abort"} /\ Unwind(w)
              \/ /\ pc[w] \in {"record", "update", "finish"} /\ pc'[w] = "abort"
                 /\ Frame(w) /\ SameRun(w) /\ work'[w] = work[w]
              \/ /\ pc[w] \in {"find", "insert"} /\ pc'[w] = "record"
                 /\ Frame(w) /\ SameRun(w) /\ SameTarget(w)
<1>1. "abort" \in Steps /\ "record" \in Steps
  BY DEF Steps
<1>2. CASE pc[w] \in {"recover", "list", "create", "abort"} /\ Unwind(w)
  BY <1>2 DEF CallFails
<1>3. CASE pc[w] \in {"record", "update", "finish"} /\ Goto(w, "abort") /\ UNCHANGED work
  BY <1>1, <1>3, Unwritten DEF CallFails
<1>4. CASE /\ pc[w] \in {"find", "insert"} /\ Goto(w, "record")
           /\ work' = [work EXCEPT ![w].here.good = FALSE]
  <2>1. Frame(w) /\ SameRun(w) /\ SameTarget(w) /\ pc'[w] = "record"
    BY <1>1, <1>4, GoodWritten
  <2>2. QED
    BY <1>4, <2>1 DEF CallFails
<1>5. QED
  BY <1>2, <1>3, <1>4 DEF CallFails

LEMMA DieDoes ==
    ASSUME TypeOK, NEW w \in Workers, Die(w)
    PROVE  "die" \in Ops /\ Frame(w) /\ work'[w] = NoWork /\ pc[w] # "idle" /\ pc'[w] = "idle"
BY ReturnDoes DEF Die

LEMMA ReleaseDoes ==
    ASSUME TypeOK, NEW w \in Workers, ReleaseRunLock(w)
    PROVE  Frame(w) /\ work'[w] = NoWork /\ pc[w] = "release" /\ pc'[w] = "idle"
BY ReturnDoes DEF ReleaseRunLock

LEMMA RecoverDoes ==
    ASSUME TypeOK, NEW w \in Workers, RecoverStaleRuns(w)
    PROVE  /\ Frame(w) /\ SameRun(w) /\ work'[w] = work[w]
           /\ pc[w] = "recover" /\ pc'[w] = "list"
<1>1. "list" \in Steps
  BY DEF Steps
<1>2. pc[w] = "recover" /\ Goto(w, "list") /\ UNCHANGED work
  BY DEF RecoverStaleRuns, Calling
<1>3. QED
  BY <1>1, <1>2, Unwritten

-----------------------------------------------------------------------------
(* The type invariant *)

LEMMA Reframed ==
    ASSUME TypeOK, NEW w \in Workers, Frame(w), UNCHANGED <<target, streak, pending, baseline, now>>,
           lock' \in Workers \cup {NoOne}, runs' \in SUBSET Rows,
           \A r, q \in runs' : r.key = q.key => r = q
    PROVE  TypeOK'
BY DEF TypeOK, Frame, Steps

LEMMA StartTyped ==
    ASSUME TypeOK, NEW w \in Workers,
           \/ TryAcquireRunLock(w)
           \/ \E org \in Orgs : ManualOrg(w, org)
           \/ \E t \in Targets : ManualTarget(w, t)
    PROVE  TypeOK'
<1>1. Frame(w)
  BY AcquireDoes, ManualOrgDoes, ManualTargetDoes DEF ManualEffect
<1>2. /\ UNCHANGED <<target, streak, pending, baseline, now, runs>>
      /\ lock' \in {lock, w}
  BY DEF TryAcquireRunLock, ManualOrg, ManualTarget, table
<1>3. QED
  BY <1>1, <1>2, Reframed DEF TypeOK

LEMMA CreateTyped ==
    ASSUME TypeOK, NEW w \in Workers, CreateRun(w)
    PROVE  TypeOK'
<1>1. PICK org \in IF Scheduled(w) THEN {OrgOf[s.id] : s \in work[w].plan} ELSE {work[w].key.org} :
          DuplicateWindow(w, org) \/ RunCreated(w, org)
  BY DEF CreateRun
<1>2. UNCHANGED <<target, streak, pending, baseline, now, lock>> /\ Calling(w, "create")
  BY DEF CreateRun, table
<1>3. CASE DuplicateWindow(w, org)
  <2>1. Frame(w)
    BY <1>2, <1>3, DuplicateDoes DEF Skipped
  <2>2. UNCHANGED runs
    BY <1>3 DEF DuplicateWindow
  <2>3. QED
    BY <1>2, <2>1, <2>2, Reframed DEF TypeOK
<1>4. CASE RunCreated(w, org)
  <2>1. Frame(w)
    BY <1>1, <1>2, <1>4, CreatedDoes, UnwindDoes DEF Began
  <2> DEFINE r == [key |-> KeyOf(w, org), st |-> "running", started |-> now]
  <2>2. r \in Rows /\ r.key = KeyOf(w, org)
    BY KeyTyped DEF Rows, TypeOK
  <2>3. runs' = runs \cup {r} /\ ~\E q \in runs : q.key = r.key
    BY <1>4 DEF RunCreated, KeyTaken
  <2> HIDE DEF r
  <2>4. runs' \in SUBSET Rows /\ \A p, q \in runs' : p.key = q.key => p = q
    BY <2>2, <2>3 DEF TypeOK
  <2>5. QED
    BY <1>2, <2>1, <2>4, Reframed DEF TypeOK
<1>5. QED
  BY <1>1, <1>3, <1>4

\* the target in hand is one of the table, and the price proposed is a price
HereTyped ==
    \A w \in Workers : /\ Checking(w) => work[w].here.target \in Snapshots
                       /\ pc[w] \in {"find", "insert"} => work[w].here.price \in Prices

LEMMA HereHas ==
    ASSUME TypeOK, HereTyped, NEW w \in Workers, Checking(w)
    PROVE  LET here == work[w].here IN
           /\ here.target.id \in Targets /\ here.at \in Nat /\ here.good \in BOOLEAN
           /\ NextCheckAt(here) \in Nat /\ Failures(here) \in Nat
           /\ NextCheckAt(here) >= here.at + DayLength /\ DayLength \in Nat
<1>1. work[w].here \in Checks /\ work[w].here.target \in Snapshots
  BY DEF TypeOK, Works, HereTyped
<1>2. /\ work[w].here.target.id \in Targets /\ work[w].here.target.cadence \in Cadences
      /\ work[w].here.target.failures \in Nat /\ work[w].here.at \in Nat
      /\ work[w].here.good \in BOOLEAN
  BY <1>1 DEF Checks, Snapshots
<1>3. /\ work[w].here.target.cadence * DayLength \in Nat /\ DayLength \in Nat
      /\ work[w].here.target.cadence * DayLength >= DayLength
  BY <1>2, CadenceIsDays
<1>4. Failures(work[w].here) \in Nat
  BY <1>2 DEF Failures
<1>5. /\ NextCheckAt(work[w].here) \in Nat
      /\ NextCheckAt(work[w].here) >= work[w].here.at + DayLength
  <2> DEFINE m == work[w].here.target.cadence * DayLength
             a == work[w].here.at
  <2>1. m \in Nat /\ m >= DayLength /\ a \in Nat /\ DayLength \in Nat
    BY <1>2, <1>3
  <2>2. NextCheckAt(work[w].here) = a + m
    BY DEF NextCheckAt
  <2> HIDE DEF m, a
  <2>3. a + m \in Nat /\ a + m >= a + DayLength
    BY <2>1
  <2>4. QED
    BY <2>2, <2>3 DEF a
<1>6. QED
  BY <1>2, <1>3, <1>4, <1>5

TargetTable == [Targets -> [st : {"enabled", "paused"}, cadence : Cadences,
                            next : Nat, failures : Nat]]

LEMMA UpdateWrites ==
    ASSUME TypeOK, HereTyped, NEW w \in Workers, UpdateTargetAfterCheck(w)
    PROVE  LET here == work[w].here
               t    == here.target.id
           IN  /\ target' \in TargetTable /\ t \in Targets
               /\ \A u \in Targets \ {t} : target'[u] = target[u]
               /\ target'[t].next = NextCheckAt(here) /\ target'[t].failures = Failures(here)
<1> DEFINE here == work[w].here
           t == here.target.id
           n == NextCheckAt(here)
           f == Failures(here)
           r == [target[t] EXCEPT !.next = n, !.failures = f]
<1>1. Checking(w)
  BY UpdateDoes DEF Checking
<1>2. t \in Targets /\ n \in Nat /\ f \in Nat
  BY <1>1, HereHas
<1>3. target' = [target EXCEPT ![t].next = n, ![t].failures = f]
  BY DEF UpdateTargetAfterCheck
<1> HIDE DEF t, n, f
<1>4. target \in TargetTable
  BY DEF TypeOK, TargetTable
<1>5. /\ r \in [st : {"enabled", "paused"}, cadence : Cadences, next : Nat, failures : Nat]
      /\ r.next = n /\ r.failures = f
  BY <1>2, <1>4 DEF TargetTable
<1>6. target' = [target EXCEPT ![t] = r]
  BY <1>2, <1>3, <1>4 DEF TargetTable
<1> HIDE DEF r
<1>7. target' \in TargetTable /\ target'[t] = r /\ \A u \in Targets \ {t} : target'[u] = target[u]
  BY <1>2, <1>4, <1>5, <1>6 DEF TargetTable
<1>8. QED
  BY <1>2, <1>5, <1>7 DEF t, n, f

LEMMA TargetTyped ==
    ASSUME TypeOK, HereTyped, NEW w \in Workers,
           \/ CheckTarget(w) \/ FindIdenticalPending(w) \/ CreatePendingObservation(w)
           \/ RecordResult(w) \/ UpdateTargetAfterCheck(w)
    PROVE  TypeOK'
<1>1. Frame(w) /\ UNCHANGED <<baseline, runs, lock, now>>
  BY CheckDoes, FindDoes, InsertDoes, RecordDoes, UpdateDoes
     DEF Checked, CheckTarget, FindIdenticalPending, CreatePendingObservation, RecordResult,
         UpdateTargetAfterCheck, table
<1>2. target' \in TargetTable
  <2>1. CASE UNCHANGED target
    BY <2>1 DEF TypeOK, TargetTable
  <2>2. CASE UpdateTargetAfterCheck(w)
    BY <2>2, UpdateWrites DEF TargetTable
  <2>3. QED
    BY <2>1, <2>2 DEF CheckTarget, FindIdenticalPending, CreatePendingObservation, RecordResult, table
<1>3. streak' \in [Targets -> Nat]
  <2>1. CASE UNCHANGED streak
    BY <2>1 DEF TypeOK
  <2>2. CASE RecordResult(w)
    <3> DEFINE t == work[w].here.target.id
               n == IF work[w].here.good THEN 0 ELSE streak[t] + 1
    <3>1. Checking(w)
      BY <2>2, RecordDoes DEF Checking
    <3>2. t \in Targets /\ streak[t] \in Nat
      BY <3>1, HereHas DEF TypeOK
    <3>3. streak' = [streak EXCEPT ![t] = n] /\ n \in Nat
      BY <2>2, <3>2 DEF RecordResult
    <3> HIDE DEF t, n
    <3>4. QED
      BY <3>3 DEF TypeOK
  <2>3. QED
    BY <2>1, <2>2 DEF CheckTarget, FindIdenticalPending, CreatePendingObservation,
                      UpdateTargetAfterCheck, table
<1>4. pending' \in [Targets -> [Prices -> Nat]]
  <2>1. CASE UNCHANGED pending
    BY <2>1 DEF TypeOK
  <2>2. CASE CreatePendingObservation(w)
    <3>1. Checking(w) /\ pc[w] = "insert"
      BY <2>2, InsertDoes DEF Checking
    <3>2. work[w].here.target.id \in Targets /\ work[w].here.price \in Prices
      BY <3>1, HereHas DEF HereTyped
    <3> DEFINE t == work[w].here.target.id
               p == work[w].here.price
    <3>3. pending' = [pending EXCEPT ![t][p] = @ + 1]
      BY <2>2 DEF CreatePendingObservation
    <3>4. t \in Targets /\ p \in Prices
      BY <3>2
    <3> HIDE DEF t, p
    <3>5. QED
      BY <3>3, <3>4 DEF TypeOK
  <2>3. QED
    BY <2>1, <2>2 DEF CheckTarget, FindIdenticalPending, RecordResult,
                      UpdateTargetAfterCheck, table
<1>5. QED
  BY <1>1, <1>2, <1>3, <1>4 DEF TypeOK, TargetTable, Frame, Steps

LEMMA EndTyped ==
    ASSUME TypeOK, NEW w \in Workers,
           \/ RecoverStaleRuns(w) \/ ListDueTargets(w) \/ FinishRun(w) \/ FinishFailedRun(w)
           \/ ReleaseRunLock(w) \/ CallFails(w) \/ Die(w)
    PROVE  TypeOK'
<1>1. CASE RecoverStaleRuns(w)
  BY <1>1, RecoverTyped
<1>2. CASE FinishRun(w) \/ FinishFailedRun(w)
  <2>1. Frame(w)
    BY <1>2, FinishDoes, UnwindDoes DEF FinishFailedRun
  <2>2. PICK st \in Statuses : SetRun(work[w].key, st)
    <3>1. RunStatusFrom(w) \in Statuses /\ "failed" \in Statuses
      BY DEF RunStatusFrom, Statuses
    <3>2. SetRun(work[w].key, RunStatusFrom(w)) \/ SetRun(work[w].key, "failed")
      BY <1>2 DEF FinishRun, FinishFailedRun
    <3>3. QED
      BY <3>1, <3>2
  <2>3. UNCHANGED <<target, streak, pending, baseline, now, lock>>
    BY <1>2 DEF FinishRun, FinishFailedRun, table
  <2>4. QED
    BY <2>1, <2>2, <2>3, SetRunTyped, Reframed DEF TypeOK
<1>3. CASE ListDueTargets(w) \/ ReleaseRunLock(w) \/ CallFails(w) \/ Die(w)
  <2>1. Frame(w)
    BY <1>3, ListDoes, ReleaseDoes, CallFailsDoes, DieDoes, UnwindDoes
  <2>2. UNCHANGED <<target, streak, pending, baseline, now, runs>> /\ lock' \in {lock, NoOne}
    BY <1>3 DEF ListDueTargets, ReleaseRunLock, CallFails, Die, table
  <2>3. QED
    BY <2>1, <2>2, Reframed DEF TypeOK
<1>4. QED
  BY <1>1, <1>2, <1>3

\* what a worker may do
Acts(w) ==
    \/ TryAcquireRunLock(w)
    \/ \E org \in Orgs : ManualOrg(w, org)
    \/ \E t \in Targets : ManualTarget(w, t)
    \/ RecoverStaleRuns(w) \/ ListDueTargets(w) \/ CreateRun(w)
    \/ CheckTarget(w) \/ FindIdenticalPending(w) \/ CreatePendingObservation(w)
    \/ RecordResult(w) \/ UpdateTargetAfterCheck(w)
    \/ FinishRun(w) \/ FinishFailedRun(w) \/ ReleaseRunLock(w) \/ CallFails(w) \/ Die(w)

\* users and time: no run moves, no date, no counter
World ==
    /\ UNCHANGED <<streak, runs, lock, pc, work>>
    /\ target' \in TargetTable
    /\ \A t \in Targets : target'[t].next = target[t].next /\ target'[t].failures = target[t].failures
    /\ pending' \in [Targets -> [Prices -> Nat]]
    /\ \A t \in Targets, p \in Prices : pending'[t][p] <= pending[t][p]
    /\ baseline' \in [Targets -> Prices \cup {NoOne}]
    /\ now' \in 0 .. MaxTime
    /\ now' = now \/ Tick

LEMMA UsersAreWorld ==
    ASSUME TypeOK, NEW t \in Targets,
           SetTargetEnabled(t) \/ UpdateTargetCadence(t) \/ \E p \in Prices : Review(t, p)
    PROVE  World
<1>1. target \in TargetTable /\ \A u \in Targets, p \in Prices : pending[u][p] \in Nat
  BY DEF TypeOK, TargetTable
<1>2. CASE SetTargetEnabled(t)
  <2>1. PICK st \in {"enabled", "paused"} : target' = [target EXCEPT ![t].st = st]
    BY <1>2 DEF SetTargetEnabled
  <2> DEFINE r == [target[t] EXCEPT !.st = st]
  <2>2. /\ r \in [st : {"enabled", "paused"}, cadence : Cadences, next : Nat, failures : Nat]
        /\ r.next = target[t].next /\ r.failures = target[t].failures
    BY <1>1 DEF TargetTable
  <2>3. target' = [target EXCEPT ![t] = r]
    BY <2>1
  <2> HIDE DEF r
  <2>4. /\ target' \in TargetTable
        /\ \A u \in Targets : /\ target'[u].next = target[u].next
                              /\ target'[u].failures = target[u].failures
    BY <1>1, <2>2, <2>3 DEF TargetTable
  <2>5. QED
    BY <1>1, <1>2, <2>4 DEF SetTargetEnabled, World, TypeOK
<1>3. CASE UpdateTargetCadence(t)
  <2>1. PICK c \in Cadences : target' = [target EXCEPT ![t].cadence = c]
    BY <1>3 DEF UpdateTargetCadence
  <2> DEFINE r == [target[t] EXCEPT !.cadence = c]
  <2>2. /\ r \in [st : {"enabled", "paused"}, cadence : Cadences, next : Nat, failures : Nat]
        /\ r.next = target[t].next /\ r.failures = target[t].failures
    BY <1>1 DEF TargetTable
  <2>3. target' = [target EXCEPT ![t] = r]
    BY <2>1
  <2> HIDE DEF r
  <2>4. /\ target' \in TargetTable
        /\ \A u \in Targets : /\ target'[u].next = target[u].next
                              /\ target'[u].failures = target[u].failures
    BY <1>1, <2>2, <2>3 DEF TargetTable
  <2>5. QED
    BY <1>1, <1>3, <2>4 DEF UpdateTargetCadence, World, TypeOK
<1>4. ASSUME NEW p \in Prices, Review(t, p) PROVE World
  <2>1. pending' = [pending EXCEPT ![t][p] = @ - 1] /\ pending[t][p] > 0
    BY <1>4 DEF Review
  <2>2. /\ pending' \in [Targets -> [Prices -> Nat]]
        /\ \A u \in Targets, q \in Prices : pending'[u][q] <= pending[u][q]
    BY <1>1, <2>1 DEF TypeOK
  <2>3. baseline' \in [Targets -> Prices \cup {NoOne}]
    BY <1>4 DEF Review, TypeOK
  <2>4. QED
    BY <1>1, <1>4, <2>2, <2>3 DEF Review, World, TypeOK
<1>5. QED
  BY <1>2, <1>3, <1>4

LEMMA TickIsWorld == ASSUME TypeOK, Tick PROVE World
<1>1. now' \in 0 .. MaxTime
  BY MonitorAssumption DEF Tick, TypeOK
<1>2. \A t \in Targets, p \in Prices : pending[t][p] \in Nat
  BY DEF TypeOK
<1>3. QED
  BY <1>1, <1>2 DEF Tick, World, TypeOK, table, TargetTable

LEMMA NextCases ==
    ASSUME TypeOK, Next
    PROVE  (\E w \in Workers : Acts(w)) \/ World
<1>1. ASSUME NEW w \in Workers,
             \/ TryAcquireRunLock(w)
             \/ \E org \in Orgs : ManualOrg(w, org)
             \/ \E t \in Targets : ManualTarget(w, t)
             \/ Step(w) \/ CallFails(w) \/ Die(w)
      PROVE  Acts(w)
  BY <1>1 DEF Step, Acts
<1>2. ASSUME NEW t \in Targets,
             SetTargetEnabled(t) \/ UpdateTargetCadence(t) \/ \E p \in Prices : Review(t, p)
      PROVE  World
  BY <1>2, UsersAreWorld
<1>3. QED
  BY <1>1, <1>2, TickIsWorld DEF Next

LEMMA ActsFrame ==
    ASSUME TypeOK, NEW w \in Workers, Acts(w)
    PROVE  Frame(w)
<1>1. CreateRun(w) => Frame(w)
  BY DuplicateDoes, CreatedDoes, UnwindDoes DEF CreateRun, Skipped, Began
<1>2. (\/ TryAcquireRunLock(w) \/ \E org \in Orgs : ManualOrg(w, org)
       \/ \E t \in Targets : ManualTarget(w, t)) => Frame(w)
  BY AcquireDoes, ManualOrgDoes, ManualTargetDoes DEF ManualEffect
<1>3. (\/ CheckTarget(w) \/ FindIdenticalPending(w) \/ CreatePendingObservation(w)
       \/ RecordResult(w) \/ UpdateTargetAfterCheck(w)) => Frame(w)
  BY CheckDoes, FindDoes, InsertDoes, RecordDoes, UpdateDoes DEF Checked
<1>4. (RecoverStaleRuns(w) \/ ListDueTargets(w) \/ FinishRun(w) \/ FinishFailedRun(w)) => Frame(w)
  BY RecoverDoes, ListDoes, FinishDoes, UnwindDoes DEF FinishFailedRun
<1>5. (ReleaseRunLock(w) \/ CallFails(w) \/ Die(w)) => Frame(w)
  BY ReleaseDoes, CallFailsDoes, DieDoes, UnwindDoes
<1>6. QED
  BY <1>1, <1>2, <1>3, <1>4, <1>5 DEF Acts

\* an action takes a worker to a step that checks a target only from such a step
LEMMA HereStep ==
    ASSUME TypeOK, HereTyped, Next
    PROVE  HereTyped'
<1>1. CASE World
  BY <1>1 DEF World, HereTyped, Checking
<1>2. ASSUME NEW w \in Workers, Acts(w) PROVE HereTyped'
  <2>1. Frame(w)
    BY <1>2, ActsFrame
  <2>2. /\ Checking(w)' => work'[w].here.target \in Snapshots
        /\ pc'[w] \in {"find", "insert"} => work'[w].here.price \in Prices
    <3>1. CASE CheckTarget(w)
      <4>1. PICK s \in work[w].queue, p \in Prices \cup {NoOne} : Checked(w, s, p)
        BY <3>1, CheckDoes
      <4>2. s \in Snapshots
        BY DEF TypeOK, Works
      <4>3. QED
        BY <4>1, <4>2 DEF Checked
    <3>2. CASE FindIdenticalPending(w)
      BY <3>2, FindDoes DEF HereTyped, Checking
    <3>3. CASE CreatePendingObservation(w) \/ RecordResult(w)
      BY <3>3, InsertDoes, RecordDoes DEF HereTyped, Checking, SameTarget
    <3>4. CASE CallFails(w)
      BY <3>4, CallFailsDoes, UnwindDoes DEF HereTyped, Checking, SameTarget
    <3>5. CASE ~Checking(w)'
      BY <3>5 DEF Checking
    <3>6. CreateRun(w) => ~Checking(w)'
      BY DuplicateDoes, CreatedDoes, UnwindDoes
         DEF CreateRun, Skipped, Began, Checking, AfterOrg, AfterTarget
    <3>7. (\/ TryAcquireRunLock(w) \/ \E org \in Orgs : ManualOrg(w, org)
           \/ \E t \in Targets : ManualTarget(w, t)) => ~Checking(w)'
      BY AcquireDoes, ManualOrgDoes, ManualTargetDoes DEF ManualEffect, Checking
    <3>8. (\/ RecoverStaleRuns(w) \/ ListDueTargets(w) \/ FinishRun(w) \/ FinishFailedRun(w)
           \/ ReleaseRunLock(w) \/ Die(w) \/ UpdateTargetAfterCheck(w)) => ~Checking(w)'
      BY RecoverDoes, ListDoes, FinishDoes, UnwindDoes, ReleaseDoes, DieDoes, UpdateDoes
         DEF FinishFailedRun, Checking, AfterOrg, AfterTarget
    <3>9. QED
      BY <1>2, <3>1, <3>2, <3>3, <3>4, <3>5, <3>6, <3>7, <3>8 DEF Acts
  <2>3. QED
    BY <2>1, <2>2 DEF Frame, HereTyped, Checking
<1>3. QED
  BY <1>1, <1>2, NextCases

LEMMA Typed == Spec => [](TypeOK /\ HereTyped)
<1>1. Init => TypeOK /\ HereTyped
  BY InitTyped DEF Init, HereTyped, Checking
<1>2. TypeOK /\ HereTyped /\ [Next]_vars => (TypeOK /\ HereTyped)'
  <2> SUFFICES ASSUME TypeOK, HereTyped, [Next]_vars PROVE (TypeOK /\ HereTyped)'
    OBVIOUS
  <2>1. CASE UNCHANGED vars
    BY <2>1 DEF vars, table, TypeOK, HereTyped, Checking, Checking
  <2>2. CASE Next /\ World
    BY <2>2, HereStep DEF World, TypeOK, TargetTable
  <2>3. ASSUME Next, NEW w \in Workers, Acts(w) PROVE TypeOK' /\ HereTyped'
    BY <2>3, HereStep, StartTyped, CreateTyped, TargetTyped, EndTyped DEF Acts
  <2>4. QED
    BY <2>1, <2>2, <2>3, NextCases
<1>3. QED
  BY <1>1, <1>2, PTL DEF Spec

\* Every variable keeps its type: dates and counters of the table are natural
\* numbers, a key is used by one row of the runs, a run works on rows it listed.
THEOREM TypeCorrect == Spec => []TypeOK
<1>1. QED
  BY Typed, PTL

-----------------------------------------------------------------------------
(* A live run is running *)

\* steps between the creation of a run's row and its end
Owner(w) == pc[w] \in {"check", "find", "insert", "record", "update", "finish", "abort"}

\* no run outlives MaxLife
LifeInv ==
    \A w \in Workers : pc[w] # "idle" => work[w].born <= now /\ now <= work[w].born + MaxLife

\* the row of a run is there until its end, and no older than its invocation
RowInv ==
    \A w \in Workers : Owner(w) =>
        \E r \in runs : /\ r.key = work[w].key /\ r.started >= work[w].born
                        /\ pc[w] # "abort" => r.st = "running"

KeysInv ==
    \A v, w \in Workers : Owner(v) /\ Owner(w) /\ work[v].key = work[w].key => v = w

LiveInv == LifeInv /\ RowInv /\ KeysInv

LEMMA BornStep ==
    ASSUME TypeOK, NEW w \in Workers, Acts(w), pc'[w] # "idle"
    PROVE  \/ work'[w].born = now
           \/ pc[w] # "idle" /\ work'[w].born = work[w].born
<1>1. (\/ TryAcquireRunLock(w) \/ \E org \in Orgs : ManualOrg(w, org)
       \/ \E t \in Targets : ManualTarget(w, t)) => work'[w].born = now
  BY AcquireDoes, ManualOrgDoes, ManualTargetDoes DEF ManualEffect
<1>2. CreateRun(w) => pc[w] # "idle" /\ work'[w].born = work[w].born
  <2> SUFFICES ASSUME CreateRun(w) PROVE pc[w] # "idle" /\ work'[w].born = work[w].born
    OBVIOUS
  <2>1. pc[w] = "create"
    BY DEF CreateRun, Calling
  <2>2. work'[w].born = work[w].born
    BY DuplicateDoes, CreatedDoes, UnwindDoes DEF CreateRun, Skipped, Began
  <2>3. QED
    BY <2>1, <2>2
<1>3. (\/ CheckTarget(w) \/ FindIdenticalPending(w) \/ CreatePendingObservation(w)
       \/ RecordResult(w) \/ UpdateTargetAfterCheck(w))
        => pc[w] # "idle" /\ work'[w].born = work[w].born
  BY CheckDoes, FindDoes, InsertDoes, RecordDoes, UpdateDoes DEF Checked, SameRun
<1>4. (RecoverStaleRuns(w) \/ ListDueTargets(w) \/ FinishRun(w))
        => pc[w] # "idle" /\ work'[w].born = work[w].born
  BY RecoverDoes, ListDoes, FinishDoes DEF SameRun
<1>5. (FinishFailedRun(w) \/ CallFails(w)) => pc[w] # "idle" /\ work'[w].born = work[w].born
  BY CallFailsDoes, UnwindDoes DEF FinishFailedRun, Calling, SameRun
<1>6. ~ReleaseRunLock(w) /\ ~Die(w)
  BY ReleaseDoes, DieDoes
<1>7. QED
  BY <1>1, <1>2, <1>3, <1>4, <1>5, <1>6 DEF Acts

LEMMA ActsNow == ASSUME NEW w \in Workers, Acts(w) PROVE now' = now
BY DEF Acts, TryAcquireRunLock, ManualOrg, ManualTarget, RecoverStaleRuns, ListDueTargets,
       CreateRun, CheckTarget, FindIdenticalPending, CreatePendingObservation, RecordResult,
       UpdateTargetAfterCheck, FinishRun, FinishFailedRun, ReleaseRunLock, CallFails, Die

\* a worker has a row either because it has just created it or since before
LEMMA OwnerStep ==
    ASSUME TypeOK, NEW w \in Workers, Acts(w), Owner(w)'
    PROVE  \/ /\ ~KeyTaken(work'[w].key)
              /\ runs' = runs \cup {[key |-> work'[w].key, st |-> "running", started |-> now]}
              /\ pc[w] # "idle" /\ work'[w].born = work[w].born
           \/ /\ Owner(w) /\ work'[w].key = work[w].key /\ work'[w].born = work[w].born
              /\ pc'[w] = "abort" \/ (pc[w] # "abort" /\ UNCHANGED runs)
<1>1. CASE CreateRun(w)
  <2>1. PICK org \in IF Scheduled(w) THEN {OrgOf[s.id] : s \in work[w].plan} ELSE {work[w].key.org} :
            DuplicateWindow(w, org) \/ RunCreated(w, org)
    BY <1>1 DEF CreateRun
  <2>2. Calling(w, "create") /\ pc[w] = "create"
    BY <1>1 DEF CreateRun, Calling
  <2>3. ~DuplicateWindow(w, org) /\ ~Unwind(w)
    BY <2>2, DuplicateDoes, UnwindDoes DEF Skipped, Owner, AfterOrg
  <2>4. Began(w, org) /\ RunCreated(w, org)
    BY <2>1, <2>2, <2>3, CreatedDoes
  <2>5. QED
    BY <2>2, <2>4 DEF Began, RunCreated
<1>2. (\/ CheckTarget(w) \/ FindIdenticalPending(w) \/ CreatePendingObservation(w)
       \/ RecordResult(w) \/ UpdateTargetAfterCheck(w))
        => /\ Owner(w) /\ SameRun(w) /\ pc[w] # "abort" /\ UNCHANGED runs
  BY CheckDoes, FindDoes, InsertDoes, RecordDoes, UpdateDoes
     DEF Checked, Owner, CheckTarget, FindIdenticalPending, CreatePendingObservation,
         RecordResult, UpdateTargetAfterCheck
<1>3. FinishRun(w) => Owner(w) /\ work'[w] = work[w] /\ pc'[w] = "abort"
  BY FinishDoes DEF Owner, AfterOrg
<1>4. CallFails(w) => Owner(w) /\ SameRun(w) /\ UNCHANGED runs /\ pc[w] # "abort"
  BY CallFailsDoes, UnwindDoes DEF Owner, CallFails
<1>5. /\ ~TryAcquireRunLock(w)
      /\ ~\E org \in Orgs : ManualOrg(w, org)
      /\ ~\E t \in Targets : ManualTarget(w, t)
      /\ ~RecoverStaleRuns(w) /\ ~ListDueTargets(w)
      /\ ~FinishFailedRun(w) /\ ~ReleaseRunLock(w) /\ ~Die(w)
  BY AcquireDoes, ManualOrgDoes, ManualTargetDoes, RecoverDoes, ListDoes, UnwindDoes, ReleaseDoes,
     DieDoes DEF ManualEffect, FinishFailedRun, Owner, AfterOrg
<1>6. QED
  BY <1>1, <1>2, <1>3, <1>4, <1>5 DEF Acts, SameRun

\* no row disappears; only an old one or the worker's own changes
LEMMA RowsStep ==
    ASSUME TypeOK, NEW w \in Workers, Acts(w), NEW r \in runs
    PROVE  /\ \E q \in runs' : q.key = r.key /\ q.started = r.started
           /\ ~Stale(r) /\ ~(Owner(w) /\ r.key = work[w].key) => r \in runs'
<1>1. r \in Rows
  BY DEF TypeOK
<1>2. CASE RecoverStaleRuns(w)
  <2> DEFINE q == IF Stale(r) THEN [r EXCEPT !.st = "failed"] ELSE r
  <2>1. q.key = r.key /\ q.started = r.started /\ (~Stale(r) => q = r)
    BY <1>1, RowEnded DEF Statuses
  <2>2. q \in runs'
    BY <1>2 DEF RecoverStaleRuns
  <2> HIDE DEF q
  <2>3. QED
    BY <2>1, <2>2
<1>3. CASE FinishRun(w) \/ FinishFailedRun(w)
  <2>1. PICK st \in Statuses : SetRun(work[w].key, st)
    <3>1. RunStatusFrom(w) \in Statuses /\ "failed" \in Statuses
      BY DEF RunStatusFrom, Statuses
    <3>2. SetRun(work[w].key, RunStatusFrom(w)) \/ SetRun(work[w].key, "failed")
      BY <1>3 DEF FinishRun, FinishFailedRun
    <3>3. QED
      BY <3>1, <3>2
  <2>2. Owner(w)
    BY <1>3 DEF FinishRun, FinishFailedRun, Calling, Owner
  <2> DEFINE q == IF r.key = work[w].key THEN [r EXCEPT !.st = st] ELSE r
  <2>3. q.key = r.key /\ q.started = r.started /\ (r.key # work[w].key => q = r)
    BY <1>1, RowEnded
  <2>4. q \in runs'
    BY <2>1 DEF SetRun
  <2> HIDE DEF q
  <2>5. QED
    BY <2>2, <2>3, <2>4
<1>4. CASE CreateRun(w)
  BY <1>4 DEF CreateRun, DuplicateWindow, RunCreated
<1>5. CASE UNCHANGED runs
  BY <1>5
<1>6. (\/ TryAcquireRunLock(w) \/ \E org \in Orgs : ManualOrg(w, org)
       \/ \E t \in Targets : ManualTarget(w, t)) => UNCHANGED runs
  BY DEF TryAcquireRunLock, ManualOrg, ManualTarget
<1>7. (\/ ListDueTargets(w) \/ CheckTarget(w) \/ FindIdenticalPending(w)
       \/ CreatePendingObservation(w) \/ RecordResult(w) \/ UpdateTargetAfterCheck(w)
       \/ ReleaseRunLock(w) \/ CallFails(w) \/ Die(w)) => UNCHANGED runs
  BY DEF ListDueTargets, CheckTarget, FindIdenticalPending, CreatePendingObservation,
         RecordResult, UpdateTargetAfterCheck, ReleaseRunLock, CallFails, Die
<1>8. QED
  BY <1>2, <1>3, <1>4, <1>5, <1>6, <1>7 DEF Acts

LEMMA LiveInit == Init => LiveInv
  BY DEF Init, LiveInv, LifeInv, RowInv, KeysInv, Owner

LEMMA LiveStep ==
    ASSUME TypeOK, HereTyped, LiveInv, Next
    PROVE  LiveInv'
<1>1. /\ now \in Nat /\ MaxLife \in Nat /\ StaleAfter \in Nat /\ MaxLife <= StaleAfter
      /\ \A w \in Workers : work[w].born \in Nat
      /\ \A r \in runs : r.started \in Nat
  BY MonitorAssumption DEF TypeOK, Works, Rows
<1>2. CASE World
  <2>1. LifeInv'
    BY <1>1, <1>2 DEF World, Tick, LiveInv, LifeInv, TypeOK
  <2>2. QED
    BY <1>2, <2>1 DEF World, LiveInv, RowInv, KeysInv, Owner
<1>3. ASSUME NEW w \in Workers, Acts(w) PROVE LiveInv'
  <2>1. Frame(w) /\ now' = now
    BY <1>3, ActsFrame, ActsNow
  <2>2. \A v \in Workers \ {w} : pc'[v] = pc[v] /\ work'[v] = work[v] /\ (Owner(v)' <=> Owner(v))
    BY <2>1 DEF Frame, Owner
  <2>3. LifeInv'
    <3>1. pc'[w] # "idle" => work'[w].born <= now /\ now <= work'[w].born + MaxLife
      BY <1>1, <1>3, BornStep DEF LiveInv, LifeInv
    <3>2. QED
      BY <2>1, <2>2, <3>1 DEF LiveInv, LifeInv
  <2>4. RowInv'
    <3>1. ASSUME NEW v \in Workers \ {w}, Owner(v)'
          PROVE  \E r \in runs' : /\ r.key = work'[v].key /\ r.started >= work'[v].born
                                  /\ pc'[v] # "abort" => r.st = "running"
      <4>1. Owner(v) /\ work'[v] = work[v] /\ pc'[v] = pc[v]
        BY <2>2, <3>1
      <4>2. PICK r \in runs : /\ r.key = work[v].key /\ r.started >= work[v].born
                              /\ pc[v] # "abort" => r.st = "running"
        BY <4>1 DEF LiveInv, RowInv
      <4>3. now <= work[v].born + MaxLife
        BY <4>1 DEF LiveInv, LifeInv, Owner
      <4>4. ~Stale(r)
        <5>1. r.started \in Nat /\ work[v].born \in Nat /\ r.started >= work[v].born
          BY <1>1, <4>2
        <5>2. r.started + StaleAfter >= now
          BY <1>1, <4>3, <5>1
        <5>3. QED
          BY <1>1, <5>1, <5>2 DEF Stale
      <4>5. ~(Owner(w) /\ r.key = work[w].key)
        <5>1. r.key = work[v].key /\ v \in Workers /\ v # w
          BY <4>2
        <5>2. QED
          BY <4>1, <5>1 DEF LiveInv, KeysInv
      <4>6. r \in runs'
        BY <1>3, <4>4, <4>5, RowsStep
      <4>7. r.key = work'[v].key /\ r.started >= work'[v].born
        BY <4>1, <4>2
      <4>8. pc'[v] # "abort" => r.st = "running"
        BY <4>1, <4>2
      <4>9. QED
        BY <4>6, <4>7, <4>8
    <3>2. ASSUME Owner(w)'
          PROVE  \E r \in runs' : /\ r.key = work'[w].key /\ r.started >= work'[w].born
                                  /\ pc'[w] # "abort" => r.st = "running"
      <4>1. CASE /\ runs' = runs \cup {[key |-> work'[w].key, st |-> "running", started |-> now]}
                 /\ pc[w] # "idle" /\ work'[w].born = work[w].born
        <5> DEFINE r == [key |-> work'[w].key, st |-> "running", started |-> now]
        <5>1. r \in runs' /\ r.key = work'[w].key /\ r.st = "running" /\ r.started = now
          BY <4>1
        <5> HIDE DEF r
        <5>2. r.started >= work'[w].born
          BY <1>1, <4>1, <5>1 DEF LiveInv, LifeInv
        <5>3. QED
          BY <5>1, <5>2
      <4>2. CASE /\ Owner(w) /\ work'[w].key = work[w].key /\ work'[w].born = work[w].born
                 /\ pc'[w] = "abort" \/ (pc[w] # "abort" /\ UNCHANGED runs)
        <5>1. PICK r \in runs : /\ r.key = work[w].key /\ r.started >= work[w].born
                                /\ pc[w] # "abort" => r.st = "running"
          BY <4>2 DEF LiveInv, RowInv
        <5>2. PICK q \in runs' : q.key = r.key /\ q.started = r.started
          BY <1>3, <5>1, RowsStep
        <5>3. q.key = work'[w].key /\ q.started >= work'[w].born
          BY <4>2, <5>1, <5>2
        <5>4. CASE pc'[w] = "abort"
          BY <5>2, <5>3, <5>4
        <5>5. CASE pc[w] # "abort" /\ runs' = runs
          BY <4>2, <5>1, <5>5
        <5>6. QED
          BY <4>2, <5>4, <5>5
      <4>3. QED
        BY <1>3, <3>2, <4>1, <4>2, OwnerStep
    <3>3. QED
      BY <3>1, <3>2 DEF RowInv, Owner
  <2>5. KeysInv'
    <3>1. ASSUME Owner(w)', NEW v \in Workers \ {w}, Owner(v) PROVE work'[w].key # work[v].key
      <4>1. PICK r \in runs : r.key = work[v].key
        BY <3>1 DEF LiveInv, RowInv
      <4>2. QED
        BY <1>3, <3>1, <4>1, OwnerStep DEF KeyTaken, LiveInv, KeysInv
    <3>2. QED
      BY <2>2, <3>1 DEF LiveInv, KeysInv
  <2>6. QED
    BY <2>3, <2>4, <2>5 DEF LiveInv
<1>4. QED
  BY <1>2, <1>3, NextCases

LEMMA LiveInvariant == Spec => []LiveInv
<1>1. TypeOK /\ HereTyped /\ LiveInv /\ [Next]_vars => LiveInv'
  BY LiveStep DEF vars, table, LiveInv, LifeInv, RowInv, KeysInv, Owner
<1>2. QED
  BY <1>1, LiveInit, Typed, PTL DEF Spec

\* However many invocations, manual runs and kills there are, the recovery
\* never marks the run of a live invocation: it is younger than MaxLife, which
\* is not more than the age at which a run is taken for an orphan.
THEOREM LiveRunsRunning == Spec => []LiveRunIsRunning
<1>1. LiveInv => LiveRunIsRunning
  BY DEF LiveInv, RowInv, LiveRunIsRunning, Checking, Owner
<1>2. QED
  BY <1>1, LiveInvariant, PTL

-----------------------------------------------------------------------------
(* The lock is held by the scheduled run in progress *)

\* Contract: the lock belongs to the scheduled invocation that is in progress,
\* and to no one when there is none.
\* (docs/PRICE_MONITORING_AGENT_V1_CONTRACT.md, 5.6)
LockHeld == \A w \in Workers : lock = w <=> pc[w] # "idle" /\ Scheduled(w)

LockInv ==
    /\ LockHeld
    /\ \A w \in Workers : /\ pc[w] \in {"recover", "list", "release"} => Scheduled(w)
                          /\ pc[w] # "idle" /\ ~Scheduled(w) => Ops \cap {"org", "target"} # {}

Starts(w) == \/ \E org \in Orgs : ManualOrg(w, org)
             \/ \E t \in Targets : ManualTarget(w, t)

\* a run is scheduled or manual from its start to its end
LEMMA TriggerStep ==
    ASSUME TypeOK, NEW w \in Workers, Acts(w)
    PROVE  \/ /\ TryAcquireRunLock(w)
              /\ pc[w] = "idle" /\ pc'[w] # "idle" /\ Scheduled(w)'
           \/ /\ Starts(w) /\ pc'[w] = "create"
              /\ pc[w] = "idle" /\ pc'[w] # "idle" /\ ~Scheduled(w)'
           \/ /\ pc[w] # "idle" /\ pc'[w] = "idle"
              /\ ReleaseRunLock(w) \/ Die(w) \/ (~Scheduled(w) /\ UNCHANGED lock)
           \/ /\ pc[w] # "idle" /\ pc'[w] # "idle" /\ UNCHANGED lock
              /\ Scheduled(w)' <=> Scheduled(w)
              /\ pc'[w] = "release" => Scheduled(w) \/ pc[w] = "list"
              /\ pc'[w] = "list" => pc[w] = "recover"
              /\ pc'[w] # "recover"
<1>1. CASE TryAcquireRunLock(w)
  BY <1>1, AcquireDoes
<1>2. CASE Starts(w)
  BY <1>2, ManualOrgDoes, ManualTargetDoes DEF Starts, ManualEffect
<1>3. CASE ReleaseRunLock(w) \/ Die(w)
  BY <1>3, ReleaseDoes, DieDoes
<1>4. ASSUME UNCHANGED lock, Unwind(w), pc[w] # "idle"
      PROVE  \/ /\ pc[w] # "idle" /\ pc'[w] = "idle" /\ ~Scheduled(w)
             \/ /\ pc[w] # "idle" /\ pc'[w] = "release" /\ Scheduled(w) /\ Scheduled(w)'
  BY <1>4, UnwindDoes
<1>5. CASE CreateRun(w)
  <2>1. pc[w] = "create" /\ UNCHANGED lock /\ Calling(w, "create")
    BY <1>5 DEF CreateRun, Calling
  <2>2. PICK org \in IF Scheduled(w) THEN {OrgOf[s.id] : s \in work[w].plan} ELSE {work[w].key.org} :
            DuplicateWindow(w, org) \/ RunCreated(w, org)
    BY <1>5 DEF CreateRun
  <2>3. \/ Skipped(w, org) \/ Began(w, org) \/ Unwind(w)
        \/ ~Scheduled(w) /\ work'[w] = NoWork /\ pc'[w] = "idle"
    BY <2>1, <2>2, DuplicateDoes, CreatedDoes
  <2>4. QED
    BY <1>4, <2>1, <2>3 DEF Skipped, Began, AfterOrg, AfterTarget, Scheduled
<1>6. CASE FinishRun(w)
  <2>1. UNCHANGED lock
    BY <1>6 DEF FinishRun
  <2>2. QED
    BY <1>6, <2>1, FinishDoes DEF AfterOrg, SameRun, Scheduled
<1>7. CASE FinishFailedRun(w)
  BY <1>4, <1>7 DEF FinishFailedRun, Calling
<1>8. CASE CallFails(w)
  <2>1. UNCHANGED lock
    BY <1>8 DEF CallFails
  <2>2. QED
    BY <1>4, <1>8, <2>1, CallFailsDoes DEF SameRun, Scheduled
<1>9. CASE RecoverStaleRuns(w) \/ ListDueTargets(w)
  BY <1>9, RecoverDoes, ListDoes DEF SameRun, Scheduled, AfterOrg, RecoverStaleRuns, ListDueTargets
<1>10. CASE \/ CheckTarget(w) \/ FindIdenticalPending(w) \/ CreatePendingObservation(w)
            \/ RecordResult(w) \/ UpdateTargetAfterCheck(w)
  <2>1. UNCHANGED lock
    BY <1>10 DEF CheckTarget, FindIdenticalPending, CreatePendingObservation,
         RecordResult, UpdateTargetAfterCheck
  <2>2. /\ pc[w] # "idle" /\ SameRun(w)
        /\ pc'[w] \in {"check", "find", "insert", "record", "update", "finish", "abort"}
    BY <1>10, CheckDoes, FindDoes, InsertDoes, RecordDoes, UpdateDoes DEF Checked, AfterTarget
  <2>3. QED
    BY <2>1, <2>2 DEF SameRun, Scheduled
<1>11. QED
  BY <1>1, <1>2, <1>3, <1>5, <1>6, <1>7, <1>8, <1>9, <1>10 DEF Acts, Starts

LEMMA LockStep ==
    ASSUME TypeOK, LockInv, Next
    PROVE  LockInv'
<1>1. CASE World
  BY <1>1 DEF World, LockInv, LockHeld, Scheduled
<1>2. ASSUME NEW w \in Workers, Acts(w) PROVE LockInv'
  <2>1. \A v \in Workers \ {w} : pc'[v] = pc[v] /\ (Scheduled(v)' <=> Scheduled(v))
    BY <1>2, ActsFrame DEF Frame, Scheduled
  <2>2. NoOne \notin Workers
    BY MonitorAssumption
  <2>3. CASE /\ TryAcquireRunLock(w)
             /\ pc[w] = "idle" /\ pc'[w] # "idle" /\ Scheduled(w)'
    <3>1. lock = NoOne /\ lock' = w /\ pc'[w] = "recover"
      BY <2>3, AcquireDoes DEF TryAcquireRunLock, LockAvailable
    <3>2. QED
      BY <2>1, <2>2, <2>3, <3>1 DEF LockInv, LockHeld
  <2>4. CASE /\ Starts(w) /\ pc'[w] = "create"
             /\ pc[w] = "idle" /\ pc'[w] # "idle" /\ ~Scheduled(w)'
    <3>1. UNCHANGED lock /\ Ops \cap {"org", "target"} # {}
      BY <2>4 DEF Starts, ManualOrg, ManualTarget
    <3>2. QED
      BY <2>1, <2>4, <3>1 DEF LockInv, LockHeld
  <2>5. CASE /\ pc[w] # "idle" /\ pc'[w] = "idle"
             /\ ReleaseRunLock(w) \/ Die(w) \/ (~Scheduled(w) /\ UNCHANGED lock)
    <3>1. lock' # w /\ \A v \in Workers \ {w} : lock' = v <=> lock = v
      <4>1. CASE ReleaseRunLock(w)
        <5>1. lock = w /\ lock' = NoOne
          BY <4>1 DEF ReleaseRunLock, LockInv, LockHeld
        <5>2. QED
          BY <2>2, <5>1
      <4>2. CASE Die(w)
        BY <2>2, <4>2 DEF Die
      <4>3. CASE ~Scheduled(w) /\ UNCHANGED lock
        BY <4>3 DEF LockInv, LockHeld
      <4>4. QED
        BY <2>5, <4>1, <4>2, <4>3
    <3>2. QED
      BY <2>1, <2>5, <3>1 DEF LockInv, LockHeld
  <2>6. CASE /\ pc[w] # "idle" /\ pc'[w] # "idle" /\ UNCHANGED lock
             /\ Scheduled(w)' <=> Scheduled(w)
             /\ pc'[w] = "release" => Scheduled(w) \/ pc[w] = "list"
             /\ pc'[w] = "list" => pc[w] = "recover"
             /\ pc'[w] # "recover"
    BY <2>1, <2>6 DEF LockInv, LockHeld
  <2>7. QED
    BY <1>2, <2>3, <2>4, <2>5, <2>6, TriggerStep
<1>3. QED
  BY <1>1, <1>2, NextCases

LEMMA LockInvariant == Spec => []LockInv
<1>1. Init => LockInv
  BY MonitorAssumption DEF Init, LockInv, LockHeld
<1>2. TypeOK /\ LockInv /\ [Next]_vars => LockInv'
  BY LockStep DEF vars, table, LockInv, LockHeld, Scheduled
<1>3. QED
  BY <1>1, <1>2, TypeCorrect, PTL DEF Spec

\* No path of a scheduled invocation, its errors and its death included, ends
\* with the lock held, and none goes on without it.
THEOREM LockIsHeldByItsRun == Spec => []LockHeld
<1>1. LockInv => LockHeld
  BY DEF LockInv
<1>2. QED
  BY <1>1, LockInvariant, PTL

-----------------------------------------------------------------------------
(* One run at a time: the workloads in which the lock separates all runs *)

OneRunAtATime == Ops \cap {"org", "target"} = {} \/ \A v, w \in Workers : v = w

OneInv == \A v, w \in Workers : pc[v] # "idle" /\ pc[w] # "idle" => v = w

LEMMA OneIsAlone == ASSUME OneRunAtATime, LockInv PROVE OneInv
BY DEF OneRunAtATime, OneInv, LockInv, LockHeld

-----------------------------------------------------------------------------
(* The targets of a run *)

Mids(w) == work[w].plan \cup InHand(w)

Functional(ss) == \A s, q \in ss : s.id = q.id => s = q

\* a run has each target once: in its plan, in its queue or in hand
Apart(w) ==
    /\ Functional(Mids(w))
    /\ work[w].plan \cap InHand(w) = {}
    /\ Checking(w) => work[w].here.target \notin work[w].queue

ApartInv == \A w \in Workers : Apart(w)

LEMMA CurrentFunctional == ASSUME NEW ss, Current(ss) PROVE Functional(ss)
BY DEF Current, Functional

\* a run takes its targets when it lists them, and only loses them afterwards
LEMMA MidsStep ==
    ASSUME TypeOK, NEW w \in Workers, Acts(w)
    PROVE  \/ Current(work'[w].plan) /\ InHand(w)' = {} /\ (Starts(w) \/ ListDueTargets(w))
           \/ Mids(w)' = {}
           \/ /\ CreateRun(w) /\ InHand(w)' = {}
              /\ work'[w].plan \subseteq work[w].plan
           \/ /\ CreateRun(w) /\ ~Checking(w)'
              /\ \E m \in SUBSET work[w].plan : work'[w].plan = work[w].plan \ m /\ InHand(w)' = m
           \/ /\ work'[w].plan = work[w].plan /\ InHand(w)' \subseteq InHand(w)
              /\ ~CreateRun(w) /\ (Checking(w)' => Checking(w) /\ SameTarget(w))
           \/ /\ CheckTarget(w)
              /\ work'[w].plan = work[w].plan /\ InHand(w)' \subseteq InHand(w)
              /\ work'[w].here.target \notin work'[w].queue
<1> USE DEF Mids, InHand, Checking
<1>1. CASE Starts(w)
  BY <1>1, ManualOrgDoes, ManualTargetDoes DEF Starts, ManualEffect
<1>2. CASE ListDueTargets(w)
  BY <1>2, ListDoes DEF AfterOrg
<1>3. ASSUME Unwind(w) \/ (work'[w] = NoWork /\ pc'[w] = "idle") PROVE Mids(w)' = {}
  <2>1. NoWork.plan = {}
    BY DEF NoWork
  <2>2. QED
    BY <1>3, <2>1, UnwindDoes
<1>4. CASE CreateRun(w)
  <2>1. PICK org \in IF Scheduled(w) THEN {OrgOf[s.id] : s \in work[w].plan} ELSE {work[w].key.org} :
            DuplicateWindow(w, org) \/ RunCreated(w, org)
    BY <1>4 DEF CreateRun
  <2>2. Calling(w, "create")
    BY <1>4 DEF CreateRun
  <2>3. CASE Skipped(w, org)
    BY <1>4, <2>3 DEF Skipped, AfterOrg
  <2>4. CASE Began(w, org)
    <3>1. Mine(w, org) \in SUBSET work[w].plan
      BY DEF Mine
    <3>2. ~Checking(w)' /\ InHand(w)' = Mine(w, org)
      BY <2>4 DEF Began, AfterTarget
    <3>3. QED
      BY <1>4, <2>4, <3>1, <3>2 DEF Began
  <2>5. QED
    BY <1>3, <2>1, <2>2, <2>3, <2>4, DuplicateDoes, CreatedDoes
<1>5. CASE CheckTarget(w)
  <2>1. PICK s \in work[w].queue, p \in Prices \cup {NoOne} : Checked(w, s, p)
    BY <1>5, CheckDoes
  <2>2. QED
    BY <1>5, <2>1 DEF Checked, SameRun
<1>6. CASE FindIdenticalPending(w) \/ CreatePendingObservation(w) \/ RecordResult(w)
  <2>1. ~CreateRun(w)
    BY <1>6 DEF FindIdenticalPending, CreatePendingObservation, RecordResult, CreateRun, Calling
  <2>2. QED
    BY <1>6, <2>1, FindDoes, InsertDoes, RecordDoes DEF SameRun, SameTarget
<1>7. CASE UpdateTargetAfterCheck(w)
  <2>1. ~CreateRun(w)
    BY <1>7 DEF UpdateTargetAfterCheck, CreateRun, Calling
  <2>2. QED
    BY <1>7, <2>1, UpdateDoes DEF SameRun, AfterTarget
<1>8. CASE FinishRun(w)
  <2>1. ~CreateRun(w)
    BY <1>8 DEF FinishRun, CreateRun, Calling
  <2>2. QED
    BY <1>3, <1>8, <2>1, FinishDoes DEF SameRun, AfterOrg
<1>9. CASE CallFails(w) /\ ~Unwind(w)
  <2>1. /\ ~Unwind(w)
        /\ \/ pc[w] \in {"record", "update", "finish"} /\ pc'[w] = "abort" /\ SameRun(w)
           \/ pc[w] \in {"find", "insert"} /\ pc'[w] = "record" /\ SameRun(w) /\ SameTarget(w)
    BY <1>9, CallFailsDoes
  <2>2. ~CreateRun(w)
    BY <2>1 DEF CreateRun, Calling
  <2>3. QED
    BY <2>1, <2>2 DEF SameRun, SameTarget
<1>10. CASE FinishFailedRun(w) \/ (CallFails(w) /\ Unwind(w)) \/ ReleaseRunLock(w) \/ Die(w)
  BY <1>3, <1>10, ReleaseDoes, DieDoes DEF FinishFailedRun
<1>11. CASE TryAcquireRunLock(w)
  BY <1>11, AcquireDoes
<1>12. CASE RecoverStaleRuns(w)
  <2>1. ~CreateRun(w)
    BY <1>12 DEF RecoverStaleRuns, CreateRun, Calling
  <2>2. QED
    BY <1>12, <2>1, RecoverDoes DEF SameRun
<1>13. QED
  BY <1>1, <1>2, <1>4, <1>5, <1>6, <1>7, <1>8, <1>9, <1>10, <1>11, <1>12 DEF Acts, Starts

LEMMA ApartStep ==
    ASSUME TypeOK, NEW w \in Workers, Acts(w), Apart(w)
    PROVE  /\ Apart(w)'
           /\ \/ Mids(w)' \subseteq Mids(w)
              \/ /\ Starts(w) \/ ListDueTargets(w)
                 /\ Current(work'[w].plan) /\ Mids(w)' = work'[w].plan
<1>1. ASSUME Mids(w)' \subseteq Mids(w), work'[w].plan \cap InHand(w)' = {},
             Checking(w)' => work'[w].here.target \notin work'[w].queue
      PROVE  Apart(w)' /\ Mids(w)' \subseteq Mids(w)
  BY <1>1 DEF Apart, Functional
<1>2. CASE Current(work'[w].plan) /\ InHand(w)' = {} /\ (Starts(w) \/ ListDueTargets(w))
  <2>1. Mids(w)' = work'[w].plan /\ Functional(Mids(w)')
    BY <1>2, CurrentFunctional DEF Mids
  <2>2. ~Checking(w)'
    BY <1>2, ManualOrgDoes, ManualTargetDoes, ListDoes
       DEF Starts, ManualEffect, AfterOrg, Checking
  <2>3. QED
    BY <1>2, <2>1, <2>2 DEF Apart, Functional
<1>3. CASE Mids(w)' = {}
  BY <1>1, <1>3 DEF Mids, InHand
<1>4. CASE CreateRun(w) /\ InHand(w)' = {} /\ work'[w].plan \subseteq work[w].plan
  <2>1. ~Checking(w)'
    BY <1>4, DuplicateDoes, CreatedDoes, UnwindDoes
         DEF CreateRun, Skipped, Began, Checking, AfterOrg, AfterTarget
  <2>2. QED
    BY <1>1, <1>4, <2>1 DEF Mids
<1>5. CASE /\ CreateRun(w) /\ ~Checking(w)'
           /\ \E m \in SUBSET work[w].plan : work'[w].plan = work[w].plan \ m /\ InHand(w)' = m
  BY <1>1, <1>5 DEF Mids
<1>6. CASE /\ work'[w].plan = work[w].plan /\ InHand(w)' \subseteq InHand(w)
           /\ ~CreateRun(w) /\ (Checking(w)' => Checking(w) /\ SameTarget(w))
  BY <1>1, <1>6 DEF Mids, Apart, SameTarget
<1>7. CASE /\ CheckTarget(w)
           /\ work'[w].plan = work[w].plan /\ InHand(w)' \subseteq InHand(w)
           /\ work'[w].here.target \notin work'[w].queue
  BY <1>1, <1>7 DEF Mids, Apart
<1>8. QED
  BY <1>2, <1>3, <1>4, <1>5, <1>6, <1>7, MidsStep

LEMMA ApartInvariant == Spec => []ApartInv
<1>1. Init => ApartInv
  BY DEF Init, ApartInv, Apart, Functional, Mids, InHand, Checking, NoWork
<1>2. TypeOK /\ ApartInv /\ [Next]_vars => ApartInv'
  <2> SUFFICES ASSUME TypeOK, ApartInv, [Next]_vars PROVE ApartInv'
    OBVIOUS
  <2> USE DEF Apart, Functional, Mids, InHand, Checking
  <2>1. CASE World \/ UNCHANGED vars
    BY <2>1 DEF World, vars, ApartInv
  <2>2. ASSUME NEW w \in Workers, Acts(w) PROVE ApartInv'
    <3>1. Apart(w)'
      BY <2>2, ApartStep DEF ApartInv
    <3>2. \A v \in Workers \ {w} : Apart(v)'
      BY <2>2, ActsFrame DEF Frame, ApartInv
    <3>3. QED
      BY <3>1, <3>2 DEF ApartInv
  <2>3. QED
    BY <2>1, <2>2, NextCases
<1>3. QED
  BY <1>1, <1>2, TypeCorrect, PTL DEF Spec

\* the table's dates and counters are written by the check of a target alone
LEMMA DatesStep ==
    ASSUME TypeOK, HereTyped, NEW w \in Workers, Acts(w), NEW t \in Targets
    PROVE  \/ target'[t] = target[t]
           \/ /\ UpdateTargetAfterCheck(w) /\ t = work[w].here.target.id
              /\ target'[t].next = NextCheckAt(work[w].here)
              /\ target'[t].failures = Failures(work[w].here)
<1>1. CASE UpdateTargetAfterCheck(w)
  BY <1>1, UpdateWrites
<1>2. CASE UNCHANGED target
  BY <1>2
<1>3. (\/ TryAcquireRunLock(w) \/ Starts(w) \/ RecoverStaleRuns(w) \/ ListDueTargets(w)
       \/ CreateRun(w)) => UNCHANGED target
  BY DEF Starts, TryAcquireRunLock, ManualOrg, ManualTarget, RecoverStaleRuns, ListDueTargets,
         CreateRun, table
<1>4. (\/ CheckTarget(w) \/ FindIdenticalPending(w) \/ CreatePendingObservation(w)
       \/ RecordResult(w)) => UNCHANGED target
  BY DEF CheckTarget, FindIdenticalPending, CreatePendingObservation, RecordResult, table
<1>5. (\/ FinishRun(w) \/ FinishFailedRun(w) \/ ReleaseRunLock(w) \/ CallFails(w) \/ Die(w))
        => UNCHANGED target
  BY DEF FinishRun, FinishFailedRun, ReleaseRunLock, CallFails, Die, table
<1>6. QED
  BY <1>1, <1>2, <1>3, <1>4, <1>5 DEF Acts, Starts

\* the row that a check writes is of none of the targets still to be checked
LEMMA UpdateSpares ==
    ASSUME TypeOK, NEW w \in Workers, UpdateTargetAfterCheck(w), Apart(w)
    PROVE  \A s \in Mids(w)' : s \in Mids(w) /\ s.id # work[w].here.target.id
<1> DEFINE h == work[w].here.target
<1>1. Checking(w) /\ h \in InHand(w) /\ h \notin work[w].queue
  BY UpdateDoes DEF Checking, InHand, Apart
<1>2. Mids(w)' \subseteq work[w].plan \cup work[w].queue
  BY UpdateDoes DEF Mids, InHand, Checking, SameRun, AfterTarget
<1>3. work[w].plan \cup work[w].queue \subseteq Mids(w)
  BY <1>1 DEF Mids, InHand, Checking
<1>4. h \in Mids(w) /\ h \notin work[w].plan
  BY <1>1 DEF Mids, Apart
<1>5. QED
  BY <1>1, <1>2, <1>3, <1>4 DEF Apart, Functional

\* the moment of the listing is kept until the run is over
LEMMA ListedStep ==
    ASSUME TypeOK, NEW w \in Workers, Acts(w)
    PROVE  \/ Starts(w) \/ ListDueTargets(w) \/ TryAcquireRunLock(w)
           \/ Unwind(w) \/ pc'[w] = "idle"
           \/ work'[w].listed = work[w].listed
<1>1. CreateRun(w) => Unwind(w) \/ pc'[w] = "idle" \/ work'[w].listed = work[w].listed
  BY DuplicateDoes, CreatedDoes DEF CreateRun, Skipped, Began
<1>2. (\/ CheckTarget(w) \/ FindIdenticalPending(w) \/ CreatePendingObservation(w)
       \/ RecordResult(w) \/ UpdateTargetAfterCheck(w)) => work'[w].listed = work[w].listed
  BY CheckDoes, FindDoes, InsertDoes, RecordDoes, UpdateDoes DEF Checked, SameRun
<1>3. (\/ FinishRun(w) \/ FinishFailedRun(w) \/ ReleaseRunLock(w) \/ CallFails(w) \/ Die(w)
       \/ RecoverStaleRuns(w))
        => Unwind(w) \/ pc'[w] = "idle" \/ work'[w].listed = work[w].listed
  BY FinishDoes, ReleaseDoes, DieDoes, CallFailsDoes, RecoverDoes DEF FinishFailedRun, SameRun
<1>4. QED
  BY <1>1, <1>2, <1>3 DEF Acts, Starts

\* a row that was listed at moment m is still as it was listed
AsListed(s, m) == target[s.id].next <= m /\ target[s.id].failures = s.failures

\* what a scheduled run still has to check is due, and as it was listed
ScheduledDue ==
    \A w \in Workers : pc[w] # "idle" /\ Scheduled(w) =>
        \A s \in Mids(w) : AsListed(s, work[w].listed)

LEMMA MidsTyped ==
    ASSUME TypeOK, HereTyped, NEW w \in Workers, NEW s \in Mids(w)
    PROVE  s \in Snapshots /\ s.id \in Targets
BY DEF TypeOK, HereTyped, Mids, InHand, Works, Snapshots

LEMMA OthersIdle ==
    ASSUME TypeOK, NEW w \in Workers, Acts(w), OneInv, OneInv', NEW v \in Workers \ {w}
    PROVE  pc'[v] = "idle"
BY ActsFrame, TriggerStep DEF OneInv, Frame

LEMMA ScheduledDueStep ==
    ASSUME TypeOK, HereTyped, ApartInv, OneInv, OneInv', ScheduledDue, Next
    PROVE  ScheduledDue'
<1>1. CASE World
  <2>1. \A w \in Workers : /\ Mids(w)' = Mids(w) /\ (Scheduled(w)' <=> Scheduled(w))
                          /\ work'[w].listed = work[w].listed /\ pc'[w] = pc[w]
    BY <1>1 DEF World, Mids, InHand, Checking, Scheduled
  <2>2. \A t \in Targets : target'[t].next = target[t].next /\ target'[t].failures = target[t].failures
    BY <1>1 DEF World
  <2>3. QED
    BY <2>1, <2>2, MidsTyped DEF ScheduledDue, AsListed
<1>2. ASSUME NEW w \in Workers, Acts(w) PROVE ScheduledDue'
  <2> SUFFICES ASSUME pc'[w] # "idle", Scheduled(w)', NEW s \in Mids(w)'
               PROVE  target'[s.id].next <= work'[w].listed /\ target'[s.id].failures = s.failures
    BY <1>2, OthersIdle DEF ScheduledDue, AsListed
  <2>1. CASE ListDueTargets(w)
    <3>1. s \in work'[w].plan
      BY <2>1, ListDoes DEF Mids, InHand, Checking, AfterOrg
    <3>2. target' = target
      BY <2>1 DEF ListDueTargets, table
    <3>3. target[s.id].next <= work'[w].listed /\ Current(work'[w].plan)
      BY <2>1, <3>1, ListDoes
    <3>4. s = Snapshot(s.id)
      BY <3>1, <3>3 DEF Current
    <3>5. s.failures = target[s.id].failures
      BY <3>4 DEF Snapshot
    <3>6. QED
      BY <3>2, <3>3, <3>5
  <2>2. CASE TryAcquireRunLock(w) \/ Unwind(w)
    BY <2>2, AcquireDoes, UnwindDoes DEF Mids, InHand, Checking
  <2>3. CASE work'[w].listed = work[w].listed /\ ~Starts(w) /\ ~ListDueTargets(w) /\ ~TryAcquireRunLock(w)
    <3>1. pc[w] # "idle" /\ Scheduled(w)
      BY <1>2, <2>3, TriggerStep
    <3>2. s \in Mids(w)
      BY <1>2, <2>3, ApartStep DEF ApartInv
    <3>3. target[s.id].next <= work[w].listed /\ target[s.id].failures = s.failures
      BY <3>1, <3>2 DEF ScheduledDue, AsListed
    <3>4. s.id \in Targets
      BY <3>2, MidsTyped
    <3>5. target'[s.id] = target[s.id]
      BY <1>2, <3>4, DatesStep, UpdateSpares DEF ApartInv
    <3>6. QED
      BY <2>3, <3>3, <3>5
  <2>4. ~Starts(w)
    BY <1>2, ManualOrgDoes, ManualTargetDoes DEF Starts, ManualEffect
  <2>5. QED
    BY <1>2, <2>1, <2>2, <2>3, <2>4, ListedStep
<1>3. QED
  BY <1>1, <1>2, NextCases

LEMMA OneInvariant == ASSUME OneRunAtATime PROVE Spec => []OneInv
<1>1. LockInv => OneInv
  BY OneIsAlone
<1>2. QED
  BY <1>1, LockInvariant, PTL

\* Where the lock separates all runs, the rows a scheduled run has in hand are as it
\* listed them: repeated invocations, midnight, errors and kills included, no other
\* run has rescheduled one or moved its counter since. A run that dies leaves its
\* rows due, and the next one lists them again.
THEOREM DueTargetsOnly == ASSUME OneRunAtATime PROVE Spec => []DueWhenChecked
<1>1. Init => ScheduledDue
  BY DEF Init, ScheduledDue
<1>2. TypeOK /\ HereTyped /\ ApartInv /\ OneInv /\ OneInv' /\ ScheduledDue /\ [Next]_vars
        => ScheduledDue'
  <2> SUFFICES ASSUME TypeOK, HereTyped, ApartInv, OneInv, OneInv', ScheduledDue, [Next]_vars
               PROVE  ScheduledDue'
    OBVIOUS
  <2>1. CASE UNCHANGED vars
    BY <2>1 DEF vars, table, ScheduledDue, AsListed, Mids, InHand, Checking, Scheduled
  <2>2. CASE Next
    BY <2>2, ScheduledDueStep
  <2>3. QED
    BY <2>1, <2>2
<1>3. ScheduledDue => DueWhenChecked
  BY DEF ScheduledDue, AsListed, DueWhenChecked, Mids, InHand, Checking
<1>4. QED
  BY <1>1, <1>2, <1>3, Typed, ApartInvariant, OneInvariant, PTL DEF Spec

-----------------------------------------------------------------------------
(* No duplicate observation *)

\* at the insertion the look for an identical observation is still right
PendingInv ==
    /\ NoDuplicatePending
    /\ \A w \in Workers : pc[w] = "insert" =>
          pending[work[w].here.target.id][work[w].here.price] = 0

LEMMA PendingStep ==
    ASSUME TypeOK, HereTyped, OneInv, OneInv', PendingInv, Next
    PROVE  PendingInv'
<1>1. \A t \in Targets, p \in Prices : pending[t][p] \in Nat
  BY DEF TypeOK
<1>2. \A w \in Workers : pc[w] \in {"find", "insert"} =>
          work[w].here.target.id \in Targets /\ work[w].here.price \in Prices
  BY HereHas DEF HereTyped, Checking
<1>3. CASE World
  <2>1. \A t \in Targets, p \in Prices :
            pending'[t][p] \in Nat /\ pending'[t][p] <= pending[t][p]
    BY <1>3 DEF World
  <2>2. NoDuplicatePending'
    BY <1>1, <2>1 DEF NoDuplicatePending, PendingInv
  <2>3. ASSUME NEW w \in Workers, pc'[w] = "insert"
        PROVE  pending'[work'[w].here.target.id][work'[w].here.price] = 0
    <3>1. pc[w] = "insert" /\ work'[w] = work[w]
      BY <1>3, <2>3 DEF World
    <3>2. pending[work[w].here.target.id][work[w].here.price] = 0
      BY <3>1 DEF PendingInv
    <3>3. QED
      BY <1>1, <1>2, <2>1, <3>1, <3>2
  <2>4. QED
    BY <2>2, <2>3 DEF PendingInv
<1>4. ASSUME NEW w \in Workers, Acts(w) PROVE PendingInv'
  <2>1. \A v \in Workers \ {w} : pc'[v] # "insert"
    BY <1>4, OthersIdle
  <2>2. NoDuplicatePending'
    <3>1. CASE CreatePendingObservation(w)
      <4> DEFINE t == work[w].here.target.id
                 p == work[w].here.price
      <4>1. pc[w] = "insert"
        BY <3>1, InsertDoes
      <4>2. t \in Targets /\ p \in Prices /\ pending[t][p] = 0
        BY <1>2, <4>1 DEF PendingInv
      <4>3. pending' = [pending EXCEPT ![t][p] = @ + 1]
        BY <3>1 DEF CreatePendingObservation
      <4> HIDE DEF t, p
      <4>4. \A u \in Targets, q \in Prices :
                pending'[u][q] = IF u = t /\ q = p THEN 1 ELSE pending[u][q]
        BY <4>2, <4>3 DEF TypeOK
      <4>5. QED
        BY <4>4 DEF NoDuplicatePending, PendingInv
    <3>2. CASE UNCHANGED pending
      BY <3>2 DEF NoDuplicatePending, PendingInv
    <3>3. (\/ TryAcquireRunLock(w) \/ Starts(w) \/ RecoverStaleRuns(w) \/ ListDueTargets(w)
           \/ CreateRun(w)) => UNCHANGED pending
      BY DEF Starts, TryAcquireRunLock, ManualOrg, ManualTarget, RecoverStaleRuns, ListDueTargets,
             CreateRun, table
    <3>4. (\/ CheckTarget(w) \/ FindIdenticalPending(w) \/ UpdateTargetAfterCheck(w)
           \/ RecordResult(w)) => UNCHANGED pending
      BY DEF CheckTarget, FindIdenticalPending, UpdateTargetAfterCheck, RecordResult, table
    <3>5. (\/ FinishRun(w) \/ FinishFailedRun(w) \/ ReleaseRunLock(w) \/ CallFails(w) \/ Die(w))
            => UNCHANGED pending
      BY DEF FinishRun, FinishFailedRun, ReleaseRunLock, CallFails, Die, table
    <3>6. QED
      BY <1>4, <3>1, <3>2, <3>3, <3>4, <3>5 DEF Acts, Starts
  <2>3. ASSUME pc'[w] = "insert"
        PROVE  pending'[work'[w].here.target.id][work'[w].here.price] = 0
    <3>1. FindIdenticalPending(w)
      <4>1. ~CreateRun(w) /\ ~Unwind(w)
        BY <2>3, DuplicateDoes, CreatedDoes, UnwindDoes
           DEF CreateRun, Skipped, Began, AfterOrg, AfterTarget
      <4>2. ~(\/ TryAcquireRunLock(w) \/ Starts(w) \/ RecoverStaleRuns(w) \/ ListDueTargets(w))
        BY <2>3, AcquireDoes, ManualOrgDoes, ManualTargetDoes, RecoverDoes, ListDoes
           DEF Starts, ManualEffect, AfterOrg
      <4>3. ~(\/ CheckTarget(w) \/ CreatePendingObservation(w) \/ UpdateTargetAfterCheck(w)
              \/ RecordResult(w))
        BY <2>3, CheckDoes, InsertDoes, UpdateDoes, RecordDoes DEF Checked, AfterTarget
      <4>4. ~(\/ FinishRun(w) \/ FinishFailedRun(w) \/ ReleaseRunLock(w) \/ CallFails(w) \/ Die(w))
        BY <2>3, <4>1, FinishDoes, ReleaseDoes, CallFailsDoes, DieDoes DEF FinishFailedRun, AfterOrg
      <4>5. QED
        BY <1>4, <4>1, <4>2, <4>3, <4>4 DEF Acts, Starts
    <3>2. /\ ~IdenticalPending(work[w].here) /\ work'[w] = work[w] /\ pc[w] = "find"
          /\ pending' = pending
      BY <2>3, <3>1, FindDoes DEF FindIdenticalPending, table
    <3>3. QED
      BY <1>1, <1>2, <3>2 DEF IdenticalPending
  <2>4. QED
    BY <2>1, <2>2, <2>3 DEF PendingInv
<1>5. QED
  BY <1>3, <1>4, NextCases

\* Contract: a price that is pending is not proposed twice for one source. The
\* look and the insertion are two transactions: the lock makes them one for the
\* scheduled runs, whatever is reviewed, lost or killed in between.
\* (docs/PRICE_MONITORING_AGENT_V1_CONTRACT.md, 5.4)
THEOREM NoDuplicates == ASSUME OneRunAtATime PROVE Spec => []NoDuplicatePending
<1>1. Init => PendingInv
  BY DEF Init, PendingInv, NoDuplicatePending
<1>2. TypeOK /\ HereTyped /\ OneInv /\ OneInv' /\ PendingInv /\ [Next]_vars => PendingInv'
  <2> SUFFICES ASSUME TypeOK, HereTyped, OneInv, OneInv', PendingInv, [Next]_vars
               PROVE  PendingInv'
    OBVIOUS
  <2>1. CASE UNCHANGED vars
    BY <2>1 DEF vars, table, PendingInv, NoDuplicatePending
  <2>2. CASE Next
    BY <2>2, PendingStep
  <2>3. QED
    BY <2>1, <2>2
<1>3. PendingInv => NoDuplicatePending
  BY DEF PendingInv
<1>4. QED
  BY <1>1, <1>2, <1>3, Typed, OneInvariant, PTL DEF Spec

-----------------------------------------------------------------------------
(* The failure counters *)

NoErrors == Ops \cap {"die", "error"} = {}

\* A run holds the counters of the table for the targets it still has; between
\* the result of a target and its update the table is one result behind.
CountInv ==
    /\ \A w \in Workers : pc[w] # "idle" =>
          \A s \in Mids(w) : s.failures = target[s.id].failures
    /\ \A w \in Workers : pc[w] = "update" =>
          streak[work[w].here.target.id] = Failures(work[w].here)
    /\ \A t \in Targets : (\A w \in Workers : pc[w] = "update" => work[w].here.target.id # t)
          => target[t].failures = streak[t]

LEMMA StreakStep ==
    ASSUME TypeOK, HereTyped, NEW w \in Workers, Acts(w)
    PROVE  UNCHANGED streak \/ RecordResult(w)
<1>1. (\/ TryAcquireRunLock(w) \/ Starts(w) \/ RecoverStaleRuns(w) \/ ListDueTargets(w)
       \/ CreateRun(w)) => UNCHANGED streak
  BY DEF Starts, TryAcquireRunLock, ManualOrg, ManualTarget, RecoverStaleRuns, ListDueTargets,
         CreateRun, table
<1>2. (\/ CheckTarget(w) \/ FindIdenticalPending(w) \/ UpdateTargetAfterCheck(w)
       \/ CreatePendingObservation(w)) => UNCHANGED streak
  BY DEF CheckTarget, FindIdenticalPending, UpdateTargetAfterCheck, CreatePendingObservation, table
<1>3. (\/ FinishRun(w) \/ FinishFailedRun(w) \/ ReleaseRunLock(w) \/ CallFails(w) \/ Die(w))
        => UNCHANGED streak
  BY DEF FinishRun, FinishFailedRun, ReleaseRunLock, CallFails, Die, table
<1>4. QED
  BY <1>1, <1>2, <1>3 DEF Acts, Starts

LEMMA ToUpdate ==
    ASSUME TypeOK, NEW w \in Workers, Acts(w), NoErrors
    PROVE  /\ pc'[w] = "update" => RecordResult(w)
           /\ pc[w] = "update" => UpdateTargetAfterCheck(w)
<1>1. ~CallFails(w) /\ ~Die(w)
  BY CallFailsDoes, DieDoes DEF NoErrors
<1>2. CreateRun(w) => pc'[w] # "update" /\ pc[w] # "update"
  BY DuplicateDoes, CreatedDoes, UnwindDoes
     DEF CreateRun, Skipped, Began, AfterOrg, AfterTarget, Calling
<1>3. (\/ TryAcquireRunLock(w) \/ Starts(w) \/ RecoverStaleRuns(w) \/ ListDueTargets(w))
        => pc'[w] # "update" /\ pc[w] # "update"
  BY AcquireDoes, ManualOrgDoes, ManualTargetDoes, RecoverDoes, ListDoes
     DEF Starts, ManualEffect, AfterOrg
<1>4. (\/ CheckTarget(w) \/ FindIdenticalPending(w) \/ CreatePendingObservation(w))
        => pc'[w] # "update" /\ pc[w] # "update"
  BY CheckDoes, FindDoes, InsertDoes DEF Checked
<1>5. (\/ FinishRun(w) \/ FinishFailedRun(w) \/ ReleaseRunLock(w))
        => pc'[w] # "update" /\ pc[w] # "update"
  BY FinishDoes, ReleaseDoes, UnwindDoes DEF FinishFailedRun, AfterOrg, Calling
<1>6. UpdateTargetAfterCheck(w) => pc'[w] # "update"
  BY UpdateDoes DEF AfterTarget
<1>7. RecordResult(w) => pc[w] # "update"
  BY RecordDoes
<1>8. QED
  BY <1>1, <1>2, <1>3, <1>4, <1>5, <1>6, <1>7 DEF Acts, Starts

LEMMA CountStep ==
    ASSUME TypeOK, HereTyped, ApartInv, OneInv, OneInv', CountInv, NoErrors, Next
    PROVE  CountInv'
<1>1. CASE World
  <2>1. \A w \in Workers : Mids(w)' = Mids(w) /\ pc'[w] = pc[w] /\ work'[w] = work[w]
    BY <1>1 DEF World, Mids, InHand, Checking
  <2>2. \A t \in Targets : target'[t].failures = target[t].failures /\ streak'[t] = streak[t]
    BY <1>1 DEF World
  <2>3. \A w \in Workers : pc[w] = "update" => work[w].here.target.id \in Targets
    BY HereHas DEF Checking
  <2>4. QED
    BY <2>1, <2>2, <2>3, MidsTyped DEF CountInv, Failures
<1>2. ASSUME NEW w \in Workers, Acts(w) PROVE CountInv'
  <2>1. \A v \in Workers \ {w} : pc'[v] = "idle" /\ pc[v] = "idle"
    BY <1>2, OthersIdle, ActsFrame DEF Frame
  <2>2. ASSUME pc'[w] # "idle", NEW s \in Mids(w)'
        PROVE  s.failures = target'[s.id].failures
    <3>1. CASE (Starts(w) \/ ListDueTargets(w)) /\ Current(work'[w].plan) /\ s \in work'[w].plan
      <4>1. s = Snapshot(s.id)
        BY <3>1 DEF Current
      <4>2. s.failures = target[s.id].failures
        BY <4>1 DEF Snapshot
      <4>3. target' = target
        BY <3>1 DEF Starts, ManualOrg, ManualTarget, ListDueTargets, table
      <4>4. QED
        BY <4>2, <4>3
    <3>2. CASE TryAcquireRunLock(w)
      BY <2>2, <3>2, AcquireDoes DEF Mids, InHand, Checking
    <3>3. CASE s \in Mids(w) /\ pc[w] # "idle"
      <4>1. s.failures = target[s.id].failures /\ s.id \in Targets
        BY <3>3, MidsTyped DEF CountInv
      <4>2. target'[s.id] = target[s.id]
        BY <1>2, <2>2, <4>1, DatesStep, UpdateSpares DEF ApartInv
      <4>3. QED
        BY <4>1, <4>2
    <3>4. CASE Starts(w)
      <4>1. Current(work'[w].plan) /\ s \in work'[w].plan
        BY <2>2, <3>4, ManualOrgDoes, ManualTargetDoes
           DEF Starts, ManualEffect, Mids, InHand, Checking
      <4>2. QED
        BY <3>1, <3>4, <4>1
    <3>5. CASE ~Starts(w) /\ ~TryAcquireRunLock(w)
      <4>1. pc[w] # "idle"
        BY <1>2, <2>2, <3>5, TriggerStep
      <4>2. CASE s \in Mids(w)
        BY <3>3, <4>1, <4>2
      <4>3. CASE ListDueTargets(w) /\ Current(work'[w].plan) /\ Mids(w)' = work'[w].plan
        BY <2>2, <3>1, <4>3
      <4>4. QED
        BY <1>2, <2>2, <3>5, <4>2, <4>3, ApartStep DEF ApartInv
    <3>6. QED
      BY <3>2, <3>4, <3>5
  <2>3. CASE RecordResult(w)
    <3> DEFINE t == work[w].here.target.id
    <3>1. /\ pc[w] = "record" /\ SameTarget(w) /\ work'[w].here.good = work[w].here.good
          /\ pc'[w] = "update" /\ target' = target
      BY <2>3, RecordDoes DEF NoErrors, RecordResult, table
    <3>2. work[w].here.target \in Mids(w) /\ t \in Targets
      BY <3>1, HereHas DEF Mids, InHand, Checking
    <3>3. \A u \in Targets : target[u].failures = streak[u]
      BY <2>1, <3>1 DEF CountInv
    <3>4. work[w].here.target.failures = streak[t]
      BY <3>1, <3>2, <3>3 DEF CountInv
    <3>5. streak' = [streak EXCEPT ![t] = IF work[w].here.good THEN 0 ELSE @ + 1]
      BY <2>3 DEF RecordResult
    <3>6. /\ streak'[t] = Failures(work[w].here)
          /\ \A u \in Targets \ {t} : streak'[u] = streak[u]
      BY <3>2, <3>4, <3>5 DEF Failures, TypeOK
    <3>7. Failures(work'[w].here) = Failures(work[w].here) /\ work'[w].here.target.id = t
      BY <3>1 DEF Failures, SameTarget
    <3>8. \A v \in Workers : pc'[v] = "update" =>
              streak'[work'[v].here.target.id] = Failures(work'[v].here)
      BY <2>1, <3>6, <3>7
    <3>9. \A u \in Targets : (\A v \in Workers : pc'[v] = "update" => work'[v].here.target.id # u)
              => target'[u].failures = streak'[u]
      BY <3>1, <3>3, <3>6, <3>7
    <3> HIDE DEF t
    <3>10. \A v \in Workers : pc'[v] # "idle" =>
               \A s \in Mids(v)' : s.failures = target'[s.id].failures
      BY <2>1, <2>2
    <3>11. QED
      BY <3>8, <3>9, <3>10 DEF CountInv
  <2>4. CASE ~RecordResult(w)
    <3>1. UNCHANGED streak /\ pc'[w] # "update"
      BY <1>2, <2>4, StreakStep, ToUpdate
    <3>2. \A u \in Targets : target'[u].failures = streak[u]
      <4> TAKE u \in Targets
      <4>1. CASE UpdateTargetAfterCheck(w) /\ u = work[w].here.target.id
        <5>1. pc[w] = "update" /\ target'[u].failures = Failures(work[w].here)
          BY <4>1, UpdateDoes, UpdateWrites
        <5>2. QED
          BY <4>1, <5>1 DEF CountInv
      <4>2. CASE ~(UpdateTargetAfterCheck(w) /\ u = work[w].here.target.id)
        <5>1. target'[u] = target[u]
          BY <1>2, <4>2, DatesStep
        <5>2. \A v \in Workers : pc[v] = "update" => work[v].here.target.id # u
          BY <1>2, <2>1, <4>2, ToUpdate
        <5>3. QED
          BY <5>1, <5>2 DEF CountInv
      <4>3. QED
        BY <4>1, <4>2
    <3>3. \A v \in Workers : pc'[v] # "update"
      BY <2>1, <3>1
    <3>4. \A v \in Workers : pc'[v] # "idle" =>
              \A s \in Mids(v)' : s.failures = target'[s.id].failures
      BY <2>1, <2>2
    <3>5. QED
      BY <3>1, <3>2, <3>3, <3>4 DEF CountInv
  <2>5. QED
    BY <2>3, <2>4
<1>3. QED
  BY <1>1, <1>2, NextCases

\* Contract: a failed check adds one to the counter of its target and only a good
\* one sets it to 0. The code writes what it had listed: run by run, without
\* errors and kills, that is the number of failed results since the last good one.
\* (docs/PRICE_MONITORING_AGENT_V1_CONTRACT.md, 5.5)
THEOREM FailuresAreCounted ==
    ASSUME OneRunAtATime, NoErrors PROVE Spec => []FailuresCounted
<1>1. Init => CountInv
  <2>1. Init => \A t \in Targets : target[t].failures = 0 /\ streak[t] = 0
    BY DEF Init
  <2>2. QED
    BY <2>1 DEF Init, CountInv
<1>2. TypeOK /\ HereTyped /\ ApartInv /\ OneInv /\ OneInv' /\ CountInv /\ [Next]_vars => CountInv'
  <2> SUFFICES ASSUME TypeOK, HereTyped, ApartInv, OneInv, OneInv', CountInv, [Next]_vars
               PROVE  CountInv'
    OBVIOUS
  <2>1. CASE UNCHANGED vars
    BY <2>1 DEF vars, table, CountInv, Mids, InHand, Checking, Failures
  <2>2. CASE Next
    BY <2>2, CountStep
  <2>3. QED
    BY <2>1, <2>2
<1>3. CountInv => FailuresCounted
  BY DEF CountInv, FailuresCounted
<1>4. QED
  BY <1>1, <1>2, <1>3, Typed, ApartInvariant, OneInvariant, PTL DEF Spec

-----------------------------------------------------------------------------
(* Every listed target is checked *)

Has(ss, t) == \E s \in ss : s.id = t

\* what was listed is rescheduled or still to come
DueInv ==
    \A w \in Workers :
        /\ work[w].listed <= now
        /\ Checking(w) => /\ work[w].born <= work[w].here.at
                          /\ work[w].listed <= work[w].here.at
        /\ pc[w] # "abort" => \A t \in work[w].due : target[t].next > work[w].listed \/ Has(Mids(w), t)
        /\ pc[w] = "release" => work[w].plan = {}

\* the targets listed leave the run by a duplicate key or by their update
LEMMA DueStep ==
    ASSUME TypeOK, NEW w \in Workers, Acts(w), pc'[w] # "abort"
    PROVE  \/ work'[w].due = {} /\ (pc'[w] = "release" => work'[w].plan = {})
           \/ /\ ListDueTargets(w)
              /\ \A t \in work'[w].due : Has(Mids(w)', t)
           \/ /\ pc[w] # "abort" /\ work'[w].listed = work[w].listed
              /\ pc'[w] = "release" => work'[w].plan = {}
              /\ \A t \in work'[w].due :
                    /\ t \in work[w].due
                    /\ \/ Has(Mids(w), t) => Has(Mids(w)', t)
                       \/ UpdateTargetAfterCheck(w) /\ t = work[w].here.target.id
<1> USE DEF Mids, InHand, Checking, Has
<1>1. CASE Starts(w) \/ TryAcquireRunLock(w)
  BY <1>1, ManualOrgDoes, ManualTargetDoes, AcquireDoes DEF Starts, ManualEffect
<1>2. CASE ListDueTargets(w)
  BY <1>2, ListDoes DEF AfterOrg
<1>3. ASSUME Unwind(w) \/ (work'[w] = NoWork /\ pc'[w] = "idle")
      PROVE  work'[w].due = {} /\ (pc'[w] = "release" => work'[w].plan = {})
  <2>1. NoWork.due = {}
    BY DEF NoWork
  <2>2. QED
    BY <1>3, <2>1, UnwindDoes
<1>4. CASE CreateRun(w)
  <2>1. PICK org \in IF Scheduled(w) THEN {OrgOf[s.id] : s \in work[w].plan} ELSE {work[w].key.org} :
            DuplicateWindow(w, org) \/ RunCreated(w, org)
    BY <1>4 DEF CreateRun
  <2>2. Calling(w, "create") /\ pc[w] = "create"
    BY <1>4 DEF CreateRun, Calling
  <2>3. CASE Skipped(w, org)
    <3>1. Mids(w) = work[w].plan /\ Mids(w)' = work[w].plan \ Mine(w, org)
      BY <2>2, <2>3 DEF Skipped, AfterOrg
    <3>2. \A t \in work'[w].due : t \in work[w].due /\ (Has(Mids(w), t) => Has(Mids(w)', t))
      BY <2>3, <3>1 DEF Skipped
    <3>3. QED
      BY <2>2, <2>3, <3>2 DEF Skipped, AfterOrg
  <2>4. CASE Began(w, org)
    <3>1. Mine(w, org) \in SUBSET work[w].plan
      BY DEF Mine
    <3>2. Mids(w) = work[w].plan /\ Mids(w)' = work[w].plan
      BY <2>2, <2>4, <3>1 DEF Began, AfterTarget
    <3>3. QED
      BY <2>2, <2>4, <3>2 DEF Began, AfterTarget
  <2>5. QED
    BY <1>3, <2>1, <2>2, <2>3, <2>4, DuplicateDoes, CreatedDoes
<1>5. CASE CheckTarget(w)
  <2>1. PICK s \in work[w].queue, p \in Prices \cup {NoOne} : Checked(w, s, p)
    BY <1>5, CheckDoes
  <2>2. Mids(w)' = Mids(w)
    BY <2>1 DEF Checked, SameRun
  <2>3. QED
    BY <2>1, <2>2 DEF Checked, SameRun
<1>6. CASE FindIdenticalPending(w) \/ CreatePendingObservation(w) \/ RecordResult(w)
  <2>1. /\ Mids(w)' = Mids(w) /\ SameRun(w) /\ pc'[w] # "release" /\ pc[w] # "abort"
    BY <1>6, FindDoes, InsertDoes, RecordDoes DEF SameRun, SameTarget
  <2>2. QED
    BY <2>1 DEF SameRun
<1>7. CASE UpdateTargetAfterCheck(w)
  <2>1. /\ SameRun(w) /\ work'[w].queue = work[w].queue /\ pc[w] = "update"
        /\ pc'[w] = AfterTarget(work[w].queue)
    BY <1>7, UpdateDoes
  <2>2. /\ Mids(w) = work[w].plan \cup work[w].queue \cup {work[w].here.target}
        /\ Mids(w)' = work[w].plan \cup work[w].queue
    BY <2>1 DEF SameRun, AfterTarget
  <2>3. QED
    BY <1>7, <2>1, <2>2 DEF SameRun, AfterTarget
<1>8. CASE FinishRun(w)
  <2>1. CASE SameRun(w) /\ pc'[w] = AfterOrg(work[w].plan) /\ pc[w] = "finish"
    <3>1. Mids(w)' = Mids(w)
      BY <2>1 DEF SameRun, AfterOrg
    <3>2. QED
      BY <2>1, <3>1 DEF SameRun, AfterOrg
  <2>2. QED
    BY <1>3, <1>8, <2>1, FinishDoes
<1>9. CASE CallFails(w)
  <2>1. CASE /\ pc[w] \in {"find", "insert"} /\ pc'[w] = "record"
             /\ Frame(w) /\ SameRun(w) /\ SameTarget(w)
    <3>1. Mids(w)' = Mids(w)
      BY <2>1 DEF SameRun, SameTarget
    <3>2. QED
      BY <2>1, <3>1 DEF SameRun
  <2>2. QED
    BY <1>3, <1>9, <2>1, CallFailsDoes
<1>10. CASE FinishFailedRun(w) \/ ReleaseRunLock(w) \/ Die(w)
  BY <1>3, <1>10, ReleaseDoes, DieDoes DEF FinishFailedRun
<1>11. CASE RecoverStaleRuns(w)
  BY <1>11, RecoverDoes DEF SameRun
<1>12. QED
  BY <1>1, <1>2, <1>4, <1>5, <1>6, <1>7, <1>8, <1>9, <1>10, <1>11 DEF Acts, Starts

\* a run that is over leaves no local variables
LEMMA ToIdle ==
    ASSUME TypeOK, NEW w \in Workers, Acts(w), pc'[w] = "idle"
    PROVE  work'[w] = NoWork
<1>1. CreateRun(w) => work'[w] = NoWork
  BY DuplicateDoes, CreatedDoes, UnwindDoes
         DEF CreateRun, Skipped, Began, AfterOrg, AfterTarget
<1>2. ~(TryAcquireRunLock(w) \/ Starts(w) \/ RecoverStaleRuns(w) \/ ListDueTargets(w))
  BY AcquireDoes, ManualOrgDoes, ManualTargetDoes, RecoverDoes, ListDoes
     DEF Starts, ManualEffect, AfterOrg
<1>3. ~(\/ CheckTarget(w) \/ FindIdenticalPending(w) \/ CreatePendingObservation(w)
        \/ RecordResult(w) \/ UpdateTargetAfterCheck(w))
  BY CheckDoes, FindDoes, InsertDoes, RecordDoes, UpdateDoes DEF Checked, AfterTarget
<1>4. (\/ FinishRun(w) \/ FinishFailedRun(w) \/ ReleaseRunLock(w) \/ CallFails(w) \/ Die(w))
        => work'[w] = NoWork
  BY FinishDoes, UnwindDoes, ReleaseDoes, CallFailsDoes, DieDoes DEF FinishFailedRun, AfterOrg
<1>5. QED
  BY <1>1, <1>2, <1>3, <1>4 DEF Acts, Starts

LEMMA ListedZero ==
    ASSUME TypeOK, NEW w \in Workers, Acts(w),
           Starts(w) \/ TryAcquireRunLock(w) \/ Unwind(w) \/ pc'[w] = "idle"
    PROVE  work'[w].listed = 0
<1>1. NoWork.listed = 0
  BY DEF NoWork
<1>2. CASE Unwind(w)
  BY <1>1, <1>2, UnwindDoes
<1>3. CASE Starts(w) \/ TryAcquireRunLock(w)
  BY <1>3, AcquireDoes, ManualOrgDoes, ManualTargetDoes DEF Starts, ManualEffect
<1>4. CASE pc'[w] = "idle" /\ ~Unwind(w)
  BY <1>1, <1>4, ToIdle
<1>5. QED
  BY <1>2, <1>3, <1>4

\* the moment of a check is not before its invocation or its listing
LEMMA AtStep ==
    ASSUME TypeOK, NEW w \in Workers, Acts(w), LifeInv, DueInv, Checking(w)'
    PROVE  work'[w].born <= work'[w].here.at /\ work'[w].listed <= work'[w].here.at
<1>1. CASE CheckTarget(w)
  <2>1. PICK s \in work[w].queue, p \in Prices \cup {NoOne} : Checked(w, s, p)
    BY <1>1, CheckDoes
  <2>2. work[w].born <= now /\ work[w].listed <= now
    BY <2>1 DEF LifeInv, DueInv, Checked
  <2>3. QED
    BY <2>1, <2>2 DEF Checked, SameRun
<1>2. CASE Checking(w) /\ SameRun(w) /\ SameTarget(w)
  BY <1>2 DEF DueInv, SameRun, SameTarget
<1>3. (\/ FindIdenticalPending(w) \/ CreatePendingObservation(w) \/ RecordResult(w))
        => Checking(w) /\ SameRun(w) /\ SameTarget(w)
  BY FindDoes, InsertDoes, RecordDoes DEF Checking, SameTarget
<1>4. CallFails(w) => Checking(w) /\ SameRun(w) /\ SameTarget(w)
  BY CallFailsDoes, UnwindDoes DEF Checking
<1>5. ~CreateRun(w)
  BY DuplicateDoes, CreatedDoes, UnwindDoes
         DEF CreateRun, Skipped, Began, Checking, AfterOrg, AfterTarget
<1>6. ~(TryAcquireRunLock(w) \/ Starts(w) \/ RecoverStaleRuns(w) \/ ListDueTargets(w))
  BY AcquireDoes, ManualOrgDoes, ManualTargetDoes, RecoverDoes, ListDoes
     DEF Starts, ManualEffect, Checking, AfterOrg
<1>7. ~(\/ FinishRun(w) \/ FinishFailedRun(w) \/ ReleaseRunLock(w) \/ Die(w)
        \/ UpdateTargetAfterCheck(w))
  BY FinishDoes, UnwindDoes, ReleaseDoes, DieDoes, UpdateDoes
     DEF FinishFailedRun, Checking, AfterOrg, AfterTarget
<1>8. QED
  BY <1>1, <1>2, <1>3, <1>4, <1>5, <1>6, <1>7 DEF Acts, Starts

\* what is written as the next date lies beyond every listing there has been:
\* no run lives for a day
LEMMA UpdateIsLater ==
    ASSUME TypeOK, HereTyped, LifeInv, DueInv, NEW w \in Workers, UpdateTargetAfterCheck(w)
    PROVE  NextCheckAt(work[w].here) > now
<1> DEFINE a == work[w].here.at
           b == work[w].born
           n == NextCheckAt(work[w].here)
<1>1. Checking(w) /\ pc[w] # "idle"
  BY UpdateDoes DEF Checking
<1>2. n \in Nat /\ a \in Nat /\ n >= a + DayLength /\ DayLength \in Nat
  BY <1>1, HereHas
<1>3. b <= a /\ now <= b + MaxLife
  BY <1>1 DEF DueInv, LifeInv
<1>4. b \in Nat /\ now \in Nat /\ MaxLife \in Nat /\ MaxLife < DayLength
  BY MonitorAssumption DEF TypeOK, Works
<1> HIDE DEF a, b, n
<1>5. n > now
  BY <1>2, <1>3, <1>4
<1>6. QED
  BY <1>5 DEF n

LEMMA DatesGrow ==
    ASSUME TypeOK, HereTyped, LifeInv, DueInv, NEW w \in Workers, Acts(w), NEW t \in Targets,
           NEW l \in Nat, l <= now, target[t].next > l
    PROVE  target'[t].next > l
<1>1. CASE target'[t] = target[t]
  BY <1>1
<1>2. CASE UpdateTargetAfterCheck(w) /\ target'[t].next = NextCheckAt(work[w].here)
  <2>1. NextCheckAt(work[w].here) > now /\ NextCheckAt(work[w].here) \in Nat /\ now \in Nat
    BY <1>2, UpdateIsLater, UpdateDoes, HereHas, MonitorAssumption DEF Checking, TypeOK
  <2>2. QED
    BY <1>2, <2>1
<1>3. QED
  BY <1>1, <1>2, DatesStep

LEMMA DueInvStep ==
    ASSUME TypeOK, HereTyped, LifeInv, DueInv, Next
    PROVE  DueInv'
<1>1. /\ now \in Nat /\ now' \in Nat /\ now' >= now
      /\ \A w \in Workers : work[w].listed \in Nat /\ work[w].due \subseteq Targets
  <2>1. \A w \in Workers : Acts(w) => now' = now
    BY ActsNow
  <2>2. QED
    BY <2>1, NextCases, MonitorAssumption DEF TypeOK, Works, World, Tick
<1>2. CASE World
  <2>1. \A w \in Workers : /\ Mids(w)' = Mids(w) /\ pc'[w] = pc[w] /\ work'[w] = work[w]
                          /\ Checking(w)' = Checking(w)
    BY <1>2 DEF World, Mids, InHand, Checking
  <2>2. \A t \in Targets : target'[t].next = target[t].next
    BY <1>2 DEF World
  <2>3. QED
    BY <1>1, <2>1, <2>2 DEF DueInv, Has
<1>3. ASSUME NEW w \in Workers, Acts(w) PROVE DueInv'
  <2>1. now' = now /\ Frame(w)
    BY <1>3, ActsNow, ActsFrame
  <2>2. ASSUME NEW v \in Workers \ {w}
        PROVE  /\ work'[v].listed <= now'
               /\ Checking(v)' => /\ work'[v].born <= work'[v].here.at
                                  /\ work'[v].listed <= work'[v].here.at
               /\ pc'[v] # "abort" => \A t \in work'[v].due :
                                         target'[t].next > work'[v].listed \/ Has(Mids(v)', t)
               /\ pc'[v] = "release" => work'[v].plan = {}
    <3>1. work'[v] = work[v] /\ pc'[v] = pc[v] /\ Mids(v)' = Mids(v) /\ Checking(v)' = Checking(v)
      BY <2>1 DEF Frame, Mids, InHand, Checking
    <3>2. ASSUME pc[v] # "abort", NEW t \in work[v].due, ~Has(Mids(v), t)
          PROVE  target'[t].next > work[v].listed
      <4>1. target[t].next > work[v].listed /\ work[v].listed <= now
        BY <3>2 DEF DueInv
      <4>2. t \in Targets /\ work[v].listed \in Nat
        BY <1>1
      <4>3. QED
        BY <1>3, <4>1, <4>2, DatesGrow
    <3>3. QED
      BY <2>1, <3>1, <3>2 DEF DueInv, Has
  <2>3. work'[w].listed <= now'
    <3>1. work'[w].listed \in {0, now, work[w].listed}
      <4>1. CASE Starts(w) \/ TryAcquireRunLock(w) \/ Unwind(w) \/ pc'[w] = "idle"
        BY <1>3, <4>1, ListedZero
      <4>2. QED
        BY <1>3, <4>1, ListedStep, ListDoes
    <3>2. QED
      BY <1>1, <2>1, <3>1 DEF DueInv
  <2>4. Checking(w)' => work'[w].born <= work'[w].here.at /\ work'[w].listed <= work'[w].here.at
    BY <1>3, AtStep
  <2>5. ASSUME pc'[w] # "abort"
        PROVE  /\ \A t \in work'[w].due : target'[t].next > work'[w].listed \/ Has(Mids(w)', t)
               /\ pc'[w] = "release" => work'[w].plan = {}
    <3>1. CASE work'[w].due = {} /\ (pc'[w] = "release" => work'[w].plan = {})
      BY <3>1
    <3>2. CASE ListDueTargets(w) /\ \A t \in work'[w].due : Has(Mids(w)', t)
      BY <3>2, ListDoes DEF AfterOrg
    <3>3. CASE /\ pc[w] # "abort" /\ work'[w].listed = work[w].listed
               /\ pc'[w] = "release" => work'[w].plan = {}
               /\ \A t \in work'[w].due :
                     /\ t \in work[w].due
                     /\ \/ Has(Mids(w), t) => Has(Mids(w)', t)
                        \/ UpdateTargetAfterCheck(w) /\ t = work[w].here.target.id
      <4>1. ASSUME NEW t \in work'[w].due, ~Has(Mids(w)', t)
            PROVE  target'[t].next > work[w].listed
        <5>1. t \in work[w].due /\ t \in Targets /\ work[w].listed \in Nat /\ work[w].listed <= now
          BY <1>1, <3>3, <4>1 DEF DueInv
        <5>2. CASE ~Has(Mids(w), t)
          <6>1. target[t].next > work[w].listed
            BY <3>3, <5>1, <5>2 DEF DueInv
          <6>2. QED
            BY <1>3, <5>1, <6>1, DatesGrow
        <5>3. CASE UpdateTargetAfterCheck(w) /\ t = work[w].here.target.id
          <6>1. target'[t].next = NextCheckAt(work[w].here) /\ NextCheckAt(work[w].here) > now
            BY <5>3, UpdateWrites, UpdateIsLater
          <6>2. NextCheckAt(work[w].here) \in Nat
            BY <5>3, HereHas, UpdateDoes DEF Checking
          <6>3. QED
            BY <1>1, <5>1, <6>1, <6>2
        <5>4. QED
          BY <3>3, <4>1, <5>2, <5>3
      <4>2. QED
        BY <3>3, <4>1
    <3>4. QED
      BY <1>3, <2>5, <3>1, <3>2, <3>3, DueStep
  <2>6. QED
    BY <2>2, <2>3, <2>4, <2>5 DEF DueInv, Checking
<1>4. QED
  BY <1>2, <1>3, NextCases

\* A scheduled invocation that ends without an error leaves no target behind:
\* whatever a manual run, a change of cadence or a second invocation does, each
\* target it listed has a date later than its listing, but those of an
\* organisation whose run of the day existed.
THEOREM ListedChecked == Spec => []ListedAreChecked
<1>1. Init => DueInv
  BY MonitorAssumption DEF Init, DueInv, NoWork, Checking, Has
<1>2. TypeOK /\ HereTyped /\ LiveInv /\ DueInv /\ [Next]_vars => DueInv'
  <2> SUFFICES ASSUME TypeOK, HereTyped, LiveInv, DueInv, [Next]_vars
               PROVE  DueInv'
    OBVIOUS
  <2>1. CASE UNCHANGED vars
    BY <2>1 DEF vars, table, DueInv, Mids, InHand, Checking, Has
  <2>2. CASE Next
    BY <2>2, DueInvStep DEF LiveInv
  <2>3. QED
    BY <2>1, <2>2
<1>3. TypeOK /\ DueInv => ListedAreChecked
  BY DEF DueInv, ListedAreChecked, Mids, InHand, Checking, Has
<1>4. QED
  BY <1>1, <1>2, <1>3, Typed, LiveInvariant, PTL DEF Spec

=============================================================================
