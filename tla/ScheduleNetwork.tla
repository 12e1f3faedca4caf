---------------------------- MODULE ScheduleNetwork ----------------------------
(***************************************************************************)
(* The dependency network of a schedule (apps/web/modules/planning): tasks  *)
(* with a planned start, a duration in days and a milestone flag, and at    *)
(* most one typed dependency with a lag between two of them, which is what  *)
(* task_dependencies_pred_succ_uq admits.  Dates are day indices, counted   *)
(* from the start of the schedule, and durations and lags whole days.       *)
(*                                                                         *)
(* The operators take the rows and the dependencies as parameters: two      *)
(* calculations (ScheduleRecalc, CriticalPath) and the service that stores  *)
(* them (PlanningSchedule) use them.                                        *)
(***************************************************************************)
EXTENDS Integers, FiniteSets

CONSTANTS
    Tasks,      \* the activities and milestones of one schedule
    Lags        \* the lags a dependency may have, in days

ASSUME NetworkAssumption ==
    /\ IsFiniteSet(Tasks) /\ Tasks # {}
    /\ Lags \subseteq Int

Types == {"FS", "SS", "FF", "SF"}
Kinds == [type : Types, lag : Lags]
NoDep == [type |-> "none", lag |-> 0]
Pairs == Tasks \X Tasks

\* predecessor, successor -> the row of task_dependencies between them
Networks  == {d \in [Pairs -> Kinds \cup {NoDep}] : \A t \in Tasks : d[<<t, t>>] = NoDep}
NoNetwork == [e \in Pairs |-> NoDep]

Edge(dep, p, s) == dep[<<p, s>>].type # "none"
Preds(dep, t)   == {p \in Tasks : Edge(dep, p, t)}
Succs(dep, t)   == {s \in Tasks : Edge(dep, t, s)}
Edges(dep)      == {e \in Pairs : Edge(dep, e[1], e[2])}

\* the rows the CHECK constraints of schedule_tasks admit
TaskRows == {r \in [dur : Nat, milestone : BOOLEAN] : r.milestone => r.dur = 0}

\* task_dependencies_no_self and task_dependencies_pred_succ_uq
Insertable(dep, p, s) == p # s /\ ~Edge(dep, p, s)
Inserted(dep, p, s, kind) == [dep EXCEPT ![<<p, s>>] = kind]

-----------------------------------------------------------------------------
(* Cycles *)

\* graph.ts, Kahn's algorithm: a task is output when all its predecessors are.
\* The order within a layer, which depends on the order of the rows, is left out.
TopologicallySorted(dep) ==
    LET layer[n \in 0 .. Cardinality(Tasks)] ==
            IF n = 0 THEN {} ELSE {t \in Tasks : Preds(dep, t) \subseteq layer[n - 1]}
    IN  layer[Cardinality(Tasks)]

\* mutant: looks at the direct successors only
DirectCycle(dep, pred, succ) == pred = succ \/ Edge(dep, succ, pred)

\* mutant: refuses a self dependency only
SelfDependency(dep, pred, succ) == pred = succ

\* recalc.ts, before an insertion: the search from succ over the existing edges
DependencyWouldCreateCycle(dep, pred, succ) ==
    LET seen[n \in 0 .. Cardinality(Tasks)] ==
            IF n = 0 THEN {succ}
            ELSE seen[n - 1] \cup UNION {Succs(dep, t) : t \in seen[n - 1]}
    IN  pred \in seen[Cardinality(Tasks)]

\* what both are about: a non-empty set of tasks each of which waits for another
Circular(dep, S) == S # {} /\ \A t \in S : \E p \in S : Edge(dep, p, t)
HasCycle(dep)    == \E S \in SUBSET Tasks : Circular(dep, S)

-----------------------------------------------------------------------------
(* recalc.ts: the dates of the tasks, as functions of their rows rs, of the  *)
(* dependencies d and of the starts at found so far                          *)

EndIndex(start, dur) == IF dur > 1 THEN start + dur - 1 ELSE start
EndOf(rs, at, t)     == EndIndex(at[t], rs[t].dur)

\* the days a successor spans beyond its first
Extra(rs, t) == IF rs[t].dur > 1 THEN rs[t].dur - 1 ELSE 0

\* mutant: the successor starts on the last day of its predecessor
SameDayStart(rs, d, at, p, s) ==
    LET k == d[<<p, s>>]
    IN  CASE k.type = "SS" -> at[p] + k.lag
          [] k.type = "FF" -> EndOf(rs, at, p) + k.lag - Extra(rs, s)
          [] k.type = "SF" -> at[p] + k.lag - Extra(rs, s)
          [] OTHER         -> EndOf(rs, at, p) + k.lag

\* mutant: what bounds the finish bounds the start
FinishAsStart(rs, d, at, p, s) ==
    LET k == d[<<p, s>>]
    IN  CASE k.type \in {"SS", "SF"} -> at[p] + k.lag
          [] k.type = "FF"           -> EndOf(rs, at, p) + k.lag
          [] OTHER                   -> EndOf(rs, at, p) + 1 + k.lag

\* the earliest start the dependency of s on p leaves s, when tasks start as at says
MinStart(rs, d, at, p, s) ==
    LET k == d[<<p, s>>]
    IN  CASE k.type = "SS" -> at[p] + k.lag
          [] k.type = "FF" -> EndOf(rs, at, p) + k.lag - Extra(rs, s)
          [] k.type = "SF" -> at[p] + k.lag - Extra(rs, s)
          [] OTHER         -> EndOf(rs, at, p) + 1 + k.lag

\* one turn of the loop: the dependencies out of t are applied ...
Pushed(rs, d, at, t) ==
    [s \in Tasks |-> IF Edge(d, t, s) /\ MinStart(rs, d, at, t, s) > at[s]
                     THEN MinStart(rs, d, at, t, s)
                     ELSE at[s]]
\* ... and counted off
Counted(d, deg, t) == [s \in Tasks |-> IF Edge(d, t, s) THEN deg[s] - 1 ELSE deg[s]]

Released(d, deg, t) == {s \in Succs(d, t) : Counted(d, deg, t)[s] = 0}

\* mutant: every task is queued at the start
AllTasks(d)  == Tasks
InDegrees(d) == [t \in Tasks |-> Cardinality(Preds(d, t))]
Free(d)      == {t \in Tasks : InDegrees(d)[t] = 0}

\* the days by which the starts at keep more distance than the dependency of s
\* on p asks for
Margin(rs, d, at, p, s) ==
    LET k == d[<<p, s>>]
    IN  CASE k.type = "FS" -> at[s] - (EndOf(rs, at, p) + 1) - k.lag
          [] k.type = "SS" -> at[s] - at[p] - k.lag
          [] k.type = "FF" -> EndOf(rs, at, s) - EndOf(rs, at, p) - k.lag
          [] k.type = "SF" -> EndOf(rs, at, s) - at[p] - k.lag

Respected(rs, d, at) == \A e \in Edges(d) : Margin(rs, d, at, e[1], e[2]) >= 0
Tight(rs, d, at, t)  == at[t] = 0 \/ \E p \in Preds(d, t) : Margin(rs, d, at, p, t) = 0

Loop == [at : [Tasks -> Int], deg : [Tasks -> Int], queue : SUBSET Tasks, processed : SUBSET Tasks]

LoopStart(d) == [at |-> [t \in Tasks |-> 0], deg |-> InDegrees(d), queue |-> Free(d), processed |-> {}]

Turn(rs, d, l, t) ==
    [at        |-> Pushed(rs, d, l.at, t),
     deg       |-> Counted(d, l.deg, t),
     queue     |-> (l.queue \ {t}) \cup Released(d, l.deg, t),
     processed |-> l.processed \cup {t}]

\* the whole calculation, for a caller: the loop when its queue is empty
Recalculated(rs, d) ==
    LET loop[n \in 0 .. Cardinality(Tasks)] ==
            IF n = 0 THEN LoopStart(d)
            ELSE LET l == loop[n - 1]
                 IN  IF l.queue = {} THEN l ELSE Turn(rs, d, l, CHOOSE t \in l.queue : TRUE)
    IN  loop[Cardinality(Tasks)]
=============================================================================
