---------------------------- MODULE ScheduleRecalc ----------------------------
(***************************************************************************)
(* recalculateScheduleDates (apps/web/modules/planning/recalc.ts): every    *)
(* task starts with the schedule and is pushed to the right by the          *)
(* dependencies into it, in the order Kahn's algorithm releases the tasks.  *)
(*                                                                         *)
(* A task of n days occupies the days start .. start + n - 1, and one of no *)
(* days, a milestone, the day start.  The queue is a set: the order in      *)
(* which tasks leave it depends on the order of the rows and must not       *)
(* matter.  No caller passes manualStart.  The network grows before the     *)
(* calculation by the rows the database accepts, cycles included.           *)
(***************************************************************************)
EXTENDS ScheduleNetwork

CONSTANTS
    Durations,      \* planned_duration_days of the tasks
    MaxDeps         \* bound of the dependencies of a network

ASSUME RecalcAssumption == Durations \subseteq Nat /\ MaxDeps \in Nat

VARIABLES
    rows,           \* task -> its duration and whether it is a milestone
    dep,            \* the dependencies
    phase,          \* "edit", then the loop, then its outcome
    startIdx,       \* task -> its early start
    indegree,       \* task -> the dependencies into it still to be applied
    queue,          \* the tasks released and not yet processed
    processed       \* the tasks processed

recalcVars == <<rows, dep, phase, startIdx, indegree, queue, processed>>

RecalcInit ==
    /\ rows \in [Tasks -> {r \in [dur : Durations, milestone : BOOLEAN] : r.milestone => r.dur = 0}]
    /\ dep = NoNetwork
    /\ phase = "edit"
    /\ startIdx = [t \in Tasks |-> 0]
    /\ indegree = [t \in Tasks |-> 0]
    /\ queue = {}
    /\ processed = {}

InsertDependency(p, s, k) ==
    /\ phase = "edit"
    /\ Insertable(dep, p, s)
    /\ Cardinality(Edges(dep)) < MaxDeps
    /\ dep' = Inserted(dep, p, s, k)
    /\ UNCHANGED <<rows, phase, startIdx, indegree, queue, processed>>

\* day 0 is the start of the schedule, the default start of every task
RecalculateScheduleDates ==
    /\ phase = "edit"
    /\ phase' = "loop"
    /\ startIdx' = [t \in Tasks |-> 0]
    /\ indegree' = InDegrees(dep)
    /\ queue' = Free(dep)
    /\ processed' = {}
    /\ UNCHANGED <<rows, dep>>

Dequeue(t) ==
    /\ phase = "loop"
    /\ t \in queue
    /\ processed' = processed \cup {t}
    /\ startIdx' = Pushed(rows, dep, startIdx, t)
    /\ indegree' = Counted(dep, indegree, t)
    /\ queue' = (queue \ {t}) \cup Released(dep, indegree, t)
    /\ UNCHANGED <<rows, dep, phase>>

ThrowCycle ==
    /\ phase = "loop" /\ queue = {} /\ processed # Tasks
    /\ phase' = "cycle"
    /\ UNCHANGED <<rows, dep, startIdx, indegree, queue, processed>>

Return ==
    /\ phase = "loop" /\ queue = {} /\ processed = Tasks
    /\ phase' = "done"
    /\ UNCHANGED <<rows, dep, startIdx, indegree, queue, processed>>

RecalcNext ==
    \/ \E p, s \in Tasks, k \in Kinds : InsertDependency(p, s, k)
    \/ RecalculateScheduleDates
    \/ \E t \in Tasks : Dequeue(t)
    \/ ThrowCycle
    \/ Return

RecalcSpec == RecalcInit /\ [][RecalcNext]_recalcVars

-----------------------------------------------------------------------------

RecalcTypeOK ==
    /\ rows \in [Tasks -> TaskRows]
    /\ dep \in Networks
    /\ phase \in {"edit", "loop", "cycle", "done"}
    /\ startIdx \in [Tasks -> Int]
    /\ indegree \in [Tasks -> Int]
    /\ queue \in SUBSET Tasks
    /\ processed \in SUBSET Tasks

(* The dates the calculation returns respect every dependency, whatever its *)
(* type and the sign of its lag.  A task must not leave the queue before    *)
(* all its predecessors have pushed it, for its own successors are never    *)
(* looked at again; and a bound on a finish must become one on the start.   *)
DependenciesRespected == phase = "done" => Respected(rows, dep, startIdx)

(* They are also the earliest such dates: a task starts with the schedule   *)
(* or on the very day one of its dependencies asks for, so nothing is       *)
(* pushed further than it must be.                                          *)
NothingPushedTooFar == phase = "done" => \A t \in Tasks : Tight(rows, dep, startIdx, t)

(* The calculation reports a cycle exactly when the dependencies have one:  *)
(* recalcAndPersist takes the error for a cycle and leaves all dates alone, *)
(* so a false alarm would freeze the schedule and a missed one corrupt it.  *)
CycleReportedExactly ==
    /\ phase = "cycle" => HasCycle(dep)
    /\ phase = "done" => ~HasCycle(dep)

(* The two other searches for cycles agree with it.  The topological order  *)
(* before a critical path is complete exactly when there is none, and the   *)
(* check before an insertion, which follows the edges themselves, refuses   *)
(* exactly the dependencies that close one, as long as there is none yet.   *)
CycleChecksExact ==
    phase = "edit" =>
        /\ (TopologicallySorted(dep) = Tasks) <=> ~HasCycle(dep)
        /\ HasCycle(dep) \/
              \A p, s \in Tasks : Insertable(dep, p, s) =>
                 (DependencyWouldCreateCycle(dep, p, s)
                    <=> HasCycle(Inserted(dep, p, s, [type |-> "FS", lag |-> 0])))

(* Why it works: a task is released when its last predecessor has been       *)
(* processed, and not before, so its start is final when it is processed.    *)
LoopInvariant ==
    phase # "edit" =>
        /\ \A t \in Tasks : indegree[t] = Cardinality(Preds(dep, t) \ processed)
        /\ queue = {t \in Tasks \ processed : Preds(dep, t) \subseteq processed}
        /\ \A t \in processed : Preds(dep, t) \subseteq processed
        /\ \A p \in processed : \A s \in Succs(dep, p) :
              startIdx[s] >= MinStart(rows, dep, startIdx, p, s)
        /\ \A s \in Tasks : \/ startIdx[s] = 0
                            \/ \E p \in Preds(dep, s) \cap processed :
                                  startIdx[s] = MinStart(rows, dep, startIdx, p, s)
        /\ \A S \in SUBSET Tasks : Circular(dep, S) => S \cap processed = {}
        /\ phase # "loop" => queue = {} /\ (phase = "done" <=> processed = Tasks)

RecalcInv == RecalcTypeOK /\ LoopInvariant
=============================================================================
