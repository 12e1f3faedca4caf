----------------------------- MODULE CriticalPath -----------------------------
(***************************************************************************)
(* The Critical Path Method (apps/web/modules/planning/cpm.ts) over the     *)
(* network of graph.ts, computed from the rows as they are stored: before a *)
(* recalculation of the dates (ScheduleRecalc) or after it.                 *)
(*                                                                         *)
(* The axis is continuous: a task occupies [start, start + duration), where *)
(* ScheduleRecalc counts whole days and the last one inclusive.  The passes *)
(* visit the tasks in a topological order; which one it is depends on the   *)
(* order of the rows, so a pass may take any task whose neighbours are      *)
(* timed.  The progress of a task, which the CHECK of schedule_tasks keeps  *)
(* in range, the concrete cycle of the error and the dates of the report    *)
(* are left out.                                                            *)
(***************************************************************************)
EXTENDS ScheduleRecalc

CONSTANT Starts     \* planned_start of the tasks when no recalculation set it

ASSUME StartsAssumption == Starts \subseteq Int

VARIABLES
    planned,        \* task -> the planned_start that was read
    pass,           \* "none", then the passes, then the outcome
    anchor,         \* projectAnchor
    projectEnd,     \* the latest early finish, as an offset from the anchor
    earlyStart,     \* task -> offset from the anchor
    lateStart,      \* task -> offset from the anchor
    timed           \* the tasks the current pass has visited

cpmVars == <<planned, pass, anchor, projectEnd, earlyStart, lateStart, timed>>
vars    == <<recalcVars, cpmVars>>

Dur(t)         == rows[t].dur
EarlyFinish(t) == earlyStart[t] + Dur(t)
LateFinish(t)  == lateStart[t] + Dur(t)

\* validateTask: a task of no days must be a milestone; the rest the table's
\* CHECK constraints guarantee
ValidTask(r) == r.milestone \/ r.dur > 0

\* mutant: counts the last day of the predecessor as recalc.ts does
NextDayStart(p, s) ==
    LET k == dep[<<p, s>>]
    IN  CASE k.type = "FS" -> EarlyFinish(p) + 1 + k.lag
          [] k.type = "SS" -> earlyStart[p] + k.lag
          [] k.type = "FF" -> EarlyFinish(p) + k.lag - Dur(s)
          [] k.type = "SF" -> earlyStart[p] + k.lag - Dur(s)

\* the least early start the dependency of s on p allows
ForwardConstraintStart(p, s) ==
    LET k == dep[<<p, s>>]
    IN  CASE k.type = "FS" -> EarlyFinish(p) + k.lag
          [] k.type = "SS" -> earlyStart[p] + k.lag
          [] k.type = "FF" -> EarlyFinish(p) + k.lag - Dur(s)
          [] k.type = "SF" -> earlyStart[p] + k.lag - Dur(s)

\* mutant: adds the lag where the inverse constraint subtracts it
LagAdded(p, s) ==
    LET k == dep[<<p, s>>]
    IN  CASE k.type = "FS" -> lateStart[s] + k.lag
          [] k.type = "SS" -> lateStart[s] + k.lag + Dur(p)
          [] k.type = "FF" -> LateFinish(s) + k.lag
          [] k.type = "SF" -> LateFinish(s) + k.lag + Dur(p)

\* the greatest late finish the dependency of s on p leaves p
BackwardConstraintFinish(p, s) ==
    LET k == dep[<<p, s>>]
    IN  CASE k.type = "FS" -> lateStart[s] - k.lag
          [] k.type = "SS" -> lateStart[s] - k.lag + Dur(p)
          [] k.type = "FF" -> LateFinish(s) - k.lag
          [] k.type = "SF" -> LateFinish(s) - k.lag + Dur(p)

Offset(t) == planned[t] - anchor

\* mutant: a task with successors is bounded by them alone
SuccessorBounds(t) ==
    IF Succs(dep, t) = {} THEN {projectEnd} ELSE {BackwardConstraintFinish(t, s) : s \in Succs(dep, t)}

\* the bounds the passes take the greatest and the least of
StartBounds(t)  == {Offset(t)} \cup {ForwardConstraintStart(p, t) : p \in Preds(dep, t)}
FinishBounds(t) == {projectEnd} \cup {BackwardConstraintFinish(t, s) : s \in Succs(dep, t)}

CpmInit ==
    /\ RecalcInit
    /\ planned = [t \in Tasks |-> 0]
    /\ pass = "none"
    /\ anchor = 0
    /\ projectEnd = 0
    /\ earlyStart = [t \in Tasks |-> 0]
    /\ lateStart = [t \in Tasks |-> 0]
    /\ timed = {}

Recalculation == pass = "none" /\ RecalcNext /\ UNCHANGED cpmVars

\* buildScheduleNetwork throws before anything is computed
RejectNetwork ==
    /\ pass = "none" /\ phase \in {"edit", "done"}
    /\ \/ \E t \in Tasks : ~ValidTask(rows[t]) /\ pass' = "invalid"
       \/ /\ \A t \in Tasks : ValidTask(rows[t])
          /\ TopologicallySorted(dep) # Tasks
          /\ pass' = "cycle"
    /\ UNCHANGED <<recalcVars, planned, anchor, projectEnd, earlyStart, lateStart, timed>>

RunCpmOnNetwork ==
    /\ pass = "none" /\ phase \in {"edit", "done"}
    /\ \A t \in Tasks : ValidTask(rows[t])
    /\ TopologicallySorted(dep) = Tasks
    /\ pass' = "forward"
    /\ IF phase = "done" THEN planned' = startIdx ELSE planned' \in [Tasks -> Starts]
    /\ \E t \in Tasks : anchor' = planned'[t] /\ \A u \in Tasks : anchor' <= planned'[u]
    /\ UNCHANGED <<recalcVars, projectEnd, earlyStart, lateStart, timed>>

ForwardPass(t) ==
    /\ pass = "forward"
    /\ t \notin timed /\ Preds(dep, t) \subseteq timed
    /\ \E es \in StartBounds(t) :
         /\ \A b \in StartBounds(t) : b <= es
         /\ earlyStart' = [earlyStart EXCEPT ![t] = es]
    /\ timed' = timed \cup {t}
    /\ UNCHANGED <<recalcVars, planned, pass, anchor, projectEnd, lateStart>>

TurnBack ==
    /\ pass = "forward" /\ timed = Tasks
    /\ pass' = "backward"
    /\ \E t \in Tasks :
         /\ \A u \in Tasks : EarlyFinish(u) <= EarlyFinish(t)
         /\ projectEnd' = EarlyFinish(t)
    /\ timed' = {}
    /\ UNCHANGED <<recalcVars, planned, anchor, earlyStart, lateStart>>

BackwardPass(t) ==
    /\ pass = "backward"
    /\ t \notin timed /\ Succs(dep, t) \subseteq timed
    /\ \E lf \in FinishBounds(t) :
         /\ \A b \in FinishBounds(t) : lf <= b
         /\ lateStart' = [lateStart EXCEPT ![t] = lf - Dur(t)]
    /\ timed' = timed \cup {t}
    /\ UNCHANGED <<recalcVars, planned, pass, anchor, projectEnd, earlyStart>>

Report ==
    /\ pass = "backward" /\ timed = Tasks
    /\ pass' = "done"
    /\ UNCHANGED <<recalcVars, planned, anchor, projectEnd, earlyStart, lateStart, timed>>

CpmNext ==
    \/ Recalculation
    \/ RejectNetwork
    \/ RunCpmOnNetwork
    \/ \E t \in Tasks : ForwardPass(t)
    \/ TurnBack
    \/ \E t \in Tasks : BackwardPass(t)
    \/ Report

CpmSpec == CpmInit /\ [][CpmNext]_vars

-----------------------------------------------------------------------------
(* The report *)

TotalFloat(t) == lateStart[t] - earlyStart[t]
Critical(t)   == TotalFloat(t) = 0

\* mutant: forgets the lag after a finish
SlackWithoutLag(at, t, s) ==
    LET k == dep[<<t, s>>]
    IN  CASE k.type = "FS" -> at[s] - (at[t] + Dur(t))
          [] k.type = "SS" -> at[s] - (at[t] + k.lag)
          [] k.type = "FF" -> at[s] + Dur(s) - (at[t] + Dur(t))
          [] k.type = "SF" -> at[s] + Dur(s) - (at[t] + k.lag)

\* the distance between the two ends the dependency is about, beyond its lag,
\* when tasks start as at says
Slack(at, t, s) ==
    LET k == dep[<<t, s>>]
    IN  CASE k.type = "FS" -> at[s] - (at[t] + Dur(t) + k.lag)
          [] k.type = "SS" -> at[s] - (at[t] + k.lag)
          [] k.type = "FF" -> at[s] + Dur(s) - (at[t] + Dur(t) + k.lag)
          [] k.type = "SF" -> at[s] + Dur(s) - (at[t] + k.lag)

\* freeFloatFor: the least slack, no more than the total float and not negative
FreeFloat(t) ==
    LET bounds == {TotalFloat(t)} \cup {Slack(earlyStart, t, s) : s \in Succs(dep, t)}
        least  == CHOOSE b \in bounds : \A c \in bounds : b <= c
    IN  IF least < 0 THEN 0 ELSE least

CpmTypeOK ==
    /\ RecalcTypeOK
    /\ pass \in {"none", "invalid", "cycle", "forward", "backward", "done"}
    /\ planned \in [Tasks -> Int]
    /\ anchor \in Int
    /\ projectEnd \in Int
    /\ earlyStart \in [Tasks -> Int]
    /\ lateStart \in [Tasks -> Int]
    /\ timed \in SUBSET Tasks

(* The early and the late dates are both schedules of the network, so every *)
(* task may use its whole float if its successors use theirs, and the       *)
(* project ends in time; the late date is never before the early one, for   *)
(* every type of dependency and for negative lags too: a negative float     *)
(* would not be reported as critical, which is the task to worry about.     *)
EarlyAndLateDatesAreSchedules ==
    pass = "done" =>
        /\ \A t \in Tasks : TotalFloat(t) >= 0
        /\ \A e \in Edges(dep) : Slack(earlyStart, e[1], e[2]) >= 0 /\ Slack(lateStart, e[1], e[2]) >= 0
        /\ \A t \in Tasks : EarlyFinish(t) <= projectEnd /\ LateFinish(t) <= projectEnd

(* What the report calls the critical path is one, in both directions: some  *)
(* critical task ends the project; each either starts on its planned date    *)
(* or was pushed to its start by another critical task without a gap; and    *)
(* each either ends the project or pushes a critical task without a gap, so  *)
(* that starting any of them later makes the project end later.              *)
CriticalTasksFormPaths ==
    LET Pushes(p, s) == Critical(s) /\ Critical(p) /\ Slack(earlyStart, p, s) = 0
    IN  pass = "done" =>
            /\ \E t \in Tasks : Critical(t) /\ EarlyFinish(t) = projectEnd
            /\ \A t \in Tasks : Critical(t) =>
                  /\ earlyStart[t] = Offset(t) \/ \E p \in Preds(dep, t) : Pushes(p, t)
                  /\ EarlyFinish(t) = projectEnd \/ \E s \in Succs(dep, t) : Pushes(t, s)

(* The free float is what its comment says: a task started that much later  *)
(* leaves every successor its early start and the project its end, and one  *)
(* day more does not.                                                       *)
FreeFloatExact ==
    LET Pushes(t, n) == \/ EarlyFinish(t) + n > projectEnd
                        \/ \E s \in Succs(dep, t) :
                              ForwardConstraintStart(t, s) + n > earlyStart[s]
    IN  pass = "done" =>
            \A t \in Tasks : ~Pushes(t, FreeFloat(t)) /\ Pushes(t, FreeFloat(t) + 1)

\* no milestone must finish with a task of some days, which ends a day later on
\* the continuous axis
NoMilestoneDelayed ==
    \A e \in Edges(dep) : ~(dep[e].type = "FF" /\ rows[e[2]].milestone /\ ~rows[e[1]].milestone)

(* The two calculations agree although they count days differently: over    *)
(* recalculated dates the forward pass moves no task, unless a milestone    *)
(* must finish with a task of some days.                                    *)
RecalculatedDatesAreEarly ==
    phase = "done" /\ pass = "done" /\ NoMilestoneDelayed =>
        \A t \in Tasks : anchor + earlyStart[t] = startIdx[t]

(* Why it works: the dates of a timed task are final, for all they depend   *)
(* on was timed before.                                                     *)
EarlyTimed == IF pass = "forward" THEN timed ELSE IF pass \in {"backward", "done"} THEN Tasks ELSE {}
LateTimed  == IF pass = "backward" THEN timed ELSE IF pass = "done" THEN Tasks ELSE {}

PassInvariant ==
    /\ pass = "none" => timed = {}
    /\ pass \in {"forward", "backward", "done"} =>
          /\ phase \in {"edit", "done"}
          /\ \A t \in Tasks : ValidTask(rows[t])
          /\ phase = "done" => planned = startIdx
    /\ \A t \in EarlyTimed :
          /\ Preds(dep, t) \subseteq EarlyTimed
          /\ earlyStart[t] \in StartBounds(t)
          /\ \A b \in StartBounds(t) : b <= earlyStart[t]
    /\ phase = "done" /\ NoMilestoneDelayed =>
          \A t \in EarlyTimed : anchor + earlyStart[t] = startIdx[t]
    /\ pass \in {"backward", "done"} =>
          /\ \A t \in Tasks : EarlyFinish(t) <= projectEnd
          /\ \E t \in Tasks : EarlyFinish(t) = projectEnd
    /\ \A t \in LateTimed :
          /\ Succs(dep, t) \subseteq LateTimed
          /\ LateFinish(t) \in FinishBounds(t)
          /\ \A b \in FinishBounds(t) : LateFinish(t) <= b
          /\ earlyStart[t] <= lateStart[t]

CpmInv == RecalcInv /\ CpmTypeOK /\ PassInvariant
=============================================================================
