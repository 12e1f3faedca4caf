--------------------------- MODULE PlanningSchedule ---------------------------
(***************************************************************************)
(* A schedule and the requests that edit it (apps/web/server/planning).     *)
(* Creation is one RPC, a transaction.  Every other request is a row of     *)
(* PostgREST calls, each a transaction of its own, without a lock or a      *)
(* version check: a change of one row, then recalcAndPersist, which reads   *)
(* the tasks, reads the dependencies, computes all dates in memory and      *)
(* writes the rows that differ from what it read, one by one, then the      *)
(* chapters and the end of the schedule.  Requests interleave between any   *)
(* two calls, die between them, and lose a write whose error nobody reads.  *)
(*                                                                         *)
(* Permissions, progress, crews, names and the archive mark are left out:   *)
(* no date depends on them, and no edit looks at archived_at.               *)
(* A dependency on a chapter, which the form does not offer, is too:        *)
(* recalcAndPersist filters it out.                                         *)
(***************************************************************************)
EXTENDS ScheduleNetwork, ScheduleGenerator

CONSTANTS
    Sessions,       \* requests in flight at the same time
    Activities,     \* one per item of the BOQ; the other tasks are milestones
    ChapterOf,      \* task -> the chapter it belongs to
    Boqs,           \* the BOQs a schedule may be created from
    Choices,        \* the options of the form it may be created with
    Durations,      \* durations an edit may ask for
    Offered,        \* types and lags of the dependencies an edit may ask for
    MaxEdits,       \* bound of the rows changed by edits
    NoTask          \* no task

ASSUME PlanningAssumption ==
    /\ Activities \subseteq Tasks
    /\ ChapterOf \in [Tasks -> Chapters]
    /\ Boqs \subseteq [Activities -> ItemRows]
    /\ \A boq \in Boqs, a \in Activities : boq[a].ch = ChapterOf[a]
    /\ Choices \subseteq Options
    /\ Durations \subseteq Nat
    /\ Offered \subseteq Kinds
    /\ MaxEdits \in Nat
    /\ NoTask \notin Tasks

VARIABLES
    schedule,       \* the row of planning_schedules: whether it exists, its end_date
    task,           \* task -> its row of schedule_tasks
    chapter,        \* chapter -> its row of schedule_tasks
    dep,            \* task_dependencies
    pc,             \* session -> next call of its request
    req,            \* session -> what it was asked for
    view,           \* session -> the rows and dependencies it has read, and the dates it computed
    todo,           \* session -> the rows it has still to write
    edits,          \* rows changed by edits so far
    alone,          \* history: the recalculations nothing has disturbed
    settled         \* history: an undisturbed recalculation was the last to write

vars == <<schedule, task, chapter, dep, pc, req, view, todo, edits, alone, settled>>

Milestones == Tasks \ Activities
Missing    == [in |-> FALSE, start |-> 0, end |-> 0, dur |-> 0]
Row(s, e, n) == [in |-> TRUE, start |-> s, end |-> e, dur |-> n]

NoReq  == [op |-> "none", pred |-> NoTask, succ |-> NoTask, kind |-> NoDep]
NoDates == [t \in Tasks |-> 0]
NoView  == [task |-> [t \in Tasks |-> Missing], dep |-> NoNetwork, start |-> NoDates, end |-> NoDates]

Init ==
    /\ schedule = [in |-> FALSE, end |-> 0]
    /\ task = [t \in Tasks |-> Missing]
    /\ chapter = [c \in Chapters |-> Missing]
    /\ dep = NoNetwork
    /\ pc = [s \in Sessions |-> "idle"]
    /\ req = [s \in Sessions |-> NoReq]
    /\ view = [s \in Sessions |-> NoView]
    /\ todo = [s \in Sessions |-> {}]
    /\ edits = 0
    /\ alone = {}
    /\ settled = FALSE

Goto(s, l) == pc' = [pc EXCEPT ![s] = l]

Finish(s) ==
    /\ Goto(s, "idle")
    /\ req' = [req EXCEPT ![s] = NoReq]
    /\ view' = [view EXCEPT ![s] = NoView]
    /\ todo' = [todo EXCEPT ![s] = {}]

\* a row of this schedule changes: every other recalculation is disturbed
Disturb(s) == alone' = alone \cap {s} /\ settled' = FALSE

-----------------------------------------------------------------------------
(* Creation *)

\* the rows of the preview: its activities and closing milestones ...
PreviewTasks(boq, opt) ==
    [t \in Tasks |->
       CASE t \in Activities /\ ~Omitted(boq[t], opt) ->
              Row(0, ActivityEnd(boq, opt, t), EstimateActivityDuration(boq[t], opt))
         [] t \in Milestones /\ opt.milestones /\ ChapterOf[t] \in Emitted(boq, opt) ->
              Row(ChapterEnd(boq, opt, ChapterOf[t]), ChapterEnd(boq, opt, ChapterOf[t]), 0)
         [] OTHER -> Missing]

\* ... and its chapters, unless the form leaves them out
PreviewChapters(boq, opt) ==
    [c \in Chapters |->
       IF opt.chapters /\ c \in Emitted(boq, opt)
       THEN Row(0, ChapterEnd(boq, opt, c), ChapterEnd(boq, opt, c) + 1)
       ELSE Missing]

\* createScheduleFromBoq: reads the BOQ, builds the preview and stores all of it
\* in one transaction; no activities, no schedule
CreateScheduleFromBoq(boq, opt) ==
    /\ ~schedule.in
    /\ Emitted(boq, opt) # {}
    /\ schedule' = [in |-> TRUE, end |-> ScheduleEnd(boq, opt)]
    /\ task' = PreviewTasks(boq, opt)
    /\ chapter' = PreviewChapters(boq, opt)
    /\ UNCHANGED <<dep, pc, req, view, todo, edits, alone, settled>>

-----------------------------------------------------------------------------
(* The two edits *)

\* updateScheduleTask with a duration: the CHECK of milestones refuses theirs
UpdateScheduleTask(s, t, n) ==
    /\ pc[s] = "idle" /\ edits < MaxEdits
    /\ task[t].in /\ t \notin Milestones
    /\ n >= 1
    /\ task' = [task EXCEPT ![t].dur = n]
    /\ edits' = edits + 1
    /\ Disturb(s)
    /\ Goto(s, "listTasks")
    /\ req' = [req EXCEPT ![s].op = "update"]
    /\ UNCHANGED <<schedule, chapter, dep, view, todo>>

\* addScheduleDependency: the tasks and the dependencies it checks ...
ReadDependencies(s, p, q, k) ==
    /\ pc[s] = "idle" /\ edits < MaxEdits
    /\ task[p].in /\ task[q].in /\ p # q
    /\ ~DependencyWouldCreateCycle(dep, p, q)
    /\ Goto(s, "insert")
    /\ req' = [req EXCEPT ![s] = [op |-> "add", pred |-> p, succ |-> q, kind |-> k]]
    /\ view' = [view EXCEPT ![s].dep = dep]
    /\ UNCHANGED <<schedule, task, chapter, dep, todo, edits, alone, settled>>

\* ... and the INSERT, in another call
InsertDependency(s) ==
    LET r == req[s]
    IN  /\ pc[s] = "insert" /\ edits < MaxEdits
        /\ Insertable(dep, r.pred, r.succ)
        /\ dep' = Inserted(dep, r.pred, r.succ, r.kind)
        /\ edits' = edits + 1
        /\ Disturb(s)
        /\ Goto(s, "listTasks")
        /\ UNCHANGED <<schedule, task, chapter, req, view, todo>>

\* unique_violation, or a request that dies here
AbandonInsert(s) ==
    /\ pc[s] = "insert"
    /\ Finish(s)
    /\ UNCHANGED <<schedule, task, chapter, dep, edits, alone, settled>>

-----------------------------------------------------------------------------
(* recalcAndPersist *)

ListTasks(s) ==
    /\ pc[s] = "listTasks"
    /\ Goto(s, "listDependencies")
    /\ view' = [view EXCEPT ![s].task = task]
    /\ alone' = alone \cup {s}
    /\ UNCHANGED <<schedule, task, chapter, dep, req, todo, edits, settled>>

RowsIn(rs) == [t \in Tasks |-> [dur |-> rs[t].dur, milestone |-> t \in Milestones]]

\* mutant: compares the start alone
StartDiffers(v, t) == v.task[t].in /\ v.task[t].start # v.start[t]
Differs(v, t) == v.task[t].in /\ (v.task[t].start # v.start[t] \/ v.task[t].end # v.end[t])

\* a cycle makes the calculation throw, and nothing is written
ListDependencies(s) ==
    LET rs == RowsIn(view[s].task)
        l  == Recalculated(rs, dep)
        v  == [view[s] EXCEPT !.dep = dep, !.start = l.at, !.end = [t \in Tasks |-> EndOf(rs, l.at, t)]]
    IN  /\ pc[s] = "listDependencies"
        /\ \/ /\ l.processed = Tasks
              /\ Goto(s, "tasks")
              /\ view' = [view EXCEPT ![s] = v]
              /\ todo' = [todo EXCEPT ![s] = {t \in Tasks : Differs(v, t)}]
              /\ UNCHANGED <<req, alone>>
           \/ l.processed # Tasks /\ Finish(s) /\ alone' = alone \ {s}
        /\ UNCHANGED <<schedule, task, chapter, dep, edits, settled>>

\* the children of a chapter among the rows that were read
Children(v, c) == {t \in Tasks : v.task[t].in /\ ChapterOf[t] = c}

WriteTask(s, t) ==
    /\ pc[s] = "tasks" /\ t \in todo[s]
    /\ task' = [task EXCEPT ![t].start = view[s].start[t], ![t].end = view[s].end[t]]
    /\ todo' = [todo EXCEPT ![s] = @ \ {t}]
    /\ Disturb(s)
    /\ UNCHANGED <<schedule, chapter, dep, pc, req, view, edits>>

TurnToChapters(s) ==
    /\ pc[s] = "tasks" /\ todo[s] = {}
    /\ Goto(s, "chapters")
    /\ todo' = [todo EXCEPT ![s] = {c \in Chapters : chapter[c].in /\ Children(view[s], c) # {}}]
    /\ UNCHANGED <<schedule, task, chapter, dep, req, view, edits, alone, settled>>

Span(v, c) ==
    LET start == Least({v.start[t] : t \in Children(v, c)})
        end   == Greatest({v.end[t] : t \in Children(v, c)})
    IN  Row(start, end, end - start + 1)

WriteChapter(s, c) ==
    /\ pc[s] = "chapters" /\ c \in todo[s]
    /\ chapter' = [chapter EXCEPT ![c] = Span(view[s], c)]
    /\ todo' = [todo EXCEPT ![s] = @ \ {c}]
    /\ Disturb(s)
    /\ UNCHANGED <<schedule, task, dep, pc, req, view, edits>>

\* an UPDATE that fails returns its error, which recalcAndPersist drops
WriteFails(s, x) ==
    /\ pc[s] \in {"tasks", "chapters"} /\ x \in todo[s]
    /\ todo' = [todo EXCEPT ![s] = @ \ {x}]
    /\ alone' = alone \ {s}
    /\ UNCHANGED <<schedule, task, chapter, dep, pc, req, view, edits, settled>>

SetScheduleEndDate(s) ==
    /\ pc[s] = "chapters" /\ todo[s] = {}
    /\ \/ /\ schedule' = [schedule EXCEPT !.end =
                Greatest({0} \cup {view[s].end[t] : t \in {u \in Tasks : view[s].task[u].in}})]
          /\ settled' = (s \in alone)
       \/ UNCHANGED <<schedule, settled>>       \* this UPDATE fails too
    /\ Finish(s)
    /\ alone' = {}
    /\ UNCHANGED <<task, chapter, dep, edits>>

\* the server stops, or a read throws
Die(s) ==
    /\ pc[s] \notin {"idle", "insert"}
    /\ Finish(s)
    /\ alone' = alone \ {s}
    /\ UNCHANGED <<schedule, task, chapter, dep, edits, settled>>

Next ==
    \/ \E boq \in Boqs, opt \in Choices : CreateScheduleFromBoq(boq, opt)
    \/ \E s \in Sessions :
         \/ \E t \in Tasks, n \in Durations : UpdateScheduleTask(s, t, n)
         \/ \E p, q \in Tasks, k \in Offered : ReadDependencies(s, p, q, k)
         \/ InsertDependency(s)
         \/ AbandonInsert(s)
         \/ ListTasks(s)
         \/ ListDependencies(s)
         \/ \E t \in Tasks : WriteTask(s, t)
         \/ TurnToChapters(s)
         \/ \E c \in Chapters : WriteChapter(s, c)
         \/ \E x \in Tasks \cup Chapters : WriteFails(s, x)
         \/ SetScheduleEndDate(s)
         \/ Die(s)

Spec == Init /\ [][Next]_vars

-----------------------------------------------------------------------------

Rows     == [in : BOOLEAN, start : Int, end : Int, dur : Nat]
Requests == [op : {"none", "update", "add"}, pred : Tasks \cup {NoTask},
             succ : Tasks \cup {NoTask}, kind : Kinds \cup {NoDep}]
Views    == [task : [Tasks -> Rows], dep : Networks, start : [Tasks -> Int], end : [Tasks -> Int]]

TypeOK ==
    /\ schedule \in [in : BOOLEAN, end : Int]
    /\ task \in [Tasks -> Rows]
    /\ \A t \in Tasks : task[t].start <= task[t].end
    /\ \A t \in Milestones : task[t].dur = 0 /\ task[t].start = task[t].end
    /\ chapter \in [Chapters -> Rows]
    /\ dep \in Networks
    /\ pc \in [Sessions -> {"idle", "insert", "listTasks", "listDependencies", "tasks", "chapters"}]
    /\ req \in [Sessions -> Requests]
    /\ view \in [Sessions -> Views]
    /\ todo \in [Sessions -> SUBSET (Tasks \cup Chapters)]
    /\ edits \in 0 .. MaxEdits
    /\ alone \in SUBSET Sessions
    /\ settled \in BOOLEAN

Present == {t \in Tasks : task[t].in}
Stored  == [t \in Tasks |-> task[t].start]

(* What the rows of a schedule should say together: tasks start as early as *)
(* the dependencies allow and end with their duration, chapters span their  *)
(* tasks, and the schedule ends with the last one.                          *)
Consistent ==
    /\ Respected(RowsIn(task), dep, Stored)
    /\ \A t \in Present : Tight(RowsIn(task), dep, Stored, t) /\ task[t].end = EndOf(RowsIn(task), Stored, t)
    /\ \A c \in Chapters : chapter[c].in =>
          LET tasks == {t \in Present : ChapterOf[t] = c}
          IN  /\ chapter[c].start = Least({task[t].start : t \in tasks})
              /\ chapter[c].end = Greatest({task[t].end : t \in tasks})
              /\ chapter[c].dur = chapter[c].end - chapter[c].start + 1
    /\ schedule.end = Greatest({0} \cup {task[t].end : t \in Present})

(* A recalculation that no other request disturbs, and whose writes arrive, *)
(* repairs the whole schedule, whatever races, deaths and lost writes       *)
(* before it left behind, although it writes only the rows that differ from *)
(* what it read.                                                            *)
UndisturbedRecalcRepairs == settled => Consistent

(* The generator, which computes dates and spans in a way of its own, stores *)
(* what a recalculation would; only closing milestones, which it puts at    *)
(* the end of their chapter, are not where a recalculation puts them.       *)
FreshIsConsistent ==
    schedule.in /\ edits = 0 /\ (\A s \in Sessions : pc[s] = "idle")
        /\ Present \subseteq Activities => Consistent

(* Dependencies form a cycle only when two requests add dependencies at the *)
(* same time: the one that closes it checked dependencies that another had  *)
(* changed when it inserted its own.  From then on no recalculation writes. *)
CycleNeedsOverlap ==
    [][HasCycle(dep') => \/ HasCycle(dep)
                         \/ \E s \in Sessions : pc[s] = "insert" /\ pc'[s] # "insert"
                                                /\ view[s].dep # dep]_vars

\* A milestone of a chapter closes it: the generator puts it on the last day of
\* the chapter's tasks ("Hito de cierre del capítulo", generator.ts:456).
\* The first recalculation breaks it: no run checks it (README, section 7).
MilestonesClose ==
    settled => \A m \in Milestones : task[m].in =>
        \A t \in Present : ChapterOf[t] = ChapterOf[m] => task[t].end <= task[m].end
=============================================================================
