------------------------ MODULE PlanningScheduleProofs ------------------------
(***************************************************************************)
(* What holds of a schedule for any number of requests, tasks and edits:    *)
(* types, cycles, repair by an undisturbed recalculation, and the schedule  *)
(* that creation stores.                                                    *)
(*                                                                         *)
(* The inductive invariants are TypeInv (types, and what a request holds    *)
(* between two calls), RowInv (which rows there are), RepairInv (how far an *)
(* undisturbed recalculation has come) and FreshInv (nothing was edited).   *)
(***************************************************************************)
EXTENDS PlanningSchedule, ScheduleNetworkProofs

-----------------------------------------------------------------------------
(* Finite sets of days *)

\* A finite set of integers that is not empty has a least and a greatest element.
LEMMA ExtremesExist ==
    ASSUME NEW S \in SUBSET Int, IsFiniteSet(S), S # {}
    PROVE  /\ \E x \in S : \A y \in S : x <= y
           /\ \E x \in S : \A y \in S : x >= y
  <1> DEFINE Ends(T)  == (\E x \in T : \A y \in T : x <= y) /\ (\E x \in T : \A y \in T : x >= y)
             Holds(n) == \A T \in SUBSET Int : IsFiniteSet(T) /\ T # {} /\ Cardinality(T) = n => Ends(T)
             N    == Cardinality(S)
             good == {n \in 0 .. N : Holds(n)}
  <1>1. N \in Nat
    BY FS_CardinalityType
  <1>2. 0 \in good
    <2>1. Holds(0)
      BY FS_EmptySet
    <2> HIDE DEF Holds
    <2> QED BY <1>1, <2>1
  <1>3. ASSUME NEW n \in 1 .. N, n - 1 \in good PROVE n \in good
    <2>1. ASSUME NEW T \in SUBSET Int, IsFiniteSet(T), T # {}, Cardinality(T) = n PROVE Ends(T)
      <3>1. PICK a \in T : TRUE
        BY <2>1
      <3> DEFINE U == T \ {a}
      <3>2. U \in SUBSET Int /\ IsFiniteSet(U) /\ Cardinality(U) = n - 1
        BY <2>1, FS_RemoveElement
      <3>3. CASE U = {}
        <4>1. \A y \in T : y = a
          BY <3>3
        <4> QED BY <4>1
      <3>4. CASE U # {}
        <4>1. Ends(U)
          BY <1>3, <3>2, <3>4
        <4>2. PICK x \in U, z \in U : \A y \in U : x <= y /\ z >= y
          BY <4>1
        <4>3. a \in Int /\ x \in Int /\ z \in Int /\ x \in T /\ z \in T /\ \A y \in T : y = a \/ y \in U
          OBVIOUS
        <4>4. \A y \in T : y \in Int
          OBVIOUS
        <4> HIDE DEF U
        <4>5. \E m \in T : \A y \in T : m <= y
          <5>1. CASE a <= x
            BY <4>2, <4>3, <4>4, <5>1
          <5>2. CASE x <= a
            BY <4>2, <4>3, <4>4, <5>2
          <5> QED BY <4>3, <5>1, <5>2
        <4>6. \E m \in T : \A y \in T : m >= y
          <5>1. CASE a >= z
            BY <4>2, <4>3, <4>4, <5>1
          <5>2. CASE z >= a
            BY <4>2, <4>3, <4>4, <5>2
          <5> QED BY <4>3, <5>1, <5>2
        <4> QED BY <4>5, <4>6
      <3> QED BY <3>3, <3>4
    <2>2. Holds(n)
      BY <2>1
    <2> HIDE DEF Holds
    <2> QED BY <1>1, <2>2
  <1>4. N \in good
    <2> HIDE DEF good
    <2>1. N \in 0 .. N
      BY <1>1
    <2> QED BY <1>1, <1>2, <1>3, <2>1, UpTo
  <1> QED BY <1>4

LEMMA LeastOf ==
    ASSUME NEW S \in SUBSET Int, IsFiniteSet(S), S # {}
    PROVE  Least(S) \in S /\ \A y \in S : Least(S) <= y
BY ExtremesExist DEF Least

LEMMA GreatestOf ==
    ASSUME NEW S \in SUBSET Int, IsFiniteSet(S), S # {}
    PROVE  Greatest(S) \in S /\ \A y \in S : Greatest(S) >= y
BY ExtremesExist DEF Greatest

\* The dates of a set of tasks.
LEMMA DatesOf ==
    ASSUME NEW f \in [Tasks -> Int], NEW A \in SUBSET Tasks
    PROVE  {f[t] : t \in A} \in SUBSET Int /\ IsFiniteSet({f[t] : t \in A})
  <1> DEFINE I == {f[t] : t \in A}
             g == [t \in A |-> f[t]]
  <1>1. IsFiniteSet(A)
    BY SetsOfTasks
  <1>2. g \in Surjection(A, I)
    BY DEF Surjection
  <1>3. IsFiniteSet(I)
    <2> HIDE DEF g, I
    <2> QED BY <1>1, <1>2, FS_Surjection
  <1> QED BY <1>3

-----------------------------------------------------------------------------
(* The generator *)

LEMMA TimesIsNatural == ASSUME NEW a \in Nat, NEW b \in Nat PROVE a * b \in Nat
OBVIOUS

LEMMA DivIsNatural == ASSUME NEW n \in Nat, NEW d \in Nat \ {0} PROVE n \div d \in Nat
  <1>1. n \div d \in Int /\ n = d * (n \div d) + (n % d) /\ n % d \in 0 .. d - 1
    BY Z3
  <1> DEFINE q == n \div d
             r == n % d
  <1>2. q \in Int /\ n = d * q + r /\ r \in 0 .. d - 1
    BY <1>1
  <1> HIDE DEF q, r
  <1>3. q >= 0
    BY <1>2, Z3
  <1> QED BY <1>2, <1>3 DEF q

LEMMA DurationIsPositive ==
    ASSUME NEW item \in ItemRows, NEW opt \in Options
    PROVE  EstimateActivityDuration(item, opt) \in Nat \ {0}
  <1> DEFINE min  == IF opt.min >= 1 THEN opt.min ELSE 1
             ceil == CeilDays(item, opt)
             long == Greatest({min, ceil})
  <1>1. min \in Nat \ {0}
    BY DEF Options
  <1>2. ceil \in Nat
    <2>1. Crew(opt) \in Nat \ {0} /\ item.qty * item.yield \in Nat
      BY TimesIsNatural DEF Crew, Options, ItemRows
    <2> DEFINE work == item.qty * item.yield
    <2>2. work + Crew(opt) - 1 \in Nat
      <3> HIDE DEF work
      <3>1. work \in Nat
        BY <2>1 DEF work
      <3> QED BY <2>1, <3>1
    <2> QED BY <2>1, <2>2, DivIsNatural DEF CeilDays
  <1> HIDE DEF min, ceil
  <1>3. long \in Nat \ {0}
    <2>1. \E x \in {min, ceil} : \A y \in {min, ceil} : x >= y
      BY <1>1, <1>2
    <2>2. long \in {min, ceil} /\ \A y \in {min, ceil} : long >= y
      BY <2>1 DEF Greatest
    <2> QED BY <1>1, <1>2, <2>2
  <1> HIDE DEF long
  <1>4. Least({MaxActivityDays, long}) \in Nat \ {0}
    <2>1. \E x \in {MaxActivityDays, long} : \A y \in {MaxActivityDays, long} : x <= y
      BY <1>3, GeneratorAssumption
    <2>2. Least({MaxActivityDays, long}) \in {MaxActivityDays, long}
      BY <2>1 DEF Least
    <2> QED BY <1>3, <2>2, GeneratorAssumption
  <1> QED BY <1>1, <1>4 DEF EstimateActivityDuration, min, long, ceil

LEMMA BoqTyped ==
    ASSUME NEW boq \in Boqs, NEW opt \in Choices
    PROVE  /\ opt \in Options /\ DOMAIN boq = Activities
           /\ \A a \in Activities : boq[a] \in ItemRows /\ boq[a].ch = ChapterOf[a] /\ a \in Tasks
BY PlanningAssumption

\* An activity ends on the last of its days, counted from day 0.
LEMMA EndsOfActivities ==
    ASSUME NEW boq \in Boqs, NEW opt \in Choices, NEW a \in Activities
    PROVE  LET n == EstimateActivityDuration(boq[a], opt)
           IN  /\ n \in Nat \ {0} /\ ActivityEnd(boq, opt, a) \in Nat
               /\ ActivityEnd(boq, opt, a) = EndIndex(0, n)
  <1> DEFINE n == EstimateActivityDuration(boq[a], opt)
  <1>1. n \in Nat \ {0}
    BY BoqTyped, DurationIsPositive
  <1> HIDE DEF n
  <1>2. InclusiveEnd(0, n) \in Nat /\ InclusiveEnd(0, n) = EndIndex(0, n)
    BY <1>1 DEF InclusiveEnd, EndIndex
  <1> QED BY <1>1, <1>2 DEF ActivityEnd, n

\* A chapter ends with the last of its activities, and the schedule with the
\* last of its chapters.
LEMMA EndsOfChapters ==
    ASSUME NEW boq \in Boqs, NEW opt \in Choices, NEW c \in Chapters
    PROVE  /\ ChapterEnd(boq, opt, c) \in Nat
           /\ ChapterEnd(boq, opt, c) = 0
                 \/ \E a \in ActivitiesOf(boq, opt, c) : ChapterEnd(boq, opt, c) = ActivityEnd(boq, opt, a)
           /\ \A a \in ActivitiesOf(boq, opt, c) : ChapterEnd(boq, opt, c) >= ActivityEnd(boq, opt, a)
  <1> DEFINE A == ActivitiesOf(boq, opt, c)
             f == [t \in Tasks |-> IF t \in A THEN ActivityEnd(boq, opt, t) ELSE 0]
             S == {f[t] : t \in A}
             E == {ActivityEnd(boq, opt, i) : i \in A}
  <1>1. A \in SUBSET Tasks /\ A \subseteq Activities
    BY BoqTyped DEF ActivitiesOf
  <1>2. \A a \in A : ActivityEnd(boq, opt, a) \in Nat
    BY <1>1, EndsOfActivities
  <1>3. S = E /\ S \in SUBSET Int /\ IsFiniteSet(S)
    <2>1. f \in [Tasks -> Int]
      BY <1>2
    <2>2. S \in SUBSET Int /\ IsFiniteSet(S)
      <3> HIDE DEF f, A
      <3> QED BY <1>1, <2>1, DatesOf
    <2> QED BY <1>1, <2>2
  <1> HIDE DEF S, A
  <1>4. IsFiniteSet({0} \cup E) /\ {0} \cup E \in SUBSET Int
    BY <1>3, FS_AddElement
  <1>5. Greatest({0} \cup E) \in {0} \cup E /\ \A y \in {0} \cup E : Greatest({0} \cup E) >= y
    BY <1>4, GreatestOf
  <1>6. ChapterEnd(boq, opt, c) = Greatest({0} \cup E) /\ A = ActivitiesOf(boq, opt, c)
    BY DEF ChapterEnd, A
  <1>7. \A a \in A : ActivityEnd(boq, opt, a) \in E
    OBVIOUS
  <1>8. \A y \in E : y \in Nat /\ \E a \in A : y = ActivityEnd(boq, opt, a)
    BY <1>2
  <1> DEFINE G == Greatest({0} \cup E)
  <1> HIDE DEF E, f
  <1>9. G \in Nat /\ (G = 0 \/ \E a \in A : G = ActivityEnd(boq, opt, a))
    BY <1>5, <1>8
  <1>10. \A a \in A : G >= ActivityEnd(boq, opt, a)
    BY <1>5, <1>7
  <1> HIDE DEF G
  <1>11. ChapterEnd(boq, opt, c) = G
    BY <1>6 DEF G
  <1> QED BY <1>6, <1>9, <1>10, <1>11

LEMMA GreatestIs ==
    ASSUME NEW S \in SUBSET Int, NEW x \in S, \A y \in S : x >= y
    PROVE  Greatest(S) = x
  <1>1. Greatest(S) \in S /\ \A y \in S : Greatest(S) >= y
    BY DEF Greatest
  <1> DEFINE g == Greatest(S)
  <1>2. g \in Int /\ x \in Int /\ g >= x /\ x >= g
    BY <1>1
  <1> HIDE DEF g
  <1>3. g = x
    BY <1>2
  <1> QED BY <1>3 DEF g

\* the items that become activities
Kept(boq, opt) == {a \in Activities : ~Omitted(boq[a], opt)}

LEMMA EndOfSchedule ==
    ASSUME NEW boq \in Boqs, NEW opt \in Choices
    PROVE  /\ ScheduleEnd(boq, opt) \in Nat
           /\ ScheduleEnd(boq, opt) = Greatest({0} \cup {ActivityEnd(boq, opt, a) : a \in Kept(boq, opt)})
  <1> DEFINE B == Kept(boq, opt)
             f == [t \in Tasks |-> IF t \in B THEN ActivityEnd(boq, opt, t) ELSE 0]
             S == {f[t] : t \in B}
             E == {ActivityEnd(boq, opt, a) : a \in B}
             X == Greatest({0} \cup E)
             C == {ChapterEnd(boq, opt, c) : c \in Emitted(boq, opt)}
  <1>1. B \in SUBSET Tasks /\ B \subseteq Activities
    BY BoqTyped DEF Kept
  <1>2. \A a \in B : ActivityEnd(boq, opt, a) \in Nat
    BY <1>1, EndsOfActivities
  <1>3. S = E /\ S \in SUBSET Int /\ IsFiniteSet(S)
    <2>1. f \in [Tasks -> Int]
      BY <1>2
    <2>2. S \in SUBSET Int /\ IsFiniteSet(S)
      <3> HIDE DEF f, B
      <3> QED BY <1>1, <2>1, DatesOf
    <2> QED BY <1>1, <2>2
  <1> HIDE DEF S
  <1>4. IsFiniteSet({0} \cup E) /\ {0} \cup E \in SUBSET Int
    BY <1>3, FS_AddElement
  <1>5. X \in {0} \cup E /\ \A y \in {0} \cup E : X >= y
    BY <1>4, GreatestOf
  <1>6. /\ \A a \in B : boq[a].ch \in Emitted(boq, opt) /\ a \in ActivitiesOf(boq, opt, boq[a].ch)
        /\ \A c \in Chapters : ActivitiesOf(boq, opt, c) \subseteq B
    BY BoqTyped DEF Emitted, ActivitiesOf, Kept, ItemRows
  <1>7. Emitted(boq, opt) \subseteq Chapters
    BY DEF Emitted
  <1> HIDE DEF B
  <1>8. ASSUME NEW c \in Emitted(boq, opt)
        PROVE  ChapterEnd(boq, opt, c) \in Nat /\ X >= ChapterEnd(boq, opt, c)
    <2>1. /\ ChapterEnd(boq, opt, c) \in Nat
          /\ ChapterEnd(boq, opt, c) \in {0} \cup E
      BY <1>6, <1>7, EndsOfChapters
    <2> QED BY <1>5, <2>1
  <1>9. X \in Nat
    BY <1>2, <1>5
  <1>10. X \in {0} \cup C
    <2>1. CASE X = 0
      BY <2>1
    <2>2. CASE X # 0
      <3>1. PICK a \in B : X = ActivityEnd(boq, opt, a)
        BY <1>5, <2>2
      <3> DEFINE c == boq[a].ch
      <3>2. c \in Emitted(boq, opt) /\ ChapterEnd(boq, opt, c) >= X
        BY <1>6, <1>7, <3>1, EndsOfChapters
      <3>3. ChapterEnd(boq, opt, c) = X
        <4> HIDE DEF c, X
        <4> QED BY <1>8, <1>9, <3>2
      <3> QED BY <3>2, <3>3
    <2> QED BY <2>1, <2>2
  <1> HIDE DEF X
  <1>11. \A y \in {0} \cup C : y \in Int /\ X >= y
    BY <1>8, <1>9
  <1>12. Greatest({0} \cup C) = X
    <2> HIDE DEF C
    <2> QED BY <1>10, <1>11, GreatestIs
  <1> QED BY <1>9, <1>12 DEF ScheduleEnd, X, B

-----------------------------------------------------------------------------
(* Creation *)

LEMMA PreviewTyped ==
    ASSUME NEW boq \in Boqs, NEW opt \in Choices
    PROVE  LET rs == PreviewTasks(boq, opt)
               cs == PreviewChapters(boq, opt)
           IN  /\ rs \in [Tasks -> Rows] /\ cs \in [Chapters -> Rows]
               /\ \A t \in Tasks : rs[t].start <= rs[t].end
               /\ \A t \in Milestones : rs[t].dur = 0 /\ rs[t].start = rs[t].end
  <1>1. ASSUME NEW t \in Tasks
        PROVE  LET r == PreviewTasks(boq, opt)[t]
               IN  /\ r \in Rows /\ r.start <= r.end
                   /\ t \in Milestones => r.dur = 0 /\ r.start = r.end
    <2>1. CASE t \in Activities /\ ~Omitted(boq[t], opt)
      <3>1. PreviewTasks(boq, opt)[t]
              = Row(0, ActivityEnd(boq, opt, t), EstimateActivityDuration(boq[t], opt))
        BY <2>1 DEF PreviewTasks, Milestones
      <3> QED BY <2>1, <3>1, EndsOfActivities DEF Row, Rows, Milestones
    <2>2. CASE t \in Milestones /\ opt.milestones /\ ChapterOf[t] \in Emitted(boq, opt)
      <3>1. PreviewTasks(boq, opt)[t]
              = Row(ChapterEnd(boq, opt, ChapterOf[t]), ChapterEnd(boq, opt, ChapterOf[t]), 0)
        BY <2>2 DEF PreviewTasks, Milestones
      <3>2. ChapterEnd(boq, opt, ChapterOf[t]) \in Nat
        BY EndsOfChapters, PlanningAssumption
      <3> QED BY <3>1, <3>2 DEF Row, Rows
    <2>3. CASE /\ ~(t \in Activities /\ ~Omitted(boq[t], opt))
               /\ ~(t \in Milestones /\ opt.milestones /\ ChapterOf[t] \in Emitted(boq, opt))
      <3>1. PreviewTasks(boq, opt)[t] = Missing
        BY <2>3 DEF PreviewTasks
      <3> QED BY <3>1 DEF Missing, Rows
    <2> QED BY <2>1, <2>2, <2>3
  <1>2. ASSUME NEW c \in Chapters PROVE PreviewChapters(boq, opt)[c] \in Rows
    <2>1. ChapterEnd(boq, opt, c) \in Nat
      BY EndsOfChapters
    <2> QED BY <2>1 DEF PreviewChapters, Row, Rows, Missing
  <1>3. PreviewTasks(boq, opt) \in [Tasks -> Rows]
    <2>1. PreviewTasks(boq, opt) = [t \in Tasks |-> PreviewTasks(boq, opt)[t]]
      BY DEF PreviewTasks
    <2> QED BY <1>1, <2>1
  <1>4. PreviewChapters(boq, opt) \in [Chapters -> Rows]
    <2>1. PreviewChapters(boq, opt) = [c \in Chapters |-> PreviewChapters(boq, opt)[c]]
      BY DEF PreviewChapters
    <2> QED BY <1>2, <2>1
  <1> QED BY <1>1, <1>3, <1>4 DEF Milestones

-----------------------------------------------------------------------------
(* Type correctness *)

Labels == {"idle", "insert", "listTasks", "listDependencies", "tasks", "chapters"}

\* what a request holds: dates in order, milestones without duration, a
\* dependency that passed its checks, chapters that have children
SessionOk(l, r, v, w) ==
    /\ l \in Labels /\ r \in Requests /\ v \in Views /\ w \in SUBSET (Tasks \cup Chapters)
    /\ \A t \in Tasks : v.start[t] <= v.end[t]
    /\ \A m \in Milestones : v.task[m].dur = 0 /\ v.start[m] = v.end[m]
    /\ l = "insert" => /\ r.pred \in Tasks /\ r.succ \in Tasks /\ r.kind \in Kinds /\ r.pred # r.succ
                       /\ ~DependencyWouldCreateCycle(v.dep, r.pred, r.succ)
    /\ l = "chapters" => \A c \in w : c \in Chapters /\ Children(v, c) # {}

SessionsOk ==
    /\ pc \in [Sessions -> Labels]
    /\ req \in [Sessions -> Requests]
    /\ view \in [Sessions -> Views]
    /\ todo \in [Sessions -> SUBSET (Tasks \cup Chapters)]
    /\ \A s \in Sessions : SessionOk(pc[s], req[s], view[s], todo[s])

StoredOk ==
    /\ schedule \in [in : BOOLEAN, end : Int]
    /\ task \in [Tasks -> Rows]
    /\ \A t \in Tasks : task[t].start <= task[t].end
    /\ \A t \in Milestones : task[t].dur = 0 /\ task[t].start = task[t].end
    /\ chapter \in [Chapters -> Rows]
    /\ dep \in Networks
    /\ edits \in 0 .. MaxEdits
    /\ alone \in SUBSET Sessions
    /\ settled \in BOOLEAN

TypeInv == StoredOk /\ SessionsOk

LEMMA TypeInvTypes == TypeInv => TypeOK
BY DEF TypeInv, StoredOk, SessionsOk, TypeOK, Labels

\* A request moves, and the others stay.
LEMMA OneMoves ==
    ASSUME SessionsOk, NEW s \in Sessions, NEW l, NEW r, NEW v, NEW w, SessionOk(l, r, v, w),
           pc' = [pc EXCEPT ![s] = l], req' = [req EXCEPT ![s] = r],
           view' = [view EXCEPT ![s] = v], todo' = [todo EXCEPT ![s] = w]
    PROVE  SessionsOk'
  <1>1. l \in Labels /\ r \in Requests /\ v \in Views /\ w \in SUBSET (Tasks \cup Chapters)
    BY DEF SessionOk
  <1>2. ASSUME NEW u \in Sessions PROVE SessionOk(pc'[u], req'[u], view'[u], todo'[u])
    <2>1. CASE u = s
      BY <2>1 DEF SessionsOk
    <2>2. CASE u # s
      BY <2>2 DEF SessionsOk
    <2> QED BY <2>1, <2>2
  <1>3. ASSUME NEW u \in Sessions PROVE SessionOk(pc[u], req[u], view[u], todo[u])'
    BY <1>2 DEF SessionOk
  <1> QED BY <1>1, <1>3 DEF SessionsOk

LEMMA OthersStay ==
    ASSUME SessionsOk, NEW s \in Sessions
    PROVE  /\ pc = [pc EXCEPT ![s] = pc[s]] /\ req = [req EXCEPT ![s] = req[s]]
           /\ view = [view EXCEPT ![s] = view[s]] /\ todo = [todo EXCEPT ![s] = todo[s]]
BY DEF SessionsOk

LEMMA EmptyNetwork == NoNetwork \in Networks
  <1>1. NoNetwork \in [Pairs -> Kinds \cup {NoDep}]
    BY DEF NoNetwork
  <1>2. \A t \in Tasks : <<t, t>> \in Pairs
    BY DEF Pairs
  <1> QED BY <1>1, <1>2 DEF Networks, NoNetwork

LEMMA IdleSession == SessionOk("idle", NoReq, NoView, {})
  <1>1. NoReq \in Requests
    BY DEF NoReq, Requests
  <1>2. NoView \in Views
    BY EmptyNetwork DEF NoView, Views, NoDates, Missing, Rows
  <1> QED BY <1>1, <1>2 DEF SessionOk, Labels, NoView, NoDates, Missing, Milestones

LEMMA FinishIsOk ==
    ASSUME SessionsOk, NEW s \in Sessions, Finish(s)
    PROVE  SessionsOk'
BY IdleSession, OneMoves DEF Finish, Goto

LEMMA InitTyped == Init => TypeInv
  <1> SUFFICES ASSUME Init PROVE TypeInv
    OBVIOUS
  <1> USE DEF Init
  <1>1. StoredOk
    <2>1. Missing \in Rows /\ Missing.dur = 0 /\ Missing.start = 0 /\ Missing.end = 0
      BY DEF Missing, Rows
    <2>2. 0 \in 0 .. MaxEdits
      BY PlanningAssumption
    <2>3. \A t \in Tasks : task[t] = Missing
      OBVIOUS
    <2>4. schedule \in [in : BOOLEAN, end : Int] /\ task \in [Tasks -> Rows] /\ chapter \in [Chapters -> Rows]
      BY <2>1
    <2>5. \A t \in Tasks : task[t].start <= task[t].end
      BY <2>1, <2>3
    <2>6. \A t \in Milestones : task[t].dur = 0 /\ task[t].start = task[t].end
      BY <2>1, <2>3 DEF Milestones
    <2>7. dep \in Networks /\ edits \in 0 .. MaxEdits /\ alone \in SUBSET Sessions /\ settled \in BOOLEAN
      BY EmptyNetwork, <2>2
    <2> QED BY <2>4, <2>5, <2>6, <2>7 DEF StoredOk
  <1>2. SessionsOk
    BY IdleSession DEF SessionsOk, SessionOk
  <1> QED BY <1>1, <1>2 DEF TypeInv

\* what recalcAndPersist computes from the rows of a schedule
LEMMA RowsInTyped ==
    ASSUME NEW rs \in [Tasks -> Rows], \A m \in Milestones : rs[m].dur = 0
    PROVE  RowsIn(rs) \in [Tasks -> TaskRows]
  <1>1. ASSUME NEW t \in Tasks PROVE RowsIn(rs)[t] \in TaskRows
    <2>1. RowsIn(rs)[t] = [dur |-> rs[t].dur, milestone |-> t \in Milestones]
      BY DEF RowsIn
    <2>2. rs[t].dur \in Nat /\ (t \in Milestones => rs[t].dur = 0)
      BY DEF Rows
    <2>3. CASE t \in Milestones
      <3>1. (t \in Milestones) = TRUE
        BY <2>3
      <3>2. RowsIn(rs)[t] = [dur |-> 0, milestone |-> TRUE]
        BY <2>1, <2>2, <2>3, <3>1
      <3> QED BY <3>2 DEF TaskRows
    <2>4. CASE t \notin Milestones
      <3>1. (t \in Milestones) = FALSE
        BY <2>4
      <3>2. RowsIn(rs)[t] = [dur |-> rs[t].dur, milestone |-> FALSE]
        BY <2>1, <3>1
      <3> QED BY <2>2, <3>2 DEF TaskRows
    <2> QED BY <2>3, <2>4
  <1>2. RowsIn(rs) = [t \in Tasks |-> RowsIn(rs)[t]]
    BY DEF RowsIn
  <1> QED BY <1>1, <1>2

LEMMA ComputedOk ==
    ASSUME SessionsOk, dep \in Networks, NEW s \in Sessions,
           Recalculated(RowsIn(view[s].task), dep).processed = Tasks
    PROVE  LET rs == RowsIn(view[s].task)
               at == Recalculated(rs, dep).at
           IN  /\ rs \in [Tasks -> TaskRows] /\ at \in [Tasks -> Int]
               /\ Respected(rs, dep, at) /\ \A t \in Tasks : Tight(rs, dep, at, t)
               /\ \A t \in Tasks : EndOf(rs, at, t) \in Int /\ at[t] <= EndOf(rs, at, t)
               /\ \A m \in Milestones : at[m] = EndOf(rs, at, m)
  <1> DEFINE rs == RowsIn(view[s].task)
             at == Recalculated(rs, dep).at
  <1>1. view[s].task \in [Tasks -> Rows] /\ \A m \in Milestones : view[s].task[m].dur = 0
    BY DEF SessionsOk, SessionOk, Views
  <1>2. rs \in [Tasks -> TaskRows]
    BY <1>1, RowsInTyped
  <1>3. \A t \in Tasks : rs[t].dur = view[s].task[t].dur /\ rs[t].dur \in Nat
    BY <1>1 DEF RowsIn, Rows
  <1>4. at \in [Tasks -> Int] /\ Respected(rs, dep, at) /\ \A t \in Tasks : Tight(rs, dep, at, t)
    <2> HIDE DEF rs
    <2>1. Recalculated(rs, dep).processed = Tasks
      BY DEF rs
    <2> QED BY <1>2, <2>1, RecalculatedIsRight
  <1> HIDE DEF at, rs
  <1>5. \A t \in Tasks : EndOf(rs, at, t) \in Int /\ at[t] <= EndOf(rs, at, t)
    BY <1>3, <1>4 DEF EndOf, EndIndex
  <1>6. \A m \in Milestones : at[m] = EndOf(rs, at, m)
    BY <1>1, <1>3, <1>4 DEF EndOf, EndIndex, Milestones
  <1> QED BY <1>2, <1>4, <1>5, <1>6 DEF at, rs

\* the span of a chapter that has children
LEMMA SpanOk ==
    ASSUME NEW v \in Views, \A t \in Tasks : v.start[t] <= v.end[t], NEW c, Children(v, c) # {}
    PROVE  LET A == Children(v, c)
           IN  /\ Span(v, c) \in Rows
               /\ Span(v, c).start = Least({v.start[t] : t \in A})
               /\ Span(v, c).end = Greatest({v.end[t] : t \in A})
               /\ Span(v, c).dur = Span(v, c).end - Span(v, c).start + 1
               /\ Span(v, c).in
  <1> DEFINE A == Children(v, c)
             F == {v.start[t] : t \in A}
             G == {v.end[t] : t \in A}
             x == Least(F)
             y == Greatest(G)
  <1>1. A \in SUBSET Tasks /\ v.start \in [Tasks -> Int] /\ v.end \in [Tasks -> Int]
    BY DEF Children, Views
  <1> HIDE DEF A
  <1>2. A # {}
    BY DEF A
  <1>3. F \in SUBSET Int /\ IsFiniteSet(F) /\ F # {} /\ G \in SUBSET Int /\ IsFiniteSet(G) /\ G # {}
    BY <1>1, <1>2, DatesOf
  <1>4. PICK t \in A : t \in Tasks
    BY <1>1, <1>2
  <1>5. v.start[t] \in F /\ v.end[t] \in G /\ v.start[t] <= v.end[t] /\ v.start[t] \in Int /\ v.end[t] \in Int
    BY <1>1, <1>4
  <1> HIDE DEF F, G
  <1>6. x \in Int /\ x <= v.start[t]
    BY <1>3, <1>5, LeastOf
  <1>7. y \in Int /\ y >= v.end[t]
    BY <1>3, <1>5, GreatestOf
  <1> HIDE DEF x, y
  <1>8. y - x + 1 \in Nat
    BY <1>5, <1>6, <1>7
  <1>9. Span(v, c) = Row(x, y, y - x + 1)
    BY DEF Span, x, y, F, G, A
  <1>10. x = Least({v.start[u] : u \in Children(v, c)}) /\ y = Greatest({v.end[u] : u \in Children(v, c)})
    BY DEF x, y, F, G, A
  <1> QED BY <1>6, <1>7, <1>8, <1>9, <1>10 DEF Row, Rows

LEMMA EndDateIsInteger ==
    ASSUME NEW v \in Views
    PROVE  Greatest({0} \cup {v.end[t] : t \in {u \in Tasks : v.task[u].in}}) \in Int
  <1> DEFINE A == {u \in Tasks : v.task[u].in}
             E == {v.end[t] : t \in A}
  <1>1. A \in SUBSET Tasks /\ v.end \in [Tasks -> Int]
    BY DEF Views
  <1> HIDE DEF A
  <1>2. E \in SUBSET Int /\ IsFiniteSet(E)
    BY <1>1, DatesOf
  <1> HIDE DEF E
  <1>3. {0} \cup E \in SUBSET Int /\ IsFiniteSet({0} \cup E) /\ {0} \cup E # {}
    BY <1>2, FS_AddElement
  <1>4. Greatest({0} \cup E) \in Int
    BY <1>3, GreatestOf
  <1> QED BY <1>4 DEF E, A

LEMMA DatedRow ==
    ASSUME NEW x \in Rows, NEW a \in Int, NEW b \in Int
    PROVE  [x EXCEPT !.start = a, !.end = b] \in Rows
BY DEF Rows

LEMMA CreateTyped ==
    ASSUME TypeInv, NEW boq \in Boqs, NEW opt \in Choices, CreateScheduleFromBoq(boq, opt)
    PROVE  TypeInv'
  <1>1. /\ schedule' = [in |-> TRUE, end |-> ScheduleEnd(boq, opt)]
        /\ task' = PreviewTasks(boq, opt) /\ chapter' = PreviewChapters(boq, opt)
        /\ UNCHANGED <<dep, edits, alone, settled>>
        /\ UNCHANGED <<pc, req, view, todo>>
    BY DEF CreateScheduleFromBoq
  <1>2. ScheduleEnd(boq, opt) \in Int
    <2>1. ScheduleEnd(boq, opt) \in Nat
      BY EndOfSchedule
    <2> QED BY <2>1
  <1>3. StoredOk'
    BY <1>1, <1>2, PreviewTyped DEF TypeInv, StoredOk
  <1>4. SessionsOk'
    BY <1>1 DEF TypeInv, SessionsOk, SessionOk
  <1> QED BY <1>3, <1>4 DEF TypeInv

LEMMA EditsTyped ==
    ASSUME TypeInv, NEW s \in Sessions,
           \/ \E t \in Tasks, n \in Durations : UpdateScheduleTask(s, t, n)
           \/ \E p, q \in Tasks, k \in Offered : ReadDependencies(s, p, q, k)
           \/ InsertDependency(s)
           \/ AbandonInsert(s)
    PROVE  TypeInv'
  <1>0. StoredOk /\ SessionsOk /\ SessionOk(pc[s], req[s], view[s], todo[s])
    BY DEF TypeInv, SessionsOk
  <1>1. ASSUME NEW t \in Tasks, NEW n \in Durations, UpdateScheduleTask(s, t, n) PROVE TypeInv'
    <2>1. /\ task[t].in /\ t \notin Milestones /\ edits < MaxEdits /\ pc[s] = "idle"
          /\ task' = [task EXCEPT ![t].dur = n] /\ edits' = edits + 1
          /\ alone' = alone \cap {s} /\ settled' = FALSE
          /\ UNCHANGED <<schedule, chapter, dep>>
      BY <1>1 DEF UpdateScheduleTask, Disturb
    <2>2. n \in Nat
      BY PlanningAssumption
    <2>3. task' \in [Tasks -> Rows]
      BY <1>0, <2>1, <2>2 DEF StoredOk, Rows
    <2>4. \A u \in Tasks : /\ task'[u].start = task[u].start /\ task'[u].end = task[u].end
                           /\ u # t => task'[u].dur = task[u].dur
      BY <1>0, <2>1 DEF StoredOk, Rows
    <2>5. edits' \in 0 .. MaxEdits
      BY <1>0, <2>1, PlanningAssumption DEF StoredOk
    <2>6. StoredOk'
      BY <1>0, <2>1, <2>3, <2>4, <2>5 DEF StoredOk, Milestones
    <2> DEFINE r == [req[s] EXCEPT !.op = "update"]
    <2>7. pc' = [pc EXCEPT ![s] = "listTasks"] /\ req' = [req EXCEPT ![s] = r] /\ UNCHANGED <<view, todo>>
      BY <1>0, <1>1 DEF UpdateScheduleTask, Goto, SessionsOk
    <2>8. r \in Requests
      BY <1>0 DEF SessionOk, Requests
    <2> HIDE DEF r
    <2>9. SessionOk("listTasks", r, view[s], todo[s])
      BY <1>0, <2>8 DEF SessionOk, Labels
    <2>10. SessionsOk'
      <3> DEFINE v == view[s]
                 w == todo[s]
      <3>1. view' = [view EXCEPT ![s] = v] /\ todo' = [todo EXCEPT ![s] = w] /\ SessionOk("listTasks", r, v, w)
        BY <1>0, <2>7, <2>9, OthersStay
      <3> HIDE DEF v, w
      <3> QED BY <1>0, <2>7, <3>1, OneMoves
    <2> QED BY <2>6, <2>10 DEF TypeInv
  <1>2. ASSUME NEW p \in Tasks, NEW q \in Tasks, NEW k \in Offered, ReadDependencies(s, p, q, k)
        PROVE  TypeInv'
    <2> DEFINE r == [op |-> "add", pred |-> p, succ |-> q, kind |-> k]
               v == [view[s] EXCEPT !.dep = dep]
    <2>1. /\ p # q /\ ~DependencyWouldCreateCycle(dep, p, q)
          /\ UNCHANGED <<schedule, task, chapter, dep, edits, alone, settled>>
      BY <1>2 DEF ReadDependencies
    <2>2. /\ pc' = [pc EXCEPT ![s] = "insert"] /\ req' = [req EXCEPT ![s] = r]
          /\ view' = [view EXCEPT ![s] = v] /\ UNCHANGED todo
      BY <1>0, <1>2 DEF ReadDependencies, Goto, SessionsOk
    <2>3. r \in Requests /\ r.pred = p /\ r.succ = q /\ r.kind = k /\ k \in Kinds
      BY PlanningAssumption DEF Requests
    <2>4. /\ v \in Views /\ v.dep = dep /\ v.task = view[s].task
          /\ v.start = view[s].start /\ v.end = view[s].end
      BY <1>0 DEF SessionOk, StoredOk, Views
    <2>5. SessionOk("insert", r, v, todo[s])
      <3> HIDE DEF r, v
      <3> QED BY <1>0, <2>1, <2>3, <2>4 DEF SessionOk, Labels
    <2>6. SessionsOk'
      <3> HIDE DEF r, v
      <3> QED BY <1>0, <2>2, <2>5, OneMoves, OthersStay
    <2>7. StoredOk'
      BY <1>0, <2>1 DEF StoredOk
    <2> QED BY <2>6, <2>7 DEF TypeInv
  <1>3. CASE InsertDependency(s)
    <2> DEFINE r == req[s]
    <2>1. /\ pc[s] = "insert" /\ edits < MaxEdits
          /\ dep' = Inserted(dep, r.pred, r.succ, r.kind) /\ edits' = edits + 1
          /\ alone' = alone \cap {s} /\ settled' = FALSE
          /\ UNCHANGED <<schedule, task, chapter>>
      BY <1>3 DEF InsertDependency, Disturb
    <2>2. dep' \in Networks
      BY <1>0, <2>1, InsertedIsANetwork DEF SessionOk, StoredOk
    <2>3. edits' \in 0 .. MaxEdits
      BY <1>0, <2>1, PlanningAssumption DEF StoredOk
    <2>4. StoredOk'
      BY <1>0, <2>1, <2>2, <2>3 DEF StoredOk
    <2>5. pc' = [pc EXCEPT ![s] = "listTasks"] /\ UNCHANGED <<req, view, todo>>
      BY <1>3 DEF InsertDependency, Goto
    <2>6. SessionOk("listTasks", req[s], view[s], todo[s])
      BY <1>0 DEF SessionOk, Labels
    <2>7. SessionsOk'
      <3> DEFINE v == view[s]
                 w == todo[s]
      <3>1. /\ req' = [req EXCEPT ![s] = r] /\ view' = [view EXCEPT ![s] = v] /\ todo' = [todo EXCEPT ![s] = w]
            /\ SessionOk("listTasks", r, v, w)
        BY <1>0, <2>5, <2>6, OthersStay
      <3> HIDE DEF r, v, w
      <3> QED BY <1>0, <2>5, <3>1, OneMoves
    <2> QED BY <2>4, <2>7 DEF TypeInv
  <1>4. CASE AbandonInsert(s)
    <2>1. Finish(s) /\ UNCHANGED <<schedule, task, chapter, dep, edits, alone, settled>>
      BY <1>4 DEF AbandonInsert
    <2> QED BY <1>0, <2>1, FinishIsOk DEF TypeInv, StoredOk
  <1> QED BY <1>1, <1>2, <1>3, <1>4

LEMMA ReadsTyped ==
    ASSUME TypeInv, NEW s \in Sessions, ListTasks(s) \/ ListDependencies(s) \/ TurnToChapters(s)
    PROVE  TypeInv'
  <1>0. StoredOk /\ SessionsOk /\ SessionOk(pc[s], req[s], view[s], todo[s])
    BY DEF TypeInv, SessionsOk
  <1>1. CASE ListTasks(s)
    <2> DEFINE v == [view[s] EXCEPT !.task = task]
    <2>1. /\ pc' = [pc EXCEPT ![s] = "listDependencies"] /\ view' = [view EXCEPT ![s] = v]
          /\ UNCHANGED <<req, todo>>
      BY <1>0, <1>1 DEF ListTasks, Goto, SessionsOk
    <2>2. /\ v \in Views /\ v.task = task /\ v.start = view[s].start /\ v.end = view[s].end
      BY <1>0 DEF SessionOk, StoredOk, Views
    <2>3. SessionOk("listDependencies", req[s], v, todo[s])
      <3> HIDE DEF v
      <3> QED BY <1>0, <2>2 DEF SessionOk, StoredOk, Labels
    <2>4. SessionsOk'
      <3> HIDE DEF v
      <3>1. req' = [req EXCEPT ![s] = req[s]] /\ todo' = [todo EXCEPT ![s] = todo[s]]
        BY <1>0, <2>1, OthersStay
      <3> QED BY <1>0, <2>1, <2>3, <3>1, OneMoves
    <2>5. StoredOk'
      BY <1>0, <1>1 DEF StoredOk, ListTasks
    <2> QED BY <2>4, <2>5 DEF TypeInv
  <1>2. CASE ListDependencies(s)
    <2> DEFINE rs == RowsIn(view[s].task)
               l  == Recalculated(rs, dep)
               v  == [view[s] EXCEPT !.dep = dep, !.start = l.at, !.end = [t \in Tasks |-> EndOf(rs, l.at, t)]]
               w  == {t \in Tasks : Differs(v, t)}
    <2>1. CASE l.processed = Tasks
      <3>1. /\ pc' = [pc EXCEPT ![s] = "tasks"] /\ view' = [view EXCEPT ![s] = v]
            /\ todo' = [todo EXCEPT ![s] = w] /\ UNCHANGED req
        BY <1>2, <2>1 DEF ListDependencies, Goto
      <3>2. /\ l.at \in [Tasks -> Int]
            /\ \A t \in Tasks : EndOf(rs, l.at, t) \in Int /\ l.at[t] <= EndOf(rs, l.at, t)
            /\ \A m \in Milestones : l.at[m] = EndOf(rs, l.at, m)
        BY <1>0, <2>1, ComputedOk DEF StoredOk
      <3> HIDE DEF l, rs
      <3>3. /\ v \in Views /\ v.task = view[s].task /\ v.start = l.at
            /\ \A t \in Tasks : v.end[t] = EndOf(rs, l.at, t)
        BY <1>0, <3>2 DEF SessionOk, StoredOk, Views
      <3> HIDE DEF v
      <3>4. SessionOk("tasks", req[s], v, w)
        BY <1>0, <3>2, <3>3 DEF SessionOk, Labels, Milestones
      <3> HIDE DEF w
      <3> QED BY <1>0, <1>2, <3>1, <3>4, OneMoves, OthersStay DEF TypeInv, StoredOk, ListDependencies
    <2>2. CASE l.processed # Tasks
      <3>1. Finish(s) /\ alone' = alone \ {s} /\ UNCHANGED <<schedule, task, chapter, dep, edits, settled>>
        BY <1>2, <2>2 DEF ListDependencies
      <3> HIDE DEF l, v, w, rs
      <3> QED BY <1>0, <3>1, FinishIsOk DEF TypeInv, StoredOk
    <2> QED BY <2>1, <2>2
  <1>3. CASE TurnToChapters(s)
    <2> DEFINE w == {c \in Chapters : chapter[c].in /\ Children(view[s], c) # {}}
    <2>1. pc' = [pc EXCEPT ![s] = "chapters"] /\ todo' = [todo EXCEPT ![s] = w] /\ UNCHANGED <<req, view>>
      BY <1>3 DEF TurnToChapters, Goto
    <2>2. SessionOk("chapters", req[s], view[s], w)
      BY <1>0 DEF SessionOk, Labels
    <2> HIDE DEF w
    <2>3. SessionsOk'
      BY <1>0, <2>1, <2>2, OneMoves, OthersStay
    <2>4. StoredOk'
      BY <1>0, <1>3 DEF StoredOk, TurnToChapters
    <2> QED BY <2>3, <2>4 DEF TypeInv
  <1> QED BY <1>1, <1>2, <1>3

LEMMA WritesTyped ==
    ASSUME TypeInv, NEW s \in Sessions,
           \/ \E t \in Tasks : WriteTask(s, t)
           \/ \E c \in Chapters : WriteChapter(s, c)
           \/ \E x \in Tasks \cup Chapters : WriteFails(s, x)
           \/ SetScheduleEndDate(s)
           \/ Die(s)
    PROVE  TypeInv'
  <1>0. StoredOk /\ SessionsOk /\ SessionOk(pc[s], req[s], view[s], todo[s])
    BY DEF TypeInv, SessionsOk
  <1>a. \A x : SessionOk(pc[s], req[s], view[s], todo[s] \ {x})
    BY <1>0 DEF SessionOk
  <1>b. ASSUME NEW x, todo' = [todo EXCEPT ![s] = @ \ {x}], UNCHANGED <<pc, req, view>>
        PROVE  SessionsOk'
    <2>1. pc' = [pc EXCEPT ![s] = pc[s]] /\ req' = [req EXCEPT ![s] = req[s]] /\ view' = [view EXCEPT ![s] = view[s]]
      BY <1>0, <1>b, OthersStay
    <2>2. todo' = [todo EXCEPT ![s] = todo[s] \ {x}]
      BY <1>b
    <2> QED BY <1>0, <1>a, <2>1, <2>2, OneMoves
  <1>1. ASSUME NEW t \in Tasks, WriteTask(s, t) PROVE TypeInv'
    <2>1. /\ task' = [task EXCEPT ![t].start = view[s].start[t], ![t].end = view[s].end[t]]
          /\ UNCHANGED <<schedule, chapter, dep, edits>>
          /\ alone' = alone \cap {s} /\ settled' = FALSE
      BY <1>1 DEF WriteTask, Disturb
    <2>2. /\ view[s].start[t] \in Int /\ view[s].end[t] \in Int /\ view[s].start[t] <= view[s].end[t]
          /\ t \in Milestones => view[s].start[t] = view[s].end[t]
      BY <1>0 DEF SessionOk, Views
    <2>3. task' \in [Tasks -> Rows]
      <3>2. task[t] \in Rows /\ task \in [Tasks -> Rows]
        BY <1>0 DEF StoredOk
      <3>3. task'[t] = [task[t] EXCEPT !.start = view[s].start[t], !.end = view[s].end[t]]
        BY <2>1, <3>2
      <3>5. task'[t] \in Rows
        <4> DEFINE x == task[t]
                   a == view[s].start[t]
                   b == view[s].end[t]
        <4>1. x \in Rows /\ a \in Int /\ b \in Int /\ task'[t] = [x EXCEPT !.start = a, !.end = b]
          BY <2>2, <3>2, <3>3
        <4> HIDE DEF x, a, b
        <4> QED BY <4>1, DatedRow
      <3>6. task' \in [Tasks -> {task'[u] : u \in Tasks}] /\ \A u \in Tasks \ {t} : task'[u] = task[u]
        BY <2>1, <3>2
      <3>7. \A u \in Tasks : task'[u] \in Rows
        BY <3>2, <3>5, <3>6
      <3> QED BY <3>6, <3>7
    <2>4. /\ task'[t].start = view[s].start[t] /\ task'[t].end = view[s].end[t] /\ task'[t].dur = task[t].dur
          /\ \A u \in Tasks \ {t} : task'[u] = task[u]
      BY <1>0, <2>1 DEF StoredOk, Rows
    <2>5. StoredOk'
      BY <1>0, <2>1, <2>2, <2>3, <2>4 DEF StoredOk, Milestones
    <2>6. SessionsOk'
      BY <1>1, <1>b DEF WriteTask
    <2> QED BY <2>5, <2>6 DEF TypeInv
  <1>2. ASSUME NEW c \in Chapters, WriteChapter(s, c) PROVE TypeInv'
    <2>1. Span(view[s], c) \in Rows
      BY <1>0, <1>2, SpanOk DEF SessionOk, WriteChapter
    <2>2. StoredOk'
      BY <1>0, <1>2, <2>1 DEF WriteChapter, Disturb, StoredOk
    <2>3. SessionsOk'
      BY <1>2, <1>b DEF WriteChapter
    <2> QED BY <2>2, <2>3 DEF TypeInv
  <1>3. ASSUME NEW x \in Tasks \cup Chapters, WriteFails(s, x) PROVE TypeInv'
    <2>1. StoredOk'
      BY <1>0, <1>3 DEF StoredOk, WriteFails
    <2>2. SessionsOk'
      BY <1>3, <1>b DEF WriteFails
    <2> QED BY <2>1, <2>2 DEF TypeInv
  <1>4. CASE SetScheduleEndDate(s)
    <2> DEFINE e == Greatest({0} \cup {view[s].end[t] : t \in {u \in Tasks : view[s].task[u].in}})
    <2>1. e \in Int
      BY <1>0, EndDateIsInteger DEF SessionOk
    <2>2. /\ \/ schedule' = [schedule EXCEPT !.end = e] /\ settled' = (s \in alone)
             \/ UNCHANGED <<schedule, settled>>
          /\ Finish(s) /\ alone' = {} /\ UNCHANGED <<task, chapter, dep, edits>>
      BY <1>4 DEF SetScheduleEndDate
    <2> HIDE DEF e
    <2>3. settled' \in BOOLEAN
      <3>1. (s \in alone) \in BOOLEAN
        OBVIOUS
      <3> QED BY <1>0, <2>2, <3>1, Zenon DEF StoredOk
    <2>4. schedule' \in [in : BOOLEAN, end : Int]
      BY <1>0, <2>1, <2>2 DEF StoredOk
    <2> QED BY <1>0, <2>2, <2>3, <2>4, FinishIsOk DEF TypeInv, StoredOk
  <1>5. CASE Die(s)
    <2>1. Finish(s) /\ alone' = alone \ {s} /\ UNCHANGED <<schedule, task, chapter, dep, edits, settled>>
      BY <1>5 DEF Die
    <2> QED BY <1>0, <2>1, FinishIsOk DEF TypeInv, StoredOk
  <1> QED BY <1>1, <1>2, <1>3, <1>4, <1>5

LEMMA NextTyped == TypeInv /\ [Next]_vars => TypeInv'
  <1> SUFFICES ASSUME TypeInv, [Next]_vars PROVE TypeInv'
    OBVIOUS
  <1>1. CASE UNCHANGED vars
    BY <1>1 DEF vars, TypeInv, StoredOk, SessionsOk, SessionOk
  <1>2. CASE Next
    BY <1>2, CreateTyped, EditsTyped, ReadsTyped, WritesTyped DEF Next
  <1> QED BY <1>1, <1>2

\* The rows, the requests and what they hold keep their types; tasks end no
\* earlier than they start, and milestones last no time.
THEOREM TypeCorrect == Spec => []TypeOK
  <1>1. Spec => []TypeInv
    BY InitTyped, NextTyped, PTL DEF Spec
  <1> QED BY <1>1, TypeInvTypes, PTL

-----------------------------------------------------------------------------
(* Cycles *)

\* addScheduleDependency checks for a cycle before it inserts, in a call of its
\* own: only an insertion between the two can make it wrong, whatever the
\* number of requests and the network.
THEOREM CyclesNeedOverlap == Spec => CycleNeedsOverlap
  <1> DEFINE Stale == \E s \in Sessions : pc[s] = "insert" /\ pc'[s] # "insert" /\ view[s].dep # dep
  <1>1. TypeInv /\ [Next]_vars => [HasCycle(dep') => HasCycle(dep) \/ Stale]_vars
    <2> SUFFICES ASSUME TypeInv, Next, HasCycle(dep'), ~HasCycle(dep) PROVE Stale
      OBVIOUS
    <2>1. dep' # dep
      OBVIOUS
    <2>2. PICK s \in Sessions : InsertDependency(s)
      BY <2>1, Zenon DEF Next, CreateScheduleFromBoq, UpdateScheduleTask, ReadDependencies, AbandonInsert,
         ListTasks, ListDependencies, WriteTask, TurnToChapters, WriteChapter, WriteFails,
         SetScheduleEndDate, Die
    <2> DEFINE r == req[s]
    <2>3. /\ pc[s] = "insert" /\ dep' = Inserted(dep, r.pred, r.succ, r.kind)
          /\ pc' = [pc EXCEPT ![s] = "listTasks"]
      BY <2>2 DEF InsertDependency, Goto
    <2>4. pc'[s] # "insert"
      BY <2>3 DEF TypeInv, SessionsOk
    <2>5. /\ r.pred \in Tasks /\ r.succ \in Tasks /\ r.kind.type # "none" /\ dep \in Networks
          /\ ~DependencyWouldCreateCycle(view[s].dep, r.pred, r.succ)
      BY <2>3 DEF TypeInv, SessionsOk, SessionOk, StoredOk, Kinds, Types
    <2>6. DependencyWouldCreateCycle(dep, r.pred, r.succ)
      <3> DEFINE p == r.pred
                 q == r.succ
                 k == r.kind
      <3>1. p \in Tasks /\ q \in Tasks /\ k.type # "none" /\ dep' = Inserted(dep, p, q, k)
        BY <2>3, <2>5
      <3> HIDE DEF p, q, k
      <3>2. DependencyWouldCreateCycle(dep, p, q)
        BY <2>5, <3>1, SearchIsExact
      <3> QED BY <3>2 DEF p, q
    <2>7. view[s].dep # dep
      BY <2>5, <2>6
    <2> QED BY <2>3, <2>4, <2>7
  <1>2. Spec => []TypeInv
    BY InitTyped, NextTyped, PTL DEF Spec
  <1> QED BY <1>1, <1>2, PTL DEF Spec, CycleNeedsOverlap

-----------------------------------------------------------------------------
(* Which rows there are *)

Acts(s) ==
    \/ \E t \in Tasks, n \in Durations : UpdateScheduleTask(s, t, n)
    \/ \E p, q \in Tasks, k \in Offered : ReadDependencies(s, p, q, k)
    \/ InsertDependency(s)
    \/ AbandonInsert(s)
    \/ ListTasks(s)
    \/ ListDependencies(s)
    \/ \E t \in Tasks : WriteTask(s, t)
    \/ TurnToChapters(s)
    \/ \E c \in Chapters : WriteChapter(s, c)
    \/ \E x \in Tasks \cup Chapters : WriteFails(s, x)
    \/ SetScheduleEndDate(s)
    \/ Die(s)

LEMMA NextIsCreationOrARequest ==
    Next => \/ \E boq \in Boqs, opt \in Choices : CreateScheduleFromBoq(boq, opt)
            \/ \E s \in Sessions : Acts(s)
BY DEF Next, Acts

\* Rows appear with the schedule, dependencies join rows of it, and a chapter
\* of it has a task.
RowInv ==
    /\ \A t \in Tasks : task[t].in => schedule.in
    /\ \A p, q \in Tasks : Edge(dep, p, q) => task[p].in /\ task[q].in
    /\ \A c \in Chapters : chapter[c].in => \E t \in Tasks : task[t].in /\ ChapterOf[t] = c
    /\ \A s \in Sessions :
         /\ pc[s] # "idle" => schedule.in
         /\ pc[s] = "insert" => task[req[s].pred].in /\ task[req[s].succ].in
         /\ pc[s] = "chapters" => \A c \in todo[s] : chapter[c].in
    /\ settled => schedule.in

\* only creation makes rows
SameRows ==
    /\ schedule.in /\ schedule'.in
    /\ \A t \in Tasks : task'[t].in = task[t].in
    /\ \A c \in Chapters : chapter'[c].in = chapter[c].in

\* what a request does leaves the others where they are
Stay(s) == \A u \in Sessions \ {s} :
    pc'[u] = pc[u] /\ req'[u] = req[u] /\ view'[u] = view[u] /\ todo'[u] = todo[u]

LEMMA InitRows == Init => RowInv
  <1> SUFFICES ASSUME Init PROVE RowInv
    OBVIOUS
  <1>1. \A t \in Tasks : ~task[t].in
    BY DEF Init, Missing
  <1>2. \A c \in Chapters : ~chapter[c].in
    BY DEF Init, Missing
  <1>3. \A p, q \in Tasks : ~Edge(dep, p, q)
    BY DEF Init, NoNetwork, Edge, NoDep, Pairs
  <1> QED BY <1>1, <1>2, <1>3 DEF RowInv, Init

LEMMA CreatedRows ==
    ASSUME TypeInv, RowInv, NEW boq \in Boqs, NEW opt \in Choices, CreateScheduleFromBoq(boq, opt)
    PROVE  RowInv'
  <1>1. /\ ~schedule.in /\ schedule' = [in |-> TRUE, end |-> ScheduleEnd(boq, opt)]
        /\ task' = PreviewTasks(boq, opt) /\ chapter' = PreviewChapters(boq, opt)
        /\ UNCHANGED <<dep, pc, req, todo, settled>>
    BY DEF CreateScheduleFromBoq
  <1>2. /\ \A p, q \in Tasks : ~Edge(dep, p, q)
        /\ \A s \in Sessions : pc[s] = "idle"
    BY <1>1 DEF RowInv
  <1>3. ASSUME NEW c \in Chapters, chapter'[c].in PROVE \E t \in Tasks : task'[t].in /\ ChapterOf[t] = c
    <2>1. c \in Emitted(boq, opt)
      BY <1>1, <1>3 DEF PreviewChapters, Missing
    <2>2. PICK a \in Activities : boq[a].ch = c /\ ~Omitted(boq[a], opt)
      BY <2>1, BoqTyped DEF Emitted, ActivitiesOf
    <2>3. a \in Tasks /\ ChapterOf[a] = c
      BY <2>2, BoqTyped
    <2>4. task'[a] = Row(0, ActivityEnd(boq, opt, a), EstimateActivityDuration(boq[a], opt))
      BY <1>1, <2>2, <2>3 DEF PreviewTasks, Milestones
    <2> QED BY <2>3, <2>4 DEF Row
  <1>4. \A p, q \in Tasks : ~Edge(dep', p, q)
    BY <1>1, <1>2
  <1>5. \A s \in Sessions : pc'[s] = "idle"
    BY <1>1, <1>2
  <1> QED BY <1>1, <1>3, <1>4, <1>5 DEF RowInv

LEMMA FinishStays ==
    ASSUME SessionsOk, NEW s \in Sessions, Finish(s)
    PROVE  Stay(s) /\ pc'[s] = "idle"
BY DEF SessionsOk, Finish, Goto, Stay

LEMMA ActsKeepRows ==
    ASSUME TypeInv, RowInv, NEW s \in Sessions, Acts(s)
    PROVE  SameRows /\ Stay(s)
  <1> USE DEF TypeInv
  <1>1. ASSUME NEW t \in Tasks, NEW n \in Durations, UpdateScheduleTask(s, t, n) PROVE SameRows /\ Stay(s)
    BY <1>1 DEF UpdateScheduleTask, Goto, SameRows, Stay, SessionsOk, StoredOk, RowInv, Rows
  <1>2. ASSUME NEW p \in Tasks, NEW q \in Tasks, NEW k \in Offered, ReadDependencies(s, p, q, k)
        PROVE  SameRows /\ Stay(s)
    BY <1>2 DEF ReadDependencies, Goto, SameRows, Stay, SessionsOk, StoredOk, RowInv
  <1>3. CASE InsertDependency(s)
    BY <1>3 DEF InsertDependency, Goto, SameRows, Stay, SessionsOk, StoredOk, RowInv
  <1>4. CASE AbandonInsert(s)
    BY <1>4, FinishStays DEF AbandonInsert, SameRows, RowInv
  <1>5. CASE ListTasks(s)
    BY <1>5 DEF ListTasks, Goto, SameRows, Stay, SessionsOk, StoredOk, RowInv
  <1>6. CASE ListDependencies(s)
    <2>1. UNCHANGED <<schedule, task, chapter>> /\ pc[s] = "listDependencies"
      BY <1>6 DEF ListDependencies
    <2>2. SameRows
      BY <2>1 DEF SameRows, RowInv
    <2>3. Stay(s)
      <3>1. CASE Finish(s)
        BY <3>1, FinishStays
      <3>2. CASE ~Finish(s)
        <4> DEFINE rs == RowsIn(view[s].task)
                   l  == Recalculated(rs, dep)
                   v  == [view[s] EXCEPT !.dep = dep, !.start = l.at, !.end = [t \in Tasks |-> EndOf(rs, l.at, t)]]
                   w  == {t \in Tasks : Differs(v, t)}
        <4>1. /\ pc' = [pc EXCEPT ![s] = "tasks"] /\ view' = [view EXCEPT ![s] = v]
              /\ todo' = [todo EXCEPT ![s] = w] /\ UNCHANGED req
          BY <1>6, <3>2 DEF ListDependencies, Goto
        <4> HIDE DEF v, w
        <4> QED BY <4>1 DEF Stay, SessionsOk
      <3> QED BY <3>1, <3>2
    <2> QED BY <2>2, <2>3
  <1>7. ASSUME NEW t \in Tasks, WriteTask(s, t) PROVE SameRows /\ Stay(s)
    BY <1>7 DEF WriteTask, SameRows, Stay, SessionsOk, StoredOk, RowInv, Rows
  <1>8. CASE TurnToChapters(s)
    BY <1>8 DEF TurnToChapters, Goto, SameRows, Stay, SessionsOk, StoredOk, RowInv
  <1>9. ASSUME NEW c \in Chapters, WriteChapter(s, c) PROVE SameRows /\ Stay(s)
    <2>1. /\ pc[s] = "chapters" /\ c \in todo[s]
          /\ chapter' = [chapter EXCEPT ![c] = Span(view[s], c)] /\ todo' = [todo EXCEPT ![s] = @ \ {c}]
          /\ UNCHANGED <<schedule, task, pc, req, view>>
      BY <1>9 DEF WriteChapter
    <2>2. chapter[c].in /\ Span(view[s], c).in
      BY <2>1 DEF RowInv, Span, Row
    <2>3. \A b \in Chapters : chapter'[b].in = chapter[b].in
      <3>1. chapter'[c].in = TRUE /\ chapter[c].in = TRUE
        BY <2>1, <2>2 DEF StoredOk, Rows, Span, Row
      <3> QED BY <2>1, <3>1 DEF StoredOk
    <2> QED BY <2>1, <2>3 DEF SameRows, Stay, SessionsOk, RowInv
  <1>10. ASSUME NEW x \in Tasks \cup Chapters, WriteFails(s, x) PROVE SameRows /\ Stay(s)
    BY <1>10 DEF WriteFails, SameRows, Stay, SessionsOk, StoredOk, RowInv
  <1>11. CASE SetScheduleEndDate(s)
    <2>1. /\ UNCHANGED <<task, chapter>> /\ Finish(s) /\ pc[s] = "chapters" /\ schedule'.in = schedule.in
      BY <1>11 DEF SetScheduleEndDate, StoredOk
    <2> QED BY <2>1, FinishStays DEF SameRows, RowInv
  <1>12. CASE Die(s)
    BY <1>12, FinishStays DEF Die, SameRows, RowInv
  <1> QED BY <1>1, <1>2, <1>3, <1>4, <1>5, <1>6, <1>7, <1>8, <1>9, <1>10, <1>11, <1>12 DEF Acts

LEMMA ActedRows ==
    ASSUME TypeInv, RowInv, NEW s \in Sessions, Acts(s)
    PROVE  RowInv'
  <1>0. SameRows /\ Stay(s)
    BY ActsKeepRows
  <1>1. /\ pc'[s] = "insert" => task[req'[s].pred].in /\ task[req'[s].succ].in
        /\ pc'[s] = "insert" => req'[s].pred \in Tasks /\ req'[s].succ \in Tasks
        /\ pc'[s] = "chapters" => \A c \in todo'[s] : c \in Chapters /\ chapter[c].in
    <2> USE DEF TypeInv, SessionsOk
    <2>1. ASSUME NEW t \in Tasks, NEW n \in Durations, UpdateScheduleTask(s, t, n) PROVE pc'[s] = "listTasks"
      BY <2>1 DEF UpdateScheduleTask, Goto
    <2>2. ASSUME NEW p \in Tasks, NEW q \in Tasks, NEW k \in Offered, ReadDependencies(s, p, q, k)
          PROVE  pc'[s] = "insert" /\ task[req'[s].pred].in /\ task[req'[s].succ].in
                 /\ req'[s].pred \in Tasks /\ req'[s].succ \in Tasks
      <3>1. req'[s] = [op |-> "add", pred |-> p, succ |-> q, kind |-> k] /\ task[p].in /\ task[q].in
            /\ pc'[s] = "insert"
        BY <2>2 DEF ReadDependencies, Goto
      <3> QED BY <3>1
    <2>3. CASE InsertDependency(s)
      BY <2>3 DEF InsertDependency, Goto
    <2>4. CASE Finish(s)
      BY <2>4, FinishStays
    <2>5. CASE ListTasks(s)
      BY <2>5 DEF ListTasks, Goto
    <2>6. CASE ListDependencies(s)
      <3>1. Finish(s) \/ pc' = [pc EXCEPT ![s] = "tasks"]
        BY <2>6 DEF ListDependencies, Goto
      <3>2. CASE pc' = [pc EXCEPT ![s] = "tasks"]
        BY <3>2
      <3> QED BY <2>4, <3>1, <3>2
    <2>7. ASSUME NEW t \in Tasks, WriteTask(s, t) PROVE pc'[s] = "tasks"
      BY <2>7 DEF WriteTask
    <2>8. CASE TurnToChapters(s)
      BY <2>8 DEF TurnToChapters, Goto
    <2>9. ASSUME UNCHANGED <<pc, req>>, NEW x, todo' = [todo EXCEPT ![s] = @ \ {x}]
          PROVE  /\ pc'[s] # "insert" \/ req'[s] = req[s]
                 /\ pc'[s] = pc[s] /\ todo'[s] \subseteq todo[s]
      BY <2>9
    <2>10. ASSUME NEW c \in Chapters, WriteChapter(s, c)
           PROVE  pc'[s] = "chapters" /\ \A b \in todo'[s] : b \in Chapters /\ chapter[b].in
      <3>1. pc'[s] = "chapters" /\ pc[s] = "chapters" /\ todo'[s] \subseteq todo[s]
        BY <2>10 DEF WriteChapter
      <3> QED BY <3>1 DEF RowInv, SessionOk
    <2>11. ASSUME NEW x \in Tasks \cup Chapters, WriteFails(s, x)
           PROVE  /\ pc'[s] # "insert"
                  /\ pc'[s] = "chapters" => \A b \in todo'[s] : b \in Chapters /\ chapter[b].in
      <3>1. pc'[s] = pc[s] /\ pc[s] # "insert" /\ todo'[s] \subseteq todo[s]
        BY <2>11 DEF WriteFails
      <3> QED BY <3>1 DEF RowInv, SessionOk
    <2> QED BY <2>1, <2>2, <2>3, <2>4, <2>5, <2>6, <2>7, <2>8, <2>10, <2>11
            DEF Acts, AbandonInsert, SetScheduleEndDate, Die
  <1>2. ASSUME NEW p \in Tasks, NEW q \in Tasks, Edge(dep', p, q) PROVE task'[p].in /\ task'[q].in
    <2>1. CASE InsertDependency(s)
      <3> DEFINE a == req[s].pred
                 b == req[s].succ
                 k == req[s].kind
      <3>1. /\ pc[s] = "insert" /\ dep' = Inserted(dep, a, b, k)
        BY <2>1 DEF InsertDependency
      <3>2. a \in Tasks /\ b \in Tasks /\ k.type # "none" /\ dep \in Networks /\ task[a].in /\ task[b].in
        BY <3>1 DEF TypeInv, SessionsOk, SessionOk, StoredOk, RowInv, Kinds, Types
      <3> HIDE DEF a, b, k
      <3>3. Edge(dep, p, q) \/ (p = a /\ q = b)
        BY <1>2, <3>1, <3>2, InsertedEdges
      <3> QED BY <1>0, <3>2, <3>3 DEF SameRows, RowInv
    <2>2. CASE dep' = dep
      BY <1>0, <1>2, <2>2 DEF SameRows, RowInv
    <2>3. InsertDependency(s) \/ dep' = dep
      BY Zenon DEF Acts, UpdateScheduleTask, ReadDependencies, AbandonInsert,
         ListTasks, ListDependencies, WriteTask, TurnToChapters, WriteChapter, WriteFails,
         SetScheduleEndDate, Die
    <2> QED BY <2>1, <2>2, <2>3
  <1>3. \A t \in Tasks : task'[t].in => schedule'.in
    BY <1>0 DEF SameRows
  <1>4. \A c \in Chapters : chapter'[c].in => \E t \in Tasks : task'[t].in /\ ChapterOf[t] = c
    BY <1>0 DEF SameRows, RowInv
  <1>5. ASSUME NEW u \in Sessions
        PROVE  /\ pc'[u] # "idle" => schedule'.in
               /\ pc'[u] = "insert" => task'[req'[u].pred].in /\ task'[req'[u].succ].in
               /\ pc'[u] = "chapters" => \A c \in todo'[u] : chapter'[c].in
    <2>1. CASE u = s
      BY <1>0, <1>1, <2>1 DEF SameRows
    <2>2. CASE u # s
      <3>1. /\ pc'[u] = pc[u] /\ req'[u] = req[u] /\ todo'[u] = todo[u]
            /\ SessionOk(pc[u], req[u], view[u], todo[u])
        BY <1>0, <2>2 DEF Stay, TypeInv, SessionsOk
      <3>2. pc[u] = "insert" => req[u].pred \in Tasks /\ req[u].succ \in Tasks
        BY <3>1 DEF SessionOk
      <3>3. pc[u] = "chapters" => \A c \in todo[u] : c \in Chapters
        BY <3>1 DEF SessionOk
      <3> QED BY <1>0, <3>1, <3>2, <3>3 DEF SameRows, RowInv
    <2> QED BY <2>1, <2>2
  <1>6. settled' => schedule'.in
    BY <1>0 DEF SameRows
  <1> QED BY <1>2, <1>3, <1>4, <1>5, <1>6 DEF RowInv

LEMMA NextRows == TypeInv /\ RowInv /\ [Next]_vars => RowInv'
  <1> SUFFICES ASSUME TypeInv, RowInv, [Next]_vars PROVE RowInv'
    OBVIOUS
  <1>1. CASE UNCHANGED vars
    BY <1>1 DEF vars, RowInv
  <1>2. CASE Next
    BY <1>2, NextIsCreationOrARequest, CreatedRows, ActedRows
  <1> QED BY <1>1, <1>2

-----------------------------------------------------------------------------
(* Repair *)

\* the dates a request has computed are those of the rows and dependencies as
\* they are now
Computed(v) ==
    /\ \A t \in Tasks : v.task[t].in = task[t].in /\ v.task[t].dur = task[t].dur
    /\ Respected(RowsIn(v.task), dep, v.start)
    /\ \A t \in Tasks : Tight(RowsIn(v.task), dep, v.start, t) /\ v.end[t] = EndOf(RowsIn(v.task), v.start, t)

Dated(v, t) == task[t].start = v.start[t] /\ task[t].end = v.end[t]

\* what an undisturbed recalculation has done so far
Repairing(l, v, w) ==
    /\ l \in {"listDependencies", "tasks", "chapters"}
    /\ l = "listDependencies" => v.task = task
    /\ l = "tasks" => Computed(v) /\ \A t \in Tasks : task[t].in /\ t \notin w => Dated(v, t)
    /\ l = "chapters" => /\ Computed(v) /\ \A t \in Tasks : task[t].in => Dated(v, t)
                         /\ \A c \in Chapters : chapter[c].in /\ c \notin w => chapter[c] = Span(v, c)

RepairInv ==
    /\ \A s \in alone : Repairing(pc[s], view[s], todo[s])
    /\ settled => Consistent

\* what Consistent says of all rows but the schedule's own
RowsConsistent ==
    /\ Respected(RowsIn(task), dep, Stored)
    /\ \A t \in Present : Tight(RowsIn(task), dep, Stored, t) /\ task[t].end = EndOf(RowsIn(task), Stored, t)
    /\ \A c \in Chapters : chapter[c].in =>
          LET tasks == {t \in Present : ChapterOf[t] = c}
          IN  /\ chapter[c].start = Least({task[t].start : t \in tasks})
              /\ chapter[c].end = Greatest({task[t].end : t \in tasks})
              /\ chapter[c].dur = chapter[c].end - chapter[c].start + 1

LEMMA MarginOfStarts ==
    ASSUME NEW rs, NEW d, NEW at, NEW bt, NEW p, NEW s, at[p] = bt[p], at[s] = bt[s]
    PROVE  Margin(rs, d, at, p, s) = Margin(rs, d, bt, p, s)
BY DEF Margin, EndOf

\* When the last row is written, the rows are what was computed.
LEMMA Repaired ==
    ASSUME TypeInv, RowInv, NEW s \in Sessions, pc[s] = "chapters", todo[s] = {},
           Repairing(pc[s], view[s], todo[s])
    PROVE  /\ RowsConsistent
           /\ {view[s].end[t] : t \in {u \in Tasks : view[s].task[u].in}} = {task[t].end : t \in Present}
  <1> DEFINE v  == view[s]
             rs == RowsIn(v.task)
  <1>1. /\ Computed(v) /\ \A t \in Tasks : task[t].in => Dated(v, t)
        /\ \A c \in Chapters : chapter[c].in => chapter[c] = Span(v, c)
    BY DEF Repairing
  <1>2. v \in Views /\ (\A t \in Tasks : v.start[t] <= v.end[t]) /\ task \in [Tasks -> Rows] /\ dep \in Networks
    BY DEF TypeInv, SessionsOk, SessionOk, StoredOk
  <1> HIDE DEF v
  <1>3. RowsIn(task) = rs
    BY <1>1 DEF RowsIn, Computed
  <1> HIDE DEF rs
  <1>4. /\ Respected(rs, dep, v.start)
        /\ \A t \in Tasks : Tight(rs, dep, v.start, t) /\ v.end[t] = EndOf(rs, v.start, t)
    BY <1>1 DEF Computed, rs
  <1>5. \A t \in Present : t \in Tasks /\ task[t].in /\ Stored[t] = v.start[t] /\ task[t].start = v.start[t]
                           /\ task[t].end = v.end[t]
    BY <1>1 DEF Present, Stored, Dated
  <1>6. \A p, q \in Tasks : Edge(dep, p, q) => p \in Present /\ q \in Present
    BY DEF RowInv, Present
  <1>7. ASSUME NEW p \in Tasks, NEW q \in Tasks, Edge(dep, p, q)
        PROVE  Margin(rs, dep, Stored, p, q) = Margin(rs, dep, v.start, p, q)
    BY <1>5, <1>6, <1>7, MarginOfStarts
  <1>8. Respected(rs, dep, Stored)
    <2> SUFFICES ASSUME NEW e \in Edges(dep) PROVE Margin(rs, dep, Stored, e[1], e[2]) >= 0
      BY DEF Respected
    <2>1. e[1] \in Tasks /\ e[2] \in Tasks /\ Edge(dep, e[1], e[2])
      BY DEF Edges, Pairs
    <2>2. Margin(rs, dep, v.start, e[1], e[2]) >= 0
      BY <1>4 DEF Respected
    <2> QED BY <1>7, <2>1, <2>2
  <1>9. ASSUME NEW t \in Present
        PROVE  Tight(rs, dep, Stored, t) /\ task[t].end = EndOf(rs, Stored, t)
    <2>1. Tight(rs, dep, Stored, t)
      <3>1. v.start[t] = 0 \/ \E p \in Preds(dep, t) : Margin(rs, dep, v.start, p, t) = 0
        BY <1>4, <1>5 DEF Tight
      <3>2. \A p \in Preds(dep, t) : p \in Tasks /\ Edge(dep, p, t)
        BY DEF Preds
      <3> QED BY <1>5, <1>7, <3>1, <3>2 DEF Tight
    <2>2. task[t].end = EndOf(rs, Stored, t)
      BY <1>4, <1>5 DEF EndOf
    <2> QED BY <2>1, <2>2
  <1>10. ASSUME NEW c \in Chapters, chapter[c].in
         PROVE  LET tasks == {t \in Present : ChapterOf[t] = c}
                IN  /\ chapter[c].start = Least({task[t].start : t \in tasks})
                    /\ chapter[c].end = Greatest({task[t].end : t \in tasks})
                    /\ chapter[c].dur = chapter[c].end - chapter[c].start + 1
    <2> DEFINE tasks == {t \in Present : ChapterOf[t] = c}
    <2>1. Children(v, c) = tasks
      BY <1>1 DEF Children, Present, Computed
    <2>2. Children(v, c) # {}
      BY <1>10, <2>1 DEF RowInv, Present
    <2>3. {v.start[t] : t \in Children(v, c)} = {task[t].start : t \in tasks}
      BY <1>5, <2>1
    <2>4. {v.end[t] : t \in Children(v, c)} = {task[t].end : t \in tasks}
      BY <1>5, <2>1
    <2> DEFINE r == Span(v, c)
    <2>5. /\ r.start = Least({v.start[t] : t \in Children(v, c)})
          /\ r.end = Greatest({v.end[t] : t \in Children(v, c)})
          /\ r.dur = r.end - r.start + 1
      BY <1>2, <2>2, SpanOk
    <2> HIDE DEF r, tasks
    <2>6. chapter[c] = r
      BY <1>1, <1>10 DEF r
    <2>7. /\ chapter[c].start = Least({task[t].start : t \in tasks})
          /\ chapter[c].end = Greatest({task[t].end : t \in tasks})
          /\ chapter[c].dur = chapter[c].end - chapter[c].start + 1
      BY <2>3, <2>4, <2>5, <2>6
    <2> QED BY <2>7 DEF tasks
  <1>11. RowsConsistent
    BY <1>3, <1>8, <1>9, <1>10 DEF RowsConsistent
  <1>12. {u \in Tasks : v.task[u].in} = Present
    BY <1>1 DEF Present, Computed
  <1>13. {v.end[t] : t \in {u \in Tasks : v.task[u].in}} = {task[t].end : t \in Present}
    BY <1>5, <1>12
  <1> QED BY <1>11, <1>13 DEF v

\* A request that writes no row changes nothing of what the others repair.
LEMMA RepairKept ==
    ASSUME RepairInv, NEW s, UNCHANGED <<task, chapter, dep>>, Stay(s), alone \in SUBSET Sessions
    PROVE  \A u \in alone \ {s} : Repairing(pc[u], view[u], todo[u])'
  <1> SUFFICES ASSUME NEW u \in alone \ {s} PROVE Repairing(pc[u], view[u], todo[u])'
    OBVIOUS
  <1>1. pc'[u] = pc[u] /\ view'[u] = view[u] /\ todo'[u] = todo[u]
    BY DEF Stay
  <1>2. Repairing(pc[u], view[u], todo[u])
    BY DEF RepairInv
  <1> QED BY <1>1, <1>2 DEF Repairing, Computed, Dated

LEMMA ConsistentKept ==
    ASSUME UNCHANGED <<schedule, task, chapter, dep>>
    PROVE  Consistent' <=> Consistent
BY DEF Consistent, Present, Stored

LEMMA RowsConsistentKept ==
    ASSUME UNCHANGED <<task, chapter, dep>>, RowsConsistent
    PROVE  RowsConsistent'
BY DEF RowsConsistent, Present, Stored

LEMMA InitRepairs == Init => RepairInv
BY DEF Init, RepairInv

LEMMA CreateRepairs ==
    ASSUME TypeInv, RowInv, RepairInv, NEW boq \in Boqs, NEW opt \in Choices, CreateScheduleFromBoq(boq, opt)
    PROVE  RepairInv'
  <1>1. ~schedule.in /\ UNCHANGED <<alone, settled>>
    BY DEF CreateScheduleFromBoq
  <1>2. ~settled /\ \A s \in Sessions : pc[s] = "idle"
    BY <1>1 DEF RowInv
  <1>3. alone = {}
    BY <1>2 DEF RepairInv, Repairing, TypeInv, StoredOk
  <1> QED BY <1>1, <1>2, <1>3 DEF RepairInv

LEMMA EditsRepair ==
    ASSUME TypeInv, RowInv, RepairInv, NEW s \in Sessions, Stay(s),
           \/ \E t \in Tasks, n \in Durations : UpdateScheduleTask(s, t, n)
           \/ \E p, q \in Tasks, k \in Offered : ReadDependencies(s, p, q, k)
           \/ InsertDependency(s)
           \/ AbandonInsert(s)
    PROVE  RepairInv'
  <1>1. s \notin alone /\ alone \in SUBSET Sessions
    <2>1. pc[s] \in {"idle", "insert"}
      BY DEF UpdateScheduleTask, ReadDependencies, InsertDependency, AbandonInsert
    <2> QED BY <2>1 DEF RepairInv, Repairing, TypeInv, StoredOk
  <1>2. CASE alone' = alone \cap {s} /\ settled' = FALSE
    BY <1>1, <1>2 DEF RepairInv
  <1>3. CASE UNCHANGED <<schedule, task, chapter, dep, alone, settled>>
    <2>1. \A u \in alone' : Repairing(pc[u], view[u], todo[u])'
      BY <1>1, <1>3, RepairKept
    <2>2. settled' => Consistent'
      BY <1>3, ConsistentKept DEF RepairInv
    <2> QED BY <2>1, <2>2 DEF RepairInv
  <1> QED BY <1>2, <1>3, Zenon DEF UpdateScheduleTask, ReadDependencies, InsertDependency, AbandonInsert, Disturb

LEMMA ReadsRepair ==
    ASSUME TypeInv, RowInv, RepairInv, NEW s \in Sessions, Stay(s),
           ListTasks(s) \/ ListDependencies(s) \/ TurnToChapters(s)
    PROVE  RepairInv'
  <1>0. StoredOk /\ SessionsOk
    BY DEF TypeInv
  <1>1. UNCHANGED <<schedule, task, chapter, dep, settled>>
    BY Zenon DEF ListTasks, ListDependencies, TurnToChapters
  <1>2. \A u \in alone \ {s} : Repairing(pc[u], view[u], todo[u])'
    BY <1>0, <1>1, RepairKept DEF StoredOk
  <1>3. settled' => Consistent'
    BY <1>1, ConsistentKept DEF RepairInv
  <1>4. alone' \subseteq alone \cup {s}
    BY Zenon DEF ListTasks, ListDependencies, TurnToChapters
  <1>5. ASSUME s \in alone' PROVE Repairing(pc[s], view[s], todo[s])'
    <2>1. CASE ListTasks(s)
      <3>1. pc'[s] = "listDependencies" /\ view'[s].task = task
        BY <1>0, <2>1 DEF ListTasks, Goto, SessionsOk, Views
      <3> QED BY <1>1, <3>1 DEF Repairing
    <2>2. CASE ListDependencies(s)
      <3> DEFINE rs == RowsIn(view[s].task)
                 l  == Recalculated(rs, dep)
                 v  == [view[s] EXCEPT !.dep = dep, !.start = l.at, !.end = [t \in Tasks |-> EndOf(rs, l.at, t)]]
                 w  == {t \in Tasks : Differs(v, t)}
      <3>1. l.processed = Tasks
        BY <1>5, <2>2 DEF ListDependencies
      <3>2. /\ pc' = [pc EXCEPT ![s] = "tasks"] /\ view' = [view EXCEPT ![s] = v]
            /\ todo' = [todo EXCEPT ![s] = w] /\ alone' = alone /\ pc[s] = "listDependencies"
        BY <2>2, <3>1 DEF ListDependencies, Goto
      <3>3. view[s].task = task
        BY <1>5, <3>2 DEF RepairInv, Repairing
      <3>4. /\ Respected(rs, dep, l.at) /\ \A t \in Tasks : Tight(rs, dep, l.at, t)
        BY <1>0, <3>1, ComputedOk DEF StoredOk
      <3> HIDE DEF l
      <3>5. /\ v.task = task /\ v.start = l.at /\ \A t \in Tasks : v.end[t] = EndOf(rs, l.at, t)
        BY <1>0, <3>3 DEF SessionsOk, Views
      <3> HIDE DEF v
      <3>6. rs = RowsIn(v.task)
        BY <3>3, <3>5
      <3> HIDE DEF rs
      <3>7. Computed(v)
        BY <3>4, <3>5, <3>6 DEF Computed
      <3>8. \A t \in Tasks : task[t].in /\ t \notin w => Dated(v, t)
        BY <3>5 DEF Differs, Dated
      <3> HIDE DEF w
      <3>9. pc'[s] = "tasks" /\ view'[s] = v /\ todo'[s] = w
        BY <1>0, <3>2 DEF SessionsOk
      <3> QED BY <1>1, <3>7, <3>8, <3>9 DEF Repairing, Computed, Dated
    <2>3. CASE TurnToChapters(s)
      <3> DEFINE v == view[s]
                 w == {c \in Chapters : chapter[c].in /\ Children(view[s], c) # {}}
      <3>1. /\ pc'[s] = "chapters" /\ view'[s] = v /\ todo'[s] = w
            /\ pc[s] = "tasks" /\ todo[s] = {} /\ s \in alone
        BY <1>0, <1>5, <2>3 DEF TurnToChapters, Goto, SessionsOk
      <3>2. Computed(v) /\ \A t \in Tasks : task[t].in => Dated(v, t)
        BY <3>1 DEF RepairInv, Repairing
      <3>3. \A c \in Chapters : chapter[c].in => c \in w
        BY <3>2 DEF RowInv, Computed, Children
      <3> HIDE DEF v, w
      <3> QED BY <1>1, <3>1, <3>2, <3>3 DEF Repairing, Computed, Dated
    <2> QED BY <2>1, <2>2, <2>3
  <1> QED BY <1>2, <1>3, <1>4, <1>5 DEF RepairInv

LEMMA WritesRepair ==
    ASSUME TypeInv, RowInv, RepairInv, NEW s \in Sessions, Stay(s),
           \/ \E t \in Tasks : WriteTask(s, t)
           \/ \E c \in Chapters : WriteChapter(s, c)
           \/ \E x \in Tasks \cup Chapters : WriteFails(s, x)
           \/ SetScheduleEndDate(s)
           \/ Die(s)
    PROVE  RepairInv'
  <1>0. StoredOk /\ SessionsOk
    BY DEF TypeInv
  <1>1. ASSUME NEW t \in Tasks, WriteTask(s, t) PROVE RepairInv'
    <2> DEFINE v == view[s]
    <2>1. /\ task' = [task EXCEPT ![t].start = v.start[t], ![t].end = v.end[t]]
          /\ pc[s] = "tasks" /\ todo' = [todo EXCEPT ![s] = @ \ {t}]
          /\ UNCHANGED <<schedule, chapter, dep, pc, req, view>>
          /\ alone' = alone \cap {s} /\ settled' = FALSE
      BY <1>1 DEF WriteTask, Disturb
    <2>2. /\ task'[t].start = v.start[t] /\ task'[t].end = v.end[t]
          /\ task'[t].dur = task[t].dur /\ task'[t].in = task[t].in
          /\ \A u \in Tasks \ {t} : task'[u] = task[u]
      BY <1>0, <2>1 DEF StoredOk, Rows
    <2>3. ASSUME s \in alone PROVE Repairing(pc[s], view[s], todo[s])'
      <3>1. Computed(v) /\ \A u \in Tasks : task[u].in /\ u \notin todo[s] => Dated(v, u)
        BY <2>1, <2>3 DEF RepairInv, Repairing
      <3>2. pc'[s] = "tasks" /\ view'[s] = v /\ todo'[s] = todo[s] \ {t}
        BY <1>0, <2>1 DEF SessionsOk
      <3> HIDE DEF v
      <3>3. \A u \in Tasks : task'[u].in /\ u \notin todo'[s] => task'[u].start = v.start[u] /\ task'[u].end = v.end[u]
        BY <2>2, <3>1, <3>2 DEF Dated
      <3>4. \A u \in Tasks : v.task[u].in = task'[u].in /\ v.task[u].dur = task'[u].dur
        BY <2>2, <3>1 DEF Computed
      <3>5. Computed(view[s])'
        <4>1. /\ Respected(RowsIn(view'[s].task), dep', view'[s].start)
              /\ \A u \in Tasks : /\ Tight(RowsIn(view'[s].task), dep', view'[s].start, u)
                                 /\ view'[s].end[u] = EndOf(RowsIn(view'[s].task), view'[s].start, u)
          BY <2>1, <3>1, <3>2 DEF Computed
        <4> QED BY <3>2, <3>4, <4>1 DEF Computed
      <3>6. \A u \in Tasks : task'[u].in /\ u \notin todo'[s] => Dated(view[s], u)'
        BY <3>2, <3>3 DEF Dated
      <3> QED BY <3>2, <3>5, <3>6 DEF Repairing
    <2> QED BY <2>1, <2>3 DEF RepairInv
  <1>2. ASSUME NEW c \in Chapters, WriteChapter(s, c) PROVE RepairInv'
    <2> DEFINE v == view[s]
    <2>1. /\ chapter' = [chapter EXCEPT ![c] = Span(v, c)]
          /\ pc[s] = "chapters" /\ todo' = [todo EXCEPT ![s] = @ \ {c}]
          /\ UNCHANGED <<schedule, task, dep, pc, req, view>>
          /\ alone' = alone \cap {s} /\ settled' = FALSE
      BY <1>2 DEF WriteChapter, Disturb
    <2>2. ASSUME s \in alone PROVE Repairing(pc[s], view[s], todo[s])'
      <3>1. /\ Computed(v) /\ \A u \in Tasks : task[u].in => Dated(v, u)
            /\ \A b \in Chapters : chapter[b].in /\ b \notin todo[s] => chapter[b] = Span(v, b)
        BY <2>1, <2>2 DEF RepairInv, Repairing
      <3>2. pc'[s] = "chapters" /\ view'[s] = v /\ todo'[s] = todo[s] \ {c}
        BY <1>0, <2>1 DEF SessionsOk
      <3>3. \A b \in Chapters : chapter'[b] = IF b = c THEN Span(v, b) ELSE chapter[b]
        BY <1>0, <2>1 DEF StoredOk
      <3> HIDE DEF v
      <3>4. \A b \in Chapters : chapter'[b].in /\ b \notin todo'[s] => chapter'[b] = Span(v, b)
        BY <3>1, <3>2, <3>3
      <3> QED BY <2>1, <3>1, <3>2, <3>4 DEF Repairing, Computed, Dated
    <2> QED BY <2>1, <2>2 DEF RepairInv
  <1>3. CASE (\E x \in Tasks \cup Chapters : WriteFails(s, x)) \/ Die(s)
    <2>1. alone' = alone \ {s} /\ UNCHANGED <<schedule, task, chapter, dep, settled>>
      BY <1>3, Zenon DEF WriteFails, Die
    <2>2. \A u \in alone' : Repairing(pc[u], view[u], todo[u])'
      BY <1>0, <2>1, RepairKept DEF StoredOk
    <2> QED BY <2>1, <2>2, ConsistentKept DEF RepairInv
  <1>4. CASE SetScheduleEndDate(s)
    <2> DEFINE e == Greatest({0} \cup {view[s].end[t] : t \in {u \in Tasks : view[s].task[u].in}})
    <2>1. /\ \/ schedule' = [schedule EXCEPT !.end = e] /\ settled' = (s \in alone)
             \/ UNCHANGED <<schedule, settled>>
          /\ alone' = {} /\ UNCHANGED <<task, chapter, dep>> /\ pc[s] = "chapters" /\ todo[s] = {}
      BY <1>4 DEF SetScheduleEndDate
    <2>2. CASE UNCHANGED <<schedule, settled>>
      BY <2>1, <2>2, ConsistentKept DEF RepairInv
    <2>3. CASE schedule' = [schedule EXCEPT !.end = e] /\ settled' = (s \in alone)
      <3>1. ASSUME s \in alone PROVE Consistent'
        <4>1. /\ RowsConsistent
              /\ e = Greatest({0} \cup {task[t].end : t \in Present})
          BY <2>1, <3>1, Repaired DEF RepairInv
        <4>2. schedule'.end = e
          BY <1>0, <2>3 DEF StoredOk
        <4>3. RowsConsistent'
          BY <2>1, <4>1, RowsConsistentKept
        <4>4. schedule'.end = Greatest({0} \cup {task'[t].end : t \in Present'})
          BY <2>1, <4>1, <4>2 DEF Present
        <4> QED BY <4>3, <4>4 DEF Consistent, RowsConsistent
      <3> HIDE DEF e
      <3> QED BY <2>1, <2>3, <3>1 DEF RepairInv
    <2> QED BY <2>1, <2>2, <2>3
  <1> QED BY <1>1, <1>2, <1>3, <1>4

LEMMA NextRepairs == TypeInv /\ RowInv /\ RepairInv /\ [Next]_vars => RepairInv'
  <1> SUFFICES ASSUME TypeInv, RowInv, RepairInv, [Next]_vars PROVE RepairInv'
    OBVIOUS
  <1>1. CASE UNCHANGED vars
    BY <1>1, ConsistentKept DEF vars, RepairInv, Repairing, Computed, Dated
  <1>2. ASSUME NEW s \in Sessions, Acts(s) PROVE RepairInv'
    BY <1>2, ActsKeepRows, EditsRepair, ReadsRepair, WritesRepair, Zenon DEF Acts
  <1>3. CASE Next
    BY <1>2, <1>3, NextIsCreationOrARequest, CreateRepairs
  <1> QED BY <1>1, <1>3

\* recalcAndPersist writes only the rows whose dates it found changed, without a
\* lock: when nothing disturbs it, what it leaves is consistent, whatever was
\* there before.
THEOREM UndisturbedRecalculationRepairs == Spec => []UndisturbedRecalcRepairs
  <1>1. RepairInv => UndisturbedRecalcRepairs
    BY DEF RepairInv, UndisturbedRecalcRepairs
  <1>2. Init => TypeInv /\ RowInv /\ RepairInv
    BY InitTyped, InitRows, InitRepairs
  <1>3. TypeInv /\ RowInv /\ RepairInv /\ [Next]_vars => TypeInv' /\ RowInv' /\ RepairInv'
    BY NextTyped, NextRows, NextRepairs
  <1> QED BY <1>1, <1>2, <1>3, PTL DEF Spec

-----------------------------------------------------------------------------
(* Creation stores what a recalculation would *)

\* Before the first edit no recalculation runs.
FreshInv ==
    edits = 0 => /\ \A s \in Sessions : pc[s] \in {"idle", "insert"}
                 /\ schedule.in /\ Present \subseteq Activities => Consistent

LEMMA CreatedIsConsistent ==
    ASSUME TypeInv, RowInv, NEW boq \in Boqs, NEW opt \in Choices, CreateScheduleFromBoq(boq, opt),
           Present' \subseteq Activities
    PROVE  Consistent'
  <1> DEFINE end(a)  == ActivityEnd(boq, opt, a)
             days(a) == EstimateActivityDuration(boq[a], opt)
             K       == Kept(boq, opt)
  <1>1. /\ ~schedule.in /\ schedule' = [in |-> TRUE, end |-> ScheduleEnd(boq, opt)]
        /\ task' = PreviewTasks(boq, opt) /\ chapter' = PreviewChapters(boq, opt) /\ dep' = dep
    BY DEF CreateScheduleFromBoq
  <1>2. \A p, q \in Tasks : ~Edge(dep', p, q)
    BY <1>1 DEF RowInv
  <1>3. ASSUME NEW a \in Activities
        PROVE  /\ a \in Tasks
               /\ a \in K => task'[a] = Row(0, end(a), days(a))
               /\ a \notin K => task'[a] = Missing
    BY <1>1, BoqTyped DEF Kept, PreviewTasks, Milestones
  <1>4. \A a \in Activities : days(a) \in Nat \ {0} /\ end(a) \in Nat /\ end(a) = EndIndex(0, days(a))
    BY EndsOfActivities
  <1>0. K \subseteq Activities /\ K = Kept(boq, opt)
    BY DEF Kept
  <1> HIDE DEF end, days, K
  <1>5. Present' = K
    <2>1. \A t \in Present' : t \in K
      BY <1>3 DEF Present, Missing
    <2>2. \A t \in K : t \in Present'
      <3>1. ASSUME NEW t \in K PROVE t \in Tasks /\ task'[t].in
        <4>1. t \in Tasks /\ task'[t] = Row(0, end(t), days(t))
          BY <1>0, <1>3
        <4> QED BY <4>1 DEF Row
      <3> QED BY <3>1 DEF Present
    <2> QED BY <2>1, <2>2
  <1>6. ASSUME NEW t \in K
        PROVE  /\ t \in Tasks /\ t \in Activities /\ task'[t].start = 0 /\ task'[t].end = end(t)
               /\ task'[t].dur = days(t)
    <2>1. t \in Activities
      BY <1>0
    <2>2. t \in Tasks /\ task'[t] = Row(0, end(t), days(t))
      BY <1>3, <2>1
    <2> QED BY <2>1, <2>2 DEF Row
  <1>7. Respected(RowsIn(task), dep, Stored)'
    BY <1>2 DEF Respected, Edges, Pairs
  <1>8. ASSUME NEW t \in Present'
        PROVE  /\ Tight(RowsIn(task'), dep', Stored', t)
               /\ task'[t].end = EndOf(RowsIn(task'), Stored', t)
    <2>1. Stored'[t] = 0 /\ RowsIn(task')[t].dur = days(t) /\ task'[t].end = EndIndex(0, days(t))
      BY <1>4, <1>5, <1>6 DEF Stored, RowsIn
    <2> QED BY <2>1 DEF Tight, EndOf
  <1>9. ASSUME NEW c \in Chapters, chapter'[c].in
        PROVE  LET tasks == {t \in Present' : ChapterOf[t] = c}
               IN  /\ chapter'[c].start = Least({task'[t].start : t \in tasks})
                   /\ chapter'[c].end = Greatest({task'[t].end : t \in tasks})
                   /\ chapter'[c].dur = chapter'[c].end - chapter'[c].start + 1
    <2> DEFINE tasks == {t \in Present' : ChapterOf[t] = c}
               x     == ChapterEnd(boq, opt, c)
               E     == {task'[t].end : t \in tasks}
               F     == {task'[t].start : t \in tasks}
    <2>1. c \in Emitted(boq, opt) /\ chapter'[c] = Row(0, x, x + 1)
      BY <1>1, <1>9 DEF PreviewChapters, Missing
    <2>2. ActivitiesOf(boq, opt, c) = tasks /\ tasks \subseteq K
      BY <1>0, <1>5, BoqTyped DEF ActivitiesOf, Kept
    <2>3. PICK a \in tasks : TRUE
      BY <2>1, <2>2 DEF Emitted
    <2>4. /\ x \in Nat /\ (x = 0 \/ \E t \in tasks : x = end(t)) /\ \A t \in tasks : x >= end(t)
      <3>1. /\ ChapterEnd(boq, opt, c) \in Nat
            /\ ChapterEnd(boq, opt, c) = 0
                 \/ \E t \in ActivitiesOf(boq, opt, c) : ChapterEnd(boq, opt, c) = ActivityEnd(boq, opt, t)
            /\ \A t \in ActivitiesOf(boq, opt, c) : ChapterEnd(boq, opt, c) >= ActivityEnd(boq, opt, t)
        BY EndsOfChapters
      <3> QED BY <2>2, <3>1 DEF end
    <2> HIDE DEF x
    <2>5. \A t \in tasks : task'[t].end = end(t) /\ end(t) \in Nat /\ task'[t].start = 0
      BY <1>4, <1>6, <2>2
    <2> HIDE DEF tasks
    <2>6. F = {0}
      BY <2>3, <2>5
    <2>7. Least(F) = 0
      BY <2>6 DEF Least
    <2>8. E \in SUBSET Int /\ x \in E /\ \A y \in E : x >= y
      <3>1. E \in SUBSET Int
        BY <2>5
      <3>2. \A y \in E : x >= y
        BY <2>4, <2>5
      <3>3. x \in E
        <4>1. CASE \E t \in tasks : x = end(t)
          BY <2>5, <4>1
        <4>2. CASE x = 0
          <5>1. end(a) \in Nat /\ x >= end(a) /\ task'[a].end = end(a)
            BY <2>3, <2>4, <2>5
          <5>2. end(a) = x
            BY <4>2, <5>1
          <5> QED BY <2>3, <5>1, <5>2
        <4> QED BY <2>4, <4>1, <4>2
      <3> QED BY <3>1, <3>2, <3>3
    <2> HIDE DEF E, F
    <2>9. Greatest(E) = x
      BY <2>8, GreatestIs
    <2>10. chapter'[c].start = 0 /\ chapter'[c].end = x /\ chapter'[c].dur = x + 1
      BY <2>1 DEF Row
    <2>11. x + 1 = x - 0 + 1
      BY <2>4
    <2>12. /\ chapter'[c].start = Least(F) /\ chapter'[c].end = Greatest(E)
           /\ chapter'[c].dur = chapter'[c].end - chapter'[c].start + 1
      BY <2>7, <2>9, <2>10, <2>11
    <2> QED BY <2>12 DEF E, F, tasks
  <1>10. schedule'.end = Greatest({0} \cup {task'[t].end : t \in Present'})
    <2>1. {task'[t].end : t \in Present'} = {end(a) : a \in K}
      BY <1>5, <1>6
    <2>2. ScheduleEnd(boq, opt) = Greatest({0} \cup {end(a) : a \in K})
      BY <1>0, EndOfSchedule DEF end
    <2>3. schedule'.end = ScheduleEnd(boq, opt)
      BY <1>1
    <2> QED BY <2>1, <2>2, <2>3
  <1> QED BY <1>7, <1>8, <1>9, <1>10 DEF Consistent

LEMMA InitFresh == Init => FreshInv
BY DEF Init, FreshInv

LEMMA CreatedFresh ==
    ASSUME TypeInv, RowInv, FreshInv, NEW boq \in Boqs, NEW opt \in Choices, CreateScheduleFromBoq(boq, opt)
    PROVE  FreshInv'
  <1>1. UNCHANGED <<pc, edits>>
    BY DEF CreateScheduleFromBoq
  <1>2. Present' \subseteq Activities => Consistent'
    BY CreatedIsConsistent
  <1> QED BY <1>1, <1>2 DEF FreshInv

LEMMA ActedFresh ==
    ASSUME TypeInv, FreshInv, NEW s \in Sessions, Acts(s), Stay(s)
    PROVE  FreshInv'
  <1> SUFFICES ASSUME edits' = 0
               PROVE  /\ \A u \in Sessions : pc'[u] \in {"idle", "insert"}
                      /\ schedule'.in /\ Present' \subseteq Activities => Consistent'
    BY DEF FreshInv
  <1>0. pc \in [Sessions -> Labels] /\ edits \in Nat
    BY PlanningAssumption DEF TypeInv, SessionsOk, StoredOk
  <1>1. edits = 0
    <2>1. edits' = edits \/ edits' = edits + 1
      BY Zenon DEF Acts, UpdateScheduleTask, ReadDependencies, InsertDependency, AbandonInsert,
         ListTasks, ListDependencies, WriteTask, TurnToChapters, WriteChapter, WriteFails,
         SetScheduleEndDate, Die
    <2> QED BY <1>0, <2>1
  <1>2. pc[s] \in {"idle", "insert"}
    BY <1>1 DEF FreshInv
  <1>3. (\E p, q \in Tasks, k \in Offered : ReadDependencies(s, p, q, k)) \/ AbandonInsert(s)
    <2>1. ~(edits' = edits + 1)
      BY <1>1
    <2> QED BY <1>2, <2>1 DEF Acts, UpdateScheduleTask, InsertDependency, ListTasks, ListDependencies,
            WriteTask, TurnToChapters, WriteChapter, WriteFails, SetScheduleEndDate, Die
  <1>4. UNCHANGED <<schedule, task, chapter, dep>> /\ pc'[s] \in {"idle", "insert"}
    <2>1. CASE \E p, q \in Tasks, k \in Offered : ReadDependencies(s, p, q, k)
      BY <1>0, <2>1 DEF ReadDependencies, Goto
    <2>2. CASE AbandonInsert(s)
      BY <1>0, <2>2 DEF AbandonInsert, Finish, Goto
    <2> QED BY <1>3, <2>1, <2>2
  <1>5. \A u \in Sessions : pc'[u] \in {"idle", "insert"}
    BY <1>1, <1>4 DEF FreshInv, Stay
  <1>6. schedule'.in /\ Present' \subseteq Activities => Consistent'
    BY <1>1, <1>4, ConsistentKept DEF FreshInv, Present
  <1> QED BY <1>5, <1>6

LEMMA NextFresh == TypeInv /\ RowInv /\ FreshInv /\ [Next]_vars => FreshInv'
  <1> SUFFICES ASSUME TypeInv, RowInv, FreshInv, [Next]_vars PROVE FreshInv'
    OBVIOUS
  <1>1. CASE UNCHANGED vars
    BY <1>1, ConsistentKept DEF vars, FreshInv, Present
  <1>2. CASE Next
    BY <1>2, NextIsCreationOrARequest, CreatedFresh, ActedFresh, ActsKeepRows
  <1> QED BY <1>1, <1>2

\* The generator computes dates, chapter spans and the end of the schedule in a
\* way of its own; without milestones they are those a recalculation stores,
\* for every BOQ and every option of the form.
THEOREM FreshSchedulesAreConsistent == Spec => []FreshIsConsistent
  <1>1. FreshInv => FreshIsConsistent
    BY DEF FreshInv, FreshIsConsistent
  <1>2. Init => TypeInv /\ RowInv /\ FreshInv
    BY InitTyped, InitRows, InitFresh
  <1>3. TypeInv /\ RowInv /\ FreshInv /\ [Next]_vars => TypeInv' /\ RowInv' /\ FreshInv'
    BY NextTyped, NextRows, NextFresh
  <1> QED BY <1>1, <1>2, <1>3, PTL DEF Spec
=============================================================================
