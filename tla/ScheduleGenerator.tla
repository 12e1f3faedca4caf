--------------------------- MODULE ScheduleGenerator ---------------------------
(***************************************************************************)
(* The preview of a schedule from the BOQ of an estimate version            *)
(* (apps/web/modules/planning/generator.ts): which items become activities, *)
(* how long they take, and the chapters and closing milestones around them. *)
(*                                                                         *)
(* Everything starts on day 0, the start of the schedule.  Decimals are     *)
(* whole numbers here.  An item whose chapter was not read belongs to the   *)
(* synthetic chapter, which is one of Chapters.  Codes, names, warnings and *)
(* the counters of the preview are left out.                                *)
(***************************************************************************)
EXTENDS Integers, FiniteSets

CONSTANTS
    Chapters,           \* the chapters, the synthetic one included
    MaxActivityDays     \* MAX_ACTIVITY_DURATION_DAYS

ASSUME GeneratorAssumption == MaxActivityDays \in Nat \ {0}

\* an item of the BOQ: its chapter, its quantity, whether it has an APU and the
\* person-days of labour per unit the components of the APU add up to
ItemRows == [ch : Chapters, qty : Nat, apu : BOOLEAN, yield : Nat]
Options  == [chapters : BOOLEAN, onlyPositive : BOOLEAN, withoutApu : BOOLEAN,
             milestones : BOOLEAN, min : Nat, crew : Nat]

Least(S)    == CHOOSE x \in S : \A y \in S : x <= y
Greatest(S) == CHOOSE x \in S : \A y \in S : x >= y

Crew(opt)           == IF opt.crew >= 1 THEN opt.crew ELSE 1
CeilDays(item, opt) == (item.qty * item.yield + Crew(opt) - 1) \div Crew(opt)

EstimateActivityDuration(item, opt) ==
    LET min == IF opt.min >= 1 THEN opt.min ELSE 1
    IN  IF ~item.apu \/ item.yield = 0 \/ item.qty = 0
        THEN min
        ELSE Least({MaxActivityDays, Greatest({min, CeilDays(item, opt)})})

Omitted(item, opt) ==
    \/ opt.onlyPositive /\ item.qty = 0
    \/ ~opt.withoutApu /\ ~item.apu

\* mutant: the day after the last one
ExclusiveEnd(start, days) == start + days
InclusiveEnd(start, days) == IF days > 1 THEN start + days - 1 ELSE start

\* the activities of a chapter, and the day its longest one ends
ActivitiesOf(boq, opt, c) == {i \in DOMAIN boq : boq[i].ch = c /\ ~Omitted(boq[i], opt)}
ActivityEnd(boq, opt, i)  == InclusiveEnd(0, EstimateActivityDuration(boq[i], opt))
ChapterEnd(boq, opt, c)   == Greatest({0} \cup {ActivityEnd(boq, opt, i) : i \in ActivitiesOf(boq, opt, c)})

\* an empty chapter is not emitted
Emitted(boq, opt)     == {c \in Chapters : ActivitiesOf(boq, opt, c) # {}}
ScheduleEnd(boq, opt) == Greatest({0} \cup {ChapterEnd(boq, opt, c) : c \in Emitted(boq, opt)})
=============================================================================
