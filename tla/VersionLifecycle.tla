--------------------------- MODULE VersionLifecycle ---------------------------
(***************************************************************************)
(* What the estimate versions promise their readers, without sessions,      *)
(* statements or locks.  A version is opened once, is edited while it is    *)
(* open, and is closed once.  After closing, the writes that were already   *)
(* under way may still land (phase "closing"); when the last has ended the  *)
(* version is frozen and nothing about it ever changes again.               *)
(***************************************************************************)
EXTENDS Naturals

CONSTANTS MaxVersion,   \* bound: number of versions
          Contents      \* what a version can hold

VARIABLES phase,        \* version -> "free", "open", "closing", "frozen"
          content       \* version -> a member of Contents

Numbers == 1 .. MaxVersion

Init ==
    /\ phase = [v \in Numbers |-> IF v = 1 THEN "open" ELSE "free"]
    /\ content \in [Numbers -> Contents]

\* versions are numbered without gaps and a new one needs a closed one to start from
Open(v) ==
    /\ phase[v] = "free"
    /\ \A w \in 1 .. (v - 1) : phase[w] # "free"
    /\ \E w \in Numbers : phase[w] \in {"closing", "frozen"}
    /\ phase' = [phase EXCEPT ![v] = "open"]
    /\ \E b \in Contents : content' = [content EXCEPT ![v] = b]

Edit(v) ==
    /\ phase[v] \in {"open", "closing"}
    /\ \E b \in Contents : content' = [content EXCEPT ![v] = b]
    /\ UNCHANGED phase

Close(v) ==
    /\ phase[v] = "open"
    /\ \E p \in {"closing", "frozen"} : phase' = [phase EXCEPT ![v] = p]
    /\ UNCHANGED content

\* the last late write ends: with an effect when it commits, without when it dies
Freeze(v) ==
    /\ phase[v] = "closing"
    /\ phase' = [phase EXCEPT ![v] = "frozen"]
    /\ \E b \in Contents : content' = [content EXCEPT ![v] = b]

Next == \E v \in Numbers : Open(v) \/ Edit(v) \/ Close(v) \/ Freeze(v)

Spec == Init /\ [][Next]_<<phase, content>>

=============================================================================
