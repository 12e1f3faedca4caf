---------------------------- MODULE ReviewDecisions ----------------------------
(***************************************************************************)
(* What the review of price observations promises: an observation is        *)
(* submitted once, waits, and is decided by one reviewer; a reviewer may    *)
(* decide several at a time, all of them waiting.  A reviewer may also take *)
(* one in hand while it waits and judge it later, without looking again.    *)
(* A decision is final except for whoever had the observation in hand then. *)
(***************************************************************************)
CONSTANTS Observations,     \* what is reviewed
          OneByOne,         \* those that reviewers may take in hand
          Deciders,         \* who may review
          NoOne             \* not a decider, not an observation

VARIABLES verdict,          \* observation -> "absent", "pending", "approved", "rejected"
          decider,          \* observation -> who decided it
          inHand            \* decider -> the observation it looked at

Init ==
    /\ verdict = [o \in Observations |-> "absent"]
    /\ decider = [o \in Observations |-> NoOne]
    /\ inHand = [d \in Deciders |-> NoOne]

Submit(o) ==
    /\ verdict[o] = "absent"
    /\ verdict' = [verdict EXCEPT ![o] = "pending"]
    /\ UNCHANGED <<decider, inHand>>

Decide(d, batch, v) ==
    /\ \A o \in batch : verdict[o] = "pending"
    /\ verdict' = [o \in Observations |-> IF o \in batch THEN v ELSE verdict[o]]
    /\ decider' = [o \in Observations |-> IF o \in batch THEN d ELSE decider[o]]
    /\ UNCHANGED inHand

Take(d, o) ==
    /\ verdict[o] = "pending"
    /\ inHand[d] = NoOne
    /\ inHand' = [inHand EXCEPT ![d] = o]
    /\ UNCHANGED <<verdict, decider>>

Judge(d, v) ==
    /\ inHand[d] # NoOne
    /\ verdict' = [verdict EXCEPT ![inHand[d]] = v]
    /\ decider' = [decider EXCEPT ![inHand[d]] = d]
    /\ inHand' = [inHand EXCEPT ![d] = NoOne]

PutBack(d) ==
    /\ inHand' = [inHand EXCEPT ![d] = NoOne]
    /\ UNCHANGED <<verdict, decider>>

Next ==
    \/ \E o \in Observations : Submit(o)
    \/ \E d \in Deciders :
          \/ \E v \in {"approved", "rejected"} :
                \/ \E batch \in SUBSET Observations : Decide(d, batch, v)
                \/ Judge(d, v)
          \/ \E o \in OneByOne : Take(d, o)
          \/ PutBack(d)

Spec == Init /\ [][Next]_<<verdict, decider, inHand>>

=============================================================================
