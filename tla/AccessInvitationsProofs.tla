------------------------ MODULE AccessInvitationsProofs ------------------------
(***************************************************************************)
(* Proofs about AccessInvitations: the lock that accept_invitation takes    *)
(* when it reads keeps the invitation as it was read until the profile is   *)
(* inserted (JoinersHold), whatever is resent or revoked meanwhile.         *)
(***************************************************************************)
EXTENDS AccessInvitations, SequenceTheorems, TLAPS

-----------------------------------------------------------------------------
(* Helpers *)

\* Replacing one invitation keeps the others and the number of them.
LEMMA ReplaceOne ==
    ASSUME NEW S, NEW q \in Seq(S), NEW i \in DOMAIN q, NEW e \in S
    PROVE  LET r == [q EXCEPT ![i] = e]
           IN  /\ r \in Seq(S) /\ Len(r) = Len(q) /\ DOMAIN r = DOMAIN q
               /\ r[i] = e /\ \A j \in DOMAIN q \ {i} : r[j] = q[j]
  OBVIOUS

\* Every invitation has its lock.
LEMMA RowsHaveLocks ==
    ASSUME TypeOK
    PROVE  /\ Len(invs) \in Nat /\ Rows = 1 .. Len(invs)
           /\ Rows \subseteq DOMAIN holder /\ DOMAIN holder = 1 .. MaxInvitations
  <1>1. invs \in Seq(Invitation) /\ Len(invs) <= MaxInvitations
    BY DEF TypeOK
  <1>2. Len(invs) \in Nat /\ DOMAIN invs = 1 .. Len(invs)
    BY <1>1
  <1>3. DOMAIN holder = 1 .. MaxInvitations /\ MaxInvitations \in Nat
    BY AccessAssumption DEF TypeOK
  <1> QED BY <1>1, <1>2, <1>3 DEF Rows

LEMMA NoCallTyped == NoCall \in Calls
  BY AccessAssumption DEF NoCall, Calls

\* The calls of one session that change neither roles nor invitations.
LEMMA BeginInv ==
    ASSUME IInv, NEW s \in Sessions, NEW c \in Calls, NEW l \in Steps \ {"join", "change"},
           Begin(s, c, l), CallKnown(c, l)
    PROVE  IInv'
  <1>0. /\ pc' = [pc EXCEPT ![s] = l] /\ call' = [call EXCEPT ![s] = c]
        /\ UNCHANGED <<role, invs, holder, now>>
    BY DEF Begin, Goto
  <1>1. TypeOK'
    BY <1>0 DEF IInv, TypeOK
  <1>2. CallsKnown'
    BY <1>0 DEF IInv, TypeOK, CallsKnown, CallKnown, Rows
  <1>3. JoinersHold'
    BY <1>0 DEF IInv, TypeOK, JoinersHold, Admits, Open
  <1>4. OnePendingPerEmail'
    BY <1>0 DEF IInv, OnePendingPerEmail, Rows, Open
  <1> QED BY <1>1, <1>2, <1>3, <1>4 DEF IInv

LEMMA EndInv ==
    ASSUME IInv, NEW s \in Sessions, End(s), UNCHANGED <<role, invs, now>>
    PROVE  IInv'
  <1>0. /\ pc' = [pc EXCEPT ![s] = "idle"] /\ call' = [call EXCEPT ![s] = NoCall]
        /\ holder' = [i \in DOMAIN holder |-> IF holder[i] = s THEN NoOne ELSE holder[i]]
    BY DEF End, Goto
  <1>1. TypeOK'
    BY <1>0, NoCallTyped DEF IInv, TypeOK, Steps
  <1>2. CallsKnown'
    BY <1>0 DEF IInv, TypeOK, CallsKnown, CallKnown, Rows
  <1>3. JoinersHold'
    <2> SUFFICES ASSUME NEW t \in Sessions, pc'[t] = "join"
                 PROVE  (holder[call[t].inv] = t /\ Admits(call[t]))'
      BY DEF JoinersHold
    <2>1. t # s /\ pc[t] = "join" /\ call'[t] = call[t]
      BY <1>0 DEF IInv, TypeOK
    <2>2. holder[call[t].inv] = t /\ Admits(call[t])
      BY <2>1 DEF IInv, JoinersHold
    <2>3. call[t].inv \in DOMAIN holder
      BY <2>1, RowsHaveLocks DEF IInv, CallsKnown, CallKnown
    <2> QED BY <1>0, <2>1, <2>2, <2>3 DEF Admits, Open
  <1>4. OnePendingPerEmail'
    BY DEF IInv, OnePendingPerEmail, Rows, Open
  <1> QED BY <1>1, <1>2, <1>3, <1>4 DEF IInv

\* A step to the next statement of the same call.
LEMMA GotoInv ==
    ASSUME IInv, NEW s \in Sessions, NEW l \in Steps \ {"join"}, Goto(s, l),
           CallKnown(call[s], l), l = "change" => role[call[s].who] # "none",
           UNCHANGED <<call, holder, role, invs, now>>
    PROVE  IInv'
  <1>0. pc' = [pc EXCEPT ![s] = l]
    BY DEF Goto
  <1>1. TypeOK'
    BY <1>0 DEF IInv, TypeOK
  <1>2. CallsKnown'
    BY <1>0 DEF IInv, TypeOK, CallsKnown, CallKnown, Rows
  <1>3. JoinersHold'
    BY <1>0 DEF IInv, TypeOK, JoinersHold, Admits, Open
  <1>4. OnePendingPerEmail'
    BY DEF IInv, OnePendingPerEmail, Rows, Open
  <1> QED BY <1>1, <1>2, <1>3, <1>4 DEF IInv

-----------------------------------------------------------------------------
(* One lemma for each operation *)

LEMMA CreateInv ==
    ASSUME IInv, NEW s \in Sessions,
           \/ \E a, p \in People, r \in Roles : BeginCreate(s, a, p, r)
           \/ CheckMember(s) \/ CheckPending(s)
    PROVE  IInv'
  <1>1. ASSUME NEW p \in People, NEW r \in Roles, NEW a \in People, BeginCreate(s, a, p, r)
        PROVE  IInv'
    <2> DEFINE c == [NoCall EXCEPT !.op = "create", !.born = now, !.who = p, !.role = r]
    <2>1. c \in Calls /\ CallKnown(c, "member")
      <3>1. now \in Nat /\ MaxInvitations \in Nat /\ MaxLinks \in Nat
        BY AccessAssumption DEF IInv, TypeOK
      <3>2. c \in Calls /\ c.who = p /\ c.role = r
        BY <3>1, NoCallTyped DEF Calls
      <3> QED BY <3>2 DEF CallKnown
    <2>2. Begin(s, c, "member") /\ "member" \in Steps \ {"join", "change"}
      BY <1>1 DEF BeginCreate, Steps
    <2> HIDE DEF c
    <2> QED BY <2>1, <2>2, BeginInv
  <1>2. CASE CheckMember(s)
    <2>1. CASE End(s)
      BY <1>2, <2>1, EndInv DEF CheckMember
    <2>2. CASE ~End(s)
      <3>1. /\ Goto(s, "pending") /\ UNCHANGED <<call, holder, role, invs, now>>
            /\ pc[s] = "member"
        BY <1>2, <2>2 DEF CheckMember
      <3>2. CallKnown(call[s], "pending") /\ "pending" \in Steps \ {"join"}
        BY <3>1 DEF IInv, CallsKnown, CallKnown, Steps
      <3> QED BY <3>1, <3>2, GotoInv
    <2> QED BY <2>1, <2>2
  <1>3. CASE CheckPending(s)
    <2>1. CASE End(s)
      BY <1>3, <2>1, EndInv DEF CheckPending
    <2>2. CASE ~End(s)
      <3>1. /\ Goto(s, "insert") /\ UNCHANGED <<call, holder, role, invs, now>>
            /\ pc[s] = "pending"
        BY <1>3, <2>2 DEF CheckPending
      <3>2. CallKnown(call[s], "insert") /\ "insert" \in Steps \ {"join"}
        BY <3>1 DEF IInv, CallsKnown, CallKnown, Steps
      <3> QED BY <3>1, <3>2, GotoInv
    <2> QED BY <2>1, <2>2
  <1> QED BY <1>1, <1>2, <1>3

LEMMA InsertInv ==
    ASSUME IInv, NEW s \in Sessions, InsertInvitation(s)
    PROVE  IInv'
  <1>1. CASE UNCHANGED invs
    BY <1>1, EndInv DEF InsertInvitation
  <1>2. CASE IndexFree(call[s].who, 0) /\ ~UNCHANGED invs
    <2> DEFINE e == [email |-> call[s].who, role |-> call[s].role, link |-> 1,
                     expires |-> call[s].born + Ttl, status |-> "pending"]
               n == Len(invs) + 1
    <2>0. /\ pc[s] = "insert" /\ Len(invs) < MaxInvitations /\ invs' = Append(invs, e)
          /\ UNCHANGED <<role, now>>
          /\ pc' = [pc EXCEPT ![s] = "idle"] /\ call' = [call EXCEPT ![s] = NoCall]
          /\ holder' = [i \in DOMAIN holder |-> IF holder[i] = s THEN NoOne ELSE holder[i]]
      BY <1>2 DEF InsertInvitation, End, Goto
    <2>1. e \in Invitation
      BY <2>0, AccessAssumption DEF IInv, CallsKnown, CallKnown, TypeOK, Calls, Invitation
    <2>2. invs \in Seq(Invitation) /\ Len(invs) \in Nat /\ Rows = 1 .. Len(invs)
      BY DEF IInv, TypeOK, Rows
    <2> HIDE DEF e
    <2>3. /\ invs' \in Seq(Invitation) /\ Len(invs') = n /\ Rows' = 1 .. n
          /\ invs'[n] = e /\ \A i \in Rows : invs'[i] = invs[i]
      BY <2>0, <2>1, <2>2 DEF Rows
    <2>4. TypeOK'
      BY <2>0, <2>2, <2>3, NoCallTyped, AccessAssumption DEF IInv, TypeOK, Steps
    <2>5. Rows \subseteq Rows'
      BY <2>2, <2>3
    <2>6. CallsKnown'
      BY <2>0, <2>5 DEF IInv, TypeOK, CallsKnown, CallKnown
    <2>7. JoinersHold'
      <3> SUFFICES ASSUME NEW t \in Sessions, pc'[t] = "join"
                   PROVE  (holder[call[t].inv] = t /\ Admits(call[t]))'
        BY DEF JoinersHold
      <3>1. t # s /\ pc[t] = "join" /\ call'[t] = call[t]
        BY <2>0 DEF IInv, TypeOK
      <3>2. holder[call[t].inv] = t /\ Admits(call[t]) /\ call[t].inv \in Rows
        BY <3>1 DEF IInv, JoinersHold, CallsKnown, CallKnown
      <3>3. call[t].inv \in DOMAIN holder
        BY <3>2, RowsHaveLocks DEF IInv
      <3>4. invs'[call[t].inv] = invs[call[t].inv]
        BY <3>2, <2>3
      <3> QED BY <2>0, <3>1, <3>2, <3>3, <3>4 DEF Admits, Open
    <2>8. OnePendingPerEmail'
      <3> SUFFICES ASSUME NEW i \in Rows', NEW j \in Rows', Open(i)', Open(j)',
                          invs'[i].email = invs'[j].email
                   PROVE  i = j
        BY DEF OnePendingPerEmail
      <3>1. \A k \in Rows : ~(Open(k) /\ invs[k].email = e.email)
        <4> SUFFICES ASSUME NEW k \in Rows, Open(k), invs[k].email = call[s].who
                     PROVE  FALSE
          BY DEF e
        <4>1. k \in OpenFor(call[s].who)
          BY DEF OpenFor
        <4> QED BY <4>1, <1>2, <2>2 DEF IndexFree
      <3>2. CASE i = n /\ j = n
        BY <3>2
      <3>3. CASE i \in Rows /\ j \in Rows
        BY <3>3, <2>3 DEF IInv, OnePendingPerEmail, Open
      <3>4. CASE i \in Rows /\ j = n
        BY <3>1, <3>4, <2>3 DEF Open
      <3>5. CASE i = n /\ j \in Rows
        BY <3>1, <3>5, <2>3 DEF Open
      <3> QED BY <3>2, <3>3, <3>4, <3>5, <2>2, <2>3
    <2> QED BY <2>4, <2>6, <2>7, <2>8 DEF IInv
  <1> QED BY <1>1, <1>2 DEF InsertInvitation

LEMMA UpdateInv ==
    ASSUME IInv, NEW s \in Sessions, NEW a \in People, NEW i \in 1 .. MaxInvitations,
           BeginResend(s, a, i) \/ BeginRevoke(s, a, i)
    PROVE  IInv'
  <1> DEFINE c == [NoCall EXCEPT !.op = "resend", !.as = role[a], !.born = now, !.inv = i]
             d == [NoCall EXCEPT !.op = "revoke", !.inv = i]
  <1>0. now \in Nat /\ MaxInvitations \in Nat /\ MaxLinks \in Nat /\ i \in Rows
        /\ role[a] \in Roles \cup {"none"} /\ i \in 0 .. MaxInvitations
    BY AccessAssumption DEF IInv, TypeOK, BeginResend, BeginRevoke
  <1>1. /\ c \in Calls /\ c.op = "resend" /\ c.inv = i
        /\ d \in Calls /\ d.op = "revoke" /\ d.inv = i
    BY <1>0, NoCallTyped DEF Calls
  <1>2. /\ c \in Calls /\ CallKnown(c, "read")
        /\ d \in Calls /\ CallKnown(d, "read")
    BY <1>0, <1>1 DEF CallKnown
  <1>3. (Begin(s, c, "read") \/ Begin(s, d, "read")) /\ "read" \in Steps \ {"join", "change"}
    BY DEF BeginResend, BeginRevoke, Steps
  <1> HIDE DEF c, d
  <1> QED BY <1>2, <1>3, BeginInv

LEMMA ReadInv ==
    ASSUME IInv, NEW s \in Sessions, ReadInvitation(s) \/ ReadTarget(s)
    PROVE  IInv'
  <1>1. CASE End(s)
    BY <1>1, EndInv DEF ReadInvitation, ReadTarget
  <1>2. CASE ReadInvitation(s) /\ ~End(s)
    <2>1. pc[s] = "read" /\ Goto(s, "update") /\ UNCHANGED <<call, holder, role, invs, now>>
      BY <1>2 DEF ReadInvitation
    <2>2. CallKnown(call[s], "update") /\ "update" \in Steps \ {"join"}
      BY <2>1 DEF IInv, CallsKnown, CallKnown, Steps
    <2> QED BY <2>1, <2>2, GotoInv
  <1>3. CASE ReadTarget(s) /\ ~End(s)
    <2>1. pc[s] = "target" /\ Goto(s, "change") /\ UNCHANGED <<call, holder, role, invs, now>>
      BY <1>3 DEF ReadTarget
    <2>2. CallKnown(call[s], "change") /\ role[call[s].who] # "none" /\ "change" \in Steps \ {"join"}
      BY <1>3, <2>1 DEF ReadTarget, IInv, CallsKnown, CallKnown, Steps
    <2> QED BY <2>1, <2>2, GotoInv
  <1> QED BY <1>1, <1>2, <1>3

\* The end of a call that has replaced the invitation i, which no other call
\* has locked, by e.
LEMMA ReplaceInv ==
    ASSUME IInv, NEW s \in Sessions, NEW i \in Rows, NEW e \in Invitation,
           End(s), invs' = [invs EXCEPT ![i] = e], UNCHANGED now,
           role' \in [People -> Roles \cup {"none"}],
           \A p \in People : role[p] # "none" => role'[p] # "none",
           holder[i] \in {NoOne, s},
           e.email = invs[i].email,
           e.status = "pending" => IndexFree(invs[i].email, i)
    PROVE  IInv'
  <1>0. /\ pc' = [pc EXCEPT ![s] = "idle"] /\ call' = [call EXCEPT ![s] = NoCall]
        /\ holder' = [j \in DOMAIN holder |-> IF holder[j] = s THEN NoOne ELSE holder[j]]
    BY DEF End, Goto
  <1>1. /\ invs' \in Seq(Invitation) /\ Len(invs') = Len(invs) /\ Rows' = Rows
        /\ invs'[i] = e /\ \A j \in Rows \ {i} : invs'[j] = invs[j]
    BY ReplaceOne DEF IInv, TypeOK, Rows
  <1>2. TypeOK'
    BY <1>0, <1>1, NoCallTyped DEF IInv, TypeOK, Steps
  <1>3. CallsKnown'
    BY <1>0, <1>1 DEF IInv, TypeOK, CallsKnown, CallKnown
  <1>4. JoinersHold'
    <2> SUFFICES ASSUME NEW t \in Sessions, pc'[t] = "join"
                 PROVE  (holder[call[t].inv] = t /\ Admits(call[t]))'
      BY DEF JoinersHold
    <2>1. t # s /\ pc[t] = "join" /\ call'[t] = call[t]
      BY <1>0 DEF IInv, TypeOK
    <2>2. holder[call[t].inv] = t /\ Admits(call[t]) /\ call[t].inv \in Rows
      BY <2>1 DEF IInv, JoinersHold, CallsKnown, CallKnown
    <2>3. t # NoOne /\ call[t].inv \in DOMAIN holder
      BY <2>2, RowsHaveLocks, AccessAssumption DEF IInv
    <2>4. call[t].inv # i
      BY <2>1, <2>2, <2>3
    <2> QED BY <1>0, <1>1, <2>1, <2>2, <2>3, <2>4 DEF Admits, Open
  <1>5. OnePendingPerEmail'
    <2> SUFFICES ASSUME NEW j \in Rows, NEW k \in Rows, Open(j)', Open(k)',
                        invs'[j].email = invs'[k].email
                 PROVE  j = k
      BY <1>1 DEF OnePendingPerEmail
    <2>1. CASE j # i /\ k # i
      BY <2>1, <1>1 DEF IInv, OnePendingPerEmail, Open
    <2>2. ASSUME NEW m \in Rows \ {i}, Open(m), invs[m].email = e.email, e.status = "pending"
          PROVE  FALSE
      BY <2>2 DEF IndexFree, OpenFor
    <2>3. CASE j = i /\ k # i
      BY <2>2, <2>3, <1>1 DEF Open
    <2>4. CASE k = i /\ j # i
      BY <2>2, <2>4, <1>1 DEF Open
    <2> QED BY <2>1, <2>3, <2>4
  <1> QED BY <1>2, <1>3, <1>4, <1>5 DEF IInv

LEMMA UpdateInvitationInv ==
    ASSUME IInv, NEW s \in Sessions, UpdateInvitation(s)
    PROVE  IInv'
  <1> DEFINE i == call[s].inv
             revoked == [invs[i] EXCEPT !.status = "revoked"]
             resent == [invs[i] EXCEPT !.status = "pending", !.link = invs[i].link + 1,
                                       !.expires = call[s].born + Ttl]
  <1>0. i \in Rows /\ invs[i] \in Invitation /\ holder[i] \in {NoOne, s} /\ End(s)
        /\ UNCHANGED <<role, now>> /\ call[s].born \in Nat
        /\ role' \in [People -> Roles \cup {"none"}]
    <2>1. pc[s] = "update" /\ End(s) /\ ~LockedFor(s, i) /\ UNCHANGED <<role, now>>
      BY DEF UpdateInvitation
    <2>2. i \in Rows
      BY <2>1 DEF IInv, CallsKnown, CallKnown
    <2>3. invs[i] \in Invitation
      BY <2>2 DEF IInv, TypeOK, Rows
    <2>4. holder[i] \in {NoOne, s}
      BY <2>1 DEF LockedFor
    <2>5. call[s].born \in Nat /\ role' \in [People -> Roles \cup {"none"}]
      BY <2>1 DEF IInv, TypeOK, Calls
    <2> QED BY <2>1, <2>2, <2>3, <2>4, <2>5
  <1>1. revoked \in Invitation /\ resent \in Invitation
        /\ revoked.email = invs[i].email /\ resent.email = invs[i].email
        /\ revoked.status = "revoked"
    <2>1. invs[i] \in Invitation /\ call[s].born + Ttl \in Nat
      BY <1>0, AccessAssumption
    <2> DEFINE x == invs[i]
               y == call[s].born + Ttl
    <2> HIDE DEF i
    <2>2. x \in Invitation /\ y \in Nat
      BY <2>1
    <2> HIDE DEF x, y
    <2>3. [x EXCEPT !.status = "revoked"] \in Invitation
          /\ [x EXCEPT !.status = "revoked"].email = x.email
          /\ [x EXCEPT !.status = "revoked"].status = "revoked"
      BY <2>2 DEF Invitation
    <2>4. x.link + 1 \in Nat
      BY <2>2 DEF Invitation
    <2>5. [x EXCEPT !.status = "pending", !.link = x.link + 1, !.expires = y] \in Invitation
          /\ [x EXCEPT !.status = "pending", !.link = x.link + 1, !.expires = y].email = x.email
      BY <2>2, <2>4 DEF Invitation
    <2> QED BY <2>3, <2>5 DEF x, y
  <1>2. \/ invs' = [invs EXCEPT ![i] = revoked]
        \/ invs' = [invs EXCEPT ![i] = resent] /\ IndexFree(invs[i].email, i)
        \/ UNCHANGED invs
    <2>1. invs \in Seq(Invitation) /\ i \in DOMAIN invs
      BY <1>0 DEF IInv, TypeOK, Rows
    <2>2. CASE call[s].op = "revoke"
      <3>1. invs' = [invs EXCEPT ![i].status = "revoked"]
        BY <2>2 DEF UpdateInvitation
      <3> QED BY <2>1, <3>1
    <2>3. CASE call[s].op # "revoke" /\ ~UNCHANGED invs
      <3>1. /\ invs' = [invs EXCEPT ![i].status = "pending", ![i].link = @ + 1,
                                    ![i].expires = call[s].born + Ttl]
            /\ IndexFree(invs[i].email, i)
        BY <2>3 DEF UpdateInvitation
      <3> QED BY <2>1, <3>1
    <2> QED BY <2>2, <2>3
  <1> HIDE DEF i, revoked, resent
  <1>3. CASE UNCHANGED invs
    BY <1>0, <1>3, EndInv
  <1>4. CASE invs' = [invs EXCEPT ![i] = revoked]
    BY <1>0, <1>1, <1>4, ReplaceInv
  <1>5. CASE invs' = [invs EXCEPT ![i] = resent] /\ IndexFree(invs[i].email, i)
    BY <1>0, <1>1, <1>5, ReplaceInv
  <1> QED BY <1>2, <1>3, <1>4, <1>5

LEMMA AcceptInv ==
    ASSUME IInv, NEW s \in Sessions, NEW p \in People, NEW i \in 1 .. MaxInvitations,
           NEW n \in 1 .. MaxLinks, BeginAccept(s, p, i, n)
    PROVE  IInv'
  <1> DEFINE c == [NoCall EXCEPT !.op = "accept", !.by = p, !.born = now, !.inv = i, !.link = n]
  <1>0. /\ now \in Nat /\ i \in 0 .. MaxInvitations /\ n \in 0 .. MaxLinks
        /\ i \in Rows
    BY AccessAssumption DEF IInv, TypeOK, BeginAccept
  <1>1. c \in Calls /\ c.by = p /\ c.inv = i
    BY <1>0, NoCallTyped DEF Calls
  <1>2. CallKnown(c, "lock")
    BY <1>0, <1>1 DEF CallKnown
  <1>3. Begin(s, c, "lock") /\ "lock" \in Steps \ {"join", "change"}
    BY DEF BeginAccept, Steps
  <1> HIDE DEF c
  <1> QED BY <1>1, <1>2, <1>3, BeginInv

\* The step that takes the lock: the invitation admits the caller as it is read.
LEMMA LockInv ==
    ASSUME IInv, NEW s \in Sessions, LockInvitation(s)
    PROVE  IInv'
  <1>1. CASE End(s)
    BY <1>1, EndInv DEF LockInvitation
  <1>2. CASE ~End(s)
    <2> DEFINE i == call[s].inv
    <2>0. /\ pc[s] = "lock" /\ holder[i] \in {NoOne, s}
          /\ holder' = [holder EXCEPT ![i] = s] /\ pc' = [pc EXCEPT ![s] = "join"]
          /\ UNCHANGED <<call, role, invs, now>>
          /\ Admits(call[s])
      BY <1>2 DEF LockInvitation, LockedFor, Goto, Admits
    <2>1. call[s].by \in People /\ i \in Rows /\ i \in DOMAIN holder
      BY <2>0, RowsHaveLocks DEF IInv, CallsKnown, CallKnown
    <2>2. TypeOK'
      BY <2>0 DEF IInv, TypeOK, Steps
    <2>3. CallsKnown'
      BY <2>0, <2>1 DEF IInv, TypeOK, CallsKnown, CallKnown, Rows
    <2>4. JoinersHold'
      <3> SUFFICES ASSUME NEW t \in Sessions, pc'[t] = "join"
                   PROVE  (holder[call[t].inv] = t /\ Admits(call[t]))'
        BY DEF JoinersHold
      <3>1. CASE t = s
        BY <3>1, <2>0, <2>1 DEF Admits, Open
      <3>2. CASE t # s
        <4>1. holder[call[t].inv] = t /\ Admits(call[t]) /\ call[t].inv \in DOMAIN holder
          BY <3>2, <2>0, RowsHaveLocks DEF IInv, TypeOK, JoinersHold, CallsKnown, CallKnown
        <4>2. call[t].inv # i
          BY <4>1, <3>2, <2>0, AccessAssumption
        <4> QED BY <4>1, <4>2, <2>0 DEF Admits, Open
      <3> QED BY <3>1, <3>2
    <2>5. OnePendingPerEmail'
      BY <2>0 DEF IInv, OnePendingPerEmail, Rows, Open
    <2> QED BY <2>2, <2>3, <2>4, <2>5 DEF IInv
  <1> QED BY <1>1, <1>2

LEMMA JoinInv ==
    ASSUME IInv, NEW s \in Sessions, Join(s)
    PROVE  IInv'
  <1> DEFINE i == call[s].inv
             p == call[s].by
  <1>0. pc[s] = "join" /\ End(s) /\ UNCHANGED now
    BY DEF Join
  <1>1. i \in Rows /\ p \in People /\ holder[i] = s
    BY <1>0 DEF IInv, CallsKnown, CallKnown, JoinersHold
  <1>2. CASE role[p] # "none"
    BY <1>0, <1>2, EndInv DEF Join
  <1>3. CASE role[p] = "none"
    <2> DEFINE e == [invs[i] EXCEPT !.status = "accepted"]
    <2>1. invs \in Seq(Invitation) /\ i \in DOMAIN invs /\ invs[i] \in Invitation
      BY <1>1 DEF IInv, TypeOK, Rows
    <2>2. e \in Invitation /\ e.email = invs[i].email /\ e.status = "accepted"
      BY <2>1 DEF Invitation
    <2>3. /\ role' = [role EXCEPT ![p] = invs[i].role]
          /\ invs' = [invs EXCEPT ![i] = e]
      BY <1>3, <2>1 DEF Join
    <2>4. /\ role' \in [People -> Roles \cup {"none"}]
          /\ \A q \in People : role[q] # "none" => role'[q] # "none"
      BY <2>1, <2>3 DEF IInv, TypeOK, Invitation, Roles
    <2> HIDE DEF e, i, p
    <2> QED BY <1>0, <1>1, <2>2, <2>3, <2>4, ReplaceInv
  <1> QED BY <1>2, <1>3

LEMMA ChangeInv ==
    ASSUME IInv, NEW s \in Sessions,
           \/ \E a, p \in People, r \in Roles : BeginChange(s, a, p, r)
           \/ ChangeRole(s)
    PROVE  IInv'
  <1>1. ASSUME NEW a \in People, NEW p \in People, NEW r \in Roles, BeginChange(s, a, p, r)
        PROVE  IInv'
    <2> DEFINE c == [NoCall EXCEPT !.op = "change", !.by = a, !.as = role[a], !.who = p,
                                   !.role = r]
    <2>1. role[a] \in Roles \cup {"none"}
      BY DEF IInv, TypeOK
    <2>2. c \in Calls /\ c.by = a /\ c.who = p /\ c.role = r
      BY <2>1, NoCallTyped DEF Calls
    <2>3. CallKnown(c, "target")
      BY <1>1, <2>2 DEF CallKnown, BeginChange, Others
    <2>4. Begin(s, c, "target") /\ "target" \in Steps \ {"join", "change"}
      BY <1>1 DEF BeginChange, Steps
    <2> HIDE DEF c
    <2> QED BY <2>2, <2>3, <2>4, BeginInv
  <1>2. CASE ChangeRole(s)
    <2>0. /\ role' = [role EXCEPT ![call[s].who] = call[s].role] /\ UNCHANGED <<invs, now>>
          /\ pc' = [pc EXCEPT ![s] = "idle"] /\ call' = [call EXCEPT ![s] = NoCall]
          /\ holder' = [j \in DOMAIN holder |-> IF holder[j] = s THEN NoOne ELSE holder[j]]
          /\ pc[s] = "change"
      BY <1>2 DEF ChangeRole, End, Goto
    <2>1. call[s].who \in People /\ call[s].role \in Roles
      BY <2>0 DEF IInv, CallsKnown, CallKnown
    <2>2. TypeOK'
      BY <2>0, <2>1, NoCallTyped DEF IInv, TypeOK, Steps
    <2>3. CallsKnown'
      BY <2>0, <2>1 DEF IInv, TypeOK, CallsKnown, CallKnown, Rows, Roles
    <2>4. JoinersHold'
      <3> SUFFICES ASSUME NEW t \in Sessions, pc'[t] = "join"
                   PROVE  (holder[call[t].inv] = t /\ Admits(call[t]))'
        BY DEF JoinersHold
      <3>1. t # s /\ pc[t] = "join" /\ call'[t] = call[t]
        BY <2>0 DEF IInv, TypeOK
      <3>2. holder[call[t].inv] = t /\ Admits(call[t]) /\ call[t].inv \in DOMAIN holder
        BY <3>1, RowsHaveLocks DEF IInv, JoinersHold, CallsKnown, CallKnown
      <3> QED BY <2>0, <3>1, <3>2 DEF Admits, Open
    <2>5. OnePendingPerEmail'
      BY <2>0 DEF IInv, OnePendingPerEmail, Rows, Open
    <2> QED BY <2>2, <2>3, <2>4, <2>5 DEF IInv
  <1> QED BY <1>1, <1>2

LEMMA TickInv ==
    ASSUME IInv, Tick
    PROVE  IInv'
  <1>1. TypeOK'
    BY AccessAssumption DEF IInv, TypeOK, Tick
  <1>2. CallsKnown' /\ JoinersHold' /\ OnePendingPerEmail'
    BY DEF IInv, CallsKnown, CallKnown, JoinersHold, Admits, OnePendingPerEmail, Rows, Open, Tick
  <1> QED BY <1>1, <1>2 DEF IInv

-----------------------------------------------------------------------------
(* The invariant *)

LEMMA InitInv == Init => IInv
  <1> SUFFICES ASSUME Init PROVE IInv
    OBVIOUS
  <1>1. TypeOK
    BY NoCallTyped, AccessAssumption DEF Init, TypeOK, Roles, Steps
  <1>2. CallsKnown /\ JoinersHold /\ OnePendingPerEmail
    BY DEF Init, CallsKnown, CallKnown, JoinersHold, OnePendingPerEmail, Rows
  <1> QED BY <1>1, <1>2 DEF IInv

LEMMA StepInv == IInv /\ [Next]_vars => IInv'
  <1> SUFFICES ASSUME IInv, [Next]_vars PROVE IInv'
    OBVIOUS
  <1>1. CASE UNCHANGED vars
    BY <1>1 DEF vars, IInv, TypeOK, CallsKnown, CallKnown, JoinersHold, Admits,
                OnePendingPerEmail, Rows, Open
  <1>2. CASE Tick
    BY <1>2, TickInv
  <1>3. ASSUME NEW s \in Sessions, Die(s) PROVE IInv'
    BY <1>3, EndInv DEF Die
  <1> QED BY <1>1, <1>2, <1>3, CreateInv, InsertInv, UpdateInv, ReadInv, UpdateInvitationInv,
             AcceptInv, LockInv, JoinInv, ChangeInv
          DEF Next

THEOREM Invariance == Spec => []IInv
  BY InitInv, StepInv, PTL DEF Spec

-----------------------------------------------------------------------------
(* Roles change in two statements only *)

LEMMA RolesChangeBy ==
    ASSUME [Next]_vars, role' # role
    PROVE  \E s \in Sessions : Join(s) \/ ChangeRole(s)
  <1>1. ASSUME NEW s \in Sessions,
               \/ \E a, q \in People, r \in Roles : BeginCreate(s, a, q, r) \/ BeginChange(s, a, q, r)
               \/ \E a \in People, i \in 1 .. MaxInvitations :
                     BeginResend(s, a, i) \/ BeginRevoke(s, a, i)
               \/ \E q \in People, i \in 1 .. MaxInvitations, n \in 1 .. MaxLinks :
                     BeginAccept(s, q, i, n)
        PROVE  FALSE
    BY <1>1
       DEF BeginCreate, BeginChange, BeginResend, BeginRevoke, BeginAccept, Begin
  <1>2. ASSUME NEW s \in Sessions,
               \/ CheckMember(s) \/ CheckPending(s) \/ InsertInvitation(s)
               \/ ReadInvitation(s) \/ UpdateInvitation(s) \/ LockInvitation(s)
               \/ ReadTarget(s) \/ Die(s)
        PROVE  FALSE
    BY <1>2 DEF CheckMember, CheckPending, InsertInvitation, ReadInvitation,
                      UpdateInvitation, LockInvitation, ReadTarget, Die
  <1>3. ~Tick /\ ~UNCHANGED vars
    BY DEF Tick, vars
  <1> QED BY <1>1, <1>2, <1>3 DEF Next

-----------------------------------------------------------------------------
(* What follows from it *)

\* Every variable has its type, whatever calls overlap and whatever dies.
THEOREM TypeCorrect == Spec => []TypeOK
  BY Invariance, PTL DEF IInv

\* An address never has two pending invitations.
THEOREM OnePending == Spec => []OnePendingPerEmail
  BY Invariance, PTL DEF IInv

\* Nobody joins but with the latest link of an invitation that is pending when
\* the profile is inserted, and with its role.
THEOREM OnlyOpenLinksAdmitHolds == Spec => OnlyOpenLinksAdmit
  <1> DEFINE Admitted ==
        \A p \in People : role[p] = "none" /\ role'[p] # "none" =>
          \E s \in Sessions :
            /\ pc[s] = "join" /\ pc'[s] = "idle"
            /\ call[s].by = p /\ Admits(call[s])
            /\ role'[p] = invs[call[s].inv].role
            /\ invs'[call[s].inv].status = "accepted"
  <1>1. IInv /\ [Next]_vars => [Admitted]_vars
    <2> SUFFICES ASSUME IInv, [Next]_vars, NEW p \in People, role[p] = "none", role'[p] # "none"
                 PROVE  \E s \in Sessions :
                           /\ pc[s] = "join" /\ pc'[s] = "idle"
                           /\ call[s].by = p /\ Admits(call[s])
                           /\ role'[p] = invs[call[s].inv].role
                           /\ invs'[call[s].inv].status = "accepted"
      OBVIOUS
    <2>1. role' # role
      OBVIOUS
    <2>2. ASSUME NEW s \in Sessions, Join(s)
          PROVE  /\ pc[s] = "join" /\ pc'[s] = "idle"
                 /\ call[s].by = p /\ Admits(call[s])
                 /\ role'[p] = invs[call[s].inv].role
                 /\ invs'[call[s].inv].status = "accepted"
      <3>1. pc[s] = "join" /\ pc'[s] = "idle"
        BY <2>2 DEF Join, End, Goto, IInv, TypeOK
      <3>2. Admits(call[s]) /\ call[s].inv \in Rows /\ call[s].by \in People
        BY <3>1 DEF IInv, JoinersHold, CallsKnown, CallKnown
      <3>3. role[call[s].by] = "none"
        BY <2>1, <2>2 DEF Join
      <3>4. /\ role' = [role EXCEPT ![call[s].by] = invs[call[s].inv].role]
            /\ invs' = [invs EXCEPT ![call[s].inv].status = "accepted"]
        BY <2>2, <3>3 DEF Join
      <3>5. call[s].by = p /\ role'[p] = invs[call[s].inv].role
        BY <3>2, <3>4 DEF IInv, TypeOK
      <3>6. invs[call[s].inv] \in Invitation /\ invs \in Seq(Invitation)
        BY <3>2 DEF IInv, TypeOK, Rows
      <3>7. invs'[call[s].inv] = [invs[call[s].inv] EXCEPT !.status = "accepted"]
        BY <3>2, <3>4, <3>6 DEF Rows
      <3>8. invs'[call[s].inv].status = "accepted"
        BY <3>6, <3>7 DEF Invitation
      <3> QED BY <3>1, <3>2, <3>5, <3>8
    <2>3. ASSUME NEW s \in Sessions, ChangeRole(s) PROVE FALSE
      <3>1. pc[s] = "change" /\ role' = [role EXCEPT ![call[s].who] = call[s].role]
        BY <2>3 DEF ChangeRole
      <3>2. call[s].who \in People /\ role[call[s].who] # "none"
        BY <3>1 DEF IInv, CallsKnown, CallKnown
      <3> QED BY <3>1, <3>2 DEF IInv, TypeOK
    <2> QED BY <2>1, <2>2, <2>3, RolesChangeBy
  <1> QED BY <1>1, Invariance, PTL DEF Spec, OnlyOpenLinksAdmit

\* The last administrator is lost only to a change that would be refused at
\* that instant: nobody changes their own role, and gerencia no administrator.
THEOREM LastAdminNeedsOverlapHolds == Spec => LastAdminNeedsOverlap
  <1> DEFINE Overlap ==
        Admins # {} /\ Admins' = {} =>
          \E s \in Sessions : /\ pc[s] = "change" /\ pc'[s] = "idle"
                              /\ ~MayChange(role[call[s].by], role[call[s].who], call[s].role)
  <1>1. IInv /\ [Next]_vars => [Overlap]_vars
    <2> SUFFICES ASSUME IInv, [Next]_vars, Admins # {}, Admins' = {}
                 PROVE  \E s \in Sessions :
                           /\ pc[s] = "change" /\ pc'[s] = "idle"
                           /\ ~MayChange(role[call[s].by], role[call[s].who], call[s].role)
      OBVIOUS
    <2>1. PICK p \in People : role[p] = "admin" /\ role'[p] # "admin"
      BY DEF Admins
    <2>2. ASSUME NEW s \in Sessions, Join(s) PROVE FALSE
      <3>1. pc[s] = "join"
        BY <2>2 DEF Join
      <3>2. call[s].by \in People
        BY <3>1 DEF IInv, CallsKnown, CallKnown
      <3> QED BY <2>1, <2>2, <3>2 DEF Join, IInv, TypeOK
    <2>3. ASSUME NEW s \in Sessions, ChangeRole(s)
          PROVE  /\ pc[s] = "change" /\ pc'[s] = "idle"
                 /\ ~MayChange(role[call[s].by], role[call[s].who], call[s].role)
      <3>1. /\ pc[s] = "change" /\ pc'[s] = "idle"
            /\ role' = [role EXCEPT ![call[s].who] = call[s].role]
        BY <2>3 DEF ChangeRole, End, Goto, IInv, TypeOK
      <3>2. /\ call[s].by \in People /\ call[s].who \in People
            /\ call[s].by # call[s].who
        BY <3>1 DEF IInv, CallsKnown, CallKnown
      <3>3. call[s].who = p
        BY <2>1, <3>1, <3>2 DEF IInv, TypeOK
      <3>4. role[call[s].by] # "admin"
        BY <3>1, <3>2 DEF IInv, TypeOK, Admins
      <3> QED BY <2>1, <3>1, <3>3, <3>4 DEF MayChange, MayGive, Manages
    <2> QED BY <2>1, <2>2, <2>3, RolesChangeBy
  <1> QED BY <1>1, Invariance, PTL DEF Spec, LastAdminNeedsOverlap

\* The steps in which an invitation is written.
LEMMA InvitationsChangeBy ==
    ASSUME [Next]_vars, invs' # invs
    PROVE  \E s \in Sessions : InsertInvitation(s) \/ UpdateInvitation(s) \/ Join(s)
  <1>1. ASSUME NEW s \in Sessions,
               \/ \E a, q \in People, r \in Roles : BeginCreate(s, a, q, r) \/ BeginChange(s, a, q, r)
               \/ \E a \in People, i \in 1 .. MaxInvitations :
                     BeginResend(s, a, i) \/ BeginRevoke(s, a, i)
               \/ \E q \in People, i \in 1 .. MaxInvitations, n \in 1 .. MaxLinks :
                     BeginAccept(s, q, i, n)
        PROVE  FALSE
    BY <1>1
       DEF BeginCreate, BeginChange, BeginResend, BeginRevoke, BeginAccept, Begin
  <1>2. ASSUME NEW s \in Sessions,
               \/ CheckMember(s) \/ CheckPending(s) \/ ReadInvitation(s)
               \/ LockInvitation(s) \/ ReadTarget(s) \/ ChangeRole(s) \/ Die(s)
        PROVE  FALSE
    BY <1>2 DEF CheckMember, CheckPending, ReadInvitation, LockInvitation,
                ReadTarget, ChangeRole, Die
  <1>3. ~Tick /\ ~UNCHANGED vars
    BY DEF Tick, vars
  <1> QED BY <1>1, <1>2, <1>3 DEF Next

\* A call about to write an invitation was so before, or has just read it.
LEMMA WritersRead ==
    ASSUME IInv, [Next]_vars, NEW t \in Sessions, pc'[t] = "update"
    PROVE  \/ pc[t] = "update" /\ call'[t] = call[t]
           \/ ReadInvitation(t) /\ call'[t] = call[t]
  <1> USE DEF IInv, TypeOK
  <1>1. ASSUME NEW s \in Sessions, NEW c, NEW l \in Steps \ {"update"}, Begin(s, c, l)
        PROVE  pc[t] = "update" /\ call'[t] = call[t]
    BY <1>1 DEF Begin, Goto
  <1>2. ASSUME NEW s \in Sessions, End(s)
        PROVE  pc[t] = "update" /\ call'[t] = call[t]
    BY <1>2 DEF End, Goto
  <1>3. ASSUME NEW s \in Sessions, NEW l \in Steps \ {"update"}, Goto(s, l), UNCHANGED call
        PROVE  pc[t] = "update" /\ call'[t] = call[t]
    BY <1>3 DEF Goto
  <1>4. ASSUME NEW s \in Sessions,
               \/ \E a, q \in People, r \in Roles : BeginCreate(s, a, q, r) \/ BeginChange(s, a, q, r)
               \/ \E a \in People, i \in 1 .. MaxInvitations :
                     BeginResend(s, a, i) \/ BeginRevoke(s, a, i)
               \/ \E q \in People, i \in 1 .. MaxInvitations, n \in 1 .. MaxLinks :
                     BeginAccept(s, q, i, n)
        PROVE  pc[t] = "update" /\ call'[t] = call[t]
    BY <1>1, <1>4
       DEF BeginCreate, BeginChange, BeginResend, BeginRevoke, BeginAccept, Steps
  <1>5. ASSUME NEW s \in Sessions,
               \/ CheckMember(s) \/ CheckPending(s) \/ LockInvitation(s) \/ ReadTarget(s)
        PROVE  pc[t] = "update" /\ call'[t] = call[t]
    BY <1>2, <1>3, <1>5
       DEF CheckMember, CheckPending, LockInvitation, ReadTarget, Steps
  <1>6. ASSUME NEW s \in Sessions,
               \/ InsertInvitation(s) \/ UpdateInvitation(s) \/ Join(s) \/ ChangeRole(s) \/ Die(s)
        PROVE  pc[t] = "update" /\ call'[t] = call[t]
    BY <1>2, <1>6 DEF InsertInvitation, UpdateInvitation, Join, ChangeRole, Die
  <1>7. ASSUME NEW s \in Sessions, ReadInvitation(s)
        PROVE  \/ pc[t] = "update" /\ call'[t] = call[t]
               \/ ReadInvitation(t) /\ call'[t] = call[t]
    <2>1. CASE End(s)
      BY <1>2, <2>1
    <2>2. CASE Goto(s, "update") /\ UNCHANGED call
      BY <1>7, <2>2 DEF Goto
    <2> QED BY <1>7, <2>1, <2>2 DEF ReadInvitation
  <1>8. ASSUME Tick \/ UNCHANGED vars
        PROVE  pc[t] = "update" /\ call'[t] = call[t]
    BY <1>8 DEF Tick, vars
  <1> QED BY <1>4, <1>5, <1>6, <1>7, <1>8 DEF Next

\* An invitation that was accepted or revoked is settled but for the calls that
\* had found it pending.
THEOREM ClosedSettlesHolds == Spec => ClosedSettles
  <1> DEFINE Settled ==
        \A i \in Rows : ~Open(i) => /\ Writers(i)' \subseteq Writers(i)
                                    /\ (Writers(i) = {} => invs'[i] = invs[i])
  <1>1. IInv /\ [Next]_vars => [Settled]_vars
    <2> SUFFICES ASSUME IInv, [Next]_vars, NEW i \in Rows, ~Open(i)
                 PROVE  /\ Writers(i)' \subseteq Writers(i)
                        /\ (Writers(i) = {} => invs'[i] = invs[i])
      OBVIOUS
    <2>1. ASSUME NEW t \in Writers(i)' PROVE t \in Writers(i)
      <3>1. t \in Sessions /\ pc'[t] = "update" /\ call'[t].inv = i
        BY <2>1 DEF Writers
      <3>2. ~ReadInvitation(t) \/ call[t].inv # i \/ call'[t] # call[t]
        <4> SUFFICES ASSUME ReadInvitation(t), call[t].inv = i, call'[t] = call[t]
                     PROVE  FALSE
          OBVIOUS
        <4>1. End(t)
          BY DEF ReadInvitation
        <4> QED BY <3>1, <4>1 DEF End, Goto, IInv, TypeOK
      <3> QED BY <3>1, <3>2, WritersRead DEF Writers
    <2>2. ASSUME Writers(i) = {} PROVE invs'[i] = invs[i]
      <3>1. ASSUME NEW s \in Sessions, InsertInvitation(s) PROVE invs'[i] = invs[i]
        <4> DEFINE e == [email |-> call[s].who, role |-> call[s].role, link |-> 1,
                         expires |-> call[s].born + Ttl, status |-> "pending"]
        <4>1. pc[s] = "insert" /\ (invs' = Append(invs, e) \/ UNCHANGED invs)
          BY <3>1 DEF InsertInvitation
        <4>2. e \in Invitation
          BY <4>1, AccessAssumption
             DEF IInv, CallsKnown, CallKnown, TypeOK, Calls, Invitation
        <4>3. invs \in Seq(Invitation) /\ i \in 1 .. Len(invs)
          BY DEF IInv, TypeOK, Rows
        <4> HIDE DEF e
        <4> QED BY <4>1, <4>2, <4>3
      <3>2. ASSUME NEW s \in Sessions, UpdateInvitation(s) PROVE invs'[i] = invs[i]
        <4>1. pc[s] = "update" /\ call[s].inv # i
          BY <2>2, <3>2 DEF UpdateInvitation, Writers
        <4> QED BY <3>2, <4>1 DEF UpdateInvitation, IInv, TypeOK, Rows
      <3>3. ASSUME NEW s \in Sessions, Join(s) PROVE invs'[i] = invs[i]
        <4>1. call[s].inv # i
          BY <3>3 DEF Join, IInv, JoinersHold, Admits
        <4> QED BY <3>3, <4>1 DEF Join, IInv, TypeOK, Rows
      <3> QED BY <3>1, <3>2, <3>3, InvitationsChangeBy
    <2> QED BY <2>1, <2>2
  <1> QED BY <1>1, Invariance, PTL DEF Spec, ClosedSettles
=============================================================================
