--------------------------- MODULE AccessInvitations ---------------------------
(***************************************************************************)
(* Invitations to an organisation and the roles of its members              *)
(* (apps/web/server/access).  Members whose role is admin or gerencia       *)
(* invite, resend and revoke, and change the roles of others; the person    *)
(* invited accepts with the link that was sent.  Each is one RPC, a         *)
(* transaction under READ COMMITTED: statements see what has committed      *)
(* before they start, an UPDATE waits for the lock of its row, and only     *)
(* accept_invitation takes that lock when it reads.                         *)
(*                                                                         *)
(* requireManager, canAssignRole and evaluateRoleChange look at the same    *)
(* roles a moment before the RPC does and refuse nothing else: they are     *)
(* part of the step in which the RPC begins.  A call that is refused before *)
(* it has written anything changes nothing, and nobody ever leaves: calls   *)
(* that invite a member, or in which a member accepts, are left out.        *)
(*                                                                         *)
(* A person is the account with the address; the n-th link of an invitation *)
(* is the token whose hash its n-th INSERT or UPDATE stored.  Names,        *)
(* messages, the audit log, which each call appends to in its transaction,  *)
(* and everything that only reads are left out.                             *)
(***************************************************************************)
EXTENDS Naturals, Sequences, FiniteSets

CONSTANTS
    Sessions,       \* calls under way at the same time
    People,         \* accounts, one for each address
    Founders,       \* the members at first, administrators
    Offers,         \* roles that invitations offer in this workload
    NewRoles,       \* roles that members are given
    Ttl,            \* INVITE_TTL_HOURS, in ticks
    MaxInvitations, \* bound of the invitations
    MaxLinks,       \* bound of the links of an invitation
    MaxTime,        \* bound of the clock
    NoOne           \* no person and no session

\* presupuestos, obra, compras and consulta are one role: none manages access
Roles == {"admin", "gerencia", "other"}

ASSUME AccessAssumption ==
    /\ Founders \subseteq People
    /\ Offers \subseteq Roles /\ NewRoles \subseteq Roles
    /\ {Ttl, MaxInvitations, MaxLinks, MaxTime} \subseteq Nat
    /\ NoOne \notin People \cup Sessions

VARIABLES
    role,       \* profiles: person -> role, "none" without a row
    invs,       \* organization_invitations, in the order of creation
    holder,     \* invitation -> the call that holds FOR UPDATE on its row
    now,        \* the clock
    pc,         \* call -> its next statement
    call        \* call -> its arguments and what it has read

vars == <<role, invs, holder, now, pc, call>>

Invitation == [email : People, role : Roles, link : Nat, expires : Nat,
               status : {"pending", "accepted", "revoked"}]
Rows == DOMAIN invs

\* as: the role of the caller when the call began, born: the instant
NoCall == [op |-> "none", by |-> NoOne, as |-> "none", born |-> 0, who |-> NoOne,
           role |-> "none", inv |-> 0, link |-> 0]

Init ==
    /\ role = [p \in People |-> IF p \in Founders THEN "admin" ELSE "none"]
    /\ invs = <<>>
    /\ holder = [i \in 1 .. MaxInvitations |-> NoOne]
    /\ now = 0
    /\ pc = [s \in Sessions |-> "idle"]
    /\ call = [s \in Sessions |-> NoCall]

-----------------------------------------------------------------------------
(* Calls *)

Goto(s, l) == pc' = [pc EXCEPT ![s] = l]

\* the answer, or an error that rolls the transaction back
End(s) ==
    /\ Goto(s, "idle")
    /\ call' = [call EXCEPT ![s] = NoCall]
    /\ holder' = [i \in DOMAIN holder |-> IF holder[i] = s THEN NoOne ELSE holder[i]]

Manages(r) == r \in {"admin", "gerencia"}
MayGive(r, given) == Manages(r) /\ (given = "admin" => r = "admin")

Begin(s, c, l) ==
    /\ pc[s] = "idle"
    /\ Goto(s, l)
    /\ call' = [call EXCEPT ![s] = c]
    /\ UNCHANGED <<role, invs, holder, now>>

Open(i)    == invs[i].status = "pending"
OpenFor(p) == {i \in Rows : invs[i].email = p /\ Open(i)}

\* org_invitations_pending_email_uq
IndexFree(p, but) == OpenFor(p) \subseteq {but}

\* mutant: accept_invitation reads without FOR UPDATE
NeverLocked(s, i) == FALSE
LockedFor(s, i) == holder[i] \notin {NoOne, s}

-----------------------------------------------------------------------------
(* create_invitation *)

BeginCreate(s, a, p, r) ==
    /\ MayGive(role[a], r)
    /\ r \in Offers
    /\ role[p] = "none"
    /\ Begin(s, [NoCall EXCEPT !.op = "create", !.born = now, !.who = p, !.role = r], "member")

CheckMember(s) ==
    /\ pc[s] = "member"
    /\ \/ role[call[s].who] = "none" /\ Goto(s, "pending") /\ UNCHANGED <<call, holder>>
       \/ role[call[s].who] # "none" /\ End(s)
    /\ UNCHANGED <<role, invs, now>>

CheckPending(s) ==
    /\ pc[s] = "pending"
    /\ \/ OpenFor(call[s].who) = {} /\ Goto(s, "insert") /\ UNCHANGED <<call, holder>>
       \/ OpenFor(call[s].who) # {} /\ End(s)
    /\ UNCHANGED <<role, invs, now>>

\* the INSERT and the commit: from here the link may reach the person
InsertInvitation(s) ==
    /\ pc[s] = "insert"
    /\ Len(invs) < MaxInvitations
    /\ \/ /\ IndexFree(call[s].who, 0)
          /\ invs' = Append(invs, [email |-> call[s].who, role |-> call[s].role, link |-> 1,
                                   expires |-> call[s].born + Ttl, status |-> "pending"])
       \/ ~IndexFree(call[s].who, 0) /\ UNCHANGED invs
    /\ End(s)
    /\ UNCHANGED <<role, now>>

-----------------------------------------------------------------------------
(* resend_invitation and revoke_invitation *)

BeginResend(s, a, i) ==
    /\ Manages(role[a])
    /\ i \in Rows /\ invs[i].link < MaxLinks
    /\ Begin(s, [NoCall EXCEPT !.op = "resend", !.as = role[a], !.born = now, !.inv = i], "read")

BeginRevoke(s, a, i) ==
    /\ Manages(role[a])
    /\ i \in Rows
    /\ Begin(s, [NoCall EXCEPT !.op = "revoke", !.inv = i], "read")

\* the row is read without a lock; nobody ever stores the status expired
ReadInvitation(s) ==
    LET i == call[s].inv
        ok == Open(i) /\ (call[s].op = "resend" => MayGive(call[s].as, invs[i].role))
    IN  /\ pc[s] = "read"
        /\ \/ ok /\ Goto(s, "update") /\ UNCHANGED <<call, holder>>
           \/ ~ok /\ End(s)
        /\ UNCHANGED <<role, invs, now>>

\* the UPDATE, by id, of whatever the row is by now, and the commit
UpdateInvitation(s) ==
    LET i == call[s].inv
    IN  /\ pc[s] = "update"
        /\ ~LockedFor(s, i)
        /\ \/ /\ call[s].op = "revoke"
              /\ invs' = [invs EXCEPT ![i].status = "revoked"]
           \/ /\ call[s].op = "resend"
              /\ IndexFree(invs[i].email, i)
              /\ invs[i].link < MaxLinks
              /\ invs' = [invs EXCEPT ![i].status = "pending", ![i].link = @ + 1,
                                      ![i].expires = call[s].born + Ttl]
           \/ call[s].op = "resend" /\ ~IndexFree(invs[i].email, i) /\ UNCHANGED invs
        /\ End(s)
        /\ UNCHANGED <<role, now>>

-----------------------------------------------------------------------------
(* accept_invitation *)

\* finalizeInviteAcceptance: p is signed in and has a link that was stored once
BeginAccept(s, p, i, n) ==
    /\ role[p] = "none"
    /\ i \in Rows /\ n <= invs[i].link
    /\ Begin(s, [NoCall EXCEPT !.op = "accept", !.by = p, !.born = now,
                               !.inv = i, !.link = n], "lock")

\* the row with the token, when its lock is free, is read as it is then
LockInvitation(s) ==
    LET i == call[s].inv
        ok == /\ invs[i].link = call[s].link
              /\ Open(i) /\ call[s].born <= invs[i].expires
              /\ invs[i].email = call[s].by
              /\ role[call[s].by] = "none"
    IN  /\ pc[s] = "lock"
        /\ ~LockedFor(s, i)
        /\ \/ /\ ok
              /\ holder' = [holder EXCEPT ![i] = s]
              /\ Goto(s, "join")
              /\ UNCHANGED call
           \/ ~ok /\ End(s)
        /\ UNCHANGED <<role, invs, now>>

\* the profile, the status and the commit; profiles_pkey admits one row
Join(s) ==
    LET i == call[s].inv
        p == call[s].by
    IN  /\ pc[s] = "join"
        /\ IF role[p] = "none"
           THEN /\ role' = [role EXCEPT ![p] = invs[i].role]
                /\ invs' = [invs EXCEPT ![i].status = "accepted"]
           ELSE UNCHANGED <<role, invs>>
        /\ End(s)
        /\ UNCHANGED now

-----------------------------------------------------------------------------
(* change_member_role *)

AnyTarget(a, p) == TRUE                              \* mutant: also one's own role
Others(a, p)    == a # p

BeginChange(s, a, p, r) ==
    /\ MayGive(role[a], r)
    /\ r \in NewRoles
    /\ Others(a, p)
    /\ Begin(s, [NoCall EXCEPT !.op = "change", !.by = a, !.as = role[a], !.who = p, !.role = r], "target")

\* the role of the target is read without a lock
ReadTarget(s) ==
    LET p == call[s].who
        ok == role[p] # "none" /\ (call[s].as = "gerencia" => role[p] # "admin")
    IN  /\ pc[s] = "target"
        /\ \/ ok /\ Goto(s, "change") /\ UNCHANGED <<call, holder>>
           \/ ~ok /\ End(s)
        /\ UNCHANGED <<role, invs, now>>

ChangeRole(s) ==
    /\ pc[s] = "change"
    /\ role' = [role EXCEPT ![call[s].who] = call[s].role]
    /\ End(s)
    /\ UNCHANGED <<invs, now>>

-----------------------------------------------------------------------------

\* the connection or the server is lost: the open transaction is rolled back
Die(s) ==
    /\ pc[s] # "idle"
    /\ End(s)
    /\ UNCHANGED <<role, invs, now>>

Tick ==
    /\ now < MaxTime
    /\ now' = now + 1
    /\ UNCHANGED <<role, invs, holder, pc, call>>

Next ==
    \/ \E s \in Sessions :
         \/ \E a, p \in People, r \in Roles : BeginCreate(s, a, p, r) \/ BeginChange(s, a, p, r)
         \/ \E a \in People, i \in 1 .. MaxInvitations : BeginResend(s, a, i) \/ BeginRevoke(s, a, i)
         \/ \E p \in People, i \in 1 .. MaxInvitations, n \in 1 .. MaxLinks : BeginAccept(s, p, i, n)
         \/ CheckMember(s) \/ CheckPending(s) \/ InsertInvitation(s)
         \/ ReadInvitation(s) \/ UpdateInvitation(s)
         \/ LockInvitation(s) \/ Join(s)
         \/ ReadTarget(s) \/ ChangeRole(s)
         \/ Die(s)
    \/ Tick

Spec == Init /\ [][Next]_vars
-----------------------------------------------------------------------------
(* Properties *)

Calls == [op : {"none", "create", "resend", "revoke", "accept", "change"},
          by : People \cup {NoOne}, as : Roles \cup {"none"}, born : Nat,
          who : People \cup {NoOne}, role : Roles \cup {"none"},
          inv : 0 .. MaxInvitations, link : 0 .. MaxLinks]
Steps == {"idle", "member", "pending", "insert", "read", "update", "lock", "join",
          "target", "change"}

TypeOK ==
    /\ role \in [People -> Roles \cup {"none"}]
    /\ invs \in Seq(Invitation) /\ Len(invs) <= MaxInvitations
    /\ holder \in [1 .. MaxInvitations -> Sessions \cup {NoOne}]
    /\ now \in 0 .. MaxTime
    /\ pc \in [Sessions -> Steps]
    /\ call \in [Sessions -> Calls]

\* A call at a step has the arguments the step needs.
CallKnown(c, l) ==
    /\ l \in {"member", "pending", "insert"} => c.who \in People /\ c.role \in Roles
    /\ l \in {"read", "update"} => c.op \in {"resend", "revoke"} /\ c.inv \in Rows
    /\ l \in {"lock", "join"} => c.by \in People /\ c.inv \in Rows
    /\ l \in {"target", "change"} => /\ c.by \in People /\ c.who \in People /\ c.by # c.who
                                    /\ c.role \in Roles
CallsKnown ==
    \A s \in Sessions : /\ CallKnown(call[s], pc[s])
                        /\ pc[s] = "change" => role[call[s].who] # "none"

\* The link of the call is the latest of an open invitation of the caller.
Admits(c) == /\ Open(c.inv)
             /\ invs[c.inv].link = c.link
             /\ invs[c.inv].email = c.by
             /\ c.born <= invs[c.inv].expires

\* Who is about to join has the lock, and so its invitation is as it was read.
JoinersHold ==
    \A s \in Sessions : pc[s] = "join" => holder[call[s].inv] = s /\ Admits(call[s])

\* An address has one pending invitation, although a creation looks for one and
\* inserts in two statements, and a resend revives what was closed meanwhile.
OnePendingPerEmail ==
    \A i, j \in Rows : Open(i) /\ Open(j) /\ invs[i].email = invs[j].email => i = j

IInv == TypeOK /\ CallsKnown /\ JoinersHold /\ OnePendingPerEmail

\* Whoever joins has used the latest link of an invitation of theirs that was
\* pending at that very instant, and gets its role: no link that was used,
\* revoked, replaced or out of date when the call began admits anybody, although
\* resends and revocations race with the acceptance.
\* (docs/OPERATIONAL_ACCESS_AND_SMTP_V1_CONTRACT.md, 2)
OnlyOpenLinksAdmit ==
    [][\A p \in People : role[p] = "none" /\ role'[p] # "none" =>
         \E s \in Sessions :
            /\ pc[s] = "join" /\ pc'[s] = "idle"
            /\ call[s].by = p /\ Admits(call[s])
            /\ role'[p] = invs[call[s].inv].role
            /\ invs'[call[s].inv].status = "accepted"]_vars

\* The calls that have found i pending and are about to write it
Writers(i) == {s \in Sessions : pc[s] = "update" /\ call[s].inv = i}

\* An invitation that is accepted or revoked is settled, except for calls that
\* found it pending before: no other call joins them.
ClosedSettles ==
    [][\A i \in Rows : ~Open(i) => /\ Writers(i)' \subseteq Writers(i)
                                   /\ (Writers(i) = {} => invs'[i] = invs[i])]_vars

Admins == {p \in People : role[p] = "admin"}
MayChange(r, target, given) == MayGive(r, given) /\ (r = "gerencia" => target # "admin")

\* An organisation loses its last administrator only to a change that would be
\* refused at that instant, because the roles it was checked with have changed:
\* two administrators who change each other's role.  One at a time, nobody does.
LastAdminNeedsOverlap ==
    [][Admins # {} /\ Admins' = {} =>
         \E s \in Sessions : /\ pc[s] = "change" /\ pc'[s] = "idle"
                             /\ ~MayChange(role[call[s].by], role[call[s].who], call[s].role)]_vars
=============================================================================
