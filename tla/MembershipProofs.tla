--------------------------- MODULE MembershipProofs ---------------------------
(***************************************************************************)
(* Proofs about Membership, for any number of people, requests and         *)
(* invitations.                                                            *)
(*                                                                         *)
(* The argument.  Accounts and memberships of the organization are never   *)
(* taken away, so what a request has found of them still holds when it     *)
(* writes (Prepared).  The lock on an invitation belongs to one request,   *)
(* and whoever holds it holds an invitation that has not been used         *)
(* (Accepting): it is good for one acceptance, by the one it is addressed  *)
(* to.  The owner of the project is never removed from it (OwnerStays), so *)
(* a server that starts changes the role of a member and lets nobody in.   *)
(***************************************************************************)
EXTENDS Membership, TLAPS

Belongs(e) == account[e] # "none" /\ orgRole[e] # None

\* The fields that a kind of request has.
WellFormed(c) ==
    /\ c.kind \notin {"none", "restore"} => c.who \in People
    /\ c.kind = "invite" => c.role \in Roles
    /\ c.kind = "accept" => c.invitation \in Invitations
    /\ c.kind = "remove" => c.who # Owner

Formed == \A q \in Requests : WellFormed(call[q])

\* What a request has found of the one it is about.
Prepared ==
    \A q \in Requests :
        /\ call[q].at \in {"eligible", "new"} => call[q].who \in People /\ Belongs(call[q].who)
        /\ call[q].at = "found" => call[q].who \in People /\ account[call[q].who] # "none"

\* Whoever accepts an invitation has locked it, before it was used.
Accepting ==
    \A q \in Requests :
        /\ call[q].kind = "accept" =>
               /\ call[q].invitation # None
               /\ invitation[call[q].invitation].email = call[q].who
        /\ call[q].invitation # None =>
               invitation[call[q].invitation].at \in {"open", "expired"}

\* No invitation is locked by two requests.
OneLock ==
    \A p, q \in Requests : call[p].invitation = call[q].invitation /\ call[p].invitation # None => p = q

\* The owner of the project is a member of it.
OwnerStays == role[Owner] # None

Inv == TypeOK /\ Formed /\ MembersBelong /\ Prepared /\ Accepting /\ OneLock /\ OwnerStays

-----------------------------------------------------------------------------
(* Types.                                                                  *)

LEMMA InitTypeOK == Init => TypeOK
<1> SUFFICES ASSUME Init PROVE TypeOK
  OBVIOUS
<1>1. account \in [People -> {"none", "active", "inactive"}] /\ role \in [People -> Roles \cup {None}]
  BY RolesAssumption DEF Init
<1>2. orgRole \in [People -> {"member", "owner", None}]
  BY DEF Init
<1>3. invitation \in [Invitations -> Invitation]
  BY OwnerAssumption, RolesAssumption DEF Init, Invitation
<1>4. call \in [Requests -> Call]
  BY DEF Init, Call, Idle, Steps
<1> QED
  BY <1>1, <1>2, <1>3, <1>4 DEF Init, TypeOK

\* A request of the right type begins, goes on or ends.
LEMMA BeginTyped ==
    ASSUME TypeOK, Formed, NEW q \in Requests, NEW c \in Call, WellFormed(c), Begin(q, c)
    PROVE  TypeOK' /\ Formed'
BY DEF TypeOK, Begin, tables, Formed, WellFormed

LEMMA EndTyped ==
    ASSUME TypeOK, Formed, NEW q \in Requests, End(q)
    PROVE  call' \in [Requests -> Call] /\ Formed'
<1>1. Idle \in Call /\ WellFormed(Idle)
  BY DEF Idle, Call, Steps, WellFormed
<1> QED
  BY <1>1 DEF End, TypeOK, Formed, WellFormed

LEMMA GotoTyped ==
    ASSUME TypeOK, Formed, NEW q \in Requests, NEW step \in Steps, call' = [call EXCEPT ![q].at = step]
    PROVE  call' \in [Requests -> Call] /\ Formed'
<1>1. [call[q] EXCEPT !.at = step] \in Call
  BY DEF TypeOK, Call
<1> QED
  BY <1>1 DEF TypeOK, Formed, WellFormed

LEMMA GotoFields ==
    ASSUME TypeOK, NEW q \in Requests, NEW step, call' = [call EXCEPT ![q].at = step]
    PROVE  /\ call'[q].at = step
           /\ \A p \in Requests : /\ p # q => call'[p] = call[p]
                                  /\ call'[p].kind = call[p].kind
                                  /\ call'[p].by = call[p].by
                                  /\ call'[p].who = call[p].who
                                  /\ call'[p].project = call[p].project
                                  /\ call'[p].invitation = call[p].invitation
BY DEF TypeOK, Call

\* The requests that begin with a check, and do not lock an invitation.
Opens(q) ==
    \/ \E e \in People : \/ \E kind \in {"register", "post"} : CheckEmail(q, kind, e)
                         \/ \E kind \in {"add", "remove", "archive"} : Manage(q, kind, e)
                         \/ CheckRestore(q, e)
    \/ \E by, e \in People, r \in Roles, project \in BOOLEAN : Invite(q, by, e, r, project)

Opened(c) == /\ c \in Call /\ WellFormed(c)
             /\ c.kind \notin {"none", "accept"} /\ c.at \in {"unused", "allowed"}
             /\ c.invitation = None
             /\ c.kind = "add" \/ (c.kind = "invite" /\ c.project) => c.by # None /\ CanManage(c.by)

LEMMA OpenedCalls ==
    ASSUME NEW q \in Requests, Opens(q)
    PROVE  \E c \in Call : Opened(c) /\ Begin(q, c)
<1> USE DEF Idle, Call, Steps, WellFormed, Opened
<1>1. ASSUME NEW e \in People, NEW kind \in {"register", "post"}, CheckEmail(q, kind, e)
      PROVE  \E c \in Call : Opened(c) /\ Begin(q, c)
  <2> DEFINE c == [Idle EXCEPT !.kind = kind, !.at = "unused", !.who = e]
  <2>1. Opened(c)
    OBVIOUS
  <2>2. Begin(q, c)
    BY <1>1 DEF CheckEmail
  <2> QED
    BY <2>1, <2>2 DEF Opened
<1>2. ASSUME NEW e \in People, NEW kind \in {"add", "remove", "archive"}, Manage(q, kind, e)
      PROVE  \E c \in Call : Opened(c) /\ Begin(q, c)
  <2> DEFINE c == [Idle EXCEPT !.kind = kind, !.at = "allowed", !.by = Owner, !.who = e]
  <2>1. Opened(c)
    BY <1>2, OwnerAssumption, NoneAssumption DEF Manage
  <2>2. Begin(q, c)
    BY <1>2 DEF Manage
  <2> QED
    BY <2>1, <2>2 DEF Opened
<1>3. ASSUME NEW e \in People, CheckRestore(q, e)
      PROVE  \E c \in Call : Opened(c) /\ Begin(q, c)
  <2> DEFINE c == [Idle EXCEPT !.kind = "restore", !.at = "allowed", !.by = e]
  <2>1. Opened(c)
    OBVIOUS
  <2>2. Begin(q, c)
    BY <1>3 DEF CheckRestore
  <2> QED
    BY <2>1, <2>2 DEF Opened
<1>4. ASSUME NEW by \in People, NEW e \in People, NEW r \in Roles, NEW project \in BOOLEAN,
             Invite(q, by, e, r, project)
      PROVE  \E c \in Call : Opened(c) /\ Begin(q, c)
  <2> DEFINE c == [Idle EXCEPT !.kind = "invite", !.at = "allowed", !.by = by, !.who = e,
                               !.role = IF project THEN r ELSE "editor", !.project = project]
  <2>1. Opened(c)
    BY <1>4, NoneAssumption, RolesAssumption DEF Invite
  <2>2. Begin(q, c)
    BY <1>4 DEF Invite
  <2> QED
    BY <2>1, <2>2 DEF Opened
<1> QED
  BY <1>1, <1>2, <1>3, <1>4 DEF Opens

LEMMA NextTyped == TypeOK /\ Formed /\ [Next]_vars => TypeOK' /\ Formed'
<1> SUFFICES ASSUME TypeOK, Formed, [Next]_vars PROVE TypeOK' /\ Formed'
  OBVIOUS
<1> USE RolesAssumption
<1>1. ASSUME NEW q \in Requests, Opens(q)
      PROVE  TypeOK' /\ Formed'
  BY <1>1, OpenedCalls, BeginTyped DEF Opened
<1>3. ASSUME NEW q \in Requests, NEW i \in Invitations, LockInvitation(q, i)
      PROVE  TypeOK' /\ Formed'
  <2>1. invitation[i].email \in People
    BY DEF TypeOK, Invitation
  <2> DEFINE c == [Idle EXCEPT !.kind = "accept", !.at = "locked",
                               !.who = invitation[i].email, !.invitation = i]
  <2>2. c \in Call /\ WellFormed(c)
    BY <2>1 DEF Idle, Call, Steps, WellFormed
  <2> QED
    BY <1>3, <2>2, BeginTyped DEF LockInvitation, BeginAccept
<1>4. ASSUME NEW q \in Requests,
             CreateUser(q) \/ PostUser(q) \/ Archive(q) \/ Restore(q)
      PROVE  TypeOK' /\ Formed'
  <2>1. call' \in [Requests -> Call] /\ Formed'
    BY <1>4, EndTyped DEF CreateUser, PostUser, Archive, Restore
  <2>2. account' \in [People -> {"none", "active", "inactive"}] /\ orgRole' \in [People -> {"member", "owner", None}]
    BY <1>4 DEF TypeOK, CreateUser, PostUser, Archive, Restore, InsertUser, Joins
  <2> QED
    BY <1>4, <2>1, <2>2 DEF TypeOK, CreateUser, PostUser, Archive, Restore
<1>5. ASSUME NEW q \in Requests, SaveInvitation(q)
      PROVE  TypeOK' /\ Formed'
  <2>1. call' \in [Requests -> Call] /\ Formed'
    BY <1>5, EndTyped DEF SaveInvitation
  <2>2. invitation' \in [Invitations -> Invitation]
    BY <1>5 DEF SaveInvitation, TypeOK, Formed, WellFormed, Invitation, Call, At
  <2> QED
    BY <1>5, <2>1, <2>2 DEF SaveInvitation, TypeOK
<1>6. ASSUME NEW q \in Requests, FindInvited(q) \/ CheckTarget(q) \/ CheckMember(q)
      PROVE  TypeOK' /\ Formed'
  <2>1. UNCHANGED tables /\ (End(q) \/ \E step \in Steps : call' = [call EXCEPT ![q].at = step])
    BY <1>6 DEF FindInvited, CheckTarget, CheckMember, Goto, Refuse, Steps
  <2>2. call' \in [Requests -> Call] /\ Formed'
    BY <2>1, EndTyped, GotoTyped
  <2> QED
    BY <2>1, <2>2 DEF TypeOK, tables
<1>7. ASSUME NEW q \in Requests, Accept(q)
      PROVE  TypeOK' /\ Formed'
  <2>1. call' \in [Requests -> Call] /\ Formed'
    BY <1>7, EndTyped DEF Accept
  <2>2. account' \in [People -> {"none", "active", "inactive"}]
    BY <1>7 DEF TypeOK, Accept, InsertUser
  <2>4. orgRole' \in [People -> {"member", "owner", None}]
    BY <1>7 DEF TypeOK, Accept, Joins
  <2>3. role' \in [People -> Roles \cup {None}] /\ invitation' \in [Invitations -> Invitation]
    BY <1>7 DEF TypeOK, Formed, WellFormed, Accept, Invitation, Call
  <2> QED
    BY <1>7, <2>1, <2>2, <2>3, <2>4 DEF Accept, TypeOK
<1>8. ASSUME NEW q \in Requests, InsertMember(q) \/ RemoveMember(q)
      PROVE  TypeOK' /\ Formed'
  <2>1. call' \in [Requests -> Call] /\ Formed'
    BY <1>8, EndTyped DEF InsertMember, RemoveMember
  <2> QED
    BY <1>8, <2>1 DEF InsertMember, RemoveMember, TypeOK
<1>9. ASSUME NEW q \in Requests, Abort(q)
      PROVE  TypeOK' /\ Formed'
  BY <1>9, EndTyped DEF Abort, Refuse, TypeOK, tables
<1>10. ASSUME NEW i \in Invitations, Expire(i)
       PROVE  TypeOK' /\ Formed'
  BY <1>10 DEF Expire, TypeOK, Invitation, Formed
<1>11. ASSUME NEW e \in People, Deactivate(e)
       PROVE  TypeOK' /\ Formed'
  BY <1>11 DEF Deactivate, TypeOK, Formed
<1>12. CASE JoinDefaultOrganization \/ RepairOwnership
  <2>1. orgRole' \in [People -> {"member", "owner", None}] /\ role' \in [People -> Roles \cup {None}]
    BY <1>12 DEF JoinDefaultOrganization, RepairOwnership, TypeOK
  <2> QED
    BY <1>12, <2>1 DEF JoinDefaultOrganization, RepairOwnership, TypeOK, Formed
<1>13. CASE UNCHANGED vars
  BY <1>13 DEF TypeOK, Formed, vars
<1> QED
  BY <1>1, <1>3, <1>4, <1>5, <1>6, <1>7, <1>8, <1>9, <1>10, <1>11, <1>12, <1>13 DEF Next, Opens

\* Every table holds rows of its type.
THEOREM TypeCorrect == Spec => []TypeOK
<1>1. Init => Formed
  BY DEF Init, Formed, WellFormed, Idle
<1> QED
  BY <1>1, InitTypeOK, NextTyped, PTL DEF Spec

-----------------------------------------------------------------------------
(* The inductive invariant.                                                *)

LEMMA InitInv == Init => Inv
<1> SUFFICES ASSUME Init PROVE Inv
  OBVIOUS
<1>1. TypeOK /\ Formed
  BY InitTypeOK DEF Init, Formed, WellFormed, Idle
<1>2. MembersBelong
  BY DEF Init, MembersBelong
<1>3. Prepared /\ Accepting /\ OneLock /\ OwnerStays
  BY OwnerAssumption, NoneAssumption, RolesAssumption DEF Init, Idle, Prepared, Accepting, OneLock, OwnerStays
<1> QED
  BY <1>1, <1>2, <1>3 DEF Inv

\* What holds of a request that is not disturbed: nobody loses an account or a membership
\* of the organization.
LEMMA NobodyIsTakenAway ==
    ASSUME TypeOK, [Next]_vars, NEW e \in People
    PROVE  /\ account[e] # "none" => account'[e] # "none"
           /\ orgRole[e] # None => orgRole'[e] # None
<1>1. ASSUME NEW q \in Requests, CreateUser(q) \/ PostUser(q) \/ Accept(q)
      PROVE  /\ account[e] # "none" => account'[e] # "none"
             /\ orgRole[e] # None => orgRole'[e] # None
  <2>1. UNCHANGED account \/ \E d \in People \cup {None} : InsertUser(d)
    BY <1>1 DEF CreateUser, PostUser, Accept, TypeOK, Call
  <2>2. UNCHANGED orgRole \/ \E d \in People \cup {None} : Joins(d)
    BY <1>1 DEF CreateUser, PostUser, Accept, TypeOK, Call
  <2>3. account[e] # "none" => account'[e] # "none"
    BY <2>1 DEF InsertUser, TypeOK
  <2>4. orgRole[e] # None => orgRole'[e] # None
    BY <2>2, NoneAssumption DEF Joins, TypeOK
  <2> QED
    BY <2>3, <2>4
<1>2. ASSUME NEW d \in People, Deactivate(d)
      PROVE  account[e] # "none" => account'[e] # "none" /\ UNCHANGED orgRole
  BY <1>2 DEF Deactivate, TypeOK
<1>3. CASE JoinDefaultOrganization \/ RepairOwnership
  <2>1. UNCHANGED account
    BY <1>3 DEF JoinDefaultOrganization, RepairOwnership
  <2>2. orgRole[e] # None => orgRole'[e] \in {orgRole[e], "owner"}
    BY <1>3 DEF JoinDefaultOrganization, RepairOwnership, TypeOK
  <2>3. "owner" # None
    BY NoneAssumption, RolesAssumption
  <2> QED
    BY <2>1, <2>2, <2>3
<1> QED
  BY <1>1, <1>2, <1>3 DEF Next, vars, tables, Begin, End, Goto, Refuse, CheckEmail, Manage, CheckRestore,
     Invite, LockInvitation, BeginAccept, SaveInvitation, FindInvited, CheckTarget, CheckMember,
     InsertMember, RemoveMember, Archive, Restore, Abort, Expire, Deactivate

LEMMA NextMembersBelong ==
    ASSUME Inv, [Next]_vars
    PROVE  MembersBelong'
<1> USE DEF Inv
<1> SUFFICES ASSUME NEW e \in People, role'[e] # None
             PROVE  Belongs(e)'
  BY DEF MembersBelong, Belongs
<1>1. CASE role[e] # None
  BY <1>1, NobodyIsTakenAway DEF MembersBelong, Belongs
<1>2. CASE RepairOwnership
  <2>1. e = Owner \/ role[e] # None
    BY <1>2 DEF RepairOwnership, TypeOK
  <2> QED
    BY <1>1, <2>1 DEF OwnerStays
<1>3. CASE role'[e] # role[e] /\ ~RepairOwnership
  <2>1. PICK q \in Requests : Accept(q) \/ InsertMember(q) \/ RemoveMember(q)
    BY <1>3 DEF Next, vars, tables, Begin, End, Goto, Refuse, CheckEmail, Manage, CheckRestore,
       Invite, LockInvitation, BeginAccept, CreateUser, PostUser, SaveInvitation,
       FindInvited, CheckTarget, CheckMember, Archive, Restore, Abort, Expire, Deactivate, JoinDefaultOrganization
  <2>2. e = call[q].who
    BY <1>3, <2>1 DEF Accept, InsertMember, RemoveMember, TypeOK
  <2>3. CASE Accept(q)
    <3>1. account'[e] # "none"
      <4>1. CASE call[q].at = "found" /\ UNCHANGED account
        BY <2>2, <4>1 DEF Prepared
      <4>2. CASE InsertUser(e)
        BY <4>2 DEF InsertUser, TypeOK
      <4> QED
        BY <2>2, <2>3, <4>1, <4>2 DEF Accept
    <3>2. orgRole'[e] # None
      BY <2>2, <2>3, NoneAssumption, RolesAssumption DEF Accept, Joins, TypeOK
    <3> QED
      BY <3>1, <3>2 DEF Belongs
  <2>4. CASE InsertMember(q)
    BY <2>2, <2>4, NobodyIsTakenAway DEF InsertMember, At, Prepared, Belongs
  <2>5. CASE RemoveMember(q)
    BY <2>2, <2>5 DEF RemoveMember, TypeOK
  <2> QED
    BY <2>1, <2>3, <2>4, <2>5
<1> QED
  BY <1>1, <1>2, <1>3

\* What a step does to the requests.
LEMMA CallsMove ==
    ASSUME TypeOK, [Next]_vars, NEW q \in Requests
    PROVE  \/ call'[q] = call[q]
           \/ call'[q] = Idle
           \/ call[q] = Idle /\ Opened(call'[q])
           \/ \E i \in Invitations : LockInvitation(q, i)
           \/ /\ CheckTarget(q) \/ CheckMember(q) \/ FindInvited(q)
              /\ \E step \in Steps : call' = [call EXCEPT ![q].at = step]
<1>2. ASSUME NEW p \in Requests, End(p) PROVE call'[q] = call[q] \/ call'[q] = Idle
  BY <1>2 DEF TypeOK, End
<1>3. ASSUME NEW p \in Requests, Opens(p)
      PROVE  call'[q] = call[q] \/ (call[q] = Idle /\ Opened(call'[q]))
  BY <1>3, OpenedCalls DEF Begin, TypeOK
<1>4. ASSUME NEW p \in Requests, NEW i \in Invitations, LockInvitation(p, i)
      PROVE  call'[q] = call[q] \/ LockInvitation(q, i)
  BY <1>4 DEF LockInvitation, BeginAccept, Begin, TypeOK
<1>6. ASSUME NEW p \in Requests, CheckTarget(p) \/ CheckMember(p) \/ FindInvited(p)
      PROVE  \/ call'[q] = call[q] \/ call'[q] = Idle
             \/ /\ CheckTarget(q) \/ CheckMember(q) \/ FindInvited(q)
                /\ \E step \in Steps : call' = [call EXCEPT ![q].at = step]
  <2>1. End(p) \/ \E step \in Steps : call' = [call EXCEPT ![p].at = step]
    BY <1>6 DEF CheckTarget, CheckMember, FindInvited, Goto, Refuse, Steps
  <2> QED
    BY <1>2, <1>6, <2>1 DEF TypeOK
<1>7. CASE \E p \in Requests : End(p)
  BY <1>2, <1>7
<1>8. CASE UNCHANGED call
  BY <1>8
<1> QED
  BY <1>3, <1>4, <1>6, <1>7, <1>8 DEF Next, Opens, vars, CreateUser, PostUser, SaveInvitation,
     Accept, InsertMember, RemoveMember, Archive, Restore, Abort, Refuse, Expire, Deactivate,
     JoinDefaultOrganization, RepairOwnership

LEMMA NextPrepared ==
    ASSUME Inv, [Next]_vars
    PROVE  Prepared'
<1> USE DEF Inv
<1> SUFFICES ASSUME NEW q \in Requests
             PROVE  /\ call'[q].at \in {"eligible", "new"} => call'[q].who \in People /\ Belongs(call[q].who)'
                    /\ call'[q].at = "found" => call'[q].who \in People /\ account'[call'[q].who] # "none"
  BY DEF Prepared
<1>1. CASE call'[q] = call[q]
  BY <1>1, NobodyIsTakenAway DEF Prepared, Belongs
<1>2. CASE \/ CheckTarget(q) \/ CheckMember(q) \/ FindInvited(q)
  <2>1. (call'[q].who = call[q].who /\ UNCHANGED tables) \/ call'[q] = Idle
    BY <1>2, GotoFields DEF CheckTarget, CheckMember, FindInvited, Goto, Refuse, End, TypeOK
  <2>2. CASE CheckTarget(q)
    <3>1. call[q].who \in People
      BY <2>2 DEF CheckTarget, At, Formed, WellFormed
    <3>2. Belongs(call[q].who) \/ call'[q] = Idle
      BY <2>2, <3>1 DEF CheckTarget, Refuse, End, TypeOK, Belongs
    <3>3. call'[q].at \in {"eligible", "idle"}
      <4>1. CASE Goto(q, "eligible")
        BY <4>1, GotoFields, Zenon DEF Goto
      <4>2. CASE Refuse(q)
        BY <4>2 DEF Refuse, End, Idle, TypeOK
      <4> QED
        BY <2>2, <4>1, <4>2 DEF CheckTarget
    <3> QED
      BY <2>1, <3>1, <3>2, <3>3 DEF tables, Belongs, Idle
  <2>3. CASE CheckMember(q)
    BY <2>1, <2>3, GotoFields DEF CheckMember, Goto, Refuse, tables, Belongs, Idle, End, At, TypeOK, Prepared
  <2>4. CASE FindInvited(q)
    BY <2>1, <2>4, GotoFields DEF FindInvited, Goto, tables, Belongs, Idle, At, TypeOK, Formed, WellFormed
  <2> QED
    BY <1>2, <2>2, <2>3, <2>4
<1>3. CASE call'[q] = Idle \/ Opened(call'[q])
  BY <1>3 DEF Idle, Opened
<1>4. ASSUME NEW i \in Invitations, LockInvitation(q, i)
      PROVE  call'[q].at = "locked"
  BY <1>4 DEF LockInvitation, BeginAccept, Begin, TypeOK, Idle
<1> QED
  BY <1>1, <1>2, <1>3, <1>4, CallsMove

LEMMA InvitationFields ==
    ASSUME TypeOK, NEW j, NEW at, invitation' = [invitation EXCEPT ![j].at = at]
    PROVE  \A i \in Invitations :
               /\ invitation'[i].email = invitation[i].email
               /\ invitation'[i].role = invitation[i].role
               /\ invitation'[i].project = invitation[i].project
               /\ i = j => invitation'[i].at = at
               /\ i # j => invitation'[i].at = invitation[i].at
BY DEF TypeOK, Invitation

\* What a step may do to an invitation that exists: it expires, or whoever holds it
\* uses it up.
Keeps(i) ==
    /\ invitation'[i].email = invitation[i].email
    /\ invitation'[i].role = invitation[i].role
    /\ invitation'[i].project = invitation[i].project
    /\ \/ invitation'[i].at = invitation[i].at
       \/ invitation[i].at = "open" /\ invitation'[i].at = "expired"
       \/ /\ invitation'[i].at = "used"
          /\ \E q \in Requests : Accept(q) /\ call[q].invitation = i

LEMMA InvitationsKeep ==
    ASSUME TypeOK, [Next]_vars, NEW i \in Invitations, invitation[i].at # "none"
    PROVE  Keeps(i)
<1>1. ASSUME NEW q \in Requests, SaveInvitation(q)
      PROVE  invitation'[i] = invitation[i]
  BY <1>1 DEF SaveInvitation, TypeOK
<1>2. ASSUME NEW q \in Requests, Accept(q)
      PROVE  Keeps(i)
  <2>1. invitation' = [invitation EXCEPT ![call[q].invitation].at = "used"]
    BY <1>2 DEF Accept
  <2> QED
    BY <1>2, <2>1, InvitationFields DEF Keeps
<1>3. ASSUME NEW j \in Invitations, Expire(j)
      PROVE  Keeps(i)
  BY <1>3, InvitationFields DEF Expire, Keeps
<1>4. CASE UNCHANGED invitation
  BY <1>4 DEF Keeps
<1> QED
  BY <1>1, <1>2, <1>3, <1>4 DEF Keeps, Next, vars, tables, Begin, End, Goto, Refuse, CheckEmail, Manage,
     CheckRestore, Invite, LockInvitation, BeginAccept, CreateUser, PostUser,
     FindInvited, CheckTarget, CheckMember, InsertMember, RemoveMember, Archive, Restore, Abort,
     Deactivate, JoinDefaultOrganization, RepairOwnership

\* The invitation that a request holds afterwards is the one it held before, or one that it
\* has just locked.
LEMMA HoldingMoves ==
    ASSUME TypeOK, [Next]_vars, NEW q \in Requests, call'[q].kind = "accept" \/ call'[q].invitation # None
    PROVE  \/ /\ call'[q].kind = call[q].kind /\ call'[q].who = call[q].who
              /\ call'[q].invitation = call[q].invitation
              /\ ~Accept(q)
           \/ \E i \in Invitations :
                 /\ LockInvitation(q, i) /\ call'[q].invitation = i
                 /\ call'[q].who = invitation[i].email
                 /\ \A p \in Requests : p # q => call'[p] = call[p]
<1>1. ~Accept(q)
  BY DEF Accept, End, Idle, TypeOK
<1>2. CASE call'[q] = Idle \/ Opened(call'[q])
  BY <1>2 DEF Idle, Opened
<1>3. ASSUME NEW i \in Invitations, LockInvitation(q, i)
      PROVE  /\ call'[q].who = invitation[i].email /\ call'[q].invitation = i
             /\ \A p \in Requests : p # q => call'[p] = call[p]
  BY <1>3 DEF LockInvitation, BeginAccept, Begin, TypeOK, Idle
<1>4. ASSUME NEW step, call' = [call EXCEPT ![q].at = step]
      PROVE  /\ call'[q].kind = call[q].kind /\ call'[q].who = call[q].who
             /\ call'[q].invitation = call[q].invitation
  BY <1>4, GotoFields
<1> QED
  BY <1>1, <1>2, <1>3, <1>4, CallsMove

LEMMA NextAccepting ==
    ASSUME Inv, [Next]_vars
    PROVE  Accepting'
<1> USE DEF Inv
<1> SUFFICES ASSUME NEW q \in Requests
             PROVE  /\ call'[q].kind = "accept" =>
                           /\ call'[q].invitation # None
                           /\ invitation'[call'[q].invitation].email = call'[q].who
                    /\ call'[q].invitation # None =>
                           invitation'[call'[q].invitation].at \in {"open", "expired"}
  BY DEF Accepting
<1> SUFFICES ASSUME call'[q].kind = "accept" \/ call'[q].invitation # None
             PROVE  /\ call'[q].invitation # None
                    /\ call'[q].kind = "accept" => invitation'[call'[q].invitation].email = call'[q].who
                    /\ invitation'[call'[q].invitation].at \in {"open", "expired"}
  OBVIOUS
<1>1. CASE /\ call'[q].kind = call[q].kind /\ call'[q].who = call[q].who
           /\ call'[q].invitation = call[q].invitation
           /\ ~Accept(q)
  <2> DEFINE i == call[q].invitation
  <2>1. /\ i \in Invitations /\ i # None /\ invitation[i].at \in {"open", "expired"}
        /\ call[q].kind = "accept" => invitation[i].email = call[q].who
    BY <1>1 DEF Accepting, TypeOK, Call
  <2>2. Keeps(i)
    BY <2>1, InvitationsKeep
  <2>3. ~\E p \in Requests : Accept(p) /\ call[p].invitation = i
    BY <1>1, <2>1 DEF OneLock
  <2> QED
    BY <1>1, <2>1, <2>2, <2>3 DEF Keeps
<1>2. ASSUME NEW i \in Invitations, LockInvitation(q, i), call'[q].invitation = i,
             call'[q].who = invitation[i].email
      PROVE  /\ call'[q].invitation # None
             /\ invitation'[call'[q].invitation].email = call'[q].who
             /\ invitation'[call'[q].invitation].at \in {"open", "expired"}
  BY <1>2, NoneAssumption DEF LockInvitation, BeginAccept, Begin, tables
<1> QED
  BY <1>1, <1>2, HoldingMoves

LEMMA NextOneLock ==
    ASSUME Inv, [Next]_vars
    PROVE  OneLock'
<1> USE DEF Inv
<1> SUFFICES ASSUME NEW p \in Requests, NEW q \in Requests, p # q,
                    call'[p].invitation = call'[q].invitation, call'[p].invitation # None
             PROVE  FALSE
  BY DEF OneLock
<1>1. ASSUME NEW r \in Requests, NEW s \in Requests, r # s, call'[r].invitation = call'[s].invitation,
             NEW i \in Invitations, LockInvitation(r, i), call'[r].invitation = i, call'[s] = call[s]
      PROVE  FALSE
  BY <1>1 DEF LockInvitation, Locked
<1> QED
  BY <1>1, HoldingMoves DEF OneLock

LEMMA NextOwnerStays ==
    ASSUME Inv, [Next]_vars
    PROVE  OwnerStays'
<1> USE DEF Inv
<1> SUFFICES ASSUME role'[Owner] # role[Owner] PROVE role'[Owner] # None
  BY DEF OwnerStays
<1>1. CASE RepairOwnership
  BY <1>1, OwnerAssumption, NoneAssumption, RolesAssumption DEF RepairOwnership, TypeOK
<1>2. ASSUME NEW q \in Requests, Accept(q)
      PROVE  role'[Owner] # None
  <2>1. call[q].invitation \in Invitations
    BY <1>2 DEF Accept, Formed, WellFormed
  <2> QED
    BY <1>2, <2>1, OwnerAssumption, NoneAssumption DEF Accept, TypeOK, Invitation
<1>3. ASSUME NEW q \in Requests, InsertMember(q) \/ RemoveMember(q)
      PROVE  role'[Owner] # None
  BY <1>3, OwnerAssumption, NoneAssumption, RolesAssumption
     DEF InsertMember, RemoveMember, At, TypeOK, Formed, WellFormed, OwnerStays
<1> QED
  BY <1>1, <1>2, <1>3 DEF Next, vars, tables, Begin, End, Goto, Refuse, CheckEmail, Manage, CheckRestore,
     Invite, LockInvitation, BeginAccept, CreateUser, PostUser, SaveInvitation,
     FindInvited, CheckTarget, CheckMember, Archive, Restore, Abort, Expire, Deactivate,
     JoinDefaultOrganization

THEOREM InvAlways == Spec => []Inv
<1>1. Inv /\ [Next]_vars => Inv'
  BY NextTyped, NextMembersBelong, NextPrepared, NextAccepting, NextOneLock, NextOwnerStays DEF Inv
<1> QED
  BY <1>1, InitInv, PTL DEF Spec

\* Whatever is under way, whoever has a role in the project has an account and belongs to
\* its organization.
THEOREM MembersBelongHolds == Spec => []MembersBelong
BY InvAlways, PTL DEF Inv

-----------------------------------------------------------------------------
(* What a step may do to the members.                                      *)

\* A role is given or changed by an acceptance, whose invitation names it, or given to
\* somebody who had none, or given back to the owner by a start.
LEMMA RolesMove ==
    ASSUME Inv, [Next]_vars, NEW e \in People, role'[e] # role[e]
    PROVE  \/ \E q \in Requests :
                \/ /\ Accept(q) /\ call[q].who = e
                   /\ call[q].invitation \in Invitations
                   /\ invitation[call[q].invitation].project
                   /\ role'[e] = invitation[call[q].invitation].role
                \/ call[q].kind = "add" /\ call[q].who = e /\ role[e] = None
                \/ role'[e] = None
           \/ RepairOwnership /\ e = Owner /\ role'[e] = "owner"
<1> USE DEF Inv
<1>1. CASE RepairOwnership
  BY <1>1 DEF RepairOwnership, TypeOK
<1>2. CASE ~RepairOwnership
  <2>1. PICK q \in Requests : Accept(q) \/ InsertMember(q) \/ RemoveMember(q)
    BY <1>2 DEF Next, vars, tables, Begin, End, Goto, Refuse, CheckEmail, Manage, CheckRestore,
       Invite, LockInvitation, BeginAccept, CreateUser, PostUser, SaveInvitation,
       FindInvited, CheckTarget, CheckMember, Archive, Restore, Abort, Expire, Deactivate,
       JoinDefaultOrganization
  <2>2. e = call[q].who
    BY <2>1 DEF Accept, InsertMember, RemoveMember, TypeOK
  <2>3. CASE Accept(q)
    <3>1. call[q].invitation \in Invitations
      BY <2>3 DEF Accept, Formed, WellFormed
    <3> QED
      BY <2>2, <2>3, <3>1 DEF Accept, TypeOK
  <2>4. CASE InsertMember(q)
    BY <2>2, <2>4 DEF InsertMember, At
  <2>5. CASE RemoveMember(q)
    BY <2>2, <2>5 DEF RemoveMember, TypeOK
  <2> QED
    BY <2>1, <2>3, <2>4, <2>5
<1> QED
  BY <1>1, <1>2

\* The role of a member changes only by the invitation to that role which it uses up, or back to
\* the owner's when a server starts.
THEOREM RoleNeedsAnInvitationHolds == Spec => RoleNeedsAnInvitation
<1>1. ASSUME Inv, [Next]_vars, NEW e \in People, role[e] # None, role'[e] \notin {None, role[e]}
      PROVE  \/ \E i \in Invitations : /\ invitation[i].email = e /\ invitation[i].project
                                       /\ invitation[i].role = role'[e]
                                       /\ invitation[i].at # "used" /\ invitation'[i].at = "used"
             \/ e = Owner /\ role'[e] = "owner" /\ UNCHANGED <<account, invitation, call>>
  <2>1. CASE RepairOwnership /\ e = Owner /\ role'[e] = "owner"
    BY <2>1 DEF RepairOwnership
  <2>2. ASSUME NEW q \in Requests, Accept(q), call[q].who = e,
               call[q].invitation \in Invitations,
               invitation[call[q].invitation].project,
               role'[e] = invitation[call[q].invitation].role
        PROVE  \E i \in Invitations : /\ invitation[i].email = e /\ invitation[i].project
                                      /\ invitation[i].role = role'[e]
                                      /\ invitation[i].at # "used" /\ invitation'[i].at = "used"
    <3> DEFINE i == call[q].invitation
    <3>1. i # None /\ invitation[i].email = e /\ invitation[i].at \in {"open", "expired"}
      BY <1>1, <2>2 DEF Inv, Accepting, Accept
    <3>2. invitation'[i].at = "used"
      BY <1>1, <2>2 DEF Inv, TypeOK, Invitation, Accept
    <3> QED
      BY <2>2, <3>1, <3>2
  <2> QED
    BY <1>1, <2>1, <2>2, RolesMove
<1>2. Inv /\ [Next]_vars =>
        [\A e \in People : role[e] # None /\ role'[e] \notin {None, role[e]} =>
            \/ \E i \in Invitations : /\ invitation[i].email = e /\ invitation[i].project
                                      /\ invitation[i].role = role'[e]
                                      /\ invitation[i].at # "used" /\ invitation'[i].at = "used"
            \/ e = Owner /\ role'[e] = "owner" /\ UNCHANGED <<account, invitation, call>>]_vars
  BY <1>1
<1> QED
  BY <1>2, InvAlways, PTL DEF RoleNeedsAnInvitation, Spec

LEMMA OnlySaveOpens ==
    ASSUME TypeOK, [Next]_vars, NEW i \in Invitations,
           invitation[i].at = "none", invitation'[i].at = "open"
    PROVE  \E q \in Requests : SaveInvitation(q)
<1>1. ASSUME NEW q \in Requests, Accept(q)
      PROVE  FALSE
  <2>1. invitation' = [invitation EXCEPT ![call[q].invitation].at = "used"]
    BY <1>1 DEF Accept
  <2>2. invitation'[i].at \in {"none", "used"}
    BY <2>1, InvitationFields
  <2> QED
    BY <2>2
<1>2. ASSUME NEW j \in Invitations, Expire(j)
      PROVE  FALSE
  BY <1>2 DEF Expire, TypeOK, Invitation
<1> QED
  BY <1>1, <1>2 DEF Next, vars, tables, Begin, End, Goto, Refuse, CheckEmail, Manage,
     CheckRestore, Invite, LockInvitation, BeginAccept, CreateUser, PostUser,
     FindInvited, CheckTarget, CheckMember, InsertMember, RemoveMember, Archive, Restore, Abort,
     Deactivate, JoinDefaultOrganization, RepairOwnership

\* A request that may yet let somebody into the project.
LetsIn(c, e) == c.who = e /\ (c.kind = "add" \/ (c.kind = "invite" /\ c.project))

LEMMA OutInOtherWords ==
    ASSUME TypeOK, NEW e \in People
    PROVE  Out(e) <=> /\ role[e] = None
                      /\ \A i \in Invitations : ~(invitation[i].project /\ invitation[i].email = e /\
                                                   (invitation[i].at = "open" \/ Locked(i)))
                      /\ \A q \in Requests : ~LetsIn(call[q], e)
BY DEF Out, LetsIn, TypeOK, Call

\* A request that may let somebody in was checked, or is being checked by this step.
LEMMA LettersIn ==
    ASSUME TypeOK, [Next]_vars, NEW q \in Requests, NEW e \in People, LetsIn(call'[q], e)
    PROVE  LetsIn(call[q], e) \/ (call[q] = Idle /\ call'[q].by # None /\ CanManage(call'[q].by))
<1>1. CASE call'[q] = Idle
  BY <1>1 DEF LetsIn, Idle
<1>2. CASE call[q] = Idle /\ Opened(call'[q])
  BY <1>2 DEF LetsIn, Opened
<1>3. ASSUME NEW i \in Invitations, LockInvitation(q, i)
      PROVE  call'[q].kind = "accept"
  BY <1>3 DEF LockInvitation, BeginAccept, Begin, TypeOK, Idle
<1>4. ASSUME NEW step, call' = [call EXCEPT ![q].at = step]
      PROVE  LetsIn(call[q], e)
  BY <1>4, GotoFields DEF LetsIn
<1> QED
  BY <1>1, <1>2, <1>3, <1>4, CallsMove DEF LetsIn

\* Somebody who is out is let in by a manager of the project only.
THEOREM OnlyManagersLetInHolds == Spec => OnlyManagersLetIn
<1>1. ASSUME Inv, [Next]_vars, NEW e \in People, Out(e), ~Out(e)'
      PROVE  \E q \in Requests : call[q] = Idle /\ call'[q].who = e /\ call'[q].by # None
                                 /\ CanManage(call'[q].by)
  <2>1. TypeOK /\ TypeOK'
    BY <1>1, NextTyped DEF Inv
  <2>2. /\ role[e] = None
        /\ \A i \in Invitations : ~(invitation[i].project /\ invitation[i].email = e /\
                                    (invitation[i].at = "open" \/ Locked(i)))
        /\ \A q \in Requests : ~LetsIn(call[q], e)
    BY <1>1, <2>1, OutInOtherWords
  <2> SUFFICES ASSUME \A q \in Requests : ~LetsIn(call'[q], e)
               PROVE  FALSE
    <3>1. ASSUME NEW q \in Requests, LetsIn(call'[q], e)
          PROVE  call[q] = Idle /\ call'[q].who = e /\ call'[q].by # None /\ CanManage(call'[q].by)
      BY <1>1, <2>1, <2>2, <3>1, LettersIn DEF LetsIn
    <3> QED
      BY <3>1
  \* The role is not given by this step.
  <2>3. role'[e] = None
    <3> SUFFICES ASSUME role'[e] # None PROVE FALSE
      OBVIOUS
    <3>1. PICK q \in Requests :
             \/ /\ Accept(q) /\ call[q].who = e
                /\ call[q].invitation \in Invitations
                /\ invitation[call[q].invitation].project
             \/ call[q].kind = "add" /\ call[q].who = e
      BY <1>1, <2>2, RolesMove DEF Inv, OwnerStays
    <3>2. CASE Accept(q) /\ call[q].invitation \in Invitations /\ call[q].who = e
      BY <1>1, <2>2, <3>1, <3>2 DEF Inv, Accepting, Accept, Locked, LetsIn
    <3>3. CASE call[q].kind = "add" /\ call[q].who = e
      BY <2>2, <3>3 DEF LetsIn
    <3> QED
      BY <3>1, <3>2, <3>3
  \* No invitation becomes one that lets them in.
  <2>4. ASSUME NEW i \in Invitations
        PROVE  ~(invitation'[i].project /\ invitation'[i].email = e /\
                 (invitation'[i].at = "open" \/ Locked(i)'))
    <3> SUFFICES ASSUME invitation'[i].project, invitation'[i].email = e,
                        invitation'[i].at = "open" \/ Locked(i)'
                 PROVE  FALSE
      OBVIOUS
    <3>1. CASE invitation[i].at = "none"
      <4>1. i # None
        BY NoneAssumption
      <4>2. ~Locked(i)
        BY <1>1, <3>1, <4>1 DEF Inv, Accepting, Locked
      <4>3. ~Locked(i)'
        BY <1>1, <3>1, <4>1, <4>2, HoldingMoves DEF Inv, Locked, LockInvitation
      <4>4. PICK q \in Requests : SaveInvitation(q)
        BY <1>1, <3>1, <4>3, OnlySaveOpens DEF Inv
      <4>5. LetsIn(call[q], e)
        BY <3>1, <4>3, <4>4, <2>1 DEF SaveInvitation, At, TypeOK, LetsIn
      <4> QED
        BY <2>2, <4>5
    <3>2. CASE invitation[i].at # "none"
      <4>1. Keeps(i)
        BY <1>1, <3>2, InvitationsKeep DEF Inv
      <4>2. invitation[i].at # "open" /\ ~Locked(i)
        BY <2>2, <4>1 DEF Keeps
      <4>3. i # None
        BY NoneAssumption
      <4> QED
        BY <1>1, <4>1, <4>2, <4>3, HoldingMoves DEF Inv, Keeps, Locked, LockInvitation
    <3> QED
      BY <3>1, <3>2
  <2> QED
    BY <1>1, <2>3, <2>4 DEF Out, LetsIn
<1>2. Inv /\ [Next]_vars =>
        [\A e \in People : Out(e) /\ ~Out(e)' =>
            \E q \in Requests : call[q] = Idle /\ call'[q].who = e /\ call'[q].by # None
                                /\ CanManage(call'[q].by)]_vars
  BY <1>1
<1> QED
  BY <1>2, InvAlways, PTL DEF OnlyManagersLetIn, Spec

=============================================================================
