----------------------------- MODULE Membership -----------------------------
(***************************************************************************)
(* Accounts, the members of one project and of its organization, and the   *)
(* invitations to both.                                                    *)
(*                                                                         *)
(* Every request checks the rights of the one who sent it first and writes *)
(* in a later statement; only the acceptance of an invitation and the      *)
(* registration write in a transaction.  What a request has checked may    *)
(* have changed when it writes, and what still holds then is up to the     *)
(* keys of the tables and to the lock on the row of the invitation.  A     *)
(* server that starts runs the migrations again, which write members too.  *)
(***************************************************************************)
EXTENDS FiniteSets

CONSTANTS People,       \* by their e-mail addresses
          Owner,        \* projects.owner_id, which nothing changes
          Requests,     \* requests that may be under way at a time
          Invitations,  \* bound on the invitations
          Roles,        \* roles in a project
          None          \* no row

ASSUME OwnerAssumption == Owner \in People
ASSUME NoneAssumption == None \notin People \cup Roles \cup Invitations \cup {"member"}
ASSUME RolesAssumption == {"owner", "editor"} \subseteq Roles /\ Roles \subseteq {"owner", "editor", "commenter", "viewer"}

VARIABLES account,     \* [People -> ...]: users.status, or "none"
          orgRole,     \* organization_members of the organization of the project
          archived,    \* projects.status = 'archived'
          role,        \* project_members of the project: project_role, or None
          invitation,  \* [Invitations -> Invitation]
          call         \* [Requests -> Call]

vars == <<account, orgRole, archived, role, invitation, call>>
tables == <<account, orgRole, archived, role, invitation>>

-----------------------------------------------------------------------------
Steps == {"idle", "allowed", "eligible", "new", "unused", "locked", "found", "unknown"}

\* project: it is to the project; otherwise to the organization only.
Invitation == [at : {"none", "open", "expired", "used"}, email : People, role : Roles, project : BOOLEAN]

Call == [kind : {"none", "register", "post", "invite", "accept", "add", "remove", "archive", "restore"},
         at : Steps, by : People \cup {None}, who : People \cup {None},
         role : Roles \cup {None}, project : BOOLEAN, invitation : Invitations \cup {None}]
Idle == [kind |-> "none", at |-> "idle", by |-> None, who |-> None,
         role |-> None, project |-> FALSE, invitation |-> None]

\* The project has just been created, by an owner of the organization; the others
\* have no account, or belong to the organization.
Init ==
    /\ account \in {f \in [People -> {"none", "active"}] : f[Owner] = "active"}
    /\ orgRole = [e \in People |-> IF e = Owner THEN "owner"
                                   ELSE IF account[e] = "active" THEN "member" ELSE None]
    /\ archived = FALSE
    /\ role = [e \in People |-> IF e = Owner THEN "owner" ELSE None]
    /\ invitation = [i \in Invitations |->
                        [at |-> "none", email |-> Owner, role |-> "editor", project |-> FALSE]]
    /\ call = [q \in Requests |-> Idle]

-----------------------------------------------------------------------------
(* A request.  One that is refused leaves nothing behind, and one that     *)
(* fails nothing but what it had written.                                  *)

Begin(q, c) == call[q] = Idle /\ call' = [call EXCEPT ![q] = c] /\ UNCHANGED tables
Goto(q, step) == call' = [call EXCEPT ![q].at = step] /\ UNCHANGED tables
End(q) == call' = [call EXCEPT ![q] = Idle]
Refuse(q) == End(q) /\ UNCHANGED tables
At(q, kind, step) == call[q].kind = kind /\ call[q].at = step

\* A statement fails or the server stops; an open transaction is rolled back.
Abort(q) == call[q] # Idle /\ Refuse(q)

\* AuthorizeProject for the capability 'manage': the role of the row counts before
\* the ownership of the project.
CanManage(e) ==
    /\ ~archived /\ orgRole[e] # None
    /\ role[e] = "owner" \/ (role[e] = None /\ e = Owner)

-----------------------------------------------------------------------------
(* Accounts.                                                               *)

\* Register and PostUsers look for the address first.
CheckEmail(q, kind, e) ==
    /\ account[e] = "none"
    /\ Begin(q, [Idle EXCEPT !.kind = kind, !.at = "unused", !.who = e])

\* users.email is unique.
InsertUser(e) ==
    /\ account[e] = "none"
    /\ account' = [account EXCEPT ![e] = "active"]

\* A member keeps the role they have.  The row that a start has written for a deactivated
\* account does not count until it is activated here, and may be one of an owner.
Joins(e) ==
    \E r \in IF account[e] = "inactive" THEN {"member", "owner"} ELSE {"member"} :
        orgRole' = [orgRole EXCEPT ![e] = IF orgRole[e] = None THEN r ELSE orgRole[e]]

\* Register: the user and the membership in one transaction; the organization may be
\* one of their own.
CreateUser(q) ==
    LET e == call[q].who
    IN  /\ At(q, "register", "unused")
        /\ InsertUser(e)
        /\ Joins(e) \/ UNCHANGED orgRole
        /\ End(q)
        /\ UNCHANGED <<archived, role, invitation>>

\* PostUsers.  The membership that it inserts next, without looking at the error, has the
\* functional role for its role, which the table refuses: the user has no organization.
PostUser(q) ==
    /\ At(q, "post", "unused")
    /\ InsertUser(call[q].who)
    /\ End(q)
    /\ UNCHANGED <<orgRole, archived, role, invitation>>

\* DELETE /users/:id: the memberships stay.
Deactivate(e) ==
    /\ account[e] = "active"
    /\ account' = [account EXCEPT ![e] = "inactive"]
    /\ UNCHANGED <<orgRole, archived, role, invitation, call>>

-----------------------------------------------------------------------------
(* Invitations.                                                            *)

\* To the project by whoever manages it, to the organization by one of its owners; nothing
\* reads the role of the latter.
Invite(q, by, e, r, project) ==
    /\ IF project THEN CanManage(by) ELSE orgRole[by] = "owner"
    /\ Begin(q, [Idle EXCEPT !.kind = "invite", !.at = "allowed", !.by = by, !.who = e,
                             !.role = IF project THEN r ELSE "editor", !.project = project])

SaveInvitation(q) ==
    /\ At(q, "invite", "allowed")
    /\ \E i \in Invitations :
        /\ invitation[i].at = "none"
        /\ invitation' = [invitation EXCEPT ![i] =
                [at |-> "open", email |-> call[q].who, role |-> call[q].role, project |-> call[q].project]]
    /\ End(q)
    /\ UNCHANGED <<account, orgRole, archived, role>>

\* Seven days.
Expire(i) ==
    /\ invitation[i].at = "open"
    /\ invitation' = [invitation EXCEPT ![i].at = "expired"]
    /\ UNCHANGED <<account, orgRole, archived, role, call>>

Locked(i) == \E q \in Requests : call[q].invitation = i

BeginAccept(q, i) == Begin(q, [Idle EXCEPT !.kind = "accept", !.at = "locked",
                                           !.who = invitation[i].email, !.invitation = i])

\* Mutation: accepted_at is not asked for.
LockInvitationAgain(q, i) ==
    /\ invitation[i].at \in {"open", "used"} /\ ~Locked(i)
    /\ BeginAccept(q, i)

\* SELECT ... FOR UPDATE: one that waited for the row sees what the other has made of it.
LockInvitation(q, i) ==
    /\ invitation[i].at = "open" /\ ~Locked(i)
    /\ BeginAccept(q, i)

FindInvited(q) ==
    /\ At(q, "accept", "locked")
    /\ Goto(q, IF account[call[q].who] = "none" THEN "unknown" ELSE "found")

\* The account, if there was none, and the memberships, with the lock until the end:
\* neither the project nor the user is asked whether they are active, and a role in the
\* project is replaced.
Accept(q) ==
    LET i == call[q].invitation
        e == call[q].who
    IN  /\ call[q].kind = "accept"
        /\ \/ call[q].at = "found" /\ UNCHANGED account
           \/ call[q].at = "unknown" /\ InsertUser(e)
        /\ Joins(e)
        /\ role' = IF invitation[i].project THEN [role EXCEPT ![e] = invitation[i].role] ELSE role
        /\ invitation' = [invitation EXCEPT ![i].at = "used"]
        /\ End(q)
        /\ UNCHANGED archived

-----------------------------------------------------------------------------
(* Members.                                                                *)

\* The three that only the owner of the project may ask for, as long as they manage it.
Manage(q, kind, e) ==
    /\ CanManage(Owner)
    /\ kind = "remove" => e # Owner
    /\ Begin(q, [Idle EXCEPT !.kind = kind, !.at = "allowed", !.by = Owner, !.who = e])

\* Mutation: the organization is not asked for.
CheckTargetOfAnyTenant(q) ==
    /\ At(q, "add", "allowed")
    /\ IF account[call[q].who] = "active" THEN Goto(q, "eligible") ELSE Refuse(q)

CheckTarget(q) ==
    /\ At(q, "add", "allowed")
    /\ IF account[call[q].who] = "active" /\ orgRole[call[q].who] # None
       THEN Goto(q, "eligible") ELSE Refuse(q)

CheckMember(q) ==
    /\ At(q, "add", "eligible")
    /\ IF role[call[q].who] = None THEN Goto(q, "new") ELSE Refuse(q)

\* Mutation: ON CONFLICT DO UPDATE, as everywhere else.
InsertMemberReplacing(q) ==
    /\ At(q, "add", "new")
    /\ role' = [role EXCEPT ![call[q].who] = "editor"]
    /\ End(q)
    /\ UNCHANGED <<account, orgRole, archived, invitation>>

\* The key of project_members refuses a second row for the same user.
InsertMember(q) ==
    /\ At(q, "add", "new")
    /\ role[call[q].who] = None
    /\ role' = [role EXCEPT ![call[q].who] = "editor"]
    /\ End(q)
    /\ UNCHANGED <<account, orgRole, archived, invitation>>

RemoveMember(q) ==
    /\ At(q, "remove", "allowed")
    /\ role' = [role EXCEPT ![call[q].who] = None]
    /\ End(q)
    /\ UNCHANGED <<account, orgRole, archived, invitation>>

-----------------------------------------------------------------------------
(* The project is archived and restored.                                   *)

Archive(q) ==
    /\ At(q, "archive", "allowed")
    /\ archived' = TRUE
    /\ End(q)
    /\ UNCHANGED <<account, orgRole, role, invitation>>

CheckRestore(q, by) ==
    /\ archived /\ orgRole[by] # None
    /\ by = Owner \/ orgRole[by] = "owner"
    /\ Begin(q, [Idle EXCEPT !.kind = "restore", !.at = "allowed", !.by = by])

\* The update asks again whether the project is archived.
Restore(q) ==
    /\ At(q, "restore", "allowed") /\ archived
    /\ archived' = FALSE
    /\ End(q)
    /\ UNCHANGED <<account, orgRole, role, invitation>>

-----------------------------------------------------------------------------
(* A server starts, maybe beside others that serve requests.               *)

\* Every active user becomes a member of org_default, as an owner if they are a 'pm'.  The
\* organization of the project may be another one, where this changes nothing.
JoinDefaultOrganization ==
    /\ \E managers \in SUBSET People :
        orgRole' = [e \in People |-> IF orgRole[e] # None \/ account[e] # "active" THEN orgRole[e]
                                    ELSE IF e \in managers THEN "owner" ELSE "member"]
    /\ UNCHANGED <<account, archived, role, invitation, call>>

\* The owner of a project owns its organization and has the role of its owner, whichever they
\* had before.
RepairOwnership ==
    /\ orgRole' = [orgRole EXCEPT ![Owner] = "owner"]
    /\ role' = [role EXCEPT ![Owner] = "owner"]
    /\ UNCHANGED <<account, archived, invitation, call>>

-----------------------------------------------------------------------------
Next ==
    \/ \E q \in Requests :
        \/ \E e \in People : \/ \E kind \in {"register", "post"} : CheckEmail(q, kind, e)
                             \/ \E kind \in {"add", "remove", "archive"} : Manage(q, kind, e)
                             \/ CheckRestore(q, e)
        \/ \E by, e \in People, r \in Roles, project \in BOOLEAN : Invite(q, by, e, r, project)
        \/ \E i \in Invitations : LockInvitation(q, i)
        \/ CreateUser(q) \/ PostUser(q)
        \/ SaveInvitation(q) \/ FindInvited(q) \/ Accept(q)
        \/ CheckTarget(q) \/ CheckMember(q) \/ InsertMember(q) \/ RemoveMember(q)
        \/ Archive(q) \/ Restore(q) \/ Abort(q)
    \/ \E i \in Invitations : Expire(i)
    \/ \E e \in People : Deactivate(e)
    \/ JoinDefaultOrganization \/ RepairOwnership

Spec == Init /\ [][Next]_vars

-----------------------------------------------------------------------------
(* Properties.                                                             *)

TypeOK ==
    /\ account \in [People -> {"none", "active", "inactive"}]
    /\ orgRole \in [People -> {"member", "owner", None}]
    /\ archived \in BOOLEAN
    /\ role \in [People -> Roles \cup {None}]
    /\ invitation \in [Invitations -> Invitation]
    /\ call \in [Requests -> Call]

\* Who has a role in the project has an account and belongs to its organization, also
\* when they were created without a membership, or while they are added, or when a server
\* starts.
MembersBelong ==
    \A e \in People : role[e] # None => account[e] # "none" /\ orgRole[e] # None

\* e is not a member of the project, and nothing that was allowed already can make them one: no
\* open invitation and no request that has passed its check.
Out(e) ==
    /\ role[e] = None
    /\ \A i \in Invitations : ~(invitation[i].project /\ invitation[i].email = e /\
            (invitation[i].at = "open" \/ Locked(i)))
    /\ \A q \in Requests : call[q].who # e \/ call[q].kind \notin {"add", "invite"} \/
            (call[q].kind = "invite" /\ ~call[q].project)

\* Somebody who is out, because nobody let them in yet or because they were removed, is let in
\* only by a request of someone who manages the project at that time: no invitation
\* is good for a second time.
OnlyManagersLetIn ==
    [][\A e \in People : Out(e) /\ ~Out(e)' =>
          \E q \in Requests : call[q] = Idle /\ call'[q].who = e /\ call'[q].by # None
                              /\ CanManage(call'[q].by)]_vars

\* The role of a member is changed only by the invitation to that role which it uses up: an
\* addition that had found them not to be a member changes nothing.  Only the owner of
\* the project gets back the role of its owner without one, from no request but a start.
RoleNeedsAnInvitation ==
    [][\A e \in People : role[e] # None /\ role'[e] \notin {None, role[e]} =>
          \/ \E i \in Invitations : /\ invitation[i].email = e /\ invitation[i].project
                                    /\ invitation[i].role = role'[e]
                                    /\ invitation[i].at # "used" /\ invitation'[i].at = "used"
          \/ e = Owner /\ role'[e] = "owner" /\ UNCHANGED <<account, invitation, call>>]_vars

=============================================================================
