------------------------------ MODULE Sessions ------------------------------
(***************************************************************************)
(* Login, refresh, logout and the authentication of requests, for one user *)
(* whose browser has several tabs open.                                    *)
(*                                                                         *)
(* The refresh token is a cookie that the tabs share; each tab keeps an    *)
(* access token of its own in memory.  A refresh looks the session up by   *)
(* the hash of the cookie and replaces the hash in a second statement.  A  *)
(* logout revokes the session that has the hash of the cookie it was sent, *)
(* and is answered with success whatever became of that.  A request is let *)
(* in when its access token has not expired and belongs to a live session. *)
(*                                                                         *)
(* The server also has a blacklist in Redis, of the access tokens that     *)
(* came with a logout in the Authorization header.  The browser sends none *)
(* with its logout (authService.ts), so that nothing is ever on the list   *)
(* and the check for it lets every token pass: it is left out here.        *)
(*                                                                         *)
(* Tokens come from small sets: one that nothing holds any more is used    *)
(* again, as a fresh one would be.                                         *)
(***************************************************************************)
EXTENDS Naturals, FiniteSets

CONSTANTS Tabs,             \* tabs of the user's browser
          SessionIds,       \* bound on the logins
          Refreshes,        \* refresh tokens, which stand for their hashes too
          Accesses,         \* access tokens, by their jti
          NoToken,          \* no token, no session
          MaxSessionFaults  \* bound on the lost answers and the database errors

ASSUME TokensAssumption == NoToken \notin SessionIds \cup Refreshes \cup Accesses
ASSUME SessionFaultsAssumption == MaxSessionFaults \in Nat

VARIABLES userActive,  \* users.status = 'active'
          rows,        \* [SessionIds -> Row]: the table user_sessions
          token,       \* [Accesses -> Token]: the access tokens that were handed out
          jar,         \* the cookie flowak_refresh of the browser, or NoToken
          tab,         \* [Tabs -> Accesses \cup {NoToken}]: the token in a tab's memory
          call,        \* [Tabs -> Call]: the login or refresh a tab waits for
          leave,       \* Leave: a logout, which the tab that sent it does not wait for
          sessionFaults

sessionVars == <<userActive, rows, token, jar, tab, call, leave, sessionFaults>>
client == <<jar, tab>>

-----------------------------------------------------------------------------
Row == [state : {"absent", "live", "revoked", "expired"}, hash : Refreshes \cup {NoToken}]

\* valid: not expired.  out: the logout of the tab that had it was handled.  missed: the
\* cookie of that logout was not the one of its session.  failed: the database failed under
\* it.  beside: before it, and after the token was handed out, the browser was given or
\* sent something else that concerns the cookie (Touched).
Token == [session : SessionIds \cup {NoToken}, valid : BOOLEAN, out : BOOLEAN, missed : BOOLEAN,
          failed : BOOLEAN, beside : BOOLEAN]
Unused == [session |-> NoToken, valid |-> FALSE, out |-> FALSE, missed |-> FALSE, failed |-> FALSE, beside |-> FALSE]

\* cookie: what the request brought.  refresh, access: what the answer brings.
Call == [at : {"none", "login", "refresh", "found", "ok"}, cookie : Refreshes \cup {NoToken},
         session : SessionIds \cup {NoToken}, refresh : Refreshes \cup {NoToken}, access : Accesses \cup {NoToken}]
NoCall == [at |-> "none", cookie |-> NoToken, session |-> NoToken, refresh |-> NoToken, access |-> NoToken]

\* cookie: what the logout brought.  access: the token of its tab, which is not sent.
Leave == [at : {"none", "sent", "answered"}, cookie : Refreshes \cup {NoToken}, access : Accesses \cup {NoToken}]
Stay == [at |-> "none", cookie |-> NoToken, access |-> NoToken]

FreeRefreshes == Refreshes \ ({jar, leave.cookie} \cup {rows[s].hash : s \in SessionIds}
    \cup UNION {{call[t].cookie, call[t].refresh} : t \in Tabs})
FreeAccesses == {a \in Accesses : ~token[a].valid} \ ({leave.access}
    \cup UNION {{tab[t], call[t].access} : t \in Tabs})
Absent == {s \in SessionIds : rows[s].state = "absent"}
Some(S) == CHOOSE x \in S : TRUE

\* Every token that is still in use but this one has something happen beside it.
Touched(a) == [b \in Accesses |-> IF b # a /\ token[b].valid /\ ~token[b].out
                                  THEN [token[b] EXCEPT !.beside = TRUE] ELSE token[b]]

SessionFault == sessionFaults < MaxSessionFaults /\ sessionFaults' = sessionFaults + 1

\* Nobody is logged in.
SessionsInit ==
    /\ userActive = TRUE
    /\ rows = [s \in SessionIds |-> [state |-> "absent", hash |-> NoToken]]
    /\ token = [a \in Accesses |-> Unused]
    /\ jar = NoToken
    /\ tab = [t \in Tabs |-> NoToken]
    /\ call = [t \in Tabs |-> NoCall]
    /\ leave = Stay
    /\ sessionFaults = 0

-----------------------------------------------------------------------------
(* Login: the user is looked up, then the session is inserted.             *)

\* FindByEmail finds active users only; a refused login leaves nothing behind.
Login(t) ==
    /\ tab[t] = NoToken /\ call[t] = NoCall /\ userActive /\ Absent # {}
    /\ call' = [call EXCEPT ![t].at = "login"]
    /\ UNCHANGED <<userActive, rows, token, client, leave, sessionFaults>>

\* The answer of t: tokens for session s, and the row of s has the hash.
HandOut(t, s, r, a) ==
    /\ rows' = [rows EXCEPT ![s] = [hash |-> r, state |-> IF @.state = "absent" THEN "live" ELSE @.state]]
    /\ token' = [Touched(a) EXCEPT ![a] = [Unused EXCEPT !.session = s, !.valid = TRUE]]
    /\ call' = [call EXCEPT ![t] = [@ EXCEPT !.at = "ok", !.session = s, !.refresh = r, !.access = a]]
    /\ UNCHANGED <<userActive, client, leave, sessionFaults>>

CreateSession(t) ==
    /\ call[t].at = "login" /\ Absent # {}
    /\ FreeRefreshes # {} /\ FreeAccesses # {}
    /\ HandOut(t, Some(Absent), Some(FreeRefreshes), Some(FreeAccesses))

-----------------------------------------------------------------------------
(* Refresh, when a page of the application is opened.                      *)

\* The page is loaded again, and what it had in memory is gone.  initializeStore
\* asks for a refresh unless localStorage says that there is no session; without the
\* cookie that is refused.
OpenPage(t) ==
    /\ call[t] = NoCall
    /\ tab' = [tab EXCEPT ![t] = NoToken]
    /\ \/ jar # NoToken /\ call' = [call EXCEPT ![t] = [@ EXCEPT !.at = "refresh", !.cookie = jar]]
       \/ UNCHANGED call
    /\ UNCHANGED <<userActive, rows, token, jar, leave, sessionFaults>>

Found(t, s) ==
    /\ call' = [call EXCEPT ![t] = [@ EXCEPT !.at = "found", !.session = s]]
    /\ UNCHANGED <<userActive, rows, token, client, leave, sessionFaults>>

\* A refused refresh leaves the tab at the login screen, and the cookie where it was.
Refuse(t) ==
    /\ call' = [call EXCEPT ![t] = NoCall]
    /\ UNCHANGED <<userActive, rows, token, client, leave, sessionFaults>>

With(cookie) == {s \in SessionIds : cookie # NoToken /\ rows[s].hash = cookie}

\* Mutation: a deactivated user is found as well.
FindSessionOfAnyUser(t) ==
    /\ call[t].at = "refresh"
    /\ LET live == {s \in With(call[t].cookie) : rows[s].state = "live"}
       IN  IF live # {} THEN Found(t, Some(live)) ELSE Refuse(t)

\* FindSessionByRefreshToken: neither revoked nor expired, and the user is active.
FindSessionByRefreshToken(t) ==
    /\ call[t].at = "refresh"
    /\ LET live == {s \in With(call[t].cookie) : rows[s].state = "live" /\ userActive}
       IN  IF live # {} THEN Found(t, Some(live)) ELSE Refuse(t)

\* Mutation: the session is updated by its id alone.
RotateUnchecked(t) ==
    /\ call[t].at = "found"
    /\ LET s == call[t].session
       IN  IF rows[s].state # "revoked"
           THEN /\ FreeRefreshes # {} /\ FreeAccesses # {}
                /\ HandOut(t, s, Some(FreeRefreshes), Some(FreeAccesses))
           ELSE Refuse(t)

\* Mutation: the update does not ask for revoked_at IS NULL again.
RotateRevoked(t) ==
    /\ call[t].at = "found"
    /\ LET s == call[t].session
       IN  IF rows[s].hash = call[t].cookie
           THEN /\ FreeRefreshes # {} /\ FreeAccesses # {}
                /\ HandOut(t, s, Some(FreeRefreshes), Some(FreeAccesses))
           ELSE Refuse(t)

\* RotateRefreshToken: the hash must still be the one that was looked up, and the
\* session not revoked; whether it has expired is not asked again.
RotateRefreshToken(t) ==
    /\ call[t].at = "found"
    /\ LET s == call[t].session
       IN  IF rows[s].hash = call[t].cookie /\ rows[s].state # "revoked"
           THEN /\ FreeRefreshes # {} /\ FreeAccesses # {}
                /\ HandOut(t, s, Some(FreeRefreshes), Some(FreeAccesses))
           ELSE Refuse(t)

\* A statement fails, which is answered 401 to a refresh and 500 to a login: to the tab it
\* is a refusal.
AnswerFails(t) ==
    /\ call[t].at \in {"login", "refresh", "found"} /\ SessionFault
    /\ call' = [call EXCEPT ![t] = NoCall]
    /\ UNCHANGED <<userActive, rows, token, client, leave>>

\* The answer arrives.
Receive(t) ==
    /\ call[t].at = "ok"
    /\ call' = [call EXCEPT ![t] = NoCall]
    /\ jar' = call[t].refresh
    /\ tab' = [tab EXCEPT ![t] = call[t].access]
    /\ token' = Touched(call[t].access)
    /\ UNCHANGED <<userActive, rows, leave, sessionFaults>>

\* The answer is lost, and the tab takes that for a refusal.
LoseAnswer(t) ==
    /\ call[t].at = "ok" /\ SessionFault
    /\ call' = [call EXCEPT ![t] = NoCall]
    /\ UNCHANGED <<userActive, rows, token, jar, tab, leave>>

-----------------------------------------------------------------------------
(* Logout.                                                                 *)

\* The browser sends the cookie, and the tab forgets its session at once.
Logout(t) ==
    /\ tab[t] # NoToken /\ leave = Stay
    /\ leave' = [at |-> "sent", cookie |-> jar, access |-> tab[t]]
    /\ tab' = [tab EXCEPT ![t] = NoToken]
    /\ UNCHANGED <<userActive, rows, token, jar, call, sessionFaults>>

Live(a) == rows[token[a].session].state = "live"

\* What becomes of a logout: the rows that it leaves behind, and whether the database
\* failed.  The answer is the same.
HandledLogout(rows1, fails) ==
    LET a == leave.access
        old == token[a]
    IN  /\ rows' = rows1
        /\ token' = IF old.valid
                    THEN [token EXCEPT ![a] = [old EXCEPT !.out = TRUE, !.failed = old.failed \/ fails,
                              !.missed = old.missed \/ old.session \notin With(leave.cookie)]]
                    ELSE token
        /\ leave' = [leave EXCEPT !.at = "answered"]
        /\ UNCHANGED <<userActive, client, call>>

\* RevokeSessionByRefreshToken: the session with this hash, or none.
Revoked == [s \in SessionIds |-> IF s \in With(leave.cookie)
                                 THEN [rows[s] EXCEPT !.state = "revoked"] ELSE rows[s]]

\* Mutation: the session stays, as if the blacklist had the token.
HandleLogoutKeeping ==
    /\ leave.at = "sent"
    /\ \/ HandledLogout(rows, FALSE) /\ UNCHANGED sessionFaults
       \/ HandledLogout(rows, TRUE) /\ SessionFault

\* An error of the database is ignored, and the logout answered.
HandleLogout ==
    /\ leave.at = "sent"
    /\ \/ HandledLogout(Revoked, FALSE) /\ UNCHANGED sessionFaults
       \/ HandledLogout(rows, TRUE) /\ SessionFault

\* The answer clears the cookie, whichever it is by now.
ReceiveLogout ==
    /\ leave.at = "answered"
    /\ leave' = Stay
    /\ jar' = NoToken
    /\ token' = Touched(NoToken)
    /\ UNCHANGED <<userActive, rows, tab, call, sessionFaults>>

-----------------------------------------------------------------------------
(* AuthMiddleware.                                                         *)

\* A request with the token is let in; whether the user is active is not asked.
LetIn(a) == token[a].valid /\ Live(a)

-----------------------------------------------------------------------------
(* Time, and the administrator.                                            *)

\* Fifteen minutes.
ExpireAccess(a) ==
    /\ token[a].valid
    /\ token' = [token EXCEPT ![a] = Unused]
    /\ UNCHANGED <<userActive, rows, client, call, leave, sessionFaults>>

\* Thirty days.
ExpireSession(s) ==
    /\ rows[s].state = "live"
    /\ rows' = [rows EXCEPT ![s].state = "expired"]
    /\ UNCHANGED <<userActive, token, client, call, leave, sessionFaults>>

\* DELETE /users/:id; the sessions of the user are left alone.
Deactivate ==
    /\ userActive
    /\ userActive' = FALSE
    /\ UNCHANGED <<rows, token, client, call, leave, sessionFaults>>

-----------------------------------------------------------------------------
AnswerCall(t) == CreateSession(t) \/ FindSessionByRefreshToken(t) \/ RotateRefreshToken(t)

SessionsNext ==
    \/ \E t \in Tabs :
          \/ Login(t) \/ OpenPage(t) \/ Logout(t)
          \/ AnswerCall(t) \/ AnswerFails(t) \/ Receive(t) \/ LoseAnswer(t)
    \/ HandleLogout \/ ReceiveLogout
    \/ \E a \in Accesses : ExpireAccess(a)
    \/ \E s \in SessionIds : ExpireSession(s)
    \/ Deactivate

\* The server ends what it has begun, and time passes.  The user and the
\* administrator need not do anything.
SessionsFairness ==
    /\ \A t \in Tabs : WF_sessionVars(AnswerCall(t))
    /\ \A a \in Accesses : WF_sessionVars(ExpireAccess(a))

SessionsSpec == SessionsInit /\ [][SessionsNext]_sessionVars /\ SessionsFairness

-----------------------------------------------------------------------------
(* Properties.                                                             *)

SessionsTypeOK ==
    /\ userActive \in BOOLEAN
    /\ rows \in [SessionIds -> Row]
    /\ token \in [Accesses -> Token]
    /\ jar \in Refreshes \cup {NoToken}
    /\ tab \in [Tabs -> Accesses \cup {NoToken}]
    /\ call \in [Tabs -> Call]
    /\ leave \in Leave
    /\ sessionFaults \in 0 .. MaxSessionFaults

\* Two tabs that are opened together send the same refresh token: at most one of
\* them is answered with new tokens, so that no refresh token is good for two.
OneRefreshPerToken ==
    \A t, u \in Tabs :
        t # u /\ call[t].at = "ok" /\ call[u].at = "ok" /\ call[t].cookie # NoToken
        => call[t].cookie # call[u].cookie

\* No access token is handed out for a session that has been revoked, also when the
\* logout comes between the two statements of the refresh.
NothingForTheRevoked ==
    [][\A a \in Accesses : ~token[a].valid /\ token'[a].valid
                           => rows[token'[a].session].state # "revoked"]_sessionVars

\* A request with an access token whose tab has logged out is let in only when the database
\* failed under the logout, or when the logout brought a cookie that was not the one of the
\* token's session, as it can only if another tab refreshed, logged in or logged out
\* between the handing out of the token and its logout.  Who uses one tab is out.
LoggedOutStaysOut ==
    \A a \in Accesses : token[a].out /\ LetIn(a) => token[a].failed \/ (token[a].missed /\ token[a].beside)

\* A tab that has logged out has no way back: the logout takes effect at once, with every
\* token that has not expired.
LogoutIsInstant == \A a \in Accesses : token[a].out => ~LetIn(a)

\* There is an access token that lets requests in.
CanAct == \E a \in Accesses : LetIn(a)

\* A deactivated user, whose sessions nobody revokes, is locked out for good once the
\* access tokens that were handed out have expired.
DeactivationTakesEffect == ~userActive ~> [](~CanAct)

\* Nobody is let in, and no request has passed the check of the user that could still
\* hand out tokens: then it stays so, which refreshes and tabs that are opened do not change.
LockedOut == ~userActive /\ ~CanAct /\ \A t \in Tabs : call[t].at \notin {"login", "found"}
LockoutIsFinal == [][LockedOut => LockedOut']_sessionVars

\* Once the logout of a token was answered, the browser has no refresh token that
\* works for the session of the token.
LogoutIsFinal ==
    \A a \in Accesses : token[a].out /\ Live(a) => jar # rows[token[a].session].hash

=============================================================================
