---------------------------- MODULE AdminSession ----------------------------
(***************************************************************************)
(* The session of an operator in the administration's web application      *)
(* (admin-web/src/services/api.ts, src/auth, and                           *)
(* admin/access/admin-auth.controller.ts): tabs of one browser, which      *)
(* share the cookie of the refresh token and keep the access token to      *)
(* themselves.  A tab refreshes when it opens, before its access token     *)
(* expires and when a request is refused, and does not know what the other *)
(* tabs do.                                                                *)
(***************************************************************************)
EXTENDS RefreshTokens

CONSTANTS
  Tabs,         \* tabs of the browser, each a place for a call
  Operator,     \* the operator, one of Users
  MaxLost       \* bound on answers lost and crashes of the backend

VARIABLES
  cookie,       \* the refresh token of the browser, 0 if there is none
  session,      \* tabs whose session store has a session
  lost          \* faults so far

console == <<cookie, session, lost>>
adminVars == <<server, console>>

Office == "office"     \* another administrator
AdminPlaces == Tabs \cup {Office}

-----------------------------------------------------------------------------
(* Tabs *)

\* loginAdmin: the form is shown by a tab without a session.
LoginAdmin(t) ==
  /\ t \notin session
  /\ BeginLogin(t, Operator)
  /\ UNCHANGED <<token, blocked, member, console>>

\* refreshAdminSession: the cookie goes with the request.
RefreshAdminSession(t) ==
  /\ cookie # 0
  /\ BeginRefresh(t, cookie)
  /\ UNCHANGED <<token, blocked, member, console>>

\* The answer sets the cookie and the session; a refusal clears the session only.
Answer(t) ==
  /\ Ended(t)
  /\ call' = [call EXCEPT ![t] = Idle]
  /\ IF Op(t) = "answer"
       THEN cookie' = Raw(t) /\ session' = session \cup {t}
       ELSE session' = session \ {t} /\ UNCHANGED cookie
  /\ UNCHANGED <<token, blocked, member, lost>>

\* logoutAdmin: the token of the cookie is revoked and the cookie cleared, unless the
\* access token has expired or the membership has ended: then the call is refused
\* and the session of the tab goes alone.
LogoutAdmin(t) ==
  /\ t \in session
  /\ session' = session \ {t}
  /\ \/ /\ Operator \in member
        /\ cookie' = 0
        /\ IF cookie = 0 THEN UNCHANGED token ELSE RevokeOne(cookie)
     \/ UNCHANGED <<token, cookie>>
  /\ UNCHANGED <<blocked, member, call, lost>>

-----------------------------------------------------------------------------
(* The backend and its faults *)

\* disableOperator.
Disable == DisableOperator(Office, Operator) /\ UNCHANGED console

OfficeAnswered == Answered(Office) /\ UNCHANGED console

Served(c) == ServerStep(c) /\ UNCHANGED console

\* An answer is lost: the tab's refresh fails, and the cookie is what it was.
LostAnswer(t) ==
  /\ Ended(t) /\ lost < MaxLost
  /\ call' = [call EXCEPT ![t] = Idle]
  /\ session' = session \ {t}
  /\ lost' = lost + 1
  /\ UNCHANGED <<token, blocked, member, cookie>>

-----------------------------------------------------------------------------

AdminInit ==
  /\ ServerInit
  /\ member = {Operator}
  /\ cookie = 0 /\ session = {} /\ lost = 0

AdminNext ==
  \/ \E t \in Tabs : LoginAdmin(t) \/ RefreshAdminSession(t) \/ Answer(t) \/ LogoutAdmin(t)
                       \/ LostAnswer(t)
  \/ Disable \/ OfficeAnswered
  \/ \E c \in AdminPlaces : Served(c)

-----------------------------------------------------------------------------
(* Properties *)

\* Every variable has its type.
TypeOK ==
  /\ ServerTypeOK
  /\ cookie \in Tokens \cup {0}
  /\ session \subseteq Tabs
  /\ lost \in 0 .. MaxLost

\* An operator whose membership has ended has no good token once the calls under way
\* have ended: not even one issued while the others were being revoked, because every
\* sign-in and refresh reads the membership after it issued a token (disableOperator,
\* toSession).
DisabledHasNone ==
  Operator \notin member /\ (\A c \in AdminPlaces : ~Busy(c)) =>
    \A i \in OfUser(Operator) : ~Active(i)
=============================================================================
