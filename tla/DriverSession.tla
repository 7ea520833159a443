--------------------------- MODULE DriverSession ---------------------------
(***************************************************************************)
(* The session of a driver's app (mobile-driver/src/auth/AuthProvider.tsx, *)
(* src/api/rest-api.ts, src/auth/token-storage.ts) on the tokens of the    *)
(* backend.  Any request may be refused because the access token has       *)
(* expired or the driver is blocked; the app then refreshes, one refresh   *)
(* at a time for all its requests.  The app may be signed out or killed    *)
(* while a refresh is under way, and an answer may be lost.                *)
(***************************************************************************)
EXTENDS RefreshTokens

CONSTANTS
  MaxLost       \* bound on answers lost

VARIABLES
  stored,       \* SecureStore: the refresh token, 0 if there is none
  shown,        \* the user of the AuthProvider's state
  lost,         \* answers lost so far
  straddled     \* a refresh was under way when the driver signed out

app == <<stored, shown, lost, straddled>>
driverVars == <<server, app>>

Login   == "login"
Refresh == "refresh"
Ghost   == "ghost"    \* the refresh of an app that was killed
Office  == "office"   \* an administrator
DriverCalls == {Login, Refresh, Ghost, Office}

\* isLoading: the session is being restored.
Restoring == "restoring"

-----------------------------------------------------------------------------
(* AuthProvider and RestClient *)

\* signIn and register: the call ...
SignIn(u) ==
  /\ shown = NoUser
  /\ BeginLogin(Login, u)
  /\ UNCHANGED <<token, blocked, member, app>>

\* ... and its answer (applySession).
SignedIn ==
  /\ Ended(Login)
  /\ call' = [call EXCEPT ![Login] = Idle]
  /\ IF Op(Login) = "answer"
       THEN stored' = Raw(Login) /\ shown' = User(Login)
       ELSE UNCHANGED <<stored, shown>>
  /\ UNCHANGED <<token, blocked, member, lost, straddled>>

\* A request is answered 401: refreshTokens, unless one is under way.
Unauthorized ==
  /\ stored # 0
  /\ BeginRefresh(Refresh, stored)
  /\ UNCHANGED <<token, blocked, member, app>>

\* Faulty variant: the next refresh token is not stored.
KeepsOld ==
  /\ Ended(Refresh)
  /\ call' = [call EXCEPT ![Refresh] = Idle]
  /\ stored' = IF Op(Refresh) = "answer" THEN stored ELSE 0
  /\ UNCHANGED <<token, blocked, member, shown, lost, straddled>>

\* The answer is stored, whoever is signed in now; a refusal clears the storage and
\* leaves the user shown.
Refreshed ==
  /\ Ended(Refresh)
  /\ call' = [call EXCEPT ![Refresh] = Idle]
  /\ stored' = IF Op(Refresh) = "answer" THEN Raw(Refresh) ELSE 0
  /\ UNCHANGED <<token, blocked, member, shown, lost, straddled>>

\* signOut is of the app alone: no token is revoked.
SignOut ==
  /\ shown \in Users
  /\ stored' = 0 /\ shown' = NoUser
  /\ straddled' = (straddled \/ Busy(Refresh))
  /\ UNCHANGED <<server, lost>>

\* restoreSession: nothing is stored, ...
NothingToRestore ==
  /\ shown = Restoring /\ stored = 0 /\ ~Busy(Refresh)
  /\ shown' = NoUser
  /\ UNCHANGED <<server, stored, lost, straddled>>

\* ... or the profile is read, if need be after a refresh.
Restore ==
  /\ shown = Restoring /\ stored # 0 /\ ~Busy(Refresh)
  /\ token[stored].user \notin blocked
  /\ shown' = token[stored].user
  /\ UNCHANGED <<server, stored, lost, straddled>>

-----------------------------------------------------------------------------
(* Faults *)

\* A lost answer is an error: the storage is cleared.
LostRefresh ==
  /\ Ended(Refresh) /\ lost < MaxLost
  /\ call' = [call EXCEPT ![Refresh] = Idle]
  /\ stored' = 0
  /\ lost' = lost + 1
  /\ UNCHANGED <<token, blocked, member, shown, straddled>>

\* The profile cannot be read: the storage is cleared.
LostProfile ==
  /\ shown = Restoring /\ stored # 0 /\ ~Busy(Refresh) /\ lost < MaxLost
  /\ stored' = 0 /\ shown' = NoUser
  /\ lost' = lost + 1
  /\ UNCHANGED <<server, straddled>>

\* The app is killed and started again: the backend goes on with its refresh, whose
\* answer goes nowhere.
Kill ==
  /\ lost < MaxLost /\ shown \in Users /\ ~Busy(Ghost)
  /\ call' = [call EXCEPT ![Ghost] = call[Refresh], ![Refresh] = Idle]
  /\ shown' = Restoring
  /\ lost' = lost + 1
  /\ UNCHANGED <<token, blocked, member, stored, straddled>>

-----------------------------------------------------------------------------
(* The backend *)

\* setDriverBlocked.
SetBlocked(u) ==
  /\ Block(Office, u) \/ Unblock(u)
  /\ UNCHANGED app

Dropped(c) == Answered(c) /\ UNCHANGED app

Served(c) == ServerStep(c) /\ UNCHANGED app

-----------------------------------------------------------------------------

DriverInit ==
  /\ ServerInit
  /\ member = {}
  /\ stored = 0 /\ shown = NoUser /\ lost = 0 /\ straddled = FALSE

DriverNext ==
  \/ \E u \in Users : SignIn(u) \/ SetBlocked(u)
  \/ SignedIn \/ Unauthorized \/ Refreshed \/ SignOut \/ NothingToRestore \/ Restore
  \/ LostRefresh \/ LostProfile \/ Kill
  \/ Dropped(Ghost) \/ Dropped(Office)
  \/ \E c \in DriverCalls : Served(c)

-----------------------------------------------------------------------------
(* Properties *)

\* Every variable has its type; no sign-in is under way while a session is restored
\* (AuthProvider: isLoading).
TypeOK ==
  /\ ServerTypeOK
  /\ stored \in Tokens \cup {0}
  /\ shown = Restoring => ~Busy(Login)
  /\ shown \in Users \cup {NoUser, Restoring}
  /\ lost \in 0 .. MaxLost
  /\ straddled \in BOOLEAN

\* As long as no answer is lost, the token in the app's storage is the last of its family once no
\* refresh is under way: the app never ends its own session by using a token twice.  And the driver
\* shown is the one whose tokens requests carry, unless a refresh was under way when a driver
\* signed out: its answer is stored all the same (AuthProvider, RestClient.refreshTokens).
AppKeepsItsSession ==
  stored # 0 =>
    /\ lost = 0 /\ ~Busy(Refresh) => \A i \in OfFamily(token[stored].family) : i <= stored
    /\ shown \in Users /\ ~straddled => token[stored].user = shown

=============================================================================
