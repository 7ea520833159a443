--------------------------- MODULE RefreshTokens ---------------------------
(***************************************************************************)
(* The refresh tokens of the backend (auth/auth.service.ts) with the       *)
(* administrative sign-in built on them                                    *)
(* (admin/access/admin-auth.service.ts) and the operations that revoke     *)
(* them (admin/admin-operations.service.ts).                               *)
(*                                                                         *)
(* A token is used once: a refresh replaces it by the next of its family,  *)
(* and the use of a replaced token revokes the family.  A call of a client *)
(* is carried out in the steps its statements make: a row that was read    *)
(* may have changed when it is written.  A statement that revokes a set of *)
(* rows does so in two steps: it sees the rows there are when it begins,   *)
(* and skips those another transaction has revoked when it reaches them    *)
(* (READ COMMITTED).                                                       *)
(***************************************************************************)
EXTENDS Integers, Sequences, FiniteSets

CONSTANTS
  Users,        \* drivers, or operators of the administration
  Calls,        \* places for one call in flight each
  AdminCalls,   \* those of the administration's sign-in
  MaxTokens     \* bound on tokens issued

VARIABLES
  token,        \* refresh_tokens, by number
  blocked,      \* users.is_blocked
  member,       \* users with an ACTIVE operator membership
  call          \* the call in each place

server == <<token, blocked, member, call>>

-----------------------------------------------------------------------------
(* Data *)

NoUser == "nobody"

\* op: the statement that comes next.  raw: the token presented or issued.
\* targets: the rows a revoking statement has seen.
Idle == [op |-> "idle", user |-> NoUser, raw |-> 0, targets |-> {}]

Tokens    == DOMAIN token
Active(i) == ~token[i].revoked
OfUser(u) == {i \in Tokens : token[i].user = u}
OfFamily(f) == {i \in Tokens : token[i].family = f}
Families  == {token[i].family : i \in Tokens}

Op(c)   == call[c].op
Busy(c) == Op(c) # "idle"
Ended(c) == Op(c) \in {"answer", "refused"}
User(c) == call[c].user
Raw(c)  == call[c].raw

Revoked(S) == [i \in Tokens |-> IF i \in S THEN [token[i] EXCEPT !.revoked = TRUE] ELSE token[i]]

\* Rows a statement sees when it begins.
See(c, rows) ==
  call' = [call EXCEPT ![c].op = "revoke", ![c].targets = {i \in rows : Active(i)}]

Goto(c, op) == call' = [call EXCEPT ![c].op = op]

\* What follows a token: an operator's membership is read once more (toSession).
Issued(c, i) ==
  call' = [call EXCEPT ![c].op = IF c \in AdminCalls THEN "member" ELSE "answer", ![c].raw = i]

-----------------------------------------------------------------------------
(* Calls of the clients *)

\* Each call may issue a token: none begins that would pass the bound.
Room == Len(token) + Cardinality({c \in Calls : Busy(c)}) < MaxTokens

\* Called by a client (login).
BeginLogin(c, u) ==
  /\ Op(c) = "idle" /\ Room
  /\ call' = [call EXCEPT ![c] = [Idle EXCEPT !.op = "verify", !.user = u]]

\* Called by a client (refresh).
BeginRefresh(c, i) ==
  /\ Op(c) = "idle" /\ Room
  /\ call' = [call EXCEPT ![c] = [Idle EXCEPT !.op = "find", !.user = token[i].user, !.raw = i]]

\* login: the user is read, and the password verified after it.
Verify(c) ==
  /\ Op(c) = "verify"
  /\ Goto(c, IF User(c) \in blocked THEN "refused" ELSE "create")
  /\ UNCHANGED <<token, blocked, member>>

CreateSession(c) ==
  /\ Op(c) = "create"
  /\ token' = Append(token, [family |-> Len(token) + 1, user |-> User(c), revoked |-> FALSE])
  /\ Issued(c, Len(token) + 1)
  /\ UNCHANGED <<blocked, member>>

\* refresh: the row is read with its user.
Find(c) ==
  /\ Op(c) = "find"
  /\ Goto(c, CASE ~Active(Raw(c))                             -> "reuse"
               [] Active(Raw(c)) /\ User(c) \in blocked       -> "refused"
               [] Active(Raw(c)) /\ User(c) \notin blocked    -> "rotate")
  /\ UNCHANGED <<token, blocked, member>>

\* A token that was replaced is used again: what is left of its family goes.
DetectReuse(c) ==
  /\ Op(c) = "reuse"
  /\ See(c, OfFamily(token[Raw(c)].family))
  /\ UNCHANGED <<token, blocked, member>>

Replaced(i) ==
  Append(Revoked({i}), [family |-> token[i].family, user |-> token[i].user, revoked |-> FALSE])

\* Faulty variant: the count of the rows replaced is not looked at.
RotateAnyway(c) ==
  /\ Op(c) = "rotate"
  /\ token' = Replaced(Raw(c))
  /\ Issued(c, Len(token) + 1)
  /\ UNCHANGED <<blocked, member>>

\* One transaction: the next token is made and this one replaced if it still may be.
Rotate(c) ==
  /\ Op(c) = "rotate"
  /\ IF Active(Raw(c))
       THEN /\ token' = Replaced(Raw(c))
            /\ Issued(c, Len(token) + 1)
       ELSE /\ Goto(c, "refused")
            /\ UNCHANGED token
  /\ UNCHANGED <<blocked, member>>

\* toSession: without a membership every token of the user goes.
ToSession(c) ==
  /\ Op(c) = "member"
  /\ IF User(c) \in member THEN Goto(c, "answer") ELSE See(c, OfUser(User(c)))
  /\ UNCHANGED <<token, blocked, member>>

Revoke(c) ==
  /\ Op(c) = "revoke"
  /\ token' = Revoked(call[c].targets)
  /\ call' = [call EXCEPT ![c].op = "refused", ![c].targets = {}]
  /\ UNCHANGED <<blocked, member>>

\* revokeRefreshToken, one statement on one row.
RevokeOne(i) == token' = Revoked({i})

-----------------------------------------------------------------------------
(* Calls of an administrator, each followed by revokeAllRefreshTokens *)

Block(c, u) ==
  /\ Op(c) = "idle" /\ u \notin blocked
  /\ blocked' = blocked \cup {u}
  /\ call' = [call EXCEPT ![c] = [Idle EXCEPT !.op = "revokeAll", !.user = u]]
  /\ UNCHANGED <<token, member>>

Unblock(u) ==
  /\ u \in blocked
  /\ blocked' = blocked \ {u}
  /\ UNCHANGED <<token, member, call>>

DisableOperator(c, u) ==
  /\ Op(c) = "idle" /\ u \in member
  /\ member' = member \ {u}
  /\ call' = [call EXCEPT ![c] = [Idle EXCEPT !.op = "revokeAll", !.user = u]]
  /\ UNCHANGED <<token, blocked>>

RevokeAll(c) ==
  /\ Op(c) = "revokeAll"
  /\ See(c, OfUser(User(c)))
  /\ UNCHANGED <<token, blocked, member>>

\* The answer of an administrator's call shows nothing of interest here.
Answered(c) ==
  /\ Ended(c)
  /\ call' = [call EXCEPT ![c] = Idle]
  /\ UNCHANGED <<token, blocked, member>>

-----------------------------------------------------------------------------

ServerInit ==
  /\ token = <<>>
  /\ blocked = {}
  /\ call = [c \in Calls |-> Idle]

ServerStep(c) ==
  \/ Verify(c) \/ CreateSession(c) \/ Find(c) \/ DetectReuse(c) \/ Rotate(c)
  \/ ToSession(c) \/ Revoke(c) \/ RevokeAll(c)

ServerTypeOK ==
  /\ token \in Seq([family : Nat, user : Users, revoked : BOOLEAN])
  /\ Len(token) <= MaxTokens
  /\ blocked \subseteq Users /\ member \subseteq Users
  /\ \A c \in Calls :
       /\ Op(c) \in {"idle", "verify", "create", "find", "reuse", "rotate", "member", "revoke",
                     "revokeAll", "answer", "refused"}
       /\ User(c) \in Users \cup {NoUser}
       /\ Raw(c) \in Tokens \cup {0}
       /\ call[c].targets \subseteq Tokens

-----------------------------------------------------------------------------
(* Properties *)

\* A family has at most one token that is good, whatever calls use it at one time
\* (refresh: the transaction and its count).
OneGoodPerFamily ==
  \A i, j \in Tokens : Active(i) /\ Active(j) /\ token[i].family = token[j].family => i = j

Live == {f \in Families : \E i \in OfFamily(f) : Active(i)}

\* A family whose tokens are all revoked, by a sign-out, a block or a reuse, never
\* gets a good token again: not even from a refresh that was under way (refresh).
DeadStaysDead == \A f \in Families \ Live : f \notin Live'
=============================================================================
