------------------------ MODULE AdministrationProofs ------------------------
(***************************************************************************)
(* The requests of the administration and of the driver's account:         *)
(* operators, remote commands, stations, the profile, tariffs, payment     *)
(* methods and vehicles; and the search of stations.                       *)
(***************************************************************************)
EXTENDS MCServices, FiniteSetTheorems, WellFoundedInduction, TLAPS

\* The services side by side: the one whose turn it is takes its own steps.
LEMMA TakesTurns ==
  ASSUME [MCNext]_allVars
  PROVE  /\ focus' = focus
         /\ focus = "commands" => [RemoteCommands!Next]_RemoteCommands!vars
         /\ focus = "stations" => [Stations!Next]_Stations!vars
         /\ focus = "profile" => [Profile!Next]_Profile!vars
<1>1. focus' = focus
  BY DEF MCNext, Rest, allVars
<1>2. focus = "commands" => [RemoteCommands!Next]_RemoteCommands!vars
  BY DEF MCNext, Step, allVars, vars, RemoteCommands!vars
<1>3. focus = "stations" => [Stations!Next]_Stations!vars
  BY DEF MCNext, Step, allVars, vars, Stations!vars
<1>4. focus = "profile" => [Profile!Next]_Profile!vars
  BY DEF MCNext, Step, allVars, vars, Profile!vars
<1> QED BY <1>1, <1>2, <1>3, <1>4

-----------------------------------------------------------------------------
(***************************************************************************)
(* A tenant keeps an active administrator, for any operators and any       *)
(* number of requests at one time.                                         *)
(*                                                                         *)
(* The argument: what the transaction of assignRoles or disableOperator    *)
(* has read of the other administrators is still so when it commits, and   *)
(* it read at least one; a transaction that takes no administrator away    *)
(* leaves whichever there was.                                             *)
(***************************************************************************)

\* The types, and an administrator there always is.
OperatorsInv == TypeOK /\ KeepsAnAdmin

\* A transaction that commits leaves every administrator but its target as it
\* was, and has another one to count on if it takes its target's role away.
LEMMA OthersRemain ==
  ASSUME OperatorsInv, NEW r \in Requests, request[r].op \in {"assigning", "disabling"},
         MayTake(r), ReadUnchanged(r),
         ~(request[r].op = "assigning" /\ request[r].admin)
  PROVE  \E o \in Members \ {request[r].target} : o \in Admins
<1>1. CASE TakesAdmin(r)
  BY <1>1 DEF MayTake, ReadUnchanged, OtherTenantAdmins, Admins
<1>2. CASE ~TakesAdmin(r)
  <2>1. request[r].admin \in BOOLEAN
    BY DEF OperatorsInv, TypeOK, Request
  <2>2. ~member[request[r].target].admin
    BY <1>2, <2>1 DEF TakesAdmin, ReadUnchanged
  <2> QED BY <2>2 DEF OperatorsInv, KeepsAnAdmin, Admins
<1> QED BY <1>1, <1>2

\* What is asked has the type of a request.
LEMMA NothingAsked == NoRequest \in Request
BY DEF Request, NoRequest, NoMember, MembershipStatus

LEMMA AskedIsRequest ==
  ASSUME NEW op \in {"invite", "assign"}, NEW m \in Members, NEW a \in BOOLEAN
  PROVE  [NoRequest EXCEPT !.op = op, !.target = m, !.admin = a] \in Request
<1> DEFINE first == [NoRequest EXCEPT !.op = op]
<1>1. first \in Request
  BY NothingAsked DEF Request
<1> HIDE DEF first
<1> DEFINE second == [first EXCEPT !.target = m]
<1>2. second \in Request
  BY <1>1 DEF Request
<1> HIDE DEF second
<1>3. [second EXCEPT !.admin = a] \in Request
  BY <1>2 DEF Request
<1> QED BY <1>3 DEF first, second

LEMMA DisablingIsRequest ==
  ASSUME NEW m \in Members, NEW by \in Members
  PROVE  [NoRequest EXCEPT !.op = "disable", !.target = m, !.by = by] \in Request
<1> DEFINE first == [NoRequest EXCEPT !.op = "disable"]
<1>1. first \in Request
  BY NothingAsked DEF Request
<1> HIDE DEF first
<1> DEFINE second == [first EXCEPT !.target = m]
<1>2. second \in Request
  BY <1>1 DEF Request
<1> HIDE DEF second
<1>3. [second EXCEPT !.by = by] \in Request
  BY <1>2 DEF Request
<1> QED BY <1>3 DEF first, second

LEMMA WhatIsAsked ==
  /\ \A m \in Members, a \in BOOLEAN : Invitation(m, a) \in Request /\ Assignment(m, a) \in Request
  /\ \A by \in Admins, m \in Members : Disabling(by, m) \in Request
<1>1. ASSUME NEW m \in Members, NEW a \in BOOLEAN
      PROVE  Invitation(m, a) \in Request /\ Assignment(m, a) \in Request
  BY AskedIsRequest, Zenon DEF Invitation, Assignment
<1>2. ASSUME NEW by \in Admins, NEW m \in Members PROVE Disabling(by, m) \in Request
  <2>1. by \in Members
    BY DEF Admins
  <2> QED BY <2>1, DisablingIsRequest, Zenon DEF Disabling
<1> QED BY <1>1, <1>2

LEMMA OperatorsInit == Init => OperatorsInv
<1> SUFFICES ASSUME Init PROVE OperatorsInv OBVIOUS
<1>1. TypeOK
  BY DEF Init, TypeOK, Request, Membership, NoRequest, NoMember, MembershipStatus
<1>2. KeepsAnAdmin
  BY DEF Init, KeepsAnAdmin, Admins, NoMember
<1> QED BY <1>1, <1>2 DEF OperatorsInv

LEMMA OperatorsNext == OperatorsInv /\ [Next]_vars => OperatorsInv'
<1> SUFFICES ASSUME OperatorsInv, [Next]_vars PROVE OperatorsInv' OBVIOUS
<1> USE DEF OperatorsInv
<1>1. CASE UNCHANGED vars
  BY <1>1 DEF vars, TypeOK, KeepsAnAdmin, Admins
<1>2. ASSUME NEW r \in Requests, NEW asked \in Request, Arrive(r, asked) PROVE OperatorsInv'
  BY <1>2 DEF Arrive, TypeOK, KeepsAnAdmin, Admins
<1>3. ASSUME NEW r \in Requests, InviteOperator(r) PROVE OperatorsInv'
  <2> DEFINE m == request[r].target
  <2>1. NoRequest \in Request
    BY DEF Request, NoRequest, NoMember, MembershipStatus
  <2>2. CASE member[m] = NoMember /\ m \in Members
    <3>1. PICK s \in {"ACTIVE", "INVITED"} :
            member' = [member EXCEPT ![m] = [status |-> s, admin |-> request[r].admin]]
      BY <1>3, <2>2 DEF InviteOperator
    <3>2. [status |-> s, admin |-> request[r].admin] \in Membership
      BY DEF TypeOK, Request, Membership, MembershipStatus
    <3>3. TypeOK'
      BY <1>3, <2>1, <3>1, <3>2 DEF InviteOperator, TypeOK
    <3>4. \A o \in Admins : o \in Admins'
      BY <2>2, <3>1 DEF Admins, TypeOK, NoMember
    <3> QED BY <3>3, <3>4 DEF KeepsAnAdmin
  <2>3. CASE ~(member[m] = NoMember /\ m \in Members)
    <3>1. member' = member
      BY <1>3, <2>3 DEF InviteOperator, TypeOK
    <3> QED BY <1>3, <2>1, <3>1 DEF InviteOperator, TypeOK, KeepsAnAdmin, Admins
  <2> QED BY <2>2, <2>3
<1>4. ASSUME NEW r \in Requests, Begin(r) PROVE OperatorsInv'
  <2> DEFINE op == IF request[r].op = "assign" THEN "assigning" ELSE "disabling"
             first == [request[r] EXCEPT !.op = op]
  <2>1. member' = member /\ request' = [request EXCEPT ![r] = [first EXCEPT !.seen = member]]
    BY <1>4, Zenon DEF Begin
  <2>2. op \in {"assigning", "disabling"} /\ request[r] \in Request
    BY DEF TypeOK
  <2> HIDE DEF op
  <2>3. first \in Request
    BY <2>2 DEF Request
  <2> HIDE DEF first
  <2>4. [first EXCEPT !.seen = member] \in Request
    BY <2>3 DEF TypeOK, Request
  <2> QED BY <2>1, <2>4 DEF TypeOK, KeepsAnAdmin, Admins
<1>5. ASSUME NEW r \in Requests, Refuse(r) PROVE OperatorsInv'
  BY <1>5 DEF Refuse, TypeOK, Request, NoRequest, NoMember, MembershipStatus, KeepsAnAdmin,
              Admins
<1>6. ASSUME NEW r \in Requests, AssignRoles(r) PROVE OperatorsInv'
  <2>1. TypeOK'
    BY <1>6 DEF AssignRoles, TypeOK, Request, Membership, NoRequest, NoMember, MembershipStatus
  <2>2. CASE request[r].admin
    <3>1. member' = [member EXCEPT ![request[r].target].admin = request[r].admin]
      BY <1>6 DEF AssignRoles
    <3>2. \A m \in Members : member'[m].status = member[m].status
                              /\ (member[m].admin => member'[m].admin)
      BY <2>2, <3>1 DEF TypeOK, Membership
    <3> QED BY <2>1, <3>2 DEF KeepsAnAdmin, Admins
  <2>3. CASE ~request[r].admin
    <3>1. PICK o \in Members \ {request[r].target} : o \in Admins
      BY <1>6, <2>3, OthersRemain DEF AssignRoles
    <3> QED BY <1>6, <2>1, <3>1 DEF AssignRoles, TypeOK, KeepsAnAdmin, Admins
  <2> QED BY <2>1, <2>2, <2>3
<1>7. ASSUME NEW r \in Requests, DisableOperator(r) PROVE OperatorsInv'
  <2>1. TypeOK'
    BY <1>7 DEF DisableOperator, TypeOK, Request, Membership, NoRequest, NoMember,
                MembershipStatus
  <2>2. PICK o \in Members \ {request[r].target} : o \in Admins
    BY <1>7, OthersRemain DEF DisableOperator
  <2> QED BY <1>7, <2>1, <2>2 DEF DisableOperator, TypeOK, KeepsAnAdmin, Admins
<1>8. ASSUME NEW r \in Requests, NEW m \in Members, NEW a \in BOOLEAN,
             Arrive(r, Invitation(m, a)) \/ Arrive(r, Assignment(m, a))
      PROVE  OperatorsInv'
  BY <1>2, <1>8, WhatIsAsked
<1>9. ASSUME NEW r \in Requests, NEW by \in Admins, NEW m \in Members, Arrive(r, Disabling(by, m))
      PROVE  OperatorsInv'
  BY <1>2, <1>9, WhatIsAsked
<1> HIDE DEF OperatorsInv
<1> QED BY <1>1, <1>3, <1>4, <1>5, <1>6, <1>7, <1>8, <1>9 DEF Next

\* Every variable has its type, for any members and requests.
THEOREM OperatorsTypes == Spec => []TypeOK
<1>1. OperatorsInv => TypeOK
  BY DEF OperatorsInv
<1> QED BY OperatorsInit, OperatorsNext, <1>1, PTL DEF Spec

\* The tenant never loses its last active administrator (assignRoles,
\* disableOperator), for any members and requests.
THEOREM TenantKeepsAnAdmin == Spec => []KeepsAnAdmin
<1>1. OperatorsInv => KeepsAnAdmin
  BY DEF OperatorsInv
<1> QED BY OperatorsInit, OperatorsNext, <1>1, PTL DEF Spec

-----------------------------------------------------------------------------
(***************************************************************************)
(* A remote command is dispatched at most once, for any keys, commands and *)
(* requests: the request that stored the command under a key is the only   *)
(* one past the unique index, and nobody resumes what it left.             *)
(***************************************************************************)

Owning == {"send", "dispatch", "accept", "fail"}

\* A request that stored its command owns its key alone.
OwnersAreAlone ==
  \A r, q \in Requests :
    RemoteCommands!Op(r) \in Owning /\ RemoteCommands!Op(q) \in Owning /\ RemoteCommands!Key(r) = RemoteCommands!Key(q) => r = q

\* What a request knows of the command under its key.
OwnersKnow ==
  \A r \in Requests :
    /\ RemoteCommands!Op(r) # "idle" => RemoteCommands!Key(r) \in CommandKeys
    /\ RemoteCommands!Op(r) \in Owning => command[RemoteCommands!Key(r)].status # "none" /\ command[RemoteCommands!Key(r)].hash = request[r].hash
    /\ RemoteCommands!Op(r) \in {"send", "dispatch"} =>
         dispatched[RemoteCommands!Key(r)] = 0 /\ command[RemoteCommands!Key(r)].status \in {"QUEUED", "SENT"}
    /\ RemoteCommands!Op(r) = "accept" => RemoteCommands!Key(r) \in effective
    /\ request[r].reply # RemoteCommands!NoCommand => request[r].reply.hash = request[r].hash

\* What holds of every command.
CommandsAreSound ==
  \A k \in CommandKeys :
    /\ dispatched[k] <= 1
    /\ command[k] = RemoteCommands!NoCommand => dispatched[k] = 0
    /\ command[k].status = "ACCEPTED" => k \in effective

CommandsInv == RemoteCommands!TypeOK /\ OwnersAreAlone /\ OwnersKnow /\ CommandsAreSound

\* A request that owned nothing and owns nothing after, with a reply of its own command or none.
LEMMA BystanderPreserves ==
  ASSUME CommandsInv, UNCHANGED <<command, dispatched, effective>>,
         NEW r \in Requests, NEW new \in RemoteCommands!Request,
         request' = [request EXCEPT ![r] = new],
         new.op \notin Owning,
         new.op # "idle" => new.key \in CommandKeys,
         new.reply # RemoteCommands!NoCommand => new.reply.hash = new.hash
  PROVE  CommandsInv'
<1>1. request' \in [Requests -> RemoteCommands!Request] /\ request'[r] = new
      /\ \A q \in Requests \ {r} : request'[q] = request[q]
  BY DEF CommandsInv, RemoteCommands!TypeOK
<1>2. RemoteCommands!TypeOK'
  BY <1>1 DEF CommandsInv, RemoteCommands!TypeOK
<1>3. OwnersAreAlone'
  BY <1>1 DEF CommandsInv, OwnersAreAlone, RemoteCommands!Op, RemoteCommands!Key
<1>4. OwnersKnow'
  BY <1>1 DEF CommandsInv, OwnersKnow, RemoteCommands!Op, RemoteCommands!Key, Owning
<1>5. CommandsAreSound'
  BY DEF CommandsInv, CommandsAreSound
<1> QED BY <1>2, <1>3, <1>4, <1>5 DEF CommandsInv

LEMMA NoneSent == RemoteCommands!NoRequest \in RemoteCommands!Request /\ RemoteCommands!NoRequest.op = "idle" /\ RemoteCommands!NoRequest.reply = RemoteCommands!NoCommand
BY DEF RemoteCommands!NoRequest, RemoteCommands!Request, RemoteCommands!Command,
       RemoteCommands!NoCommand, RemoteCommands!CommandStatus

\* The answer to a key that is taken.
LEMMA ReplayPreserves ==
  ASSUME CommandsInv, UNCHANGED <<command, dispatched, effective>>,
         NEW r \in Requests, RemoteCommands!Key(r) \in CommandKeys, RemoteCommands!Replay(r)
  PROVE  CommandsInv'
<1>1. CASE command[RemoteCommands!Key(r)].hash = request[r].hash
  <2> DEFINE new == [request[r] EXCEPT !.op = "idle", !.reply = command[RemoteCommands!Key(r)]]
  <2>1. new \in RemoteCommands!Request /\ new.op = "idle" /\ new.reply.hash = new.hash
    BY <1>1 DEF CommandsInv, RemoteCommands!TypeOK, RemoteCommands!Request
  <2>2. request' = [request EXCEPT ![r] = new]
    BY <1>1 DEF RemoteCommands!Replay, RemoteCommands!Reply, CommandsInv,
                RemoteCommands!TypeOK, RemoteCommands!Request
  <2> HIDE DEF new
  <2> QED BY <2>1, <2>2, BystanderPreserves DEF Owning
<1>2. CASE command[RemoteCommands!Key(r)].hash # request[r].hash
  <2> DEFINE new == [request[r] EXCEPT !.op = "idle", !.reply = RemoteCommands!NoCommand]
  <2>1. new \in RemoteCommands!Request /\ new.op = "idle" /\ new.reply = RemoteCommands!NoCommand
    BY DEF CommandsInv, RemoteCommands!TypeOK, RemoteCommands!Request, RemoteCommands!Command,
           RemoteCommands!CommandStatus, RemoteCommands!NoCommand
  <2>2. request' = [request EXCEPT ![r] = new]
    BY <1>2 DEF RemoteCommands!Replay, RemoteCommands!Throw, RemoteCommands!Reply,
                CommandsInv, RemoteCommands!TypeOK, RemoteCommands!Request
  <2> HIDE DEF new
  <2> QED BY <2>1, <2>2, BystanderPreserves DEF Owning
<1> QED BY <1>1, <1>2

\* A step of the owner of a key, which touches nothing of the other keys.
OwnerStep(r, k, new, c, d) ==
  /\ RemoteCommands!Key(r) = k /\ k \in CommandKeys
  /\ \A q \in Requests \ {r} : ~(RemoteCommands!Op(q) \in Owning /\ RemoteCommands!Key(q) = k)
  /\ request' = [request EXCEPT ![r] = new]
  /\ command' = [command EXCEPT ![k] = c]
  /\ dispatched' = [dispatched EXCEPT ![k] = d]
  /\ effective \subseteq effective' /\ effective' \subseteq effective \cup {k}
  /\ new.key = k /\ c.status # "none" /\ d <= 1
  /\ new.op \in Owning => c.hash = new.hash
  /\ new.op \in {"send", "dispatch"} => d = 0 /\ c.status \in {"QUEUED", "SENT"}
  /\ new.op = "accept" => k \in effective'
  /\ c.status = "ACCEPTED" => k \in effective'
  /\ new.reply # RemoteCommands!NoCommand => new.reply.hash = new.hash

LEMMA OwnerPreserves ==
  ASSUME CommandsInv, NEW r \in Requests, NEW k, NEW new \in RemoteCommands!Request, NEW c \in RemoteCommands!Command,
         NEW d \in Nat, OwnerStep(r, k, new, c, d)
  PROVE  CommandsInv'
<1> USE DEF OwnerStep
<1>1. request'[r] = new /\ \A q \in Requests \ {r} : request'[q] = request[q]
  BY DEF CommandsInv, RemoteCommands!TypeOK
<1>2. /\ command'[k] = c /\ dispatched'[k] = d
      /\ \A j \in CommandKeys \ {k} : command'[j] = command[j] /\ dispatched'[j] = dispatched[j]
                                 /\ (j \in effective' <=> j \in effective)
  BY DEF CommandsInv, RemoteCommands!TypeOK
<1>3. RemoteCommands!TypeOK'
  BY DEF CommandsInv, RemoteCommands!TypeOK
<1>4. OwnersAreAlone'
  BY <1>1 DEF CommandsInv, OwnersAreAlone, RemoteCommands!Op, RemoteCommands!Key
<1>5. OwnersKnow'
  <2> SUFFICES ASSUME NEW q \in Requests
               PROVE  /\ RemoteCommands!Op(q)' # "idle" => RemoteCommands!Key(q)' \in CommandKeys
                      /\ RemoteCommands!Op(q)' \in Owning =>
                           command'[RemoteCommands!Key(q)'].status # "none" /\ command'[RemoteCommands!Key(q)'].hash = request'[q].hash
                      /\ RemoteCommands!Op(q)' \in {"send", "dispatch"} =>
                           dispatched'[RemoteCommands!Key(q)'] = 0 /\ command'[RemoteCommands!Key(q)'].status \in {"QUEUED", "SENT"}
                      /\ RemoteCommands!Op(q)' = "accept" => RemoteCommands!Key(q)' \in effective'
                      /\ request'[q].reply # RemoteCommands!NoCommand => request'[q].reply.hash = request'[q].hash
    BY DEF OwnersKnow
  <2>1. CASE q = r
    BY <1>1, <1>2, <2>1 DEF RemoteCommands!Op, RemoteCommands!Key
  <2>2. CASE q # r
    BY <1>1, <1>2, <2>2 DEF CommandsInv, OwnersKnow, RemoteCommands!Op, RemoteCommands!Key,
                            Owning
  <2> QED BY <2>1, <2>2
<1>6. CommandsAreSound'
  BY <1>2 DEF CommandsInv, CommandsAreSound, RemoteCommands!NoCommand
<1> QED BY <1>3, <1>4, <1>5, <1>6 DEF CommandsInv

\* What the updates of a request and of a command leave and what they set.
LEMMA Moved ==
  ASSUME NEW x \in RemoteCommands!Request,
         NEW op \in {"idle", "find", "create", "send", "dispatch", "accept", "fail"}
  PROVE  LET y == [x EXCEPT !.op = op]
         IN y \in RemoteCommands!Request /\ y.op = op /\ y.key = x.key /\ y.hash = x.hash /\ y.reply = x.reply
BY DEF RemoteCommands!Request

LEMMA Replied ==
  ASSUME NEW x \in RemoteCommands!Request, NEW a \in RemoteCommands!Command
  PROVE  LET y == [x EXCEPT !.op = "idle", !.reply = a]
         IN y \in RemoteCommands!Request /\ y.op = "idle" /\ y.key = x.key /\ y.hash = x.hash /\ y.reply = a
<1> DEFINE first == [x EXCEPT !.op = "idle"]
<1>1. first \in RemoteCommands!Request /\ first.op = "idle" /\ first.key = x.key /\ first.hash = x.hash
  BY DEF RemoteCommands!Request
<1> HIDE DEF first
<1> DEFINE second == [first EXCEPT !.reply = a]
<1>2. /\ second \in RemoteCommands!Request /\ second.op = "idle" /\ second.key = x.key /\ second.hash = x.hash
      /\ second.reply = a
  BY <1>1 DEF RemoteCommands!Request
<1>3. second = [x EXCEPT !.op = "idle", !.reply = a]
  BY Zenon DEF first
<1> QED BY <1>2, <1>3, Zenon

LEMMA RepliedInPlace ==
  ASSUME request \in [Requests -> RemoteCommands!Request], NEW r \in Requests, NEW a \in RemoteCommands!Command
  PROVE  [request EXCEPT ![r].op = "idle", ![r].reply = a]
           = [request EXCEPT ![r] = [request[r] EXCEPT !.op = "idle", !.reply = a]]
<1> DEFINE first == [request EXCEPT ![r].op = "idle"]
<1>1. first = [request EXCEPT ![r] = [request[r] EXCEPT !.op = "idle"]]
  BY Zenon
<1>2. first[r] = [request[r] EXCEPT !.op = "idle"]
  BY <1>1
<1> HIDE DEF first
<1>3. [first EXCEPT ![r].reply = a] = [first EXCEPT ![r] = [first[r] EXCEPT !.reply = a]]
  BY Zenon
<1>4. [first EXCEPT ![r] = [first[r] EXCEPT !.reply = a]]
        = [request EXCEPT ![r] = [first[r] EXCEPT !.reply = a]]
  BY <1>1
<1> QED BY <1>2, <1>3, <1>4, Zenon DEF first

LEMMA Restated ==
  ASSUME NEW x \in RemoteCommands!Command, NEW s \in RemoteCommands!CommandStatus
  PROVE  LET y == [x EXCEPT !.status = s]
         IN y \in RemoteCommands!Command /\ y.status = s /\ y.hash = x.hash
BY DEF RemoteCommands!Command

LEMMA CommandsInit == RemoteCommands!Init => CommandsInv
<1> SUFFICES ASSUME RemoteCommands!Init PROVE CommandsInv OBVIOUS
<1>1. RemoteCommands!TypeOK
  BY NoneSent DEF RemoteCommands!Init, RemoteCommands!TypeOK, RemoteCommands!Command,
                  RemoteCommands!NoCommand, RemoteCommands!CommandStatus
<1>2. OwnersAreAlone /\ OwnersKnow
  BY NoneSent DEF RemoteCommands!Init, OwnersAreAlone, OwnersKnow, RemoteCommands!Op, Owning
<1>3. CommandsAreSound
  BY DEF RemoteCommands!Init, CommandsAreSound, RemoteCommands!NoCommand
<1> QED BY <1>1, <1>2, <1>3 DEF CommandsInv

LEMMA CommandsNext == CommandsInv /\ [RemoteCommands!Next]_RemoteCommands!vars => CommandsInv'
<1> SUFFICES ASSUME CommandsInv, [RemoteCommands!Next]_RemoteCommands!vars
             PROVE CommandsInv' OBVIOUS
<1>1. CASE UNCHANGED RemoteCommands!vars
  BY <1>1 DEF RemoteCommands!vars, CommandsInv, RemoteCommands!TypeOK, OwnersAreAlone,
              OwnersKnow, CommandsAreSound, RemoteCommands!Op, RemoteCommands!Key
<1>2. ASSUME NEW r \in Requests, NEW k \in CommandKeys, NEW h \in Commands, RemoteCommands!CreateCommand(r, k, h)
      PROVE  CommandsInv'
  <2> DEFINE new == [RemoteCommands!NoRequest EXCEPT !.op = "find", !.key = k, !.hash = h]
  <2>1. new \in RemoteCommands!Request /\ new.op = "find" /\ new.key = k /\ new.reply = RemoteCommands!NoCommand
    BY DEF RemoteCommands!NoRequest, RemoteCommands!Request, RemoteCommands!Command,
           RemoteCommands!NoCommand, RemoteCommands!CommandStatus
  <2>2. request' = [request EXCEPT ![r] = new] /\ UNCHANGED <<command, dispatched, effective>>
    BY <1>2 DEF RemoteCommands!CreateCommand
  <2> HIDE DEF new
  <2> QED BY <2>1, <2>2, BystanderPreserves DEF Owning
<1>3. ASSUME NEW r \in Requests, RemoteCommands!Find(r) PROVE CommandsInv'
  <2>1. UNCHANGED <<command, dispatched, effective>> /\ RemoteCommands!Op(r) = "find" /\ RemoteCommands!Key(r) \in CommandKeys
    BY <1>3 DEF RemoteCommands!Find, CommandsInv, OwnersKnow
  <2>2. CASE RemoteCommands!Replay(r)
    BY <2>1, <2>2, ReplayPreserves
  <2>3. CASE RemoteCommands!Goto(r, "create")
    <3> DEFINE new == [request[r] EXCEPT !.op = "create"]
    <3>1. /\ new \in RemoteCommands!Request /\ new.op = "create" /\ new.key \in CommandKeys
          /\ new.reply = request[r].reply /\ new.hash = request[r].hash
      BY <2>1 DEF CommandsInv, RemoteCommands!TypeOK, RemoteCommands!Request, RemoteCommands!Key
    <3>2. request' = [request EXCEPT ![r] = new]
      BY <2>3 DEF RemoteCommands!Goto, CommandsInv, RemoteCommands!TypeOK,
                  RemoteCommands!Request
    <3>3. new.reply # RemoteCommands!NoCommand => new.reply.hash = new.hash
      BY <3>1 DEF CommandsInv, OwnersKnow
    <3> HIDE DEF new
    <3> QED BY <2>1, <3>1, <3>2, <3>3, BystanderPreserves DEF Owning
  <2> QED BY <1>3, <2>2, <2>3 DEF RemoteCommands!Find
<1>4. ASSUME NEW r \in Requests, RemoteCommands!Create(r) PROVE CommandsInv'
  <2>1. UNCHANGED <<dispatched, effective>> /\ RemoteCommands!Op(r) = "create" /\ RemoteCommands!Key(r) \in CommandKeys
    BY <1>4 DEF RemoteCommands!Create, CommandsInv, OwnersKnow
  <2>2. CASE command[RemoteCommands!Key(r)] # RemoteCommands!NoCommand
    BY <1>4, <2>1, <2>2, ReplayPreserves DEF RemoteCommands!Create
  <2>3. CASE command[RemoteCommands!Key(r)] = RemoteCommands!NoCommand
    <3> DEFINE k == RemoteCommands!Key(r)
               new == [request[r] EXCEPT !.op = "send"]
               c == [status |-> "QUEUED", hash |-> request[r].hash]
    <3>1. request[r] \in RemoteCommands!Request /\ k \in CommandKeys
      BY <2>1 DEF CommandsInv, RemoteCommands!TypeOK
    <3>2. /\ new \in RemoteCommands!Request /\ new.op = "send" /\ new.key = k
          /\ new.reply = request[r].reply /\ new.hash = request[r].hash
      BY <3>1, Moved, Zenon DEF RemoteCommands!Key
    <3>3. request' = [request EXCEPT ![r] = new] /\ command' = [command EXCEPT ![k] = c]
      BY <1>4, <2>3, Zenon DEF RemoteCommands!Create, RemoteCommands!Goto
    <3>4. c \in RemoteCommands!Command /\ c.hash = request[r].hash /\ c.status = "QUEUED"
      BY <3>1 DEF RemoteCommands!Request, RemoteCommands!Command, RemoteCommands!CommandStatus
    <3> DEFINE d == 0
    <3>5. d \in Nat /\ d = 0 /\ d <= 1 /\ dispatched' = [dispatched EXCEPT ![k] = d]
      BY <2>1, <2>3 DEF CommandsInv, CommandsAreSound, RemoteCommands!TypeOK
    <3>6. \A q \in Requests \ {r} : ~(RemoteCommands!Op(q) \in Owning /\ RemoteCommands!Key(q) = k)
      BY <2>3 DEF CommandsInv, OwnersKnow, RemoteCommands!NoCommand
    <3>7. new.reply # RemoteCommands!NoCommand => new.reply.hash = new.hash
      BY <3>2 DEF CommandsInv, OwnersKnow
    <3> HIDE DEF new, c, d
    <3>8. OwnerStep(r, k, new, c, d)
      BY <2>1, <3>1, <3>2, <3>3, <3>4, <3>5, <3>6, <3>7 DEF OwnerStep
    <3> QED BY <3>2, <3>4, <3>5, <3>8, OwnerPreserves
  <2> QED BY <2>2, <2>3
<1>5. ASSUME NEW r \in Requests,
             RemoteCommands!Send(r) \/ RemoteCommands!Dispatch(r) \/ RemoteCommands!Accept(r) \/ RemoteCommands!AcceptThrows(r) \/ RemoteCommands!Fail(r)
      PROVE  CommandsInv'
  <2> DEFINE k == RemoteCommands!Key(r)
  <2>1. RemoteCommands!Op(r) \in Owning /\ k \in CommandKeys /\ command[k].status # "none"
        /\ command[k].hash = request[r].hash
        /\ (request[r].reply # RemoteCommands!NoCommand => request[r].reply.hash = request[r].hash)
    BY <1>5 DEF RemoteCommands!Send, RemoteCommands!Dispatch, RemoteCommands!Accept,
                RemoteCommands!AcceptThrows, RemoteCommands!Fail, CommandsInv, OwnersKnow, Owning
  <2>2. \A q \in Requests \ {r} : ~(RemoteCommands!Op(q) \in Owning /\ RemoteCommands!Key(q) = k)
    BY <2>1 DEF CommandsInv, OwnersAreAlone
  <2>3. /\ command[k] \in RemoteCommands!Command /\ dispatched[k] \in Nat /\ request[r] \in RemoteCommands!Request
        /\ command = [command EXCEPT ![k] = command[k]]
        /\ dispatched = [dispatched EXCEPT ![k] = dispatched[k]]
        /\ dispatched[k] <= 1
        /\ (command[k].status = "ACCEPTED" => k \in effective)
    BY <2>1 DEF CommandsInv, RemoteCommands!TypeOK, CommandsAreSound
  <2>4. CASE RemoteCommands!Send(r)
    <3> DEFINE new == [request[r] EXCEPT !.op = "dispatch"]
               c == [command[k] EXCEPT !.status = "SENT"]
    <3>1. /\ new \in RemoteCommands!Request /\ new.op = "dispatch" /\ new.key = k
          /\ new.hash = request[r].hash /\ new.reply = request[r].reply
      BY <2>3, Moved, Zenon DEF RemoteCommands!Key
    <3>2. c \in RemoteCommands!Command /\ c.hash = request[r].hash /\ c.status = "SENT"
      <4>1. "SENT" \in RemoteCommands!CommandStatus
        BY DEF RemoteCommands!CommandStatus
      <4> QED BY <2>1, <2>3, <4>1, Restated, Zenon
    <3>3. request' = [request EXCEPT ![r] = new] /\ command' = [command EXCEPT ![k] = c]
      BY <2>4, Zenon DEF RemoteCommands!Send, RemoteCommands!Goto, RemoteCommands!SetStatus
    <3>4. dispatched[k] = 0 /\ UNCHANGED <<dispatched, effective>>
      BY <2>4 DEF RemoteCommands!Send, CommandsInv, OwnersKnow
    <3> HIDE DEF new, c
    <3>5. dispatched' = [dispatched EXCEPT ![k] = dispatched[k]]
      BY <2>3, <3>4
    <3>6. OwnerStep(r, k, new, c, dispatched[k])
      BY <2>1, <2>2, <2>3, <3>1, <3>2, <3>3, <3>4, <3>5 DEF OwnerStep
    <3> QED BY <2>3, <3>1, <3>2, <3>6, OwnerPreserves
  <2>5. CASE RemoteCommands!Dispatch(r)
    <3>1. PICK op \in {"accept", "fail"} :
            /\ request' = [request EXCEPT ![r].op = op]
            /\ effective' \in {effective, effective \cup {k}}
            /\ op = "accept" => k \in effective'
      BY <2>5 DEF RemoteCommands!Dispatch, RemoteCommands!Goto
    <3> DEFINE new == [request[r] EXCEPT !.op = op]
    <3>2. /\ new \in RemoteCommands!Request /\ new.op = op /\ new.key = k
          /\ new.hash = request[r].hash /\ new.reply = request[r].reply
      BY <2>3 DEF RemoteCommands!Request, RemoteCommands!Key
    <3>3. request' = [request EXCEPT ![r] = new]
      BY <3>1, Zenon
    <3>4. dispatched[k] = 0
      BY <2>5 DEF RemoteCommands!Dispatch, CommandsInv, OwnersKnow
    <3> DEFINE d == 1
    <3>5. d \in Nat /\ d <= 1 /\ dispatched' = [dispatched EXCEPT ![k] = d]
      BY <2>3, <2>5, <3>4 DEF RemoteCommands!Dispatch
    <3>6. command' = [command EXCEPT ![k] = command[k]]
      BY <2>3, <2>5 DEF RemoteCommands!Dispatch
    <3> HIDE DEF new
    <3> HIDE DEF d
    <3>7. OwnerStep(r, k, new, command[k], d)
      BY <2>1, <2>2, <2>3, <3>1, <3>2, <3>3, <3>5, <3>6 DEF OwnerStep
    <3> QED BY <2>3, <3>2, <3>5, <3>7, OwnerPreserves
  <2>6. CASE RemoteCommands!Accept(r)
    <3> DEFINE c == [command[k] EXCEPT !.status = "ACCEPTED"]
               new == [request[r] EXCEPT !.op = "idle", !.reply = c]
    <3>1. c \in RemoteCommands!Command /\ c.hash = request[r].hash /\ c.status = "ACCEPTED"
      <4>1. "ACCEPTED" \in RemoteCommands!CommandStatus
        BY DEF RemoteCommands!CommandStatus
      <4> QED BY <2>1, <2>3, <4>1, Restated, Zenon
    <3>2. command' = [command EXCEPT ![k] = c]
      BY <2>6, Zenon DEF RemoteCommands!Accept, RemoteCommands!SetStatus
    <3> HIDE DEF c
    <3>3. command'[k] = c
      BY <2>1, <3>2 DEF CommandsInv, RemoteCommands!TypeOK
    <3>4. request' = [request EXCEPT ![r].op = "idle", ![r].reply = c]
      BY <2>6, <3>3, Zenon DEF RemoteCommands!Accept, RemoteCommands!Reply
    <3>5. /\ new \in RemoteCommands!Request /\ new.op = "idle" /\ new.key = k
          /\ new.hash = request[r].hash /\ new.reply = c
      BY <2>3, <3>1, Replied, Zenon DEF RemoteCommands!Key
    <3>6. request' = [request EXCEPT ![r] = new]
      BY <3>4, RepliedInPlace, <2>3, Zenon DEF CommandsInv, RemoteCommands!TypeOK
    <3>7. k \in effective /\ UNCHANGED <<dispatched, effective>>
      BY <2>6 DEF RemoteCommands!Accept, CommandsInv, OwnersKnow
    <3>8. dispatched' = [dispatched EXCEPT ![k] = dispatched[k]]
      BY <2>3, <3>7
    <3> HIDE DEF new
    <3>9. OwnerStep(r, k, new, c, dispatched[k])
      BY <2>1, <2>2, <2>3, <3>1, <3>2, <3>5, <3>6, <3>7, <3>8 DEF OwnerStep, Owning
    <3> QED BY <2>3, <3>1, <3>5, <3>9, OwnerPreserves
  <2>7. CASE RemoteCommands!AcceptThrows(r)
    <3> DEFINE new == [request[r] EXCEPT !.op = "fail"]
    <3>1. /\ new \in RemoteCommands!Request /\ new.op = "fail" /\ new.key = k
          /\ new.hash = request[r].hash /\ new.reply = request[r].reply
      BY <2>3, Moved, Zenon DEF RemoteCommands!Key
    <3>2. request' = [request EXCEPT ![r] = new]
      BY <2>7, Zenon DEF RemoteCommands!AcceptThrows, RemoteCommands!Goto
    <3>3. PICK c \in RemoteCommands!Command : /\ c.hash = request[r].hash /\ c.status # "none"
                                /\ command' = [command EXCEPT ![k] = c]
      <4>1. CASE RemoteCommands!SetStatus(r, "ACCEPTED")
        <5>1. "ACCEPTED" \in RemoteCommands!CommandStatus /\ "ACCEPTED" # "none"
          BY DEF RemoteCommands!CommandStatus
        <5>2. command' = [command EXCEPT ![k] = [command[k] EXCEPT !.status = "ACCEPTED"]]
          BY <4>1, Zenon DEF RemoteCommands!SetStatus
        <5> DEFINE c == [command[k] EXCEPT !.status = "ACCEPTED"]
        <5>3. c \in RemoteCommands!Command /\ c.hash = request[r].hash /\ c.status = "ACCEPTED"
          BY <2>1, <2>3, <5>1, Restated, Zenon
        <5> QED BY <5>1, <5>2, <5>3, Zenon
      <4>2. CASE UNCHANGED command
        BY <2>1, <2>3, <4>2
      <4> QED BY <2>7, <4>1, <4>2 DEF RemoteCommands!AcceptThrows
    <3>4. k \in effective /\ UNCHANGED <<dispatched, effective>>
      BY <2>7 DEF RemoteCommands!AcceptThrows, CommandsInv, OwnersKnow
    <3>5. dispatched' = [dispatched EXCEPT ![k] = dispatched[k]]
      BY <2>3, <3>4
    <3> HIDE DEF new
    <3>6. OwnerStep(r, k, new, c, dispatched[k])
      BY <2>1, <2>2, <2>3, <3>1, <3>2, <3>3, <3>4, <3>5 DEF OwnerStep
    <3> QED BY <2>3, <3>1, <3>3, <3>6, OwnerPreserves
  <2>8. CASE RemoteCommands!Fail(r)
    <3> DEFINE c == [command[k] EXCEPT !.status = "FAILED"]
               new == [request[r] EXCEPT !.op = "idle", !.reply = RemoteCommands!NoCommand]
    <3>1. c \in RemoteCommands!Command /\ c.hash = request[r].hash /\ c.status = "FAILED"
      <4>1. "FAILED" \in RemoteCommands!CommandStatus
        BY DEF RemoteCommands!CommandStatus
      <4> QED BY <2>1, <2>3, <4>1, Restated, Zenon
    <3>2. command' = [command EXCEPT ![k] = c]
      BY <2>8, Zenon DEF RemoteCommands!Fail, RemoteCommands!SetStatus
    <3>3. RemoteCommands!NoCommand \in RemoteCommands!Command
      BY DEF RemoteCommands!NoCommand, RemoteCommands!Command, RemoteCommands!CommandStatus
    <3>4. /\ new \in RemoteCommands!Request /\ new.op = "idle" /\ new.key = k /\ new.reply = RemoteCommands!NoCommand
      BY <2>3, <3>3, Replied, Zenon DEF RemoteCommands!Key
    <3>5. request' = [request EXCEPT ![r] = new]
      BY <2>8, <2>3, <3>3, RepliedInPlace, Zenon DEF RemoteCommands!Fail,
                                                     RemoteCommands!Throw, RemoteCommands!Reply, CommandsInv, RemoteCommands!TypeOK
    <3>6. UNCHANGED <<dispatched, effective>>
      BY <2>8 DEF RemoteCommands!Fail
    <3>7. dispatched' = [dispatched EXCEPT ![k] = dispatched[k]]
      BY <2>3, <3>6
    <3> HIDE DEF new, c
    <3>8. OwnerStep(r, k, new, c, dispatched[k])
      BY <2>1, <2>2, <2>3, <3>1, <3>2, <3>4, <3>5, <3>6, <3>7 DEF OwnerStep, Owning
    <3> QED BY <2>3, <3>1, <3>4, <3>8, OwnerPreserves
  <2> QED BY <1>5, <2>4, <2>5, <2>6, <2>7, <2>8
<1>6. CASE RemoteCommands!Crash
  <2>1. request' = [r \in Requests |-> RemoteCommands!NoRequest] /\ UNCHANGED <<command, dispatched, effective>>
    BY <1>6 DEF RemoteCommands!Crash
  <2>2. RemoteCommands!TypeOK'
    BY <2>1, NoneSent DEF CommandsInv, RemoteCommands!TypeOK
  <2>3. OwnersAreAlone' /\ OwnersKnow'
    BY <2>1, NoneSent DEF OwnersAreAlone, OwnersKnow, RemoteCommands!Op, RemoteCommands!Key,
                          Owning
  <2>4. CommandsAreSound'
    BY <2>1 DEF CommandsInv, CommandsAreSound
  <2> QED BY <2>2, <2>3, <2>4 DEF CommandsInv
<1> QED BY <1>1, <1>2, <1>3, <1>4, <1>5, <1>6 DEF RemoteCommands!Next

\* Every variable has its type, for any keys, commands and requests.
THEOREM CommandsTypes == RemoteCommands!Spec => []RemoteCommands!TypeOK
<1>1. CommandsInv => RemoteCommands!TypeOK
  BY DEF CommandsInv
<1> QED BY CommandsInit, CommandsNext, <1>1, PTL DEF RemoteCommands!Spec

\* A command is dispatched at most once for its key, as the one stored, and what
\* was answered ACCEPTED took effect (createCommand), alone and among the other services.
THEOREM CommandsDispatchOnce ==
  /\ RemoteCommands!Spec => []RemoteCommands!DispatchedOnce
  /\ MCSpec => []DispatchedOnce
<1>1. CommandsInv => RemoteCommands!DispatchedOnce
  BY DEF CommandsInv, OwnersKnow, CommandsAreSound, Owning, RemoteCommands!DispatchedOnce
<1>2. RemoteCommands!Spec => []RemoteCommands!DispatchedOnce
  BY CommandsInit, CommandsNext, <1>1, PTL DEF RemoteCommands!Spec
<1>3. MCSpec => []DispatchedOnce
  <2> DEFINE Inv == focus = "commands" => CommandsInv
  <2>1. MCInit => Inv
    BY CommandsInit DEF MCInit
  <2>2. Inv /\ [MCNext]_allVars => Inv'
    BY TakesTurns, CommandsNext
  <2>3. Inv => DispatchedOnce
    BY <1>1 DEF DispatchedOnce
  <2> QED BY <2>1, <2>2, <2>3, PTL DEF MCSpec
<1> QED BY <1>2, <1>3

-----------------------------------------------------------------------------
(***************************************************************************)
(* The two copies of a station's coordinates, and an archived station, for *)
(* any values of the coordinates, any number of requests and of edits.     *)
(*                                                                         *)
(* A request that is to write the point holds coordinates the row has had; *)
(* an edit that began before the archive has an older version than it.     *)
(***************************************************************************)

\* The row's coordinates, and those a request is to write, are ones the row has had.
PointsWereHeld ==
  /\ <<station.lat, station.lng>> \in held
  /\ \A r \in Requests : request[r].op = "locate" => request[r].point \in held

\* A request has seen a version there was; one that edits, a version of before the archive.
VersionsWereSeen ==
  \A r \in Requests :
    request[r].op = "update" =>
      /\ request[r].version <= station.version
      /\ station.deleted => request[r].version < station.version

StationsInv == Stations!TypeOK /\ PointsWereHeld /\ VersionsWereSeen /\ Stations!StationIsCoherent

LEMMA NoEdit == Stations!NoRequest \in Stations!Request
BY DEF Stations!NoRequest, Stations!Request

LEMMA StationsInit == Stations!Init => StationsInv
BY NoEdit
DEF Stations!Init, StationsInv, Stations!TypeOK, Stations!Station, Stations!StationStatus,
    PointsWereHeld, VersionsWereSeen,
    Stations!StationIsCoherent, Stations!NoRequest

LEMMA StationsNext == StationsInv /\ [Stations!Next]_Stations!vars => StationsInv'
<1> SUFFICES ASSUME StationsInv, [Stations!Next]_Stations!vars PROVE StationsInv' OBVIOUS
<1> USE DEF StationsInv
<1>1. CASE UNCHANGED Stations!vars
  BY <1>1 DEF Stations!vars, Stations!TypeOK, PointsWereHeld, VersionsWereSeen,
              Stations!StationIsCoherent
<1>2. ASSUME NEW r \in Requests, NEW lat \in Places \cup {Stations!Keep}, NEW lng \in Places \cup {Stations!Keep},
             NEW s \in Stations!StationStatus \cup {Stations!Keep}, Stations!BeginUpdate(r, lat, lng, s)
      PROVE  StationsInv'
  <2> DEFINE asked == [Stations!NoRequest EXCEPT !.op = "update", !.version = station.version,
                                        !.lat = lat, !.lng = lng, !.status = s]
  <2>1. asked \in Stations!Request /\ asked.op = "update" /\ asked.version = station.version
    BY DEF Stations!TypeOK, Stations!Station, Stations!Request, Stations!NoRequest
  <2>2. request' = [request EXCEPT ![r] = asked] /\ UNCHANGED <<station, held>> /\ ~station.deleted
    BY <1>2 DEF Stations!BeginUpdate
  <2> HIDE DEF asked
  <2>3. Stations!TypeOK'
    BY <2>1, <2>2 DEF Stations!TypeOK
  <2>4. PointsWereHeld' /\ Stations!StationIsCoherent'
    BY <2>1, <2>2 DEF Stations!TypeOK, PointsWereHeld, Stations!StationIsCoherent
  <2>5. VersionsWereSeen'
    BY <2>1, <2>2 DEF Stations!TypeOK, Stations!Station, VersionsWereSeen
  <2> QED BY <2>3, <2>4, <2>5
<1>3. ASSUME NEW r \in Requests, Stations!UpdateStation(r) PROVE StationsInv'
  <2>1. CASE station.version # request[r].version
    BY <1>3, <2>1, NoEdit
    DEF Stations!UpdateStation, Stations!Op, Stations!Done, Stations!TypeOK, PointsWereHeld,
        VersionsWereSeen, Stations!StationIsCoherent, Stations!NoRequest
  <2>2. CASE station.version = request[r].version
    <3> DEFINE lat == Stations!New(request[r].lat, station.lat)
               lng == Stations!New(request[r].lng, station.lng)
               status == Stations!New(request[r].status, station.status)
    <3>1. /\ request[r].op = "update"
          /\ station' = [station EXCEPT !.lat = lat, !.lng = lng, !.version = station.version + 1,
                                        !.status = status]
          /\ held' = held \cup {<<lat, lng>>}
          /\ request' = [request EXCEPT ![r].op = "read"]
      BY <1>3, <2>2 DEF Stations!UpdateStation, Stations!Op
    <3>2. lat \in Places /\ lng \in Places /\ status \in Stations!StationStatus
      BY DEF Stations!New, Stations!TypeOK, Stations!Station, Stations!Request
    <3> HIDE DEF lat, lng, status
    <3>3. ~station.deleted
      BY <2>2, <3>1 DEF VersionsWereSeen, Stations!TypeOK, Stations!Station, Stations!Request
    <3>4. Stations!TypeOK'
      <4> DEFINE put   == [[station EXCEPT !.lat = lat] EXCEPT !.lng = lng]
                 raised == [put EXCEPT !.version = station.version + 1]
      <4>1. put \in Stations!Station /\ station.version \in Nat
        BY <3>2 DEF Stations!TypeOK, Stations!Station
      <4> HIDE DEF put
      <4>2. raised \in Stations!Station
        BY <4>1 DEF Stations!Station
      <4> HIDE DEF raised
      <4>3. [raised EXCEPT !.status = status] \in Stations!Station
        BY <3>2, <4>2 DEF Stations!Station
      <4>4. station' \in Stations!Station
        BY <3>1, <4>3 DEF raised, put
      <4>5. held' \subseteq Places \X Places
        BY <3>1, <3>2 DEF Stations!TypeOK
      <4>6. request' = [request EXCEPT ![r].op = "read"]
        BY <3>1, Zenon
      <4>7. request' \in [Requests -> Stations!Request]
        BY SMTT(20), <4>6 DEF Stations!TypeOK, Stations!Request
      <4> QED BY <4>4, <4>5, <4>7 DEF Stations!TypeOK
    <3>5. station'.lat = lat /\ station'.lng = lng /\ station'.location = station.location
          /\ station'.deleted = station.deleted /\ station'.version = station.version + 1
      BY <3>1 DEF Stations!TypeOK, Stations!Station
    <3>6. PointsWereHeld'
      BY <3>1, <3>5 DEF PointsWereHeld, Stations!TypeOK, Stations!Request
    <3>7. VersionsWereSeen'
      BY <3>1, <3>3, <3>5 DEF VersionsWereSeen, Stations!TypeOK, Stations!Station,
                              Stations!Request
    <3>8. Stations!StationIsCoherent'
      BY <3>1, <3>3, <3>5 DEF Stations!StationIsCoherent
    <3> QED BY <3>4, <3>6, <3>7, <3>8
  <2> QED BY <2>1, <2>2
<1>4. ASSUME NEW r \in Requests, Stations!ReadBack(r) PROVE StationsInv'
  <2>1. <<station.lat, station.lng>> \in Places \X Places
    BY DEF Stations!TypeOK, Stations!Station
  <2>2. UNCHANGED <<station, held>>
    BY <1>4 DEF Stations!ReadBack
  <2>3. \/ request' = [request EXCEPT ![r] = Stations!NoRequest]
        \/ request' = [request EXCEPT ![r].op = "locate", ![r].point = <<station.lat, station.lng>>]
    BY <1>4 DEF Stations!ReadBack, Stations!PointOfRow, Stations!Done
  <2> DEFINE located == [[request[r] EXCEPT !.op = "locate"] EXCEPT !.point = <<station.lat, station.lng>>]
  <2>4. located \in Stations!Request /\ located.op = "locate" /\ located.point = <<station.lat, station.lng>>
    <3> DEFINE first == [request[r] EXCEPT !.op = "locate"]
    <3>1. first \in Stations!Request /\ first.op = "locate"
      BY DEF Stations!TypeOK, Stations!Request
    <3> HIDE DEF first
    <3>2. LET second == [first EXCEPT !.point = <<station.lat, station.lng>>]
          IN  second \in Stations!Request /\ second.op = "locate" /\ second.point = <<station.lat, station.lng>>
      BY <2>1, <3>1 DEF Stations!Request
    <3> QED BY <3>2 DEF first
  <2>5. \E new \in {Stations!NoRequest, located} : request' = [request EXCEPT ![r] = new]
    BY <2>3
  <2> HIDE DEF located
  <2>6. Stations!TypeOK'
    BY <2>2, <2>4, <2>5, NoEdit DEF Stations!TypeOK
  <2>7. Stations!NoRequest.op = "idle"
    BY DEF Stations!NoRequest
  <2>8. PointsWereHeld' /\ Stations!StationIsCoherent'
    BY <2>2, <2>4, <2>5, <2>7 DEF Stations!TypeOK, PointsWereHeld, Stations!StationIsCoherent
  <2>9. VersionsWereSeen'
    BY <2>2, <2>4, <2>5, <2>7 DEF Stations!TypeOK, VersionsWereSeen
  <2> QED BY <2>6, <2>8, <2>9
<1>5. ASSUME NEW r \in Requests, Stations!SetLocation(r) PROVE StationsInv'
  <2>1. /\ station' = [station EXCEPT !.location = request[r].point]
        /\ request' = [request EXCEPT ![r] = Stations!NoRequest]
        /\ held' = held
        /\ request[r].point \in held
    BY <1>5 DEF Stations!SetLocation, Stations!Op, Stations!Done, PointsWereHeld
  <2>2. Stations!TypeOK'
    BY <2>1, NoEdit DEF Stations!TypeOK, Stations!Station
  <2>3. PointsWereHeld' /\ VersionsWereSeen' /\ Stations!StationIsCoherent'
    BY <2>1 DEF Stations!TypeOK, Stations!Station, PointsWereHeld, VersionsWereSeen,
                Stations!StationIsCoherent, Stations!NoRequest
  <2> QED BY <2>2, <2>3
<1>6. ASSUME NEW r \in Requests, Stations!BeginArchive(r) PROVE StationsInv'
  <2>1. UNCHANGED <<station, held>> /\ request' = [request EXCEPT ![r].op = "archive"]
    BY <1>6 DEF Stations!BeginArchive
  <2>2. Stations!TypeOK'
    BY SMTT(20), <2>1 DEF Stations!TypeOK, Stations!Request
  <2>3. PointsWereHeld' /\ Stations!StationIsCoherent'
    BY <2>1 DEF Stations!TypeOK, Stations!Request, PointsWereHeld, Stations!StationIsCoherent
  <2>4. VersionsWereSeen'
    BY <2>1 DEF Stations!TypeOK, Stations!Request, VersionsWereSeen
  <2> QED BY <2>2, <2>3, <2>4
<1>7. ASSUME NEW r \in Requests, Stations!ArchiveStation(r) PROVE StationsInv'
  <2>1. /\ station' = [station EXCEPT !.deleted = TRUE, !.status = "OFFLINE", !.version = station.version + 1]
        /\ request' = [request EXCEPT ![r] = Stations!NoRequest]
        /\ held' = held
    BY <1>7 DEF Stations!ArchiveStation, Stations!ArchivedRow, Stations!Done
  <2>2. Stations!TypeOK'
    <3> DEFINE gone == [[station EXCEPT !.deleted = TRUE] EXCEPT !.status = "OFFLINE"]
    <3>1. gone \in Stations!Station /\ station.version \in Nat
      BY DEF Stations!TypeOK, Stations!Station, Stations!StationStatus
    <3> HIDE DEF gone
    <3>2. [gone EXCEPT !.version = station.version + 1] \in Stations!Station
      BY <3>1 DEF Stations!Station
    <3>3. station' \in Stations!Station
      BY <2>1, <3>2 DEF gone
    <3> QED BY <2>1, <3>3, NoEdit DEF Stations!TypeOK
  <2>3. PointsWereHeld' /\ Stations!StationIsCoherent'
    BY <2>1 DEF Stations!TypeOK, Stations!Station, PointsWereHeld, Stations!StationIsCoherent,
                Stations!NoRequest
  <2>4. VersionsWereSeen'
    BY <2>1 DEF Stations!TypeOK, Stations!Station, Stations!Request, VersionsWereSeen,
                Stations!NoRequest
  <2> QED BY <2>2, <2>3, <2>4
<1> QED BY <1>1, <1>2, <1>3, <1>4, <1>5, <1>6, <1>7 DEF Stations!Next

\* Every variable has its type, for any coordinates, requests and edits.
THEOREM StationsTypes == Stations!Spec => []Stations!TypeOK
<1>1. StationsInv => Stations!TypeOK
  BY DEF StationsInv
<1> QED BY StationsInit, StationsNext, <1>1, PTL DEF Stations!Spec

\* The point is one the row has had, and an archived station stays offline
\* (updateStation, archiveStation), alone and among the other services.
THEOREM PointAndArchiveAgree ==
  /\ Stations!Spec => []Stations!StationIsCoherent
  /\ MCSpec => []StationIsCoherent
<1>1. StationsInv => Stations!StationIsCoherent
  BY DEF StationsInv
<1>2. Stations!Spec => []Stations!StationIsCoherent
  BY StationsInit, StationsNext, <1>1, PTL DEF Stations!Spec
<1>3. MCSpec => []StationIsCoherent
  <2> DEFINE Inv == focus = "stations" => StationsInv
  <2>1. MCInit => Inv
    BY StationsInit DEF MCInit
  <2>2. Inv /\ [MCNext]_allVars => Inv'
    BY TakesTurns, StationsNext
  <2>3. Inv => StationIsCoherent
    BY <1>1 DEF StationIsCoherent
  <2> QED BY <2>1, <2>2, <2>3, PTL DEF MCSpec
<1> QED BY <1>2, <1>3

-----------------------------------------------------------------------------
(***************************************************************************)
(* No edit of a profile is lost, for any fields, devices and edits.  The   *)
(* version rises with every write, so a request whose version is still the *)
(* row's has read the row as it still is.                                  *)
(***************************************************************************)

\* The version a request gave, the one it read and the row's come in this order,
\* and what was read under the row's version is the row.
ReadsAreOrdered ==
  \A r \in Requests :
    /\ request[r].op \in {"update", "delete"} => request[r].version <= user.version
    /\ request[r].op \in {"write", "request"} =>
         /\ request[r].read \in Profile!User
         /\ request[r].version <= request[r].read.version
         /\ request[r].read.version <= user.version
         /\ request[r].read.version = user.version => request[r].read = user

\* An edit is of a field, to a value.
EditsAreTyped ==
  \A r \in Requests :
    request[r].op \in {"update", "write"} => request[r].field \in Fields /\ request[r].value \in Values

ProfileInv == Profile!TypeOK /\ ReadsAreOrdered /\ EditsAreTyped

LEMMA NoPatch == Profile!NoRequest \in Profile!Request /\ Profile!NoRequest.op = "idle"
BY DEF Profile!NoRequest, Profile!Request, Profile!NoRow

\* A request that ends leaves nothing to keep.
LEMMA DonePreserves ==
  ASSUME ProfileInv, NEW r \in Requests, Profile!Done(r), user' = user
  PROVE  ProfileInv'
BY NoPatch DEF ProfileInv, Profile!Done, Profile!TypeOK, ReadsAreOrdered, EditsAreTyped

\* A write that raises the version keeps the order for the other requests.
LEMMA WritePreserves ==
  ASSUME ProfileInv, user' \in Profile!User, user'.version = user.version + 1,
         Profile!TypeOK', EditsAreTyped',
         \A q \in Requests : request'[q] = request[q] \/ request'[q].op = "idle"
  PROVE  ProfileInv'
<1>1. ReadsAreOrdered'
  BY DEF ProfileInv, Profile!TypeOK, Profile!User, Profile!Request, ReadsAreOrdered
<1> QED BY <1>1 DEF ProfileInv

\* What a request merges and writes under the row's version is the row with its field changed.
LEMMA MergedIsLatest ==
  ASSUME ProfileInv, NEW r \in Requests, request[r].op = "write", Profile!Guard(r)
  PROVE  /\ Profile!Merged(r) = [user.fields EXCEPT ![request[r].field] = request[r].value]
         /\ Profile!Merged(r) \in [Fields -> Values]
         /\ request[r].field \in Fields
<1>1. request[r].read = user
  BY DEF ProfileInv, Profile!TypeOK, Profile!User, Profile!Request, ReadsAreOrdered,
         Profile!Guard
<1>2. request[r].field \in Fields /\ request[r].value \in Values
  BY DEF ProfileInv, EditsAreTyped
<1> QED BY <1>1, <1>2 DEF Profile!Merged, ProfileInv, Profile!TypeOK, Profile!User

\* A row whose version is raised is a row.
LEMMA RaisedIsUser ==
  ASSUME NEW u \in Profile!User
  PROVE  [u EXCEPT !.version = u.version + 1] \in Profile!User
BY DEF Profile!User

\* What is sent has the type of a request.
LEMMA SentIsRequest ==
  ASSUME NEW op \in {"update", "delete"}, NEW seen \in Nat
  PROVE  /\ [Profile!NoRequest EXCEPT !.op = op, !.version = seen] \in Profile!Request
         /\ [Profile!NoRequest EXCEPT !.op = op, !.version = seen].op = op
         /\ [Profile!NoRequest EXCEPT !.op = op, !.version = seen].version = seen
<1> DEFINE first == [Profile!NoRequest EXCEPT !.op = op]
<1>1. first \in Profile!Request /\ first.op = op
  BY NoPatch DEF Profile!Request
<1> HIDE DEF first
<1>2. /\ [first EXCEPT !.version = seen] \in Profile!Request
      /\ [first EXCEPT !.version = seen].op = op
      /\ [first EXCEPT !.version = seen].version = seen
  BY <1>1 DEF Profile!Request
<1> QED BY <1>2 DEF first

LEMMA ProfileInit == Profile!Init => ProfileInv
<1> SUFFICES ASSUME Profile!Init PROVE ProfileInv OBVIOUS
<1>1. Profile!TypeOK
  BY NoPatch DEF Profile!Init, Profile!TypeOK, Profile!User
<1> QED BY <1>1, NoPatch DEF Profile!Init, ProfileInv, ReadsAreOrdered, EditsAreTyped

LEMMA ProfileNext == ProfileInv /\ [Profile!Next]_Profile!vars => ProfileInv'
<1> SUFFICES ASSUME ProfileInv, [Profile!Next]_Profile!vars PROVE ProfileInv' OBVIOUS
<1>1. CASE UNCHANGED Profile!vars
  BY <1>1 DEF Profile!vars, ProfileInv, Profile!TypeOK, ReadsAreOrdered, EditsAreTyped
<1>2. CASE Profile!SetDriverBlocked
  <2>1. /\ user' = [user EXCEPT !.blocked = ~user.blocked, !.version = user.version + 1]
        /\ request' = request
    BY <1>2 DEF Profile!SetDriverBlocked
  <2>2. user' \in Profile!User /\ user'.version = user.version + 1
    <3> DEFINE first == [user EXCEPT !.blocked = ~user.blocked]
    <3>1. first \in Profile!User
      BY Zenon DEF ProfileInv, Profile!TypeOK, Profile!User
    <3>2. first.version = user.version /\ user.version \in Nat
      BY DEF ProfileInv, Profile!TypeOK, Profile!User
    <3> HIDE DEF first
    <3>3. [first EXCEPT !.version = first.version + 1].version = first.version + 1
      BY <3>1 DEF Profile!User
    <3>4. user' = [first EXCEPT !.version = first.version + 1]
      BY <2>1, <3>2 DEF first
    <3> QED BY <3>1, <3>2, <3>3, <3>4, RaisedIsUser
  <2>3. Profile!TypeOK' /\ EditsAreTyped'
    BY <2>1, <2>2 DEF ProfileInv, Profile!TypeOK, EditsAreTyped
  <2> QED BY <2>1, <2>2, <2>3, WritePreserves
<1>3. ASSUME NEW r \in Requests, NEW f \in Fields, NEW v \in Values, Profile!Send(r, f, v)
      PROVE ProfileInv'
  <2>1. PICK seen \in 1 .. user.version :
          request' = [request EXCEPT ![r] = [Profile!NoRequest EXCEPT !.op = "update", !.version = seen,
                                               !.field = f, !.value = v]]
    BY <1>3 DEF Profile!Send
  <2> DEFINE sent == [Profile!NoRequest EXCEPT !.op = "update", !.version = seen, !.field = f, !.value = v]
  <2>2. user.version \in Nat /\ user' = user
    BY <1>3 DEF Profile!Send, ProfileInv, Profile!TypeOK, Profile!User
  <2>3. /\ sent \in Profile!Request /\ sent.op = "update" /\ sent.version = seen
        /\ sent.field = f /\ sent.value = v
    <3> DEFINE first == [Profile!NoRequest EXCEPT !.op = "update", !.version = seen]
               second == [first EXCEPT !.field = f]
    <3>1. first \in Profile!Request /\ first.op = "update" /\ first.version = seen
      <4>1. seen \in Nat
        BY <2>2
      <4> QED BY <4>1, SentIsRequest, Zenon
    <3> HIDE DEF first
    <3>2. second \in Profile!Request /\ second.op = "update" /\ second.version = seen /\ second.field = f
      BY <3>1 DEF Profile!Request
    <3> HIDE DEF second
    <3>3. LET third == [second EXCEPT !.value = v]
          IN  /\ third \in Profile!Request /\ third.op = "update" /\ third.version = seen
              /\ third.field = f /\ third.value = v
      BY <3>2 DEF Profile!Request
    <3> QED BY <3>3 DEF first, second
  <2>4. request' = [request EXCEPT ![r] = sent]
    BY <2>1
  <2> HIDE DEF sent
  <2> QED BY <2>2, <2>3, <2>4 DEF ProfileInv, Profile!TypeOK, ReadsAreOrdered, EditsAreTyped
<1>4. ASSUME NEW r \in Requests, Profile!SendDeletion(r) PROVE ProfileInv'
  <2>1. PICK seen \in 1 .. user.version :
          request' = [request EXCEPT ![r] = [Profile!NoRequest EXCEPT !.op = "delete", !.version = seen]]
    BY <1>4 DEF Profile!SendDeletion
  <2> DEFINE sent == [Profile!NoRequest EXCEPT !.op = "delete", !.version = seen]
  <2>2. user.version \in Nat /\ user' = user
    BY <1>4 DEF Profile!SendDeletion, ProfileInv, Profile!TypeOK, Profile!User
  <2>3. sent \in Profile!Request /\ sent.op = "delete" /\ sent.version = seen
    <3>1. seen \in Nat
      BY <2>2
    <3> QED BY <3>1, SentIsRequest, Zenon
  <2>4. request' = [request EXCEPT ![r] = sent]
    BY <2>1
  <2> HIDE DEF sent
  <2> QED BY <2>2, <2>3, <2>4 DEF ProfileInv, Profile!TypeOK, ReadsAreOrdered, EditsAreTyped
<1>5. ASSUME NEW r \in Requests, Profile!Read(r) PROVE ProfileInv'
  <2>1. user' = user
    BY <1>5 DEF Profile!Read
  <2>2. CASE Profile!Done(r)
    BY <2>1, <2>2, DonePreserves
  <2>3. CASE ~Profile!Done(r)
    <3> DEFINE op == IF request[r].op = "update" THEN "write" ELSE "request"
    <3>1. request' = [request EXCEPT ![r].op = op, ![r].read = user]
      BY <1>5, <2>3 DEF Profile!Read, Profile!Op
    <3>2. request[r].op \in {"update", "delete"} /\ request[r].version <= user.version
      BY <1>5 DEF Profile!Read, Profile!Op, ProfileInv, ReadsAreOrdered
    <3>3. op \in {"write", "request"} /\ (op = "write" => request[r].op = "update")
      OBVIOUS
    <3> HIDE DEF op
    <3>4. Profile!TypeOK'
      <4> DEFINE first == [request[r] EXCEPT !.op = op]
      <4>1. first \in Profile!Request
        BY <3>3 DEF ProfileInv, Profile!TypeOK, Profile!Request
      <4>2. request' = [request EXCEPT ![r] = [first EXCEPT !.read = user]]
        BY <3>1
      <4> HIDE DEF first
      <4>3. [first EXCEPT !.read = user] \in Profile!Request
        BY <4>1 DEF ProfileInv, Profile!TypeOK, Profile!Request
      <4> QED BY <2>1, <4>2, <4>3 DEF ProfileInv, Profile!TypeOK
    <3>5. /\ request'[r].op = op /\ request'[r].read = user /\ request'[r].version = request[r].version
          /\ request'[r].field = request[r].field /\ request'[r].value = request[r].value
          /\ \A q \in Requests \ {r} : request'[q] = request[q]
      BY <3>1 DEF ProfileInv, Profile!TypeOK, Profile!Request
    <3>6. ReadsAreOrdered'
      BY <2>1, <3>3, <3>2, <3>5 DEF ProfileInv, Profile!TypeOK, Profile!User, Profile!Request,
                                    ReadsAreOrdered
    <3>7. EditsAreTyped'
      BY <3>3, <3>2, <3>5 DEF ProfileInv, EditsAreTyped
    <3> QED BY <3>4, <3>6, <3>7 DEF ProfileInv
  <2> QED BY <2>2, <2>3
<1>6. ASSUME NEW r \in Requests, Profile!UpdateProfile(r) PROVE ProfileInv'
  <2>1. /\ user' = [user EXCEPT !.fields = Profile!Merged(r), !.version = user.version + 1]
        /\ request' = [request EXCEPT ![r] = Profile!NoRequest]
        /\ request[r].op = "write" /\ Profile!Guard(r)
    BY <1>6 DEF Profile!UpdateProfile, Profile!Done, Profile!Op
  <2>2. Profile!Merged(r) \in [Fields -> Values]
    BY <2>1, MergedIsLatest
  <2>3. user' \in Profile!User /\ user'.version = user.version + 1
    <3> DEFINE first == [user EXCEPT !.fields = Profile!Merged(r)]
    <3>1. first \in Profile!User /\ first.version = user.version
      BY <2>2 DEF ProfileInv, Profile!TypeOK, Profile!User
    <3> HIDE DEF first
    <3>2. [first EXCEPT !.version = first.version + 1].version = first.version + 1
      BY <3>1 DEF Profile!User
    <3>3. user' = [first EXCEPT !.version = first.version + 1]
      BY <2>1, <3>1 DEF first
    <3> QED BY <3>1, <3>2, <3>3, RaisedIsUser
  <2>4. Profile!TypeOK' /\ EditsAreTyped'
    BY <2>1, <2>3, NoPatch DEF ProfileInv, Profile!TypeOK, EditsAreTyped
  <2>5. \A q \in Requests : request'[q] = request[q] \/ request'[q].op = "idle"
    BY <2>1, NoPatch DEF ProfileInv, Profile!TypeOK
  <2> QED BY <2>3, <2>4, <2>5, WritePreserves
<1>7. ASSUME NEW r \in Requests, Profile!RequestAccountDeletion(r) PROVE ProfileInv'
  <2>1. /\ user' = [user EXCEPT !.deletionRequested = TRUE, !.version = user.version + 1]
        /\ request' = [request EXCEPT ![r] = Profile!NoRequest]
    BY <1>7 DEF Profile!RequestAccountDeletion, Profile!Done
  <2>2. user' \in Profile!User /\ user'.version = user.version + 1
    <3> DEFINE first == [user EXCEPT !.deletionRequested = TRUE]
    <3>1. first \in Profile!User /\ first.version = user.version
      BY DEF ProfileInv, Profile!TypeOK, Profile!User
    <3> HIDE DEF first
    <3>2. [first EXCEPT !.version = first.version + 1].version = first.version + 1
      BY <3>1 DEF Profile!User
    <3>3. user' = [first EXCEPT !.version = first.version + 1]
      BY <2>1, <3>1 DEF first
    <3> QED BY <3>1, <3>2, <3>3, RaisedIsUser
  <2>3. Profile!TypeOK' /\ EditsAreTyped'
    BY <2>1, <2>2, NoPatch DEF ProfileInv, Profile!TypeOK, EditsAreTyped
  <2>4. \A q \in Requests : request'[q] = request[q] \/ request'[q].op = "idle"
    BY <2>1, NoPatch DEF ProfileInv, Profile!TypeOK
  <2> QED BY <2>2, <2>3, <2>4, WritePreserves
<1>8. ASSUME NEW r \in Requests, Profile!Conflict(r) PROVE ProfileInv'
  BY <1>8, DonePreserves DEF Profile!Conflict
<1> QED BY <1>1, <1>2, <1>3, <1>4, <1>5, <1>6, <1>7, <1>8 DEF Profile!Next

\* A step changes a field only for an edit of it that was made of the row as it is.
LEMMA StepKeepsEdits == ProfileInv /\ [Profile!Next]_Profile!vars => [Profile!KeepsEdits]_Profile!vars
<1> SUFFICES ASSUME ProfileInv, Profile!Next PROVE Profile!KeepsEdits OBVIOUS
<1>1. CASE user' = user
  BY <1>1 DEF Profile!KeepsEdits
<1>2. CASE Profile!SetDriverBlocked
  BY <1>2 DEF Profile!SetDriverBlocked, ProfileInv, Profile!TypeOK, Profile!User,
              Profile!KeepsEdits
<1>3. ASSUME NEW r \in Requests, Profile!UpdateProfile(r) PROVE Profile!KeepsEdits
  <2>1. /\ user' = [user EXCEPT !.fields = Profile!Merged(r), !.version = user.version + 1]
        /\ request[r].op = "write" /\ Profile!Guard(r)
    BY <1>3 DEF Profile!UpdateProfile, Profile!Op
  <2>2. /\ user'.fields = [user.fields EXCEPT ![request[r].field] = request[r].value]
        /\ request[r].field \in Fields
        /\ user'.deletionRequested = user.deletionRequested
    BY <2>1, MergedIsLatest DEF ProfileInv, Profile!TypeOK, Profile!User
  <2>3. user.fields \in [Fields -> Values] /\ request[r].version = user.version
    BY <2>1 DEF ProfileInv, Profile!TypeOK, Profile!User, Profile!Guard
  <2> QED BY <2>2, <2>3 DEF Profile!KeepsEdits
<1>4. ASSUME NEW r \in Requests, Profile!RequestAccountDeletion(r) PROVE Profile!KeepsEdits
  BY <1>4 DEF Profile!RequestAccountDeletion, ProfileInv, Profile!TypeOK, Profile!User,
              Profile!KeepsEdits
<1>5. Profile!Next => user' = user \/ Profile!SetDriverBlocked
              \/ \E r \in Requests : Profile!UpdateProfile(r) \/ Profile!RequestAccountDeletion(r)
  BY DEF Profile!Next, Profile!Send, Profile!SendDeletion, Profile!Read, Profile!Conflict
<1> QED BY <1>1, <1>2, <1>3, <1>4, <1>5

\* Every variable has its type, for any fields, values and requests.
THEOREM ProfileTypes == Profile!Spec => []Profile!TypeOK
<1>1. ProfileInv => Profile!TypeOK
  BY DEF ProfileInv
<1> QED BY ProfileInit, ProfileNext, <1>1, PTL DEF Profile!Spec

\* No edit overwrites one it has not seen, and a request for deletion is never
\* taken back (updateProfile, requestAccountDeletion), alone and among the other services.
THEOREM EditsAreKept ==
  /\ Profile!Spec => Profile!NoEditIsLost
  /\ MCSpec => NoEditIsLost
<1>1. Profile!Spec => Profile!NoEditIsLost
  BY ProfileInit, ProfileNext, StepKeepsEdits, PTL DEF Profile!Spec, Profile!NoEditIsLost
<1>2. MCSpec => NoEditIsLost
  <2> DEFINE Inv  == focus = "profile" => ProfileInv
             Kept == focus = "profile" => Profile!KeepsEdits
  <2>1. MCInit => Inv
    BY ProfileInit DEF MCInit
  <2>2. Inv /\ [MCNext]_allVars => Inv'
    BY TakesTurns, ProfileNext
  <2>3. Inv /\ [MCNext]_allVars => [Kept]_allVars
    <3> SUFFICES ASSUME ProfileInv, [MCNext]_allVars, focus = "profile" PROVE Profile!KeepsEdits
      OBVIOUS
    <3>1. UNCHANGED Profile!vars => Profile!KeepsEdits
      BY DEF Profile!vars, Profile!KeepsEdits
    <3> QED BY <3>1, TakesTurns, StepKeepsEdits
  <2> QED BY <2>1, <2>2, <2>3, PTL DEF MCSpec, NoEditIsLost
<1> QED BY <1>1, <1>2

-----------------------------------------------------------------------------
(***************************************************************************)
(* A tariff is published once, for any tariffs and requests.               *)
(*                                                                         *)
(* The argument: a publication begins only while the tariff is a draft,    *)
(* which has never been published, so every publication under way has read *)
(* no version and is about to make the first: the number is unique, and    *)
(* whichever comes second is rolled back.                                  *)
(***************************************************************************)

\* What a request carries.
TariffRequest ==
  [op : {"idle", "publish", "archive"}, id : TariffIds \cup {"none"}, read : SUBSET Nat]

\* A draft was never published, and nobody has read a version of one.
TariffsInv ==
  /\ Tariffs!TypeOK
  /\ versions \in [TariffIds -> SUBSET Nat]
  /\ request \in [Requests -> TariffRequest]
  /\ Tariffs!PublishedHasVersion
  /\ \A t \in TariffIds : tariff[t].status \in {"none", "DRAFT"} => ~tariff[t].published
  /\ \A r \in Requests : request[r].op # "idle" => request[r].id \in TariffIds
  /\ \A r \in Requests : request[r].read = {}

\* An archival ends the validity now, or leaves the end that was set.
LEMMA EndOfValidity ==
  ASSUME LastDay \in Nat, today \in 0 .. LastDay, NEW until \in 0 .. Tariffs!never
  PROVE  (IF until = Tariffs!never THEN today ELSE until) \in 0 .. Tariffs!never
BY DEF Tariffs!never

LEMMA TariffsInit == LastDay \in Nat /\ Tariffs!Init => TariffsInv
BY DEF Tariffs!Init, TariffsInv, Tariffs!TypeOK, Tariffs!PublishedHasVersion, Tariffs!NoTariff,
       Tariffs!NoRequest, Tariffs!never, TariffRequest

LEMMA TariffsNext == LastDay \in Nat /\ TariffsInv /\ [Tariffs!Next]_Tariffs!vars => TariffsInv'
<1> SUFFICES ASSUME LastDay \in Nat, TariffsInv, [Tariffs!Next]_Tariffs!vars
             PROVE TariffsInv' OBVIOUS
<1> USE DEF TariffsInv, Tariffs!TypeOK, Tariffs!PublishedHasVersion, TariffRequest
<1>1. Tariffs!NoRequest \in TariffRequest /\ Tariffs!NoRequest.op = "idle" /\ Tariffs!NoRequest.read = {}
  BY DEF Tariffs!NoRequest
<1>2. CASE UNCHANGED Tariffs!vars
  BY <1>2 DEF Tariffs!vars
<1>3. ASSUME NEW t \in TariffIds, NEW from \in 0 .. LastDay, Tariffs!CreateTariff(t, from)
      PROVE  TariffsInv'
  <2>1. /\ tariff' = [tariff EXCEPT ![t].status = "DRAFT", ![t].from = from]
        /\ UNCHANGED <<versions, request, today, taken>>
    BY <1>3 DEF Tariffs!CreateTariff
  <2>2. ~tariff[t].published
    BY <1>3 DEF Tariffs!CreateTariff, Tariffs!NoTariff
  <2>3. \A o \in TariffIds : /\ tariff'[o].published = tariff[o].published
                             /\ o # t => tariff'[o] = tariff[o]
    BY <2>1
  <2>4. Tariffs!TypeOK'
    <3> DEFINE Row == [status : {"none", "DRAFT", "PUBLISHED", "ARCHIVED"},
                       published : BOOLEAN, archived : BOOLEAN,
                       from : 0 .. LastDay, until : 0 .. Tariffs!never]
               asDraft == [tariff[t] EXCEPT !.status = "DRAFT"]
               dated == [asDraft EXCEPT !.from = from]
    <3>1. tariff' = [tariff EXCEPT ![t] = dated]
      BY <2>1, Zenon
    <3>2. asDraft \in Row
      OBVIOUS
    <3> HIDE DEF asDraft
    <3>3. dated \in Row
      BY <3>2
    <3> HIDE DEF dated
    <3>4. tariff' \in [TariffIds -> Row]
      BY <3>1, <3>3
    <3> QED BY <2>1, <3>4
  <2>5. Tariffs!PublishedHasVersion'
    BY <2>1, <2>3
  <2>6. \A o \in TariffIds : tariff'[o].status \in {"none", "DRAFT"} => ~tariff'[o].published
    BY <2>2, <2>3
  <2> QED BY <2>1, <2>4, <2>5, <2>6
<1>4. ASSUME NEW r \in Requests, NEW t \in TariffIds, Tariffs!ReadDraft(r, t)
      PROVE  TariffsInv'
  <2> DEFINE asked == [op |-> "publish", id |-> t, read |-> {}]
  <2>1. versions[t] = {}
    BY <1>4 DEF Tariffs!ReadDraft
  <2>2. request' = [request EXCEPT ![r] = asked] /\ UNCHANGED <<tariff, versions, today, taken>>
    BY <1>4, <2>1 DEF Tariffs!ReadDraft
  <2>3. asked \in TariffRequest /\ asked.id = t /\ asked.read = {}
    OBVIOUS
  <2> HIDE DEF asked
  <2>4. /\ request' \in [Requests -> TariffRequest]
        /\ \A q \in Requests : request'[q].op # "idle" => request'[q].id \in TariffIds
        /\ \A q \in Requests : request'[q].read = {}
    BY <2>2, <2>3
  <2>5. Tariffs!TypeOK' /\ Tariffs!PublishedHasVersion'
    BY <2>2
  <2> QED BY <2>2, <2>4, <2>5
<1>5. ASSUME NEW r \in Requests, NEW t \in TariffIds, Tariffs!ReadToArchive(r, t)
      PROVE  TariffsInv'
  BY <1>5 DEF Tariffs!ReadToArchive
<1>6. ASSUME NEW r \in Requests, Tariffs!PublishTariff(r) PROVE TariffsInv'
  <2> DEFINE t == request[r].id
  <2>1. t \in TariffIds /\ request' = [request EXCEPT ![r] = Tariffs!NoRequest]
    BY <1>6 DEF Tariffs!PublishTariff, Tariffs!Done
  <2>2. Tariffs!Cardinality(request[r].read) = 0
    <3>1. \A S : Tariffs!Cardinality(S) = Cardinality(S)
      BY DEF Tariffs!Cardinality, Cardinality
    <3> QED BY <3>1, FS_EmptySet
  <2>3. \/ UNCHANGED <<tariff, versions>>
        \/ /\ tariff' = [tariff EXCEPT ![t].status = "PUBLISHED", ![t].published = TRUE]
           /\ versions' = [versions EXCEPT ![t] = @ \cup {1}]
    BY <1>6, <2>2 DEF Tariffs!PublishTariff
  <2>4. UNCHANGED <<today, taken>>
    BY <1>6 DEF Tariffs!PublishTariff
  <2>5. CASE UNCHANGED <<tariff, versions>>
    BY <1>1, <2>1, <2>4, <2>5
  <2>6. CASE /\ tariff' = [tariff EXCEPT ![t].status = "PUBLISHED", ![t].published = TRUE]
             /\ versions' = [versions EXCEPT ![t] = @ \cup {1}]
    <3>1. versions[t] \cup {1} = {1}
      BY <2>1
    <3>2. versions' = [versions EXCEPT ![t] = {1}]
      BY <2>6, <3>1
    <3>3. versions' \in [TariffIds -> SUBSET Nat] /\ Tariffs!TypeOK'
      BY <2>1, <2>4, <2>6, <3>2
    <3>4. /\ versions'[t] = {1} /\ tariff'[t].published
          /\ \A o \in TariffIds \ {t} : versions'[o] = versions[o] /\ tariff'[o] = tariff[o]
      BY <2>1, <2>6, <3>2
    <3>5. Tariffs!PublishedHasVersion'
      BY <3>4
    <3>6. \A o \in TariffIds : tariff'[o].status \in {"none", "DRAFT"} => ~tariff'[o].published
      BY <2>1, <2>6
    <3> QED BY <1>1, <2>1, <3>3, <3>6, <3>5
  <2> QED BY <2>3, <2>5, <2>6
<1>7. ASSUME NEW r \in Requests, Tariffs!ArchiveTariff(r) PROVE TariffsInv'
  <2> DEFINE t == request[r].id
  <2>1. t \in TariffIds /\ request' = [request EXCEPT ![r] = Tariffs!NoRequest]
    BY <1>7 DEF Tariffs!ArchiveTariff, Tariffs!Done
  <2>2. PICK end \in 0 .. Tariffs!never :
          tariff' = [tariff EXCEPT ![t].status = "ARCHIVED", ![t].archived = TRUE,
                                   ![t].until = end]
    BY <1>7, <2>1, EndOfValidity DEF Tariffs!ArchiveTariff
  <2> QED BY SMTT(20), <1>1, <1>7, <2>1, <2>2 DEF Tariffs!ArchiveTariff
<1>8. CASE Tariffs!TakeTariff
  BY <1>8 DEF Tariffs!TakeTariff
<1>9. CASE Tariffs!Tick
  BY <1>9 DEF Tariffs!Tick
<1> QED BY <1>2, <1>3, <1>4, <1>5, <1>6, <1>7, <1>8, <1>9 DEF Tariffs!Next

\* Every tariff has the version 1 if it is or was published, and none otherwise, however many
\* publications and archivals of it are under way at one time (publishTariff): alone, and among
\* the other services.
THEOREM TariffIsPublishedOnce ==
  ASSUME LastDay \in Nat
  PROVE  /\ Tariffs!Spec => [](Tariffs!TypeOK /\ Tariffs!PublishedHasVersion)
         /\ MCSpec => []PublishedHasVersion
<1>1. TariffsInv => Tariffs!TypeOK /\ Tariffs!PublishedHasVersion
  BY DEF TariffsInv
<1>2. Tariffs!Spec => [](Tariffs!TypeOK /\ Tariffs!PublishedHasVersion)
  BY <1>1, TariffsInit, TariffsNext, PTL DEF Tariffs!Spec
<1> DEFINE Inv == focus = "tariffs" => TariffsInv
<1>3. MCInit => Inv
  BY TariffsInit, Zenon DEF MCInit
<1>4. Inv /\ [MCNext]_allVars => Inv'
  <2> SUFFICES ASSUME Inv, [MCNext]_allVars PROVE Inv' OBVIOUS
  <2>1. focus' = focus
    BY DEF MCNext, Rest, allVars
  <2>2. focus = "tariffs" => [Tariffs!Next]_Tariffs!vars
    BY DEF MCNext, Step, allVars, vars, Tariffs!vars
  <2> QED BY <2>1, <2>2, TariffsNext
<1>5. Inv => PublishedHasVersion
  BY <1>1 DEF PublishedHasVersion
<1> HIDE DEF Inv
<1>6. MCSpec => []PublishedHasVersion
  BY <1>3, <1>4, <1>5, PTL DEF MCSpec
<1> QED BY <1>2, <1>6

-----------------------------------------------------------------------------
(***************************************************************************)
(* A driver never has two default payment methods, for any requests and    *)
(* any number of methods.                                                  *)
(*                                                                         *)
(* The argument: a removal that has written its row keeps its lock, so     *)
(* nobody makes that method the default or takes that from it, and the     *)
(* replacement it has chosen is promoted only while no third method is the *)
(* default.  raced says whether a request has written on what had changed  *)
(* since it read: unless one has, a creation has counted the methods there *)
(* are, and a removal knows whether its method is the default.             *)
(***************************************************************************)

\* The smallest and the greatest of a set of numbers, as the community modules define them.
LEMMA MinIsMember ==
  ASSUME NEW S \in SUBSET Nat, S # {}
  PROVE  PaymentMethods!Min(S) \in S /\ \A y \in S : PaymentMethods!Min(S) <= y
<1>1. PICK n \in S : \A m \in S : ~(<<m, n>> \in OpToRel(<, Nat))
  BY NatLessThanWellFounded, WFMin, Zenon
<1>2. ASSUME NEW m \in S, m < n PROVE FALSE
  <2>1. m \in Nat /\ n \in Nat /\ <<m, n>> \in Nat \X Nat
    OBVIOUS
  <2>2. <<m, n>>[1] < <<m, n>>[2]
    BY <1>2
  <2>3. <<m, n>> \in OpToRel(<, Nat)
    BY <2>1, <2>2, Zenon DEF OpToRel
  <2> QED BY <1>1, <2>3
<1>3. \A m \in S : n <= m
  BY <1>2
<1> QED BY <1>3 DEF PaymentMethods!Min

LEMMA MaxIsMember ==
  ASSUME NEW K \in Nat, NEW S \in SUBSET (0 .. K), S # {}
  PROVE  PaymentMethods!Max(S) \in S /\ \A y \in S : PaymentMethods!Max(S) >= y
<1> DEFINE T == {K - x : x \in S}
<1>1. T \in SUBSET Nat /\ T # {}
  <2>1. \A x \in S : x \in 0 .. K /\ K - x \in Nat
    OBVIOUS
  <2>2. PICK x \in S : TRUE
    OBVIOUS
  <2>3. K - x \in T
    OBVIOUS
  <2> QED BY <2>1, <2>3
<1> HIDE DEF T
<1>2. PICK n \in T : \A m \in T : n <= m
  BY <1>1, MinIsMember
<1> USE DEF T
<1>3. PICK x \in S : n = K - x
  OBVIOUS
<1>4. \A y \in S : x >= y
  <2> SUFFICES ASSUME NEW y \in S PROVE x >= y OBVIOUS
  <2>1. K - x <= K - y
    BY <1>2, <1>3
  <2> QED BY <2>1
<1> QED BY <1>4 DEF PaymentMethods!Max

MethodStatus == {"none", "ACTIVE", "EXPIRED", "REMOVED"}
MethodRow == [status : MethodStatus, default : BOOLEAN]
MethodRequest ==
  [op : {"idle", "create", "remove", "promote"}, id : 0 .. MaxRows, was : BOOLEAN,
   expired : BOOLEAN, seen : SUBSET PaymentMethods!Methods, next : 0 .. MaxRows]

MethodTypes ==
  /\ method \in [PaymentMethods!Methods -> MethodRow]
  /\ request \in [Requests -> MethodRequest]
  /\ raced \in BOOLEAN

\* One method is the default, it is ACTIVE, and there is one if there can be.
OneDefault == \A m, n \in PaymentMethods!Defaults : m = n
DefaultIsThere ==
  ~raced =>
    /\ \A m \in PaymentMethods!Methods : method[m].default => m \in PaymentMethods!Active
    /\ PaymentMethods!Active # {} => PaymentMethods!Defaults # {}

\* A creation makes the first method the default, and no expired one.
CreationsCount ==
  \A r \in Requests : request[r].op = "create" =>
    /\ request[r].was => ~request[r].expired
    /\ ~request[r].was /\ ~request[r].expired => request[r].seen # {}

\* A removal has a method, and a replacement, another one, only for what it read as the default.
RemovalsKnow ==
  \A r \in Requests : request[r].op \in {"remove", "promote"} =>
    /\ request[r].id \in PaymentMethods!Methods /\ method[request[r].id].status # "none"
    /\ request[r].op = "promote" /\ request[r].next # 0 =>
         request[r].was /\ request[r].next # request[r].id

\* A row that is held is held once, and is what its removal read unless that raced.
HeldRows ==
  /\ \A r, q \in Requests :
       request[r].op = "promote" /\ request[q].op = "promote" /\ request[r].id = request[q].id =>
         r = q
  /\ ~raced => \A r \in Requests :
       request[r].op = "promote" => method[request[r].id].default = request[r].was

MethodsInv ==
  MethodTypes /\ OneDefault /\ DefaultIsThere /\ CreationsCount /\ RemovalsKnow /\ HeldRows

\* A request that ends.
LEMMA NoMethodRequest ==
  ASSUME MaxRows \in Nat
  PROVE  PaymentMethods!NoRequest \in MethodRequest /\ PaymentMethods!NoRequest.op = "idle"
BY DEF PaymentMethods!NoRequest, PaymentMethods!None, MethodRequest

LEMMA MethodsInit == MaxRows \in Nat /\ PaymentMethods!Init => MethodsInv
<1> SUFFICES ASSUME MaxRows \in Nat, PaymentMethods!Init PROVE MethodsInv OBVIOUS
<1>1. /\ \A m \in PaymentMethods!Methods : method[m].status = "none" /\ ~method[m].default
      /\ \A r \in Requests : request[r].op = "idle"
      /\ raced = FALSE
  BY DEF PaymentMethods!Init, PaymentMethods!NoMethod, PaymentMethods!NoRequest
<1>2. MethodTypes
  <2>1. PaymentMethods!NoMethod \in MethodRow
    BY DEF PaymentMethods!NoMethod, MethodRow, MethodStatus
  <2> QED BY <2>1, NoMethodRequest DEF PaymentMethods!Init, MethodTypes
<1>3. PaymentMethods!Active = {} /\ PaymentMethods!Defaults = {}
  BY <1>1 DEF PaymentMethods!Active, PaymentMethods!Defaults
<1> QED BY <1>1, <1>2, <1>3 DEF MethodsInv, OneDefault, DefaultIsThere, CreationsCount,
                                RemovalsKnow, HeldRows

\* The request that a place has from now on, unless it is a removal.
LEMMA RequestsAgree ==
  ASSUME MethodsInv, NEW r \in Requests, NEW asked \in MethodRequest,
         request' = [request EXCEPT ![r] = asked], UNCHANGED <<method, raced>>,
         asked.op \in {"idle", "create", "remove"},
         asked.op = "create" =>
           (asked.was => ~asked.expired) /\ (~asked.was /\ ~asked.expired => asked.seen # {}),
         asked.op = "remove" =>
           asked.id \in PaymentMethods!Methods /\ method[asked.id].status # "none"
  PROVE  MethodsInv'
<1> USE DEF MethodsInv
<1>1. MethodTypes'
  BY DEF MethodTypes
<1>2. OneDefault' /\ DefaultIsThere'
  BY DEF OneDefault, DefaultIsThere, PaymentMethods!Defaults, PaymentMethods!Active
<1>3. CreationsCount'
  BY DEF CreationsCount, MethodTypes
<1>4. RemovalsKnow'
  BY DEF RemovalsKnow, MethodTypes
<1>5. HeldRows'
  BY DEF HeldRows, MethodTypes
<1> QED BY <1>1, <1>2, <1>3, <1>4, <1>5

\* A row that nobody holds is not one of a removal that has written.
LEMMA HeldIsHeld ==
  ASSUME NEW r \in Requests, request[r].op = "promote"
  PROVE  request[r].id \in PaymentMethods!Held
BY DEF PaymentMethods!Held, PaymentMethods!Op

\* The default moves to m, a method that nobody holds, from one that nobody holds.
LEMMA DefaultMoves ==
  ASSUME MethodsInv, NEW m \in PaymentMethods!Methods, NEW target \in MethodRow,
         target.status = "ACTIVE", target.default = TRUE, method[m].status \in {"none", "ACTIVE"},
         m \notin PaymentMethods!Held, PaymentMethods!Defaults \cap PaymentMethods!Held = {},
         method' = [PaymentMethods!Cleared EXCEPT ![m] = target],
         raced' \in BOOLEAN, raced => raced'
  PROVE  /\ method' \in [PaymentMethods!Methods -> MethodRow]
         /\ \A k \in PaymentMethods!Methods : method[k].status # "none" => method'[k].status # "none"
         /\ OneDefault' /\ DefaultIsThere'
         /\ ~raced' => \A r \in Requests :
              request[r].op = "promote" => method'[request[r].id].default = request[r].was
<1> USE DEF MethodsInv
<1>1. /\ PaymentMethods!Cleared \in [PaymentMethods!Methods -> MethodRow]
      /\ \A k \in PaymentMethods!Methods : /\ PaymentMethods!Cleared[k].status = method[k].status
                                           /\ PaymentMethods!Cleared[k].default = FALSE
  BY DEF PaymentMethods!Cleared, MethodTypes, MethodRow
<1>2. /\ method' \in [PaymentMethods!Methods -> MethodRow]
      /\ method'[m].status = "ACTIVE" /\ method'[m].default = TRUE
      /\ \A k \in PaymentMethods!Methods \ {m} :
           method'[k].status = method[k].status /\ method'[k].default = FALSE
  BY <1>1 DEF MethodRow
<1>3. PaymentMethods!Defaults' = {m} /\ m \in PaymentMethods!Active'
  BY <1>2 DEF PaymentMethods!Defaults, PaymentMethods!Active
<1>4. OneDefault' /\ DefaultIsThere'
  BY <1>2, <1>3 DEF OneDefault, DefaultIsThere
<1>5. ASSUME ~raced', NEW r \in Requests, request[r].op = "promote"
      PROVE  method'[request[r].id].default = request[r].was
  <2> DEFINE id == request[r].id
  <2>1. id \in PaymentMethods!Methods /\ id \in PaymentMethods!Held /\ id # m
    BY <1>5, HeldIsHeld DEF RemovalsKnow
  <2>2. id \notin PaymentMethods!Defaults
    BY <2>1
  <2>3. ~method[id].default /\ method[id].default = request[r].was
    BY <1>5, <2>1, <2>2 DEF DefaultIsThere, PaymentMethods!Defaults, HeldRows
  <2>4. method'[id].default = FALSE
    BY <1>2, <2>1
  <2> QED BY <2>3, <2>4 DEF MethodTypes, MethodRow, MethodRequest
<1>6. \A k \in PaymentMethods!Methods : method[k].status # "none" => method'[k].status # "none"
  BY <1>2
<1> QED BY <1>2, <1>4, <1>5, <1>6

LEMMA BeginKeeps ==
  ASSUME MaxRows \in Nat, MethodsInv, NEW r \in Requests, NEW expired \in BOOLEAN,
         NEW isDefault \in BOOLEAN, PaymentMethods!BeginCreate(r, expired, isDefault)
  PROVE  MethodsInv'
<1> DEFINE seen == PaymentMethods!Active
           was == ~expired /\ (isDefault \/ seen = {})
           first == [PaymentMethods!NoRequest EXCEPT !.op = "create"]
           second == [first EXCEPT !.expired = expired]
           third == [second EXCEPT !.seen = seen]
           asked == [third EXCEPT !.was = was]
<1>1. request' = [request EXCEPT ![r] = asked] /\ UNCHANGED <<method, raced>>
  BY Zenon DEF PaymentMethods!BeginCreate
<1>2. /\ seen \in SUBSET PaymentMethods!Methods /\ was \in BOOLEAN
      /\ (was => ~expired) /\ (~was /\ ~expired => seen # {})
  BY DEF PaymentMethods!Active
<1> HIDE DEF seen, was
<1>3. first \in MethodRequest /\ first.op = "create"
  BY NoMethodRequest DEF MethodRequest
<1> HIDE DEF first
<1>4. second \in MethodRequest /\ second.op = "create" /\ second.expired = expired
  BY <1>3 DEF MethodRequest
<1> HIDE DEF second
<1>5. third \in MethodRequest /\ third.op = "create" /\ third.expired = expired /\ third.seen = seen
  BY <1>2, <1>4 DEF MethodRequest
<1> HIDE DEF third
<1>6. /\ asked \in MethodRequest /\ asked.op = "create" /\ asked.expired = expired
      /\ asked.seen = seen /\ asked.was = was
  BY <1>2, <1>5 DEF MethodRequest
<1> HIDE DEF asked
<1> QED BY <1>1, <1>2, <1>6, RequestsAgree

LEMMA ReadKeeps ==
  ASSUME MaxRows \in Nat, MethodsInv, NEW r \in Requests, NEW m \in PaymentMethods!Methods,
         PaymentMethods!ReadOwned(r, m)
  PROVE  MethodsInv'
<1> DEFINE first == [PaymentMethods!NoRequest EXCEPT !.op = "remove"]
           second == [first EXCEPT !.id = m]
           asked == [second EXCEPT !.was = method[m].default]
<1>1. request' = [request EXCEPT ![r] = asked] /\ UNCHANGED <<method, raced>>
  BY Zenon DEF PaymentMethods!ReadOwned
<1>2. method[m] \in MethodRow /\ m \in 0 .. MaxRows
  BY DEF MethodsInv, MethodTypes, PaymentMethods!Methods
<1>3. first \in MethodRequest /\ first.op = "remove"
  BY NoMethodRequest DEF MethodRequest
<1> HIDE DEF first
<1>4. second \in MethodRequest /\ second.op = "remove" /\ second.id = m
  BY <1>2, <1>3 DEF MethodRequest
<1> HIDE DEF second
<1>5. asked \in MethodRequest /\ asked.op = "remove" /\ asked.id = m
  BY <1>2, <1>4 DEF MethodRequest, MethodRow
<1> HIDE DEF asked
<1>6. method[m].status # "none"
  BY DEF PaymentMethods!ReadOwned, PaymentMethods!Usable, PaymentMethods!Active
<1> QED BY <1>1, <1>5, <1>6, RequestsAgree

LEMMA CreateKeeps ==
  ASSUME MaxRows \in Nat, MethodsInv, NEW r \in Requests, PaymentMethods!Create(r)
  PROVE  MethodsInv'
<1> USE DEF MethodsInv
<1> DEFINE m == PaymentMethods!Min(PaymentMethods!Unused)
           status == IF request[r].expired THEN "EXPIRED" ELSE "ACTIVE"
<1>1. m \in PaymentMethods!Methods /\ method[m] = PaymentMethods!NoMethod
  <2>1. PaymentMethods!Unused \in SUBSET Nat /\ PaymentMethods!Unused # {}
    BY DEF PaymentMethods!Unused, PaymentMethods!Methods, PaymentMethods!Create
  <2> QED BY <2>1, MinIsMember DEF PaymentMethods!Unused
<1>2. /\ request[r].op = "create" /\ request[r] \in MethodRequest
      /\ request' = [request EXCEPT ![r] = PaymentMethods!NoRequest]
      /\ PaymentMethods!Active \subseteq request[r].seen
      /\ raced' = (raced \/ PaymentMethods!Active # request[r].seen)
      /\ request[r].was => PaymentMethods!Defaults \cap PaymentMethods!Held = {}
      /\ method' = [(IF request[r].was THEN PaymentMethods!Cleared ELSE method) EXCEPT
                      ![m] = [status |-> status, default |-> request[r].was]]
  BY DEF PaymentMethods!Create, PaymentMethods!Done, PaymentMethods!Op, MethodTypes
<1>3. raced' \in BOOLEAN /\ (raced => raced')
  BY <1>2 DEF MethodTypes
<1>4. /\ method' \in [PaymentMethods!Methods -> MethodRow]
      /\ \A k \in PaymentMethods!Methods : method[k].status # "none" => method'[k].status # "none"
      /\ OneDefault' /\ DefaultIsThere'
      /\ ~raced' => \A q \in Requests :
           request[q].op = "promote" => method'[request[q].id].default = request[q].was
  <2>1. CASE request[r].was
    <3> DEFINE target == [status |-> "ACTIVE", default |-> TRUE]
    <3>1. ~request[r].expired /\ status = "ACTIVE"
      BY <1>2, <2>1 DEF CreationsCount
    <3>2. target \in MethodRow /\ target.status = "ACTIVE" /\ target.default = TRUE
      BY DEF MethodRow, MethodStatus
    <3>3. method[m].status = "none" /\ m \notin PaymentMethods!Held
      BY <1>1 DEF PaymentMethods!NoMethod, PaymentMethods!Held, PaymentMethods!Op, RemovalsKnow
    <3>4. method' = [PaymentMethods!Cleared EXCEPT ![m] = target]
      BY <1>2, <2>1, <3>1
    <3> HIDE DEF m, target
    <3> QED BY <1>1, <1>2, <1>3, <2>1, <3>3, <3>4, <3>2, DefaultMoves
  <2>2. CASE ~request[r].was
    <3>1. method' = [method EXCEPT ![m] = [status |-> status, default |-> FALSE]]
      BY <1>2, <2>2 DEF MethodRequest
    <3>2. method[m].status = "none" /\ ~method[m].default
      BY <1>1 DEF PaymentMethods!NoMethod
    <3>3. method' \in [PaymentMethods!Methods -> MethodRow]
      BY <1>1, <3>1 DEF MethodTypes, MethodRow, MethodStatus
    <3>4. PaymentMethods!Defaults' = PaymentMethods!Defaults
      BY <1>1, <3>1, <3>2 DEF PaymentMethods!Defaults, PaymentMethods!Active, MethodTypes
    <3>5. /\ \A k \in PaymentMethods!Methods : method'[k].default = method[k].default
          /\ \A k \in PaymentMethods!Methods \ {m} : method'[k] = method[k]
      BY <1>1, <3>1, <3>2 DEF MethodTypes, MethodRow
    <3>6. OneDefault'
      BY <3>4 DEF OneDefault
    <3>7. DefaultIsThere'
      <4> SUFFICES ASSUME ~raced' PROVE /\ \A k \in PaymentMethods!Methods :
                                             method'[k].default => k \in PaymentMethods!Active'
                                        /\ PaymentMethods!Active' # {} => PaymentMethods!Defaults' # {}
        BY DEF DefaultIsThere
      <4>1. ~raced /\ PaymentMethods!Active = request[r].seen
        BY <1>2
      <4>2. \A k \in PaymentMethods!Methods : method'[k].default => k \in PaymentMethods!Active'
        BY <3>2, <3>5, <4>1 DEF DefaultIsThere, PaymentMethods!Active
      <4>3. CASE request[r].expired
        <5>1. PaymentMethods!Active' = PaymentMethods!Active
          BY <1>1, <3>1, <3>2, <3>5, <4>3 DEF PaymentMethods!Active, MethodTypes
        <5> QED BY <3>4, <4>1, <4>2, <5>1 DEF DefaultIsThere
      <4>4. CASE ~request[r].expired
        <5>1. PaymentMethods!Active # {}
          BY <1>2, <2>2, <4>1, <4>4 DEF CreationsCount
        <5> QED BY <3>4, <4>1, <4>2, <5>1 DEF DefaultIsThere
      <4> QED BY <4>3, <4>4
    <3>8. ~raced' => \A q \in Requests :
            request[q].op = "promote" => method'[request[q].id].default = request[q].was
      BY <1>3, <3>5 DEF HeldRows, RemovalsKnow
    <3>9. \A k \in PaymentMethods!Methods : method[k].status # "none" => method'[k].status # "none"
      BY <3>2, <3>5
    <3> QED BY <3>3, <3>6, <3>7, <3>8, <3>9
  <2> QED BY <2>1, <2>2
<1> HIDE DEF m, status
<1>5. MethodTypes'
  BY <1>2, <1>3, <1>4, NoMethodRequest DEF MethodTypes
<1>6. \A q \in Requests : request'[q].op # "idle" => request'[q] = request[q]
  BY <1>2, NoMethodRequest DEF MethodTypes
<1>7. CreationsCount'
  BY <1>6 DEF CreationsCount
<1>8. RemovalsKnow'
  BY <1>4, <1>6 DEF RemovalsKnow
<1>9. HeldRows'
  BY <1>4, <1>6 DEF HeldRows
<1> QED BY <1>4, <1>5, <1>7, <1>8, <1>9

LEMMA SetDefaultKeeps ==
  ASSUME MaxRows \in Nat, MethodsInv, NEW m \in PaymentMethods!Methods,
         PaymentMethods!SetDefault(m)
  PROVE  MethodsInv'
<1> USE DEF MethodsInv
<1>1. /\ method[m].status = "ACTIVE" /\ m \notin PaymentMethods!Held
      /\ PaymentMethods!Defaults \cap PaymentMethods!Held = {}
      /\ request' = request /\ raced' = raced /\ raced \in BOOLEAN
  BY DEF PaymentMethods!SetDefault, PaymentMethods!Active, MethodTypes
<1> DEFINE target == [PaymentMethods!Cleared[m] EXCEPT !.default = TRUE]
<1>2. /\ method' = [PaymentMethods!Cleared EXCEPT ![m] = target]
      /\ target \in MethodRow /\ target.status = "ACTIVE" /\ target.default = TRUE
  <2>1. PaymentMethods!Cleared[m] = [method[m] EXCEPT !.default = FALSE] /\ method[m] \in MethodRow
    BY DEF PaymentMethods!Cleared, MethodTypes
  <2>2. PaymentMethods!Cleared[m] \in MethodRow /\ PaymentMethods!Cleared[m].status = "ACTIVE"
    BY <1>1, <2>1 DEF MethodRow
  <2>3. target \in MethodRow /\ target.status = "ACTIVE" /\ target.default = TRUE
    BY <2>2 DEF MethodRow
  <2>4. method' = [PaymentMethods!Cleared EXCEPT ![m] = target]
    BY Zenon DEF PaymentMethods!SetDefault
  <2> QED BY <2>3, <2>4
<1> HIDE DEF target
<1>3. /\ method' \in [PaymentMethods!Methods -> MethodRow]
      /\ \A k \in PaymentMethods!Methods : method[k].status # "none" => method'[k].status # "none"
      /\ OneDefault' /\ DefaultIsThere'
      /\ ~raced' => \A q \in Requests :
           request[q].op = "promote" => method'[request[q].id].default = request[q].was
  BY <1>1, <1>2, DefaultMoves
<1>4. MethodTypes'
  BY <1>1, <1>3 DEF MethodTypes
<1>5. CreationsCount' /\ RemovalsKnow' /\ HeldRows'
  BY <1>1, <1>3 DEF CreationsCount, RemovalsKnow, HeldRows
<1> QED BY <1>3, <1>4, <1>5

LEMMA WriteKeeps ==
  ASSUME MaxRows \in Nat, MethodsInv, NEW r \in Requests, PaymentMethods!WriteRemoved(r)
  PROVE  MethodsInv'
<1> USE DEF MethodsInv
<1> DEFINE m == request[r].id
           others == PaymentMethods!Active \ {m}
           next == IF request[r].was /\ others # {} THEN PaymentMethods!Max(others) ELSE 0
<1>1. /\ request[r].op = "remove" /\ m \notin PaymentMethods!Held
      /\ method' = method /\ raced' = (raced \/ method[m].default # request[r].was)
      /\ request[r] \in MethodRequest /\ m \in PaymentMethods!Methods
      /\ method[m] \in MethodRow /\ method[m].status # "none"
  BY DEF PaymentMethods!WriteRemoved, PaymentMethods!Op, MethodTypes, RemovalsKnow
<1>2. next \in 0 .. MaxRows /\ (next # 0 => request[r].was /\ next # m)
  <2>1. CASE request[r].was /\ others # {}
    <3>1. others \in SUBSET (0 .. MaxRows)
      BY DEF PaymentMethods!Active, PaymentMethods!Methods
    <3>2. PaymentMethods!Max(others) \in others
      BY <2>1, <3>1, MaxIsMember
    <3> QED BY <2>1, <3>1, <3>2
  <2> QED BY <2>1
<1>3. request' = [request EXCEPT ![r].op = "promote", ![r].next = next]
  BY DEF PaymentMethods!WriteRemoved, PaymentMethods!None
<1> HIDE DEF next
<1>4. /\ request' \in [Requests -> MethodRequest]
      /\ \A q \in Requests \ {r} : request'[q] = request[q]
      /\ request'[r].op = "promote" /\ request'[r].id = m
      /\ request'[r].was = request[r].was /\ request'[r].next = next
  BY ZenonT(20), <1>2, <1>3 DEF MethodTypes, MethodRequest
<1>5. MethodTypes'
  BY <1>1, <1>4 DEF MethodTypes
<1>6. OneDefault' /\ DefaultIsThere'
  BY <1>1 DEF OneDefault, DefaultIsThere, PaymentMethods!Active, PaymentMethods!Defaults,
     MethodTypes
<1>7. CreationsCount'
  BY <1>4 DEF CreationsCount
<1>8. RemovalsKnow'
  BY <1>1, <1>2, <1>4 DEF RemovalsKnow
<1>9. HeldRows'
  <2>1. \A q \in Requests \ {r} : request[q].op = "promote" => request[q].id # m
    BY <1>1, HeldIsHeld
  <2>2. \A p, q \in Requests :
          request'[p].op = "promote" /\ request'[q].op = "promote" /\ request'[p].id = request'[q].id =>
            p = q
    BY <1>4, <2>1 DEF HeldRows
  <2>3. ASSUME ~raced', NEW q \in Requests, request'[q].op = "promote"
        PROVE  method'[request'[q].id].default = request'[q].was
    <3>1. ~raced /\ method[m].default = request[r].was
      BY <1>1, <2>3
    <3>2. CASE q = r
      BY <1>1, <1>4, <3>1, <3>2
    <3>3. CASE q # r
      BY <1>1, <1>4, <2>3, <3>1, <3>3 DEF HeldRows
    <3> QED BY <3>2, <3>3
  <2> QED BY <2>2, <2>3 DEF HeldRows
<1> QED BY <1>5, <1>6, <1>7, <1>8, <1>9

LEMMA RemoveKeeps ==
  ASSUME MaxRows \in Nat, MethodsInv, NEW r \in Requests, PaymentMethods!Remove(r)
  PROVE  MethodsInv'
<1> USE DEF MethodsInv
<1> DEFINE m == request[r].id
           n == request[r].next
           gone == [status |-> "REMOVED", default |-> FALSE]
           removed == [method EXCEPT ![m] = gone]
<1>1. /\ request[r].op = "promote" /\ n \notin PaymentMethods!Held
      /\ n \in PaymentMethods!Active => PaymentMethods!Defaults \subseteq {m, n}
      /\ method' = IF n = 0 THEN removed ELSE [removed EXCEPT ![n].default = TRUE]
      /\ raced' = (raced \/ (request[r].was /\ n \notin PaymentMethods!Active
                             /\ ({n} \cup PaymentMethods!Active) # {0, m}))
      /\ request' = [request EXCEPT ![r] = PaymentMethods!NoRequest]
  BY DEF PaymentMethods!Remove, PaymentMethods!Op, PaymentMethods!None, PaymentMethods!Done
<1>2. /\ request[r] \in MethodRequest /\ m \in PaymentMethods!Methods
      /\ n \in 0 .. MaxRows /\ (n # 0 => request[r].was /\ n # m /\ n \in PaymentMethods!Methods)
  BY <1>1 DEF MethodTypes, MethodRequest, RemovalsKnow, PaymentMethods!Methods
<1>3. gone \in MethodRow /\ removed \in [PaymentMethods!Methods -> MethodRow]
  BY DEF MethodTypes, MethodRow, MethodStatus
<1>4. /\ method' \in [PaymentMethods!Methods -> MethodRow]
      /\ method'[m].status = "REMOVED" /\ method'[m].default = FALSE
      /\ \A k \in PaymentMethods!Methods \ {m} :
           method'[k].status = method[k].status /\ (k # n => method'[k].default = method[k].default)
      /\ n # 0 => method'[n].default = TRUE
  <2>1. CASE n = 0
    BY <1>1, <1>2, <1>3, <2>1 DEF MethodTypes, PaymentMethods!Methods
  <2>2. CASE n # 0
    <3>1. method' = [removed EXCEPT ![n].default = TRUE] /\ n \in PaymentMethods!Methods /\ n # m
      BY <1>1, <1>2, <2>2
    <3>2. removed[n] \in MethodRow /\ removed[m] = gone
      BY <1>2, <1>3, <3>1
    <3>3. [removed[n] EXCEPT !.default = TRUE] \in MethodRow
      BY <3>2 DEF MethodRow
    <3>4. method' \in [PaymentMethods!Methods -> MethodRow]
      BY <1>3, <3>1, <3>3
    <3>5. method'[m] = gone
      BY <1>2, <1>3, <3>1, <3>2
    <3>6. method'[n].status = method[n].status /\ method'[n].default = TRUE
      BY <1>2, <3>1 DEF MethodTypes, MethodRow
    <3>7. \A k \in PaymentMethods!Methods \ {m, n} : method'[k] = method[k]
      BY <1>3, <3>1 DEF MethodTypes
    <3> QED BY <2>2, <3>4, <3>5, <3>6, <3>7
  <2> QED BY <2>1, <2>2
<1> HIDE DEF gone, removed
<1>5. raced' \in BOOLEAN /\ (raced => raced')
  BY <1>1 DEF MethodTypes
<1>6. MethodTypes'
  BY <1>1, <1>4, <1>5, NoMethodRequest DEF MethodTypes
<1>7. \A q \in Requests : request'[q].op # "idle" => request'[q] = request[q] /\ q # r
  BY <1>1, NoMethodRequest DEF MethodTypes
<1>8. /\ PaymentMethods!Active' = PaymentMethods!Active \ {m}
      /\ n \notin PaymentMethods!Active => PaymentMethods!Defaults' = PaymentMethods!Defaults \ {m}
      /\ n \in PaymentMethods!Active => PaymentMethods!Defaults' = {n}
  <2>1. PaymentMethods!Active' = PaymentMethods!Active \ {m}
    BY <1>4 DEF PaymentMethods!Active
  <2>2. ASSUME n \notin PaymentMethods!Active
        PROVE  PaymentMethods!Defaults' = PaymentMethods!Defaults \ {m}
    BY <1>4, <2>1, <2>2 DEF PaymentMethods!Defaults, PaymentMethods!Active
  <2>3. ASSUME n \in PaymentMethods!Active PROVE PaymentMethods!Defaults' = {n}
    <3>1. n # 0 /\ n # m /\ n \in PaymentMethods!Methods /\ PaymentMethods!Defaults \subseteq {m, n}
      BY <1>1, <1>2, <2>3 DEF PaymentMethods!Active, PaymentMethods!Methods
    <3>2. \A k \in PaymentMethods!Active' : k # n => k \notin PaymentMethods!Defaults'
      BY <1>4, <2>1, <3>1 DEF PaymentMethods!Defaults, PaymentMethods!Active
    <3> QED BY <1>4, <2>1, <2>3, <3>1, <3>2 DEF PaymentMethods!Defaults
  <2> QED BY <2>1, <2>2, <2>3
<1>9. OneDefault'
  BY <1>8 DEF OneDefault
<1>10. DefaultIsThere'
  <2> SUFFICES ASSUME ~raced' PROVE /\ \A k \in PaymentMethods!Methods :
                                         method'[k].default => k \in PaymentMethods!Active'
                                    /\ PaymentMethods!Active' # {} => PaymentMethods!Defaults' # {}
    BY DEF DefaultIsThere
  <2>1. ~raced /\ (request[r].was /\ n \notin PaymentMethods!Active
                     => ({n} \cup PaymentMethods!Active) = {0, m})
    BY <1>1
  <2>2. CASE n \in PaymentMethods!Active
    <3>1. \A k \in PaymentMethods!Methods : method'[k].default => k = n \/ k \in PaymentMethods!Active \ {m}
      BY <1>4, <2>1 DEF DefaultIsThere
    <3>2. n \in PaymentMethods!Active'
      BY <1>8, <2>2, <1>2 DEF PaymentMethods!Active, PaymentMethods!Methods
    <3> QED BY <1>8, <2>2, <3>1, <3>2
  <2>3. CASE n \notin PaymentMethods!Active
    <3>1. n = 0
      <4> SUFFICES ASSUME n # 0 PROVE FALSE OBVIOUS
      <4>1. 0 \in {n} \cup PaymentMethods!Active
        BY <1>2, <2>1, <2>3
      <4> QED BY <4>1 DEF PaymentMethods!Active, PaymentMethods!Methods
    <3>2. \A k \in PaymentMethods!Methods : method'[k].default => k # m /\ method[k].default
      BY <1>4, <3>1 DEF PaymentMethods!Methods
    <3>3. \A k \in PaymentMethods!Methods : method'[k].default => k \in PaymentMethods!Active'
      BY <1>8, <2>1, <3>2 DEF DefaultIsThere
    <3>4. CASE request[r].was
      <4>1. PaymentMethods!Active \subseteq {0, m} /\ 0 \notin PaymentMethods!Active
        BY <2>1, <2>3, <3>4 DEF PaymentMethods!Active, PaymentMethods!Methods
      <4> QED BY <1>8, <3>3, <4>1
    <3>5. CASE ~request[r].was
      <4>1. ~method[m].default
        BY <1>1, <2>1, <3>5 DEF HeldRows
      <4>2. m \notin PaymentMethods!Defaults
        BY <4>1 DEF PaymentMethods!Defaults
      <4> QED BY <1>8, <2>1, <2>3, <3>3, <4>2 DEF DefaultIsThere
    <3> QED BY <3>4, <3>5
  <2> QED BY <2>2, <2>3
<1>11. CreationsCount'
  BY <1>7 DEF CreationsCount
<1>12. RemovalsKnow'
  <2>1. \A k \in PaymentMethods!Methods : method[k].status # "none" => method'[k].status # "none"
    BY <1>2, <1>4
  <2> QED BY <1>7, <2>1 DEF RemovalsKnow
<1>13. HeldRows'
  <2>1. ASSUME NEW q \in Requests, request'[q].op = "promote"
        PROVE  request[q].id # m /\ request[q].id # n /\ request[q].id \in PaymentMethods!Methods
    <3>1. q # r /\ request[q].op = "promote" /\ request[q].id \in PaymentMethods!Held
      BY <1>7, <2>1, HeldIsHeld
    <3> QED BY <1>1, <3>1 DEF HeldRows, RemovalsKnow
  <2>2. ASSUME ~raced', NEW q \in Requests, request'[q].op = "promote"
        PROVE  method'[request'[q].id].default = request'[q].was
    BY <1>4, <1>5, <1>7, <2>1, <2>2 DEF HeldRows
  <2> QED BY <1>7, <2>2 DEF HeldRows
<1> QED BY <1>6, <1>9, <1>10, <1>11, <1>12, <1>13

LEMMA MethodsNext ==
  MaxRows \in Nat /\ MethodsInv /\ [PaymentMethods!Next]_PaymentMethods!vars => MethodsInv'
<1> SUFFICES ASSUME MaxRows \in Nat, MethodsInv, [PaymentMethods!Next]_PaymentMethods!vars
             PROVE MethodsInv' OBVIOUS
<1>1. CASE UNCHANGED PaymentMethods!vars
  BY <1>1 DEF PaymentMethods!vars, MethodsInv, MethodTypes, OneDefault, DefaultIsThere,
              CreationsCount, RemovalsKnow, HeldRows, PaymentMethods!Active,
              PaymentMethods!Defaults
<1>2. ASSUME NEW r \in Requests, PaymentMethods!Refuse(r) PROVE MethodsInv'
  BY <1>2, NoMethodRequest, RequestsAgree DEF PaymentMethods!Refuse, PaymentMethods!Done
<1> QED BY <1>1, <1>2, BeginKeeps, ReadKeeps, CreateKeeps, SetDefaultKeeps, WriteKeeps, RemoveKeeps
        DEF PaymentMethods!Next

LEMMA MethodsAreRight == MethodsInv => PaymentMethods!TypeOK /\ PaymentMethods!DefaultIsActive
<1> SUFFICES ASSUME MethodsInv PROVE PaymentMethods!TypeOK /\ PaymentMethods!DefaultIsActive OBVIOUS
<1> USE DEF MethodsInv
<1>1. PaymentMethods!TypeOK
  BY DEF PaymentMethods!TypeOK, MethodTypes, MethodRow, MethodStatus
<1>2. PaymentMethods!Cardinality(PaymentMethods!Defaults) <= 1
  <2>1. \A S : PaymentMethods!Cardinality(S) = Cardinality(S)
    BY DEF PaymentMethods!Cardinality, Cardinality
  <2>2. CASE PaymentMethods!Defaults = {}
    BY <2>1, <2>2, FS_EmptySet
  <2>3. CASE PaymentMethods!Defaults # {}
    <3>1. PICK m \in PaymentMethods!Defaults : TRUE
      BY <2>3
    <3>2. PaymentMethods!Defaults = {m}
      BY <3>1 DEF OneDefault
    <3> QED BY <2>1, <3>2, FS_Singleton
  <2> QED BY <2>2, <2>3
<1> QED BY <1>1, <1>2 DEF PaymentMethods!DefaultIsActive, DefaultIsThere

\* A driver never has two default methods; and unless a request has written on what another had
\* changed since it read, the default is an active method, and there is one as long as there is an
\* active method (create, setDefault, remove): alone, and among the other services.
THEOREM OneMethodIsDefault ==
  ASSUME MaxRows \in Nat
  PROVE  /\ PaymentMethods!Spec => [](PaymentMethods!TypeOK /\ PaymentMethods!DefaultIsActive)
         /\ MCSpec => []DefaultIsActive
<1>1. PaymentMethods!Spec => [](PaymentMethods!TypeOK /\ PaymentMethods!DefaultIsActive)
  BY MethodsInit, MethodsNext, MethodsAreRight, PTL DEF PaymentMethods!Spec
<1> DEFINE Inv == focus = "methods" => MethodsInv
<1>2. MCInit => Inv
  BY MethodsInit, Zenon DEF MCInit
<1>3. Inv /\ [MCNext]_allVars => Inv'
  <2> SUFFICES ASSUME Inv, [MCNext]_allVars PROVE Inv' OBVIOUS
  <2>1. focus' = focus
    BY DEF MCNext, Rest, allVars
  <2>2. focus = "methods" => [PaymentMethods!Next]_PaymentMethods!vars
    BY DEF MCNext, Step, allVars, vars, PaymentMethods!vars
  <2> QED BY <2>1, <2>2, MethodsNext
<1>4. Inv => DefaultIsActive
  BY MethodsAreRight DEF DefaultIsActive
<1> HIDE DEF Inv
<1>5. MCSpec => []DefaultIsActive
  BY <1>2, <1>3, <1>4, PTL DEF MCSpec
<1> QED BY <1>1, <1>5

-----------------------------------------------------------------------------
(***************************************************************************)
(* A garage keeps its default vehicle, for any requests of its driver at   *)
(* one time.                                                               *)
(*                                                                         *)
(* The argument: every write of a vehicle raises its version, so a request *)
(* whose version is still the one in the table knows whether its vehicle   *)
(* is the default; a replacement is chosen only for a default, and is      *)
(* another vehicle; and whoever makes a vehicle the default takes that     *)
(* from the only one that had it.                                          *)
(***************************************************************************)

GarageRow == [live : BOOLEAN, active : BOOLEAN, default : BOOLEAN, version : Nat]
GarageRequest == [op : {"idle", "create", "update", "setDefault", "remove", "promote"},
                  id : Garage!Vehicles \cup {Garage!None}, version : Nat, default : BOOLEAN,
                  active : BOOLEAN, seen : SUBSET Garage!Vehicles,
                  next : Garage!Vehicles \cup {Garage!None}]

GarageTypes ==
  /\ vehicle \in [Garage!Vehicles -> GarageRow]
  /\ request \in [Requests -> GarageRequest]

OneMainVehicle == \A v, w \in Garage!Defaults : v = w

\* A request that has read a vehicle knows whether it is the default, unless its version is an old one.
VersionTellsDefault ==
  \A r \in Requests :
    request[r].op \in {"update", "setDefault", "remove", "promote"} =>
      /\ request[r].id \in Garage!Vehicles
      /\ request[r].version <= vehicle[request[r].id].version
      /\ request[r].version = vehicle[request[r].id].version =>
           request[r].default = vehicle[request[r].id].default

\* A replacement is chosen for a default, and is another vehicle.
ReplacesDefault ==
  \A r \in Requests :
    request[r].op = "promote" =>
      /\ request[r].next # request[r].id
      /\ request[r].next # Garage!None => request[r].default

GarageInv == GarageTypes /\ OneMainVehicle /\ VersionTellsDefault /\ ReplacesDefault

LEMMA NoGarageRequest ==
  /\ Garage!NoRequest \in GarageRequest
  /\ Garage!NoRequest.op = "idle"
  /\ Garage!NoVehicle \in GarageRow /\ ~Garage!NoVehicle.live /\ Garage!NoVehicle.version = 0
BY DEF Garage!NoRequest, GarageRequest, Garage!NoVehicle, GarageRow

LEMMA GarageInit == Garage!Init => GarageInv
<1> SUFFICES ASSUME Garage!Init PROVE GarageInv OBVIOUS
<1>1. GarageTypes
  BY NoGarageRequest DEF Garage!Init, GarageTypes
<1>2. \A v \in Garage!Vehicles : ~vehicle[v].live
  BY NoGarageRequest DEF Garage!Init
<1>3. \A r \in Requests : request[r].op = "idle"
  BY NoGarageRequest DEF Garage!Init
<1>4. OneMainVehicle
  BY <1>2 DEF OneMainVehicle, Garage!Defaults, Garage!Live
<1>5. VersionTellsDefault /\ ReplacesDefault
  BY <1>3 DEF VersionTellsDefault, ReplacesDefault
<1> QED BY <1>1, <1>4, <1>5 DEF GarageInv

\* A write leaves a vehicle as it is or raises its version.
Grows(v) == vehicle'[v] = vehicle[v] \/ vehicle'[v].version = vehicle[v].version + 1

\* What requests know stays so as vehicles grow, for those that go on and those that are over.
LEMMA KnowledgeStays ==
  ASSUME GarageInv, \A v \in Garage!Vehicles : Grows(v),
         \A r \in Requests : request'[r] = request[r] \/ request'[r].op = "idle"
  PROVE  VersionTellsDefault' /\ ReplacesDefault'
<1>1. ReplacesDefault'
  BY DEF GarageInv, ReplacesDefault
<1>2. ASSUME NEW r \in Requests, request'[r].op \in {"update", "setDefault", "remove", "promote"}
      PROVE  /\ request'[r].id \in Garage!Vehicles
             /\ request'[r].version <= vehicle'[request'[r].id].version
             /\ request'[r].version = vehicle'[request'[r].id].version =>
                  request'[r].default = vehicle'[request'[r].id].default
  <2>1. request'[r] = request[r]
    BY <1>2
  <2>2. PICK v : v = request[r].id
    OBVIOUS
  <2>3. /\ v \in Garage!Vehicles /\ request[r].version <= vehicle[v].version
        /\ request[r].version = vehicle[v].version => request[r].default = vehicle[v].default
    BY <1>2, <2>1, <2>2 DEF GarageInv, VersionTellsDefault
  <2>4. vehicle[v].version \in Nat /\ request[r].version \in Nat
    BY <2>3 DEF GarageInv, GarageTypes, GarageRow, GarageRequest
  <2>5. Grows(v)
    BY <2>3
  <2> QED BY <2>1, <2>2, <2>3, <2>4, <2>5 DEF Grows
<1> QED BY <1>1, <1>2 DEF VersionTellsDefault

LEMMA BumpRaises ==
  ASSUME GarageInv, NEW v \in Garage!Vehicles
  PROVE  /\ Garage!Bump(v) \in GarageRow
         /\ Garage!Bump(v).version = vehicle[v].version + 1
         /\ Garage!Bump(v).live = vehicle[v].live
         /\ Garage!Bump(v).active = vehicle[v].active
         /\ Garage!Bump(v).default = vehicle[v].default
BY DEF GarageInv, GarageTypes, GarageRow, Garage!Bump

\* One vehicle is written, with the default of the others cleared if it is to be one.
LEMMA WriteKeepsDefault ==
  ASSUME GarageInv, NEW v \in Garage!Vehicles, NEW written \in GarageRow,
         written.live, written.version = vehicle[v].version + 1,
         written.default \/ v \notin Garage!Defaults,
         vehicle' = Garage!WithDefault(v, written)
  PROVE  /\ vehicle' \in [Garage!Vehicles -> GarageRow]
         /\ \A o \in Garage!Vehicles : Grows(o)
         /\ OneMainVehicle'
         /\ Garage!Defaults # {} => Garage!Defaults' # {}
<1>1. PICK cleared : cleared = [o \in Garage!Vehicles |-> [Garage!Bump(o) EXCEPT !.default = FALSE]]
  OBVIOUS
<1>2. ASSUME NEW o \in Garage!Vehicles
      PROVE  /\ cleared[o] \in GarageRow /\ ~cleared[o].default
             /\ cleared[o].version = vehicle[o].version + 1
  <2>1. PICK bumped : bumped = Garage!Bump(o)
    OBVIOUS
  <2>2. bumped \in GarageRow /\ bumped.version = vehicle[o].version + 1
    BY <2>1, BumpRaises
  <2>3. cleared[o] = [bumped EXCEPT !.default = FALSE]
    BY <1>1, <2>1
  <2> QED BY <2>2, <2>3 DEF GarageRow
<1>3. /\ DOMAIN vehicle' = Garage!Vehicles
      /\ vehicle'[v] = written
      /\ \A o \in Garage!Vehicles \ {v} :
           vehicle'[o] = IF written.default /\ o \in Garage!Defaults THEN cleared[o] ELSE vehicle[o]
  BY <1>1 DEF Garage!WithDefault
<1>4. vehicle' \in [Garage!Vehicles -> GarageRow]
  <2>1. \A o \in Garage!Vehicles : vehicle'[o] \in GarageRow
    BY <1>2, <1>3 DEF GarageInv, GarageTypes
  <2>2. vehicle' = [o \in Garage!Vehicles |-> vehicle'[o]]
    BY DEF Garage!WithDefault
  <2> QED BY <2>1, <2>2
<1>5. \A o \in Garage!Vehicles : Grows(o)
  BY <1>2, <1>3 DEF Grows
<1>6. CASE written.default
  <2>1. v \in Garage!Defaults'
    BY <1>3, <1>6 DEF Garage!Defaults, Garage!Live
  <2>2. \A o \in Garage!Vehicles \ {v} : o \notin Garage!Defaults'
    BY <1>2, <1>3, <1>6 DEF Garage!Defaults, Garage!Live
  <2>3. OneMainVehicle'
    BY <2>2 DEF OneMainVehicle, Garage!Defaults, Garage!Live
  <2> QED BY <1>4, <1>5, <2>1, <2>3
<1>7. CASE ~written.default
  <2>1. v \notin Garage!Defaults
    BY <1>7
  <2>2. \A o \in Garage!Vehicles : o \in Garage!Defaults' <=> o \in Garage!Defaults
    BY <1>3, <1>7, <2>1 DEF Garage!Defaults, Garage!Live
  <2>3. Garage!Defaults' = Garage!Defaults
    BY <2>2 DEF Garage!Defaults, Garage!Live
  <2> QED BY <1>4, <1>5, <2>3 DEF GarageInv, OneMainVehicle
<1> QED BY <1>6, <1>7

\* A request that reads or goes on leaves the vehicles as they are.
LEMMA ReadingKeeps ==
  ASSUME GarageInv, NEW r \in Requests, UNCHANGED vehicle, NEW next \in GarageRequest,
         request' = [request EXCEPT ![r] = next],
         next.op \in {"update", "setDefault", "remove", "promote"} =>
           /\ next.id \in Garage!Vehicles
           /\ next.version = vehicle[next.id].version /\ next.default = vehicle[next.id].default,
         next.op = "promote" =>
           next.next # next.id /\ (next.next # Garage!None => next.default)
  PROVE  GarageInv' /\ Garage!Defaults' = Garage!Defaults
<1>1. GarageTypes'
  BY DEF GarageInv, GarageTypes
<1>2. Garage!Defaults' = Garage!Defaults
  BY DEF Garage!Defaults, Garage!Live
<1>3. /\ request'[r] = next
      /\ \A q \in Requests \ {r} : request'[q] = request[q]
  BY DEF GarageInv, GarageTypes
<1>4. next.id \in Garage!Vehicles => vehicle[next.id].version \in Nat
  BY DEF GarageInv, GarageTypes, GarageRow
<1>5. VersionTellsDefault'
  BY <1>3, <1>4 DEF GarageInv, VersionTellsDefault
<1>6. ReplacesDefault'
  BY <1>3 DEF GarageInv, ReplacesDefault
<1> QED BY <1>1, <1>2, <1>5, <1>6 DEF GarageInv, OneMainVehicle

\* A write by the last step of a request.
LEMMA WritingKeeps ==
  ASSUME GarageInv, NEW r \in Requests, Garage!Done(r),
         vehicle' \in [Garage!Vehicles -> GarageRow], OneMainVehicle',
         \A o \in Garage!Vehicles : Grows(o)
  PROVE  GarageInv'
<1>1. request' = [request EXCEPT ![r] = Garage!NoRequest]
  BY DEF Garage!Done
<1>2. GarageTypes'
  BY <1>1, NoGarageRequest DEF GarageInv, GarageTypes
<1>3. \A q \in Requests : request'[q] = request[q] \/ request'[q].op = "idle"
  BY <1>1, NoGarageRequest DEF GarageInv, GarageTypes
<1> QED BY <1>2, <1>3, KnowledgeStays DEF GarageInv

\* What no step but a removal does.
GarageStep == GarageInv' /\ (Garage!Defaults # {} => Garage!Defaults' # {})

LEMMA CreateIsKept ==
  ASSUME MaxRows \in Nat, GarageInv, NEW r \in Requests, Garage!Create(r)
  PROVE  GarageStep
<1>1. PICK m : m = Garage!Min(Garage!Unused)
  OBVIOUS
<1>2. m \in Garage!Vehicles /\ vehicle[m] = Garage!NoVehicle
  <2>1. Garage!Unused \in SUBSET Nat /\ Garage!Unused # {}
    BY DEF Garage!Unused, Garage!Vehicles, Garage!Create
  <2>2. PaymentMethods!Min(Garage!Unused) \in Garage!Unused
    BY <2>1, MinIsMember
  <2>3. Garage!Min(Garage!Unused) = PaymentMethods!Min(Garage!Unused)
    BY DEF Garage!Min, PaymentMethods!Min
  <2> QED BY <1>1, <2>2, <2>3 DEF Garage!Unused
<1>3. PICK written : written = [live |-> TRUE, active |-> request[r].active,
                        default |-> request[r].default, version |-> 1]
  OBVIOUS
<1>4. written \in GarageRow /\ written.live /\ written.version = 1
  BY <1>3 DEF GarageInv, GarageTypes, GarageRow, GarageRequest
<1>5. vehicle' = Garage!WithDefault(m, written) /\ Garage!Done(r)
  BY <1>1, <1>3 DEF Garage!Create
<1>6. m \notin Garage!Defaults /\ vehicle[m].version = 0
  BY <1>2, NoGarageRequest DEF Garage!Defaults, Garage!Live
<1>7. /\ vehicle' \in [Garage!Vehicles -> GarageRow]
      /\ \A o \in Garage!Vehicles : Grows(o)
      /\ OneMainVehicle'
      /\ Garage!Defaults # {} => Garage!Defaults' # {}
  BY <1>2, <1>4, <1>5, <1>6, WriteKeepsDefault
<1> QED BY <1>5, <1>7, WritingKeeps DEF GarageStep

LEMMA UpdateIsKept ==
  ASSUME GarageInv, NEW r \in Requests, NEW isDefault \in {"yes", "no", "keep"},
         NEW status \in {"ACTIVE", "INACTIVE", "keep"}, Garage!Update(r, isDefault, status)
  PROVE  GarageStep
<1>1. PICK v : v = request[r].id
  OBVIOUS
<1>2. /\ v \in Garage!Vehicles /\ vehicle[v].live
      /\ request[r].default = vehicle[v].default
  BY <1>1 DEF Garage!Update, Garage!Op, Garage!Unchanged, Garage!Live, GarageInv,
     VersionTellsDefault
<1>3. PICK bumped : bumped = Garage!Bump(v)
  OBVIOUS
<1>4. /\ bumped \in GarageRow /\ bumped.live /\ bumped.version = vehicle[v].version + 1
      /\ bumped.default = vehicle[v].default
  BY <1>2, <1>3, BumpRaises
<1>5. PICK default \in BOOLEAN : default = IF isDefault = "keep" THEN bumped.default ELSE isDefault = "yes"
  <2>1. bumped.default \in BOOLEAN
    BY <1>4 DEF GarageRow
  <2> QED BY <2>1, Zenon
<1>6. PICK active \in BOOLEAN : active = IF status = "keep" THEN bumped.active ELSE status = "ACTIVE"
  <2>1. bumped.active \in BOOLEAN
    BY <1>4 DEF GarageRow
  <2> QED BY <2>1, Zenon
<1>7. PICK written : written = [bumped EXCEPT !.default = default, !.active = active]
  OBVIOUS
<1>8. written \in GarageRow /\ written.live /\ written.version = vehicle[v].version + 1 /\ written.default = default
  BY <1>4, <1>7 DEF GarageRow
<1>9. vehicle' = Garage!WithDefault(v, written) /\ Garage!Done(r)
  BY <1>1, <1>3, <1>5, <1>6, <1>7, Zenon DEF Garage!Update
<1>10. default \/ v \notin Garage!Defaults
  <2>1. ~(request[r].default /\ isDefault = "no")
    BY DEF Garage!Update
  <2>2. CASE isDefault = "yes"
    BY <1>5, <2>2
  <2>3. CASE isDefault = "no"
    BY <1>2, <2>1, <2>3 DEF Garage!Defaults
  <2>4. CASE isDefault = "keep"
    BY <1>4, <1>5, <2>4 DEF Garage!Defaults
  <2> QED BY <2>2, <2>3, <2>4
<1>11. /\ vehicle' \in [Garage!Vehicles -> GarageRow]
       /\ \A o \in Garage!Vehicles : Grows(o)
       /\ OneMainVehicle'
       /\ Garage!Defaults # {} => Garage!Defaults' # {}
  BY <1>2, <1>8, <1>9, <1>10, WriteKeepsDefault
<1> QED BY <1>9, <1>11, WritingKeeps DEF GarageStep

LEMMA SetDefaultIsKept ==
  ASSUME GarageInv, NEW r \in Requests, Garage!SetDefault(r)
  PROVE  GarageStep
<1>1. PICK v : v = request[r].id
  OBVIOUS
<1>2. v \in Garage!Vehicles /\ vehicle[v].live
  BY <1>1 DEF Garage!SetDefault, Garage!Unchanged, Garage!Live
<1>3. PICK bumped : bumped = Garage!Bump(v)
  OBVIOUS
<1>4. bumped \in GarageRow /\ bumped.live /\ bumped.version = vehicle[v].version + 1
  BY <1>2, <1>3, BumpRaises
<1>5. PICK written : written = [bumped EXCEPT !.default = TRUE]
  OBVIOUS
<1>6. written \in GarageRow /\ written.live /\ written.version = vehicle[v].version + 1 /\ written.default
  BY <1>4, <1>5 DEF GarageRow
<1>7. vehicle' = Garage!WithDefault(v, written) /\ Garage!Done(r)
  BY <1>1, <1>3, <1>5 DEF Garage!SetDefault
<1>8. /\ vehicle' \in [Garage!Vehicles -> GarageRow]
      /\ \A o \in Garage!Vehicles : Grows(o)
      /\ OneMainVehicle'
      /\ Garage!Defaults # {} => Garage!Defaults' # {}
  BY <1>2, <1>6, <1>7, WriteKeepsDefault
<1> QED BY <1>7, <1>8, WritingKeeps DEF GarageStep

\* The replacement that is found is another vehicle, and for a default only.
LEMMA FindingIsKept ==
  ASSUME MaxRows \in Nat, GarageInv, NEW r \in Requests, Garage!FindReplacement(r)
  PROVE  GarageStep
<1>1. PICK others : others = {v \in Garage!Live \ {request[r].id} : vehicle[v].active}
  OBVIOUS
<1>2. PICK chosen : chosen = IF request[r].default /\ others # {} THEN Garage!Min(others) ELSE Garage!None
  OBVIOUS
<1>3. chosen # Garage!None => request[r].default /\ chosen \in others
  <2>1. others \in SUBSET Nat
    BY <1>1 DEF Garage!Live, Garage!Vehicles
  <2>2. others # {} => PaymentMethods!Min(others) \in others
    BY <2>1, MinIsMember
  <2>3. Garage!Min(others) = PaymentMethods!Min(others)
    BY DEF Garage!Min, PaymentMethods!Min
  <2> QED BY <1>2, <2>2, <2>3
<1>4. /\ request[r].id \in Garage!Vehicles /\ request[r].id # Garage!None
      /\ request[r].version = vehicle[request[r].id].version
      /\ request[r].default = vehicle[request[r].id].default
  BY DEF Garage!FindReplacement, Garage!Op, Garage!Unchanged, Garage!Live, GarageInv,
         VersionTellsDefault, Garage!Vehicles, Garage!None
<1>5. chosen \in Garage!Vehicles \cup {Garage!None} /\ chosen # request[r].id
  BY <1>1, <1>3, <1>4 DEF Garage!Live
<1>6. PICK next : next = [request[r] EXCEPT !.op = "promote", !.next = chosen]
  OBVIOUS
<1>7. /\ next \in GarageRequest /\ next.next = chosen /\ next.id = request[r].id
      /\ next.version = request[r].version /\ next.default = request[r].default
  BY <1>5, <1>6 DEF GarageInv, GarageTypes, GarageRequest
<1>8. UNCHANGED vehicle /\ request' = [request EXCEPT ![r] = next]
  <2>1. request' = [request EXCEPT ![r].op = "promote", ![r].next = chosen]
    BY <1>1, <1>2 DEF Garage!FindReplacement
  <2>2. UNCHANGED vehicle
    BY DEF Garage!FindReplacement
  <2> QED BY <1>6, <2>1, <2>2 DEF GarageInv, GarageTypes, GarageRequest
<1> QED BY <1>3, <1>4, <1>5, <1>7, <1>8, ReadingKeeps DEF GarageStep

\* The replacement is promoted, whatever has become of it.
LEMMA RemovalIsKept ==
  ASSUME GarageInv, NEW r \in Requests, Garage!Remove(r)
  PROVE  /\ GarageInv'
         /\ Garage!Defaults # {} /\ Garage!Defaults' = {} =>
              Garage!Defaults = {request[r].id} /\ request[r].next \notin Garage!Live
<1>1. PICK v : v = request[r].id
  OBVIOUS
<1>2. PICK n : n = request[r].next
  OBVIOUS
<1>3. /\ v \in Garage!Vehicles /\ v \in Garage!Live /\ request[r].default = vehicle[v].default
      /\ n # v /\ n \in Garage!Vehicles \cup {Garage!None}
      /\ n # Garage!None => vehicle[v].default
      /\ n # Garage!None => Garage!Defaults = {v}
  <2>1. v \in Garage!Live /\ vehicle[v].version = request[r].version /\ request[r].op = "promote"
    BY <1>1 DEF Garage!Remove, Garage!Op, Garage!Unchanged
  <2>2. /\ v \in Garage!Vehicles /\ request[r].default = vehicle[v].default
        /\ n # v /\ (n # Garage!None => vehicle[v].default)
    BY <1>1, <1>2, <2>1 DEF GarageInv, VersionTellsDefault, ReplacesDefault
  <2>3. n \in Garage!Vehicles \cup {Garage!None}
    BY <1>2 DEF GarageInv, GarageTypes, GarageRequest
  <2>4. n # Garage!None => Garage!Defaults = {v}
    BY <2>1, <2>2 DEF GarageInv, OneMainVehicle, Garage!Defaults
  <2> QED BY <2>1, <2>2, <2>3, <2>4
<1>4. PICK gone : gone = [Garage!Bump(v) EXCEPT !.live = FALSE, !.default = FALSE]
  OBVIOUS
<1>5. gone \in GarageRow /\ ~gone.live /\ gone.version = vehicle[v].version + 1
  <2>1. PICK bumped : bumped = Garage!Bump(v)
    OBVIOUS
  <2>2. bumped \in GarageRow /\ bumped.version = vehicle[v].version + 1
    BY <1>3, <2>1, BumpRaises
  <2>3. gone = [bumped EXCEPT !.live = FALSE, !.default = FALSE]
    BY <1>4, <2>1
  <2> QED BY <2>2, <2>3 DEF GarageRow
<1>6. PICK promoted : promoted = [Garage!Bump(n) EXCEPT !.default = TRUE]
  OBVIOUS
<1>7. n \in Garage!Vehicles =>
        /\ promoted \in GarageRow /\ promoted.version = vehicle[n].version + 1
        /\ promoted.default /\ promoted.live = vehicle[n].live
  <2> SUFFICES ASSUME n \in Garage!Vehicles
      PROVE  /\ promoted \in GarageRow /\ promoted.version = vehicle[n].version + 1
             /\ promoted.default /\ promoted.live = vehicle[n].live
    OBVIOUS
  <2>1. PICK bumped : bumped = Garage!Bump(n)
    OBVIOUS
  <2>2. bumped \in GarageRow /\ bumped.version = vehicle[n].version + 1 /\ bumped.live = vehicle[n].live
    BY <2>1, BumpRaises
  <2>3. promoted = [bumped EXCEPT !.default = TRUE]
    BY <1>6, <2>1
  <2> QED BY <2>2, <2>3 DEF GarageRow
<1>8. vehicle' = [o \in Garage!Vehicles |->
                    IF o = v THEN gone ELSE IF o = n THEN promoted ELSE vehicle[o]]
  BY <1>1, <1>2, <1>4, <1>6 DEF Garage!Remove
<1>9. vehicle' \in [Garage!Vehicles -> GarageRow] /\ \A o \in Garage!Vehicles : Grows(o)
  BY <1>5, <1>7, <1>8 DEF Grows, GarageInv, GarageTypes
<1>10. \A o \in Garage!Vehicles : o \in Garage!Defaults' <=>
         \/ o \in Garage!Defaults /\ o # v /\ o # n
         \/ o = n /\ n \in Garage!Live
  BY <1>3, <1>5, <1>7, <1>8 DEF Garage!Defaults, Garage!Live
<1>11. \A o \in Garage!Defaults' : o \in Garage!Vehicles
  BY DEF Garage!Defaults, Garage!Live
<1>12. OneMainVehicle'
  <2>1. CASE n = Garage!None
    <3>1. n \notin Garage!Live
      BY <2>1 DEF Garage!None, Garage!Live, Garage!Vehicles
    <3> QED BY <1>10, <1>11, <3>1 DEF GarageInv, OneMainVehicle
  <2>2. CASE n # Garage!None
    <3>1. \A o \in Garage!Defaults' : o = n
      BY <1>3, <1>10, <1>11, <2>2
    <3> QED BY <3>1 DEF OneMainVehicle
  <2> QED BY <2>1, <2>2
<1>13. ASSUME Garage!Defaults # {}, Garage!Defaults' = {}
       PROVE  Garage!Defaults = {v} /\ n \notin Garage!Live
  <2>1. n \notin Garage!Live
    BY <1>10, <1>13 DEF Garage!Live
  <2>2. \A o \in Garage!Defaults : o \in Garage!Vehicles /\ (o = v \/ o = n)
    BY <1>10, <1>13 DEF Garage!Defaults, Garage!Live
  <2>3. \A o \in Garage!Defaults : o = v
    BY <2>1, <2>2 DEF Garage!Defaults
  <2> QED BY <1>13, <2>1, <2>3
<1>14. Garage!Done(r)
  BY DEF Garage!Remove
<1>15. GarageInv'
  BY <1>9, <1>12, <1>14, WritingKeeps
<1> QED BY <1>1, <1>2, <1>13, <1>15

\* One default at most, as the module counts them.
LEMMA CountedOnce ==
  ASSUME NEW S, \A v, w \in S : v = w
  PROVE  Garage!Cardinality(S) <= 1
<1>1. Garage!Cardinality(S) = Cardinality(S)
  BY DEF Garage!Cardinality, Cardinality
<1>2. CASE S = {}
  BY <1>1, <1>2, FS_EmptySet
<1>3. CASE S # {}
  <2>1. PICK v \in S : TRUE
    BY <1>3
  <2>2. S = {v}
    BY <2>1
  <2>3. Cardinality({v}) = 1
    BY FS_Singleton
  <2> QED BY <1>1, <2>2, <2>3
<1> QED BY <1>2, <1>3

LEMMA GarageNext ==
  ASSUME MaxRows \in Nat, GarageInv, [Garage!Next]_Garage!vars
  PROVE  GarageInv' /\ Garage!KeepsDefault
<1> DEFINE Good == /\ GarageInv'
                   /\ Garage!Defaults # {} /\ Garage!Defaults' = {} =>
                        \E r \in Requests :
                          /\ Garage!Op(r) = "promote" /\ Garage!Defaults = {request[r].id}
                          /\ request[r].next \notin Garage!Live
<1>1. ASSUME UNCHANGED Garage!vars PROVE Good
  <2>1. vehicle' = vehicle /\ request' = request
    BY <1>1 DEF Garage!vars
  <2>2. GarageInv'
    BY <2>1 DEF GarageInv, GarageTypes, OneMainVehicle, VersionTellsDefault, ReplacesDefault,
                Garage!Defaults, Garage!Live
  <2>3. Garage!Defaults' = Garage!Defaults
    BY <2>1 DEF Garage!Defaults, Garage!Live
  <2> QED BY <2>2, <2>3
<1>2. ASSUME NEW r \in Requests, NEW default \in BOOLEAN, NEW active \in BOOLEAN,
             Garage!BeginCreate(r, default, active)
      PROVE  Good
  <2>1. PICK first \in BOOLEAN : first = (default \/ Garage!Live = {})
    BY Zenon
  <2>2. PICK next : next = [Garage!NoRequest EXCEPT
                      !.op = "create", !.seen = Garage!Live, !.default = first, !.active = active]
    OBVIOUS
  <2>3. next \in GarageRequest /\ next.op = "create"
    <3>1. Garage!Live \subseteq Garage!Vehicles
      BY DEF Garage!Live
    <3> QED BY <2>2, <3>1, NoGarageRequest DEF GarageRequest
  <2>4. UNCHANGED vehicle /\ request' = [request EXCEPT ![r] = next]
    BY <1>2, <2>1, <2>2, Zenon DEF Garage!BeginCreate
  <2> QED BY <2>3, <2>4, ReadingKeeps
<1>3. ASSUME NEW r \in Requests, NEW v \in Garage!Vehicles, NEW op \in {"update", "setDefault", "remove"},
             Garage!Read(r, op, v)
      PROVE  Good
  <2>1. PICK next : next = [Garage!NoRequest EXCEPT !.op = op, !.id = v,
                      !.version = vehicle[v].version, !.default = vehicle[v].default]
    OBVIOUS
  <2>2. /\ next \in GarageRequest /\ next.op = op /\ next.id = v
        /\ next.version = vehicle[v].version /\ next.default = vehicle[v].default
    <3>1. vehicle[v].version \in Nat /\ vehicle[v].default \in BOOLEAN
      BY DEF GarageInv, GarageTypes, GarageRow
    <3> QED BY <2>1, <3>1, NoGarageRequest DEF GarageRequest
  <2>3. UNCHANGED vehicle /\ request' = [request EXCEPT ![r] = next]
    BY <1>3, <2>1 DEF Garage!Read
  <2> QED BY <2>2, <2>3, ReadingKeeps
<1>4. ASSUME NEW r \in Requests, NEW v \in Garage!Vehicles, Garage!BeginDuplicate(r, v) PROVE Good
  BY <1>2, <1>4 DEF Garage!BeginDuplicate
<1>5. ASSUME NEW r \in Requests, NEW v \in Garage!Vehicles, Garage!BeginSetDefault(r, v) PROVE Good
  BY <1>3, <1>5 DEF Garage!BeginSetDefault
<1>6. ASSUME NEW r \in Requests, Garage!Create(r) \/ Garage!SetDefault(r) \/ Garage!FindReplacement(r)
      PROVE  Good
  BY <1>6, CreateIsKept, SetDefaultIsKept, FindingIsKept DEF GarageStep
<1>7. ASSUME NEW r \in Requests, NEW d \in {"yes", "no", "keep"}, NEW s \in {"ACTIVE", "INACTIVE", "keep"},
             Garage!Update(r, d, s)
      PROVE  Good
  BY <1>7, UpdateIsKept DEF GarageStep
<1>8. ASSUME NEW r \in Requests, Garage!Remove(r) PROVE Good
  <2>1. Garage!Op(r) = "promote"
    BY <1>8 DEF Garage!Remove
  <2> QED BY <1>8, <2>1, RemovalIsKept
<1>9. ASSUME NEW r \in Requests, Garage!Refuse(r) PROVE Good
  <2>1. UNCHANGED vehicle /\ request' = [request EXCEPT ![r] = Garage!NoRequest]
    BY <1>9 DEF Garage!Refuse, Garage!Done
  <2> QED BY <2>1, NoGarageRequest, ReadingKeeps
<1> HIDE DEF Good
<1>10. Good
  <2>1. CASE UNCHANGED Garage!vars
    BY <1>1, <2>1
  <2>2. CASE Garage!Next
    <3>1. PICK r \in Requests :
            \/ \E default, active \in BOOLEAN : Garage!BeginCreate(r, default, active)
            \/ \E v \in Garage!Vehicles : Garage!BeginDuplicate(r, v)
            \/ \E v \in Garage!Vehicles :
                 Garage!Read(r, "update", v) \/ Garage!BeginSetDefault(r, v) \/ Garage!Read(r, "remove", v)
            \/ \E d \in {"yes", "no", "keep"}, s \in {"ACTIVE", "INACTIVE", "keep"} : Garage!Update(r, d, s)
            \/ Garage!Create(r) \/ Garage!SetDefault(r) \/ Garage!FindReplacement(r)
            \/ Garage!Remove(r) \/ Garage!Refuse(r)
      BY <2>2 DEF Garage!Next
    <3>2. CASE \E default, active \in BOOLEAN : Garage!BeginCreate(r, default, active)
      BY <1>2, <3>2
    <3>3. CASE \E v \in Garage!Vehicles : Garage!BeginDuplicate(r, v)
      BY <1>4, <3>3
    <3>4. CASE \E v \in Garage!Vehicles :
                 Garage!Read(r, "update", v) \/ Garage!BeginSetDefault(r, v) \/ Garage!Read(r, "remove", v)
      BY <1>3, <1>5, <3>4
    <3>5. CASE \E d \in {"yes", "no", "keep"}, s \in {"ACTIVE", "INACTIVE", "keep"} : Garage!Update(r, d, s)
      BY <1>7, <3>5
    <3>6. CASE \/ Garage!Create(r) \/ Garage!SetDefault(r) \/ Garage!FindReplacement(r)
               \/ Garage!Remove(r) \/ Garage!Refuse(r)
      BY <1>6, <1>8, <1>9, <3>6
    <3> QED BY <3>1, <3>2, <3>3, <3>4, <3>5, <3>6
  <2> QED BY <2>1, <2>2
<1>11. \A v, w \in Garage!Defaults' : v = w
  BY <1>10 DEF Good, GarageInv, OneMainVehicle
<1>12. Garage!Cardinality(Garage!Defaults') <= 1
  BY <1>11, CountedOnce
<1> QED BY <1>10, <1>12 DEF Good, Garage!KeepsDefault

\* No two vehicles of a garage are the default, and a garage that has one loses it only to the removal of
\* that vehicle, and only if no other was active or the one chosen in its place was removed before it was
\* promoted (create, update, setDefault, remove): alone, and among the other services.
THEOREM GarageKeepsDefault ==
  ASSUME MaxRows \in Nat
  PROVE  /\ Garage!Spec => []Garage!TypeOK /\ Garage!DefaultIsKept
         /\ MCSpec => DefaultIsKept
<1>1. GarageInv => Garage!TypeOK
  BY DEF GarageInv, GarageTypes, GarageRow, GarageRequest, Garage!TypeOK
<1>2. Garage!Spec => []Garage!TypeOK /\ Garage!DefaultIsKept
  BY GarageInit, GarageNext, <1>1, PTL DEF Garage!Spec, Garage!DefaultIsKept
<1> DEFINE Inv == focus = "garage" => GarageInv
<1>3. MCInit => Inv
  BY GarageInit, Zenon DEF MCInit
<1>4. Inv /\ [MCNext]_allVars => Inv' /\ (focus = "garage" => Garage!KeepsDefault)
  <2> SUFFICES ASSUME Inv, [MCNext]_allVars PROVE Inv' /\ (focus = "garage" => Garage!KeepsDefault)
    OBVIOUS
  <2>1. focus' = focus
    BY DEF MCNext, Rest, allVars
  <2>2. focus = "garage" => [Garage!Next]_Garage!vars
    BY DEF MCNext, Step, allVars, vars, Garage!vars
  <2> QED BY <2>1, <2>2, GarageNext
<1> HIDE DEF Inv
<1>5. MCSpec => DefaultIsKept
  BY <1>3, <1>4, PTL DEF MCSpec, DefaultIsKept
<1> QED BY <1>2, <1>5

-----------------------------------------------------------------------------
(***************************************************************************)
(* The search of stations shows what fits, for any stations, however many  *)
(* changes of them and of what is asked for.                               *)
(*                                                                         *)
(* The argument: an answer holds no station that its own key excludes, and *)
(* is exact for the stations that have not changed since it was asked for; *)
(* the request under way is one of the current key, and what it has found  *)
(* so far is exact in the same way.                                        *)
(***************************************************************************)

\* What a key asks for, but for whether a connector is free.
Reach(k, s) == StationSearch!Distance(s, k[2]) <= k[1].distance
Wanted(k, s) == Reach(k, s) /\ (k[1].fast => StationSearch!IsFast(s))

\* The variables that are looked up.
SearchTypes ==
  /\ sites \in [StationIds -> StationSearch!Sites]
  /\ filters \in StationSearch!Filters /\ draft \in StationSearch!Filters \cup {StationSearch!Closed}
  /\ origin \in StationSearch!Origins
  /\ typed \in StationSearch!Words /\ search \in StationSearch!Words
  /\ previous \in StationSearch!Keys
  /\ DOMAIN cache = StationSearch!Keys
  /\ \A k \in StationSearch!Keys : DOMAIN cache[k] = {"known", "data", "still"}
  /\ \A k \in StationSearch!Keys : cache[k].still \subseteq StationIds
  /\ fetch \in [at : {"idle", "asked", "found", "failed"}, found : SUBSET StationIds,
                still : SUBSET StationIds]

\* The answer of a key is exact for what has not changed.
AnswersFit ==
  \A k \in StationSearch!Keys :
    /\ ~cache[k].known => cache[k].still = {}
    /\ cache[k].known => \A s \in cache[k].still :
         /\ s \in DOMAIN cache[k].data <=> sites[s].there /\ Wanted(k, s)
         /\ s \in DOMAIN cache[k].data => cache[k].data[s] = sites[s].free

\* The request under way has found what has not changed, if it is within the distance.
FoundFits ==
  fetch.at = "found" =>
    \A s \in fetch.still : s \in fetch.found <=> sites[s].there /\ Reach(StationSearch!Key, s)

\* At rest there is an answer.
RestHasAnswer == fetch.at = "idle" => StationSearch!HasAnswer(StationSearch!Key)

SearchInv == SearchTypes /\ AnswersFit /\ FoundFits /\ RestHasAnswer

\* The chip, pressed twice, changes nothing.
AllFilters == [distance : {1, 2}, fast : BOOLEAN, free : BOOLEAN]

LEMMA SameFilters ==
  ASSUME NEW f \in AllFilters, NEW g \in AllFilters,
         f.distance = g.distance, f.fast <=> g.fast, f.free <=> g.free
  PROVE  f = g
BY DEF AllFilters

LEMMA ChipTurnsBack ==
  ASSUME NEW f \in AllFilters
  PROVE  StationSearch!Quick(StationSearch!Quick(f)) = f
<1> DEFINE g == StationSearch!Quick(f)
           h == StationSearch!Quick(g)
<1>1. g \in AllFilters /\ g.distance = f.distance /\ (g.fast <=> ~f.fast) /\ (g.free <=> f.free)
  BY DEF AllFilters, StationSearch!Quick
<1>2. h \in AllFilters /\ h.distance = g.distance /\ (h.fast <=> ~g.fast) /\ (h.free <=> g.free)
  BY <1>1 DEF AllFilters, StationSearch!Quick
<1> HIDE DEF g, h
<1>3. h = f
  BY <1>1, <1>2, SameFilters
<1> QED BY <1>3 DEF g, h

LEMMA ChipStays ==
  ASSUME NEW f \in StationSearch!Filters
  PROVE  StationSearch!Quick(f) \in StationSearch!Filters
<1>1. StationSearch!NoFilters \in AllFilters /\ StationSearch!Narrow \in AllFilters
  BY DEF StationSearch!NoFilters, StationSearch!Narrow, AllFilters
<1> QED BY <1>1, ChipTurnsBack DEF StationSearch!Filters

LEMMA KeysAreKeys ==
  ASSUME NEW f \in StationSearch!Filters, NEW o \in StationSearch!Origins
  PROVE  /\ StationSearch!KeyOf(f, o) \in StationSearch!Keys
         /\ StationSearch!KeyOf(f, o) = <<f, o>>
BY DEF StationSearch!KeyOf, StationSearch!Keys

LEMMA SearchInit == StationSearch!Init => SearchInv
<1> SUFFICES ASSUME StationSearch!Init PROVE SearchInv OBVIOUS
<1>1. /\ StationSearch!NoFilters \in StationSearch!Filters
      /\ "fallback" \in StationSearch!Origins
  BY DEF StationSearch!Filters, StationSearch!Origins
<1>2. StationSearch!Key \in StationSearch!Keys
  BY <1>1, KeysAreKeys DEF StationSearch!Init, StationSearch!Key
<1>3. SearchTypes
  BY <1>1, <1>2 DEF StationSearch!Init, SearchTypes, StationSearch!NoAnswer, StationSearch!Asked,
    StationSearch!Words
<1>4. AnswersFit
  BY DEF StationSearch!Init, AnswersFit, StationSearch!NoAnswer
<1>5. FoundFits /\ RestHasAnswer
  BY DEF StationSearch!Init, FoundFits, RestHasAnswer, StationSearch!Asked
<1> QED BY <1>3, <1>4, <1>5 DEF SearchInv

\* Another key, or the same, is looked at.
LEMMA LookKeeps ==
  ASSUME SearchInv, NEW f \in StationSearch!Filters, NEW o \in StationSearch!Origins,
         StationSearch!Look(f, o), sites' = sites,
         draft' \in StationSearch!Filters \cup {StationSearch!Closed},
         typed' \in StationSearch!Words, search' = search
  PROVE  SearchInv'
<1> DEFINE k == StationSearch!KeyOf(f, o)
<1>1. filters' = f /\ origin' = o /\ cache' = cache
  BY DEF StationSearch!Look, StationSearch!query
<1>2. k \in StationSearch!Keys /\ StationSearch!Key' = k
  BY <1>1, KeysAreKeys DEF StationSearch!Key, StationSearch!KeyOf
<1>3. AnswersFit'
  BY <1>1 DEF SearchInv, AnswersFit
<1>4. CASE k = StationSearch!Key
  <2>1. UNCHANGED <<cache, fetch, previous>> /\ StationSearch!Key' = StationSearch!Key
    BY <1>2, <1>4 DEF StationSearch!Look, StationSearch!query
  <2>2. SearchTypes'
    BY <1>1, <2>1 DEF SearchInv, SearchTypes
  <2>3. FoundFits' /\ RestHasAnswer'
    BY <2>1 DEF SearchInv, FoundFits, RestHasAnswer, StationSearch!HasAnswer
  <2> QED BY <1>3, <2>2, <2>3 DEF SearchInv
<1>5. CASE k # StationSearch!Key
  <2>1. /\ previous' \in StationSearch!Keys
        /\ \/ StationSearch!HasAnswer(k) /\ fetch' = StationSearch!Idle
           \/ fetch' = StationSearch!Asked
    BY <1>2, <1>5 DEF StationSearch!Look, SearchInv, SearchTypes
  <2>2. SearchTypes'
    BY <1>1, <2>1 DEF SearchInv, SearchTypes, StationSearch!Idle, StationSearch!Asked
  <2>3. FoundFits' /\ RestHasAnswer'
    BY <1>1, <1>2, <2>1 DEF FoundFits, RestHasAnswer, StationSearch!HasAnswer, StationSearch!Idle,
      StationSearch!Asked
  <2> QED BY <1>3, <2>2, <2>3 DEF SearchInv
<1> QED BY <1>4, <1>5

\* What touches neither what is asked for nor an answer.
LEMMA ElsewhereKeeps ==
  ASSUME SearchInv, UNCHANGED <<sites, filters, origin, cache, fetch, previous>>,
         draft' \in StationSearch!Filters \cup {StationSearch!Closed},
         typed' \in StationSearch!Words, search' \in StationSearch!Words
  PROVE  SearchInv'
<1>1. StationSearch!Key' = StationSearch!Key
  BY DEF StationSearch!Key, StationSearch!KeyOf
<1>2. SearchTypes'
  BY DEF SearchInv, SearchTypes
<1>3. AnswersFit' /\ FoundFits' /\ RestHasAnswer'
  BY <1>1 DEF SearchInv, AnswersFit, FoundFits, RestHasAnswer, StationSearch!HasAnswer
<1> QED BY <1>2, <1>3 DEF SearchInv

\* An answer that is exact for what has not changed comes to rest.
LEMMA ResolveKeeps ==
  ASSUME SearchInv, NEW data, StationSearch!Resolve(data), UNCHANGED <<sites, StationSearch!store>>,
         \A s \in fetch.still :
           /\ s \in DOMAIN data <=> sites[s].there /\ Wanted(StationSearch!Key, s)
           /\ s \in DOMAIN data => data[s] = sites[s].free
  PROVE  SearchInv'
<1>1. StationSearch!Key \in StationSearch!Keys /\ StationSearch!Key' = StationSearch!Key
  BY KeysAreKeys DEF SearchInv, SearchTypes, StationSearch!Key, StationSearch!store
<1>2. PICK key \in StationSearch!Keys : key = StationSearch!Key
  BY <1>1
<1>3. PICK answer : answer = [known |-> TRUE, data |-> data, still |-> fetch.still]
  OBVIOUS
<1>4. /\ answer.known /\ answer.data = data /\ answer.still = fetch.still
      /\ DOMAIN answer = {"known", "data", "still"}
  BY <1>3
<1>5. cache' = [cache EXCEPT ![key] = answer] /\ previous' = key /\ fetch' = StationSearch!Idle
  BY <1>2, <1>3 DEF StationSearch!Resolve
<1>6. /\ DOMAIN cache' = StationSearch!Keys
      /\ cache'[key] = answer
      /\ \A k \in StationSearch!Keys \ {key} : cache'[k] = cache[k]
  BY <1>5 DEF SearchInv, SearchTypes
<1>7. fetch.still \subseteq StationIds
  BY DEF SearchInv, SearchTypes
<1>8. SearchTypes'
  BY <1>4, <1>5, <1>6, <1>7 DEF SearchInv, SearchTypes, StationSearch!store, StationSearch!Idle
<1>9. AnswersFit'
  BY <1>2, <1>4, <1>6 DEF SearchInv, AnswersFit, Wanted, Reach
<1>10. FoundFits' /\ RestHasAnswer'
  BY <1>1, <1>2, <1>4, <1>5, <1>6 DEF FoundFits, RestHasAnswer, StationSearch!Idle,
     StationSearch!HasAnswer
<1> QED BY <1>8, <1>9, <1>10 DEF SearchInv

LEMMA SearchNext == SearchInv /\ [StationSearch!Next]_StationSearch!vars => SearchInv'
<1> SUFFICES ASSUME SearchInv, [StationSearch!Next]_StationSearch!vars PROVE SearchInv' OBVIOUS
<1> USE DEF StationSearch!store, StationSearch!query
<1>1. SearchTypes
  BY DEF SearchInv
<1>2. CASE UNCHANGED StationSearch!vars
  BY <1>1, <1>2, ElsewhereKeeps DEF StationSearch!vars, SearchTypes
<1>3. CASE StationSearch!Move
  BY <1>1, <1>3, LookKeeps DEF StationSearch!Move, SearchTypes
<1>4. CASE StationSearch!QuickFilter
  BY <1>1, <1>4, LookKeeps, ChipStays DEF StationSearch!QuickFilter, SearchTypes
<1>5. CASE StationSearch!OpenFilters \/ StationSearch!EditFilters \/ StationSearch!LeaveFilters
  BY <1>1, <1>5, ElsewhereKeeps
  DEF StationSearch!OpenFilters, StationSearch!EditFilters, StationSearch!LeaveFilters, SearchTypes
<1>6. CASE StationSearch!ApplyFilters
  <2>1. draft \in StationSearch!Filters
    BY <1>1, <1>6 DEF StationSearch!ApplyFilters, SearchTypes
  <2> QED BY <1>1, <1>6, <2>1, LookKeeps DEF StationSearch!ApplyFilters, SearchTypes
<1>7. CASE StationSearch!ClearAll
  <2>1. StationSearch!NoFilters \in StationSearch!Filters /\ StationSearch!None \in StationSearch!Words
    BY DEF StationSearch!Filters, StationSearch!Words
  <2> QED BY <1>1, <1>7, <2>1, LookKeeps DEF StationSearch!ClearAll, SearchTypes
<1>8. CASE StationSearch!Type \/ StationSearch!Debounce
  BY <1>1, <1>8, ElsewhereKeeps DEF StationSearch!Type, StationSearch!Debounce, SearchTypes
<1>9. CASE StationSearch!Refresh \/ StationSearch!FetchFails
  <2>1. UNCHANGED <<sites, filters, draft, origin, typed, search, cache, previous>>
    BY <1>9 DEF StationSearch!Refresh, StationSearch!FetchFails
  <2>2. fetch'.at # "idle" /\ fetch'.at # "found"
    BY <1>9 DEF StationSearch!Refresh, StationSearch!FetchFails, StationSearch!Asked,
       StationSearch!Idle
  <2>3. fetch' \in [at : {"idle", "asked", "found", "failed"}, found : SUBSET StationIds,
                    still : SUBSET StationIds]
    BY <1>9 DEF StationSearch!Refresh, StationSearch!FetchFails, StationSearch!Asked,
       StationSearch!Idle
  <2>4. SearchTypes'
    BY <1>1, <2>1, <2>3 DEF SearchTypes
  <2>5. AnswersFit'
    BY <2>1 DEF SearchInv, AnswersFit
  <2> QED BY <2>2, <2>4, <2>5 DEF SearchInv, FoundFits, RestHasAnswer
<1>10. CASE StationSearch!ReadDistances
  <2>1. PICK found \in SUBSET StationIds :
          found = {s \in StationIds : sites[s].there
                     /\ StationSearch!Distance(s, origin) <= filters.distance}
    OBVIOUS
  <2>2. \A s \in StationIds : s \in found <=> sites[s].there /\ Reach(StationSearch!Key, s)
    BY <2>1 DEF Reach, StationSearch!Key, StationSearch!KeyOf
  <2>3. fetch.still \subseteq StationIds
    BY <1>1 DEF SearchTypes
  <2>4. CASE found = {}
    <3>1. StationSearch!Resolve(<<>>) /\ UNCHANGED <<sites, StationSearch!store>>
      BY <1>10, <2>1, <2>4 DEF StationSearch!ReadDistances
    <3>2. DOMAIN <<>> = {}
      OBVIOUS
    <3>3. \A s \in fetch.still : ~(sites[s].there /\ Wanted(StationSearch!Key, s))
      BY <2>2, <2>3, <2>4 DEF Wanted
    <3> QED BY <3>1, <3>2, <3>3, ResolveKeeps
  <2>5. CASE found # {}
    <3>1. /\ fetch' = [fetch EXCEPT !.at = "found", !.found = found]
          /\ UNCHANGED <<sites, filters, draft, origin, typed, search, cache, previous>>
      BY <1>10, <2>1, <2>5 DEF StationSearch!ReadDistances
    <3>2. fetch'.at = "found" /\ fetch'.found = found /\ fetch'.still = fetch.still
      BY <1>1, <3>1 DEF SearchTypes
    <3>3. SearchTypes'
      BY <1>1, <3>1 DEF SearchTypes
    <3>4. AnswersFit' /\ RestHasAnswer'
      BY <3>1, <3>2 DEF SearchInv, AnswersFit, RestHasAnswer
    <3>5. FoundFits'
      BY <2>2, <2>3, <3>1, <3>2 DEF FoundFits, Reach, StationSearch!Key, StationSearch!KeyOf
    <3> QED BY <3>3, <3>4, <3>5 DEF SearchInv
  <2> QED BY <2>4, <2>5
<1>11. CASE StationSearch!ReadStations
  <2>1. PICK found : found = {s \in fetch.found : sites[s].there /\ (filters.fast => StationSearch!IsFast(s))}
    OBVIOUS
  <2>2. PICK data : data = [s \in found |-> sites[s].free]
    OBVIOUS
  <2>3. StationSearch!Resolve(data) /\ UNCHANGED <<sites, StationSearch!store>>
    BY <1>11, <2>1, <2>2 DEF StationSearch!ReadStations
  <2>4. \A s \in fetch.still : s \in fetch.found <=> sites[s].there /\ Reach(StationSearch!Key, s)
    BY <1>11 DEF SearchInv, FoundFits, StationSearch!ReadStations
  <2>5. StationSearch!Key[1] = filters
    BY DEF StationSearch!Key, StationSearch!KeyOf
  <2>6. \A s \in fetch.still : s \in found <=> sites[s].there /\ Wanted(StationSearch!Key, s)
    BY <2>1, <2>4, <2>5 DEF Wanted
  <2>7. DOMAIN data = found /\ \A s \in found : data[s] = sites[s].free
    BY <2>2
  <2> QED BY <2>3, <2>6, <2>7, ResolveKeeps
<1>12. CASE StationSearch!Change
  <2>1. PICK s \in StationIds, site \in StationSearch!Sites :
          /\ sites' = [sites EXCEPT ![s] = site]
          /\ cache' = [k \in StationSearch!Keys |-> [cache[k] EXCEPT !.still = @ \ {s}]]
          /\ fetch' = [fetch EXCEPT !.still = @ \ {s}]
    BY <1>12 DEF StationSearch!Change
  <2>2. UNCHANGED <<filters, draft, origin, typed, search, previous>>
    BY <1>12 DEF StationSearch!Change
  <2>3. /\ DOMAIN cache' = StationSearch!Keys
        /\ \A k \in StationSearch!Keys :
             /\ cache'[k].known = cache[k].known /\ cache'[k].data = cache[k].data
             /\ cache'[k].still = cache[k].still \ {s}
             /\ DOMAIN cache'[k] = {"known", "data", "still"}
    BY <1>1, <2>1 DEF SearchTypes
  <2>4. fetch'.at = fetch.at /\ fetch'.found = fetch.found /\ fetch'.still = fetch.still \ {s}
    BY <1>1, <2>1 DEF SearchTypes
  <2>5. /\ sites' \in [StationIds -> StationSearch!Sites]
        /\ \A o \in StationIds \ {s} : sites'[o] = sites[o]
    BY <1>1, <2>1 DEF SearchTypes
  <2>6. SearchTypes'
    <3>1. \A k \in StationSearch!Keys : cache'[k].still \subseteq StationIds
      BY <1>1, <2>3 DEF SearchTypes
    <3>2. PICK still : still = fetch.still \ {s}
      OBVIOUS
    <3>3. still \in SUBSET StationIds
      BY <1>1, <3>2 DEF SearchTypes
    <3>4. fetch' = [fetch EXCEPT !.still = still]
      BY <2>1, <3>2
    <3>5. fetch' \in [at : {"idle", "asked", "found", "failed"}, found : SUBSET StationIds,
                      still : SUBSET StationIds]
      BY <1>1, <3>3, <3>4 DEF SearchTypes
    <3> QED BY <1>1, <2>2, <2>3, <2>5, <3>1, <3>5 DEF SearchTypes
  <2>7. StationSearch!Key' = StationSearch!Key /\ StationSearch!Key \in StationSearch!Keys
    BY <1>1, <2>2, KeysAreKeys DEF SearchTypes, StationSearch!Key, StationSearch!KeyOf
  <2>8. AnswersFit'
    BY <1>1, <2>3, <2>5 DEF SearchTypes, SearchInv, AnswersFit
  <2>9. FoundFits'
    BY <1>1, <2>4, <2>5, <2>7 DEF SearchTypes, SearchInv, FoundFits
  <2>10. RestHasAnswer'
    BY <2>3, <2>4, <2>7 DEF SearchInv, RestHasAnswer, StationSearch!HasAnswer
  <2> QED BY <2>6, <2>8, <2>9, <2>10 DEF SearchInv
<1> QED BY <1>2, <1>3, <1>4, <1>5, <1>6, <1>7, <1>8, <1>9, <1>10, <1>11, <1>12
           DEF StationSearch!Next

LEMMA SearchShows == SearchInv => StationSearch!TypeOK /\ StationSearch!SearchIsRight
<1> SUFFICES ASSUME SearchInv PROVE StationSearch!TypeOK /\ StationSearch!SearchIsRight OBVIOUS
<1>1. StationSearch!TypeOK
  BY DEF SearchInv, SearchTypes, StationSearch!TypeOK
<1>2. /\ StationSearch!Key \in StationSearch!Keys
      /\ StationSearch!Key[1] = filters /\ StationSearch!Key[2] = origin
  BY KeysAreKeys DEF SearchInv, SearchTypes, StationSearch!Key
<1>3. ASSUME NEW s \in StationSearch!Shown
      PROVE  /\ StationSearch!Distance(s, origin) <= filters.distance
             /\ filters.fast => StationSearch!IsFast(s)
  BY <1>3 DEF StationSearch!Shown, StationSearch!Discover
<1>4. ASSUME NEW s \in cache[StationSearch!Key].still
      PROVE  s \in StationSearch!Shown <=> StationSearch!Fits(s)
  <2>1. cache[StationSearch!Key].known
    BY <1>2, <1>4 DEF SearchInv, AnswersFit
  <2>2. StationSearch!Data = cache[StationSearch!Key].data
    BY <2>1 DEF StationSearch!Data, StationSearch!HasAnswer
  <2>3. /\ s \in DOMAIN cache[StationSearch!Key].data <=> sites[s].there /\ Wanted(StationSearch!Key, s)
        /\ s \in DOMAIN cache[StationSearch!Key].data => cache[StationSearch!Key].data[s] = sites[s].free
    BY <1>2, <1>4, <2>1 DEF SearchInv, AnswersFit
  <2>4. Wanted(StationSearch!Key, s)
          <=> /\ StationSearch!Distance(s, origin) <= filters.distance
              /\ filters.fast => StationSearch!IsFast(s)
    BY <1>2 DEF Wanted, Reach
  <2> QED BY <2>2, <2>3, <2>4 DEF StationSearch!Shown, StationSearch!Discover, StationSearch!Fits
<1> QED BY <1>1, <1>3, <1>4 DEF StationSearch!SearchIsRight, SearchInv, RestHasAnswer

\* Whatever answer is shown, no station of it is out of the distance and the power asked for now; at rest
\* there is an answer to what is asked now, and what has not changed since it was asked for is shown if and
\* only if it fits now (queryKey, placeholderData, discoverStations, StationsService.nearby): alone, and
\* among the other services.
THEOREM SearchShowsWhatFits ==
  /\ StationSearch!Spec => [](StationSearch!TypeOK /\ StationSearch!SearchIsRight)
  /\ MCSpec => []SearchIsRight
<1>1. StationSearch!Spec => [](StationSearch!TypeOK /\ StationSearch!SearchIsRight)
  BY SearchInit, SearchNext, SearchShows, PTL DEF StationSearch!Spec
<1> DEFINE Inv == focus = "search" => SearchInv
<1>2. MCInit => Inv
  BY SearchInit, Zenon DEF MCInit
<1>3. Inv /\ [MCNext]_allVars => Inv'
  <2> SUFFICES ASSUME Inv, [MCNext]_allVars PROVE Inv' OBVIOUS
  <2>1. focus' = focus
    BY DEF MCNext, Rest, allVars
  <2>2. focus = "search" => [StationSearch!Next]_StationSearch!vars
    BY DEF MCNext, Step, allVars, vars, StationSearch!vars, StationSearch!store, StationSearch!query
  <2> QED BY <2>1, <2>2, SearchNext
<1>4. Inv => SearchIsRight
  BY SearchShows DEF SearchIsRight
<1> HIDE DEF Inv
<1>5. MCSpec => []SearchIsRight
  BY <1>2, <1>3, <1>4, PTL DEF MCSpec
<1> QED BY <1>1, <1>5
=============================================================================
