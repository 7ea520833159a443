------------------------------ MODULE MockBackend ------------------------------
(***************************************************************************)
(* The backend inside the driver's app for the demonstration mode          *)
(* (mobile-driver/src/api/mock-api.ts): module-level variables behind the  *)
(* interfaces of the REST clients.                                         *)
(*                                                                         *)
(* Every call waits first and then runs to its end: calls interleave at    *)
(* their waits, with arguments that were read before them.  Calls that     *)
(* share no variable do not disturb each other, so that a behaviour stays  *)
(* in one of the areas of the app.  Ids of one millisecond are taken to    *)
(* differ.                                                                 *)
(***************************************************************************)
EXTENDS Integers, Sequences, SequencesExt, FiniteSetsExt, Bags

CONSTANTS
  MaxRequests,  \* bound on calls in flight
  MaxRows,      \* bound on vehicles and methods ever made, on the versions and the users of the profile
  MaxEdits      \* bound on the version of a vehicle that is still edited

VARIABLES
  area,         \* the part of the app that is used
  requests,     \* calls in flight, a bag
  identity,     \* mockIdentity
  garage,       \* vehicleState
  methods,      \* paymentState
  autoRecharge,         \* autoRechargeState
  purse,        \* walletState and walletTransactions
  intents,      \* mockPaymentIntents, by id
  charging      \* activeSession and the processed keys

account == <<identity, garage>>
money == <<methods, autoRecharge, purse, intents>>
vars == <<area, requests, account, money, charging>>

-----------------------------------------------------------------------------
(* Data *)

None == 0
Rows == 1 .. MaxRows
Keys == {"k1", "k2"}
Plates == {"-", "p"}
Amounts == {1, 2}

Areas == {"account", "garage", "wallet", "charge"}

\* The next id of rows made so far; a removed row's id is not used again.
Fresh(made) == made + 1

Ids(rows) == {rows[i].id : i \in DOMAIN rows}
Position(rows, id) == CHOOSE i \in DOMAIN rows : rows[i].id = id
Row(rows, id) == rows[Position(rows, id)]
Map(rows, F(_)) == [i \in DOMAIN rows |-> F(rows[i])]

\* Ids are distinct: what a filter leaves out is one row at most.
Without(rows, id) == IF id \in Ids(rows) THEN RemoveAt(rows, Position(rows, id)) ELSE rows

Serves(r, op) == BagIn(r, requests) /\ r.op = op
Answer(r) == requests' = requests (-) SetToBag({r})

\* A call of the app: its arguments are what the app shows now.
Send(r) ==
  /\ BagCardinality(requests) < MaxRequests
  /\ requests' = requests (+) SetToBag({r})
  /\ UNCHANGED <<area, account, money, charging>>

-----------------------------------------------------------------------------
(* MockAuthApi and MockUsersApi *)

Register(r) ==
  /\ Serves(r, "register")
  /\ identity' = [identity EXCEPT !.user = Min({@ + 1, MaxRows}), !.email = r.email, !.version = 1,
                                  !.deletion = FALSE]
  /\ Answer(r) /\ UNCHANGED <<area, garage, money, charging>>

UpdateProfile(r) ==
  /\ Serves(r, "profile")
  /\ IF r.version = identity.version
       THEN identity' = [identity EXCEPT !.email = r.email, !.version = @ + 1]
       ELSE UNCHANGED identity
  /\ Answer(r) /\ UNCHANGED <<area, garage, money, charging>>

RequestDeletion(r) ==
  /\ Serves(r, "deletion")
  /\ IF r.version = identity.version
       THEN identity' = [identity EXCEPT !.deletion = TRUE, !.version = @ + 1]
       ELSE UNCHANGED identity
  /\ Answer(r) /\ UNCHANGED <<area, garage, money, charging>>

SendAccount ==
  /\ area = "account"
  /\ \/ \E email \in Plates :
          \/ Send([op |-> "register", email |-> email])
          \/ /\ identity.version < MaxRows
             /\ Send([op |-> "profile", email |-> email, version |-> identity.version])
     \/ identity.version < MaxRows /\ Send([op |-> "deletion", version |-> identity.version])
     \/ \E enabled, consent \in BOOLEAN : Send([op |-> "rule", enabled |-> enabled, consent |-> consent])
     \/ Send([op |-> "no rule"])

-----------------------------------------------------------------------------
(* MockVehiclesApi *)

\* The plate stands for the plate and the VIN.
Duplicates(plate, exclude) ==
  plate # "-" /\ \E i \in DOMAIN garage.rows : garage.rows[i].plate = plate /\ garage.rows[i].id # exclude

NotMain(v) == [v EXCEPT !.main = FALSE]

\* The versions of the others stay as they are.
CreateVehicle(r) ==
  /\ Serves(r, "create")
  /\ IF Duplicates(r.plate, None) THEN UNCHANGED garage
     ELSE LET main == r.main \/ garage.rows = <<>>
              v == [id |-> Fresh(garage.made), plate |-> r.plate, main |-> main, version |-> 1]
          IN garage' = [made |-> v.id,
                        rows |-> Append(IF main THEN Map(garage.rows, NotMain) ELSE garage.rows, v)]
  /\ Answer(r) /\ UNCHANGED <<area, identity, money, charging>>

\* What requireVehicle finds, in the version that was read.
IsCurrent(r) ==
  /\ r.id \in Ids(garage.rows)
  /\ Row(garage.rows, r.id).version = r.version

\* update, and setDefault: main is "yes", "no", or "-" where the input does not say.
UpdateVehicle(r) ==
  /\ Serves(r, "update")
  /\ LET Updated(v) == [v EXCEPT !.main = IF r.main = "-" THEN @ ELSE r.main = "yes",
                                 !.plate = IF r.plate = "-" THEN @ ELSE r.plate,
                                 !.version = @ + 1]
         Written(v) ==
           IF v.id = r.id THEN Updated(v)
           ELSE IF r.main = "yes" THEN [NotMain(v) EXCEPT !.version = @ + 1] ELSE v
     IN IF /\ IsCurrent(r)
           /\ ~(Row(garage.rows, r.id).main /\ r.main = "no")
           /\ ~Duplicates(r.plate, r.id)
          THEN garage' = [garage EXCEPT !.rows = Map(@, Written)]
          ELSE UNCHANGED garage
  /\ Answer(r) /\ UNCHANGED <<area, identity, money, charging>>

\* duplicate reads the vehicle after one wait and creates the copy after another.
DuplicateVehicle(r) ==
  /\ Serves(r, "duplicate")
  /\ requests' = (requests (-) SetToBag({r})) (+)
       (IF IsCurrent(r) THEN SetToBag({[op |-> "create", plate |-> "-", main |-> FALSE]}) ELSE EmptyBag)
  /\ UNCHANGED <<area, account, money, charging>>

\* Faulty variant: nobody takes the place of the main vehicle.
RemoveOnly(r) ==
  /\ Serves(r, "remove")
  /\ garage' = IF IsCurrent(r) THEN [garage EXCEPT !.rows = Without(@, r.id)] ELSE garage
  /\ Answer(r) /\ UNCHANGED <<area, identity, money, charging>>

\* The first of the others becomes the main one.
RemoveVehicle(r) ==
  /\ Serves(r, "remove")
  /\ IF ~IsCurrent(r) THEN UNCHANGED garage
     ELSE LET rest == Without(garage.rows, r.id)
              promoted == IF rest = <<>> THEN rest
                          ELSE [rest EXCEPT ![1].main = TRUE, ![1].version = @ + 1]
          IN garage' = [garage EXCEPT !.rows =
               IF Row(garage.rows, r.id).main THEN promoted ELSE rest]
  /\ Answer(r) /\ UNCHANGED <<area, identity, money, charging>>

\* setDefault, and the form with the plate or without.
Inputs == {[main |-> "yes", plate |-> "-"], [main |-> "no", plate |-> "-"], [main |-> "-", plate |-> "p"]}

SendGarage ==
  /\ area = "garage"
  /\ \/ \E plate \in Plates, main \in BOOLEAN :
          garage.made < MaxRows /\ Send([op |-> "create", plate |-> plate, main |-> main])
     \/ \E v \in Range(garage.rows) :
          \/ \E input \in Inputs :
               /\ v.version <= MaxEdits
               /\ Send([op |-> "update", id |-> v.id, version |-> v.version,
                        plate |-> input.plate, main |-> input.main])
          \/ garage.made < MaxRows /\ Send([op |-> "duplicate", id |-> v.id, version |-> v.version])
          \/ Send([op |-> "remove", id |-> v.id, version |-> v.version])

-----------------------------------------------------------------------------
(* MockPaymentsApi: top-ups and the rule *)

\* createTopUp: a repetition is found by its key, which the metadata keeps.
CreateTopUp(r) ==
  /\ Serves(r, "top-up")
  /\ IF \E i \in DOMAIN intents : intents[i].key = r.key THEN UNCHANGED intents
     ELSE intents' = Append(intents,
            [key |-> r.key, amount |-> r.amount, polls |-> 0, credited |-> FALSE,
             status |-> IF r.declined THEN "FAILED" ELSE "PENDING"])
  /\ Answer(r) /\ UNCHANGED <<area, account, methods, autoRecharge, purse, charging>>

\* getTopUp: the second poll pays.
GetTopUp(r) ==
  /\ Serves(r, "poll")
  /\ LET i == r.id
         pays == intents[i].status = "PENDING" /\ intents[i].polls >= 1
     IN IF pays
          THEN /\ intents' = [intents EXCEPT ![i].polls = 2, ![i].status = "CAPTURED", ![i].credited = TRUE]
               /\ IF intents[i].credited THEN UNCHANGED purse
                  ELSE purse' = [available |-> purse.available + intents[i].amount,
                                 rows |-> <<i>> \o purse.rows]
          ELSE /\ intents' = [intents EXCEPT ![i].polls = Min({@ + 1, 2})]
               /\ UNCHANGED purse
  /\ Answer(r) /\ UNCHANGED <<area, account, methods, autoRecharge, charging>>

CancelPayment(r) ==
  /\ Serves(r, "cancel")
  /\ LET i == r.id IN
       intents' = IF intents[i].status = "PENDING" THEN [intents EXCEPT ![i].status = "CANCELLED"] ELSE intents
  /\ Answer(r) /\ UNCHANGED <<area, account, methods, autoRecharge, purse, charging>>

\* updateAutoRecharge asks for the consent; disableAutoRecharge does not.
UpdateAutoRecharge(r) ==
  /\ Serves(r, "rule")
  /\ autoRecharge' = IF r.enabled /\ ~r.consent THEN autoRecharge
             ELSE [enabled |-> r.enabled, made |-> TRUE]
  /\ Answer(r) /\ UNCHANGED <<area, account, methods, purse, intents, charging>>

DisableAutoRecharge(r) ==
  /\ Serves(r, "no rule")
  /\ autoRecharge' = [autoRecharge EXCEPT !.enabled = FALSE]
  /\ Answer(r) /\ UNCHANGED <<area, account, methods, purse, intents, charging>>

SendWallet ==
  /\ area = "wallet"
  /\ \/ \E key \in Keys, declined \in BOOLEAN, amount \in Amounts :
          Send([op |-> "top-up", key |-> key, amount |-> amount, declined |-> declined])
     \/ \E i \in DOMAIN intents : \E op \in {"poll", "cancel"} : Send([op |-> op, id |-> i])

-----------------------------------------------------------------------------
(* MockPaymentsApi: methods; MockChargingApi *)

\* createMethod: an undefined isDefault is true for the first method only.
CreateMethod(r) ==
  /\ Serves(r, "method")
  /\ LET main == r.main = "yes" \/ (r.main = "-" /\ methods.rows = <<>>)
         m == [id |-> Fresh(methods.made), main |-> main]
     IN methods' = [made |-> m.id,
                    rows |-> <<m>> \o (IF main THEN Map(methods.rows, NotMain) ELSE methods.rows)]
  /\ Answer(r) /\ UNCHANGED <<area, account, autoRecharge, purse, intents, charging>>

\* The id is not looked for: one that was removed leaves no default.
SetDefaultMethod(r) ==
  /\ Serves(r, "default")
  /\ LET Chosen(m) == [m EXCEPT !.main = m.id = r.id]
     IN methods' = [methods EXCEPT !.rows = Map(@, Chosen)]
  /\ Answer(r) /\ UNCHANGED <<area, account, autoRecharge, purse, intents, charging>>

RemoveMethod(r) ==
  /\ Serves(r, "forget")
  /\ methods' = [methods EXCEPT !.rows = Without(@, r.id)]
  /\ Answer(r) /\ UNCHANGED <<area, account, autoRecharge, purse, intents, charging>>

Started == {charging.started[k] : k \in Keys} \ {None}
Stopped == {charging.stopped[k] : k \in Keys} \ {None}

\* A repetition is answered with the session of its key, ended or not.
StartCharging(r) ==
  /\ Serves(r, "start")
  /\ LET k == r.key IN
       charging' = IF charging.started[k] # None \/ charging.active # None
                      \/ r.method \notin Ids(methods.rows)
         THEN charging
         ELSE LET s == Fresh(Cardinality(Started))
              IN [charging EXCEPT !.active = s, !.started[k] = s]
  /\ Answer(r) /\ UNCHANGED <<area, account, money>>

StopCharging(r) ==
  /\ Serves(r, "stop")
  /\ LET k == r.key IN
       charging' = IF charging.stopped[k] # None \/ charging.active # r.id THEN charging
                   ELSE [charging EXCEPT !.active = None, !.stopped[k] = r.id]
  /\ Answer(r) /\ UNCHANGED <<area, account, money>>

SendCharge ==
  /\ area = "charge"
  /\ \/ \E main \in {"yes", "no", "-"} : methods.made < MaxRows /\ Send([op |-> "method", main |-> main])
     \/ \E id \in Ids(methods.rows), op \in {"default", "forget"} : Send([op |-> op, id |-> id])
     \/ \E id \in Ids(methods.rows), k \in Keys : Send([op |-> "start", method |-> id, key |-> k])
     \/ \E s \in Started, k \in Keys : Send([op |-> "stop", id |-> s, key |-> k])

-----------------------------------------------------------------------------

Init ==
  /\ area \in Areas
  /\ requests = EmptyBag
  /\ identity = [user |-> 1, email |-> "-", version |-> 1, deletion |-> FALSE]
  /\ garage = [made |-> 2, rows |-> <<[id |-> 1, plate |-> "p", main |-> TRUE, version |-> 1],
                                      [id |-> 2, plate |-> "-", main |-> FALSE, version |-> 1]>>]
  /\ methods = [made |-> 2, rows |-> <<[id |-> 1, main |-> TRUE], [id |-> 2, main |-> FALSE]>>]
  /\ autoRecharge = [enabled |-> FALSE, made |-> FALSE]
  /\ purse = [available |-> 0, rows |-> <<>>]
  /\ intents = <<>>
  /\ charging = [active |-> None, started |-> [k \in Keys |-> None], stopped |-> [k \in Keys |-> None]]

Next ==
  \/ SendAccount \/ SendGarage \/ SendWallet \/ SendCharge
  \/ \E r \in BagToSet(requests) :
    \/ Register(r) \/ UpdateProfile(r) \/ RequestDeletion(r)
    \/ CreateVehicle(r) \/ UpdateVehicle(r) \/ DuplicateVehicle(r) \/ RemoveVehicle(r)
    \/ CreateTopUp(r) \/ GetTopUp(r) \/ CancelPayment(r) \/ UpdateAutoRecharge(r) \/ DisableAutoRecharge(r)
    \/ CreateMethod(r) \/ SetDefaultMethod(r) \/ RemoveMethod(r) \/ StartCharging(r) \/ StopCharging(r)

Spec == Init /\ [][Next]_vars

-----------------------------------------------------------------------------
(* Properties *)

\* Every variable has its type.
TypeOK ==
  /\ area \in Areas /\ identity.version \in Rows
  /\ \A i \in DOMAIN garage.rows : garage.rows[i].id \in 1 .. garage.made
  /\ \A i \in DOMAIN intents : intents[i].status \in {"PENDING", "FAILED", "CAPTURED", "CANCELLED"}
  /\ purse.available \in Nat /\ charging.active \in Rows \cup {None}

\* A garage with vehicles has one main vehicle and no plate twice, and at most one method is the default,
\* however the calls of the screens meet (MockVehiclesApi, MockPaymentsApi).
OneMain ==
  /\ garage.rows # <<>> => Quantify(DOMAIN garage.rows, LAMBDA i : garage.rows[i].main) = 1
  /\ \A i, j \in DOMAIN garage.rows : i # j =>
       garage.rows[i].plate = "-" \/ garage.rows[i].plate # garage.rows[j].plate
  /\ Quantify(DOMAIN methods.rows, LAMBDA i : methods.rows[i].main) <= 1

Captured == {i \in DOMAIN intents : intents[i].status = "CAPTURED"}

\* The units of currency that were paid.
Units == {u \in Captured \X Amounts : u[2] <= intents[u[1]].amount}

\* The balance is what captured top-ups were worth, each listed once (getTopUp, cancelPayment).
BalanceIsPaid ==
  /\ purse.available = Cardinality(Units)
  /\ IsInjective(purse.rows) /\ Range(purse.rows) = Captured

\* Every key has a session of its own, which ends once, and the active one has not ended (start, stop).
ChargesOnce ==
  /\ \A k, l \in Keys : k # l =>
       /\ charging.started[k] = charging.started[l] => charging.started[k] = None
       /\ charging.stopped[k] = charging.stopped[l] => charging.stopped[k] = None
  /\ charging.active \notin Stopped
=============================================================================
