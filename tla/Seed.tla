-------------------------------- MODULE Seed --------------------------------
(***************************************************************************)
(* The demonstration data (packages/database/prisma/seed.ts), written by   *)
(* every start of the backend's container before its API starts            *)
(* (docker-compose.yml: migrations, seed, API).                            *)
(*                                                                         *)
(* The seed is a sequence of upserts, each committed by itself: a row that *)
(* is missing is created, one that exists is set to what the seed wants of *)
(* it, whatever the application has made of it.  A failed statement ends   *)
(* the container; it may also be stopped between two statements.           *)
(***************************************************************************)
EXTENDS Integers, Sequences, SequencesExt

CONSTANT MaxStarts    \* bound on starts of the container

VARIABLES
  place,     \* the container: seeding, api, stopped or failed
  step,      \* the statements the seed is at
  created,   \* whether this start has created the ledger transaction it is at
  starts,    \* starts so far
  demo,      \* the rows the seed writes and the application changes
  entries,   \* the seed's ledger transactions: none, PENDING or POSTED
  moved      \* what the application has posted to the driver's available balance

vars == <<place, step, created, starts, demo, entries, moved>>

-----------------------------------------------------------------------------
(* Data *)

\* What each ledger transaction of the seed adds to the available balance of the driver.
Ledger ==
  [topUp |-> 30000, authorization |-> -5000, capture |-> 0, release |-> 3766, refund |-> 500]
Transactions == <<"topUp", "authorization", "capture", "release", "refund">>

\* The balance the wallet is given.
SeededBalance == 29266

PixAmount == 10000

\* vehicle and method: whether the seeded one, or another, is the default.  connector: of the
\* first station.  pix: the pending intent.
NoRows ==
  [driver |-> FALSE, admin |-> "none", vehicle |-> "none", connector |-> "none", draft |-> "none",
   wallet |-> -1, session |-> FALSE, method |-> "none", pix |-> "none", receipt |-> FALSE]

Order ==
  <<"driver", "admins", "vehicle", "stations", "tariffs", "wallet", "session", "method", "intents",
    "receipt">> \o Transactions

Posted(t) == entries[t] # "none"
Worth(t) == IF Posted(t) THEN Ledger[t] ELSE 0
Balance ==
  moved + Worth("topUp") + Worth("authorization") + Worth("capture") + Worth("release") + Worth("refund")

-----------------------------------------------------------------------------
(* The seed *)

At(name) == place = "seeding" /\ step <= Len(Order) /\ Order[step] = name

Write(row) == demo' = row /\ step' = step + 1 /\ UNCHANGED <<place, created, starts, entries, moved>>

\* A statement that violates a constraint ends the seed, and with it the container.
Fail == place' = "failed" /\ UNCHANGED <<step, created, starts, demo, entries, moved>>

SeedDriver == At("driver") /\ Write([demo EXCEPT !.driver = TRUE])

\* Administrators and operators are made active, with their roles.
SeedAdmins == At("admins") /\ Write([demo EXCEPT !.admin = "ACTIVE"])

\* The seeded vehicle becomes the default; vehicles_one_default_per_user allows no other.
SeedVehicle ==
  /\ At("vehicle")
  /\ IF demo.vehicle = "other" THEN Fail ELSE Write([demo EXCEPT !.vehicle = "seeded"])

\* seedStation: statuses go back to what they were at first.
SeedStations == At("stations") /\ Write([demo EXCEPT !.connector = "AVAILABLE"])

\* The administrative tariff becomes a draft; the published ones have a version.
SeedTariffs == At("tariffs") /\ Write([demo EXCEPT !.draft = "DRAFT"])

\* The policy, the wallet and its accounts.
SeedWallet == At("wallet") /\ Write([demo EXCEPT !.wallet = SeededBalance])

\* A completed session with a remote command.
SeedSession == At("session") /\ Write([demo EXCEPT !.session = TRUE])

\* The method, under payment_methods_one_default_per_user, and a disabled rule of recharge.
SeedMethod ==
  /\ At("method")
  /\ IF demo.method = "other" THEN Fail ELSE Write([demo EXCEPT !.method = "seeded"])

\* Five intents; the Pix of one is pending, and becomes so again.
SeedIntents == At("intents") /\ Write([demo EXCEPT !.pix = "PENDING"])

\* Reconciliation, reservation, receipt and refund of the completed session.
SeedReceipt == At("receipt") /\ Write([demo EXCEPT !.receipt = TRUE])

\* Faulty variant: a second start leaves the ledger to the first.
FirstStartOnly(t) ==
  /\ At(t) /\ ~created
  /\ IF starts = 1
       THEN entries' = [entries EXCEPT ![t] = "PENDING"] /\ created' = TRUE /\ UNCHANGED step
       ELSE step' = step + 1 /\ UNCHANGED <<entries, created>>
  /\ UNCHANGED <<place, starts, demo, moved>>

\* seedLedgerTransaction: one that exists is left as it is, posted or not.
SeedLedgerTransaction(t) ==
  /\ At(t) /\ ~created
  /\ IF entries[t] = "none"
       THEN entries' = [entries EXCEPT ![t] = "PENDING"] /\ created' = TRUE /\ UNCHANGED step
       ELSE step' = step + 1 /\ UNCHANGED <<entries, created>>
  /\ UNCHANGED <<place, starts, demo, moved>>

PostLedgerTransaction(t) ==
  /\ At(t) /\ created
  /\ entries' = [entries EXCEPT ![t] = "POSTED"]
  /\ step' = step + 1 /\ created' = FALSE
  /\ UNCHANGED <<place, starts, demo, moved>>

-----------------------------------------------------------------------------
(* The container *)

StartApi ==
  /\ place = "seeding" /\ step > Len(Order)
  /\ place' = "api"
  /\ UNCHANGED <<step, created, starts, demo, entries, moved>>

\* Stopped while it seeds or while the API runs.
Stop ==
  /\ place \in {"seeding", "api"}
  /\ place' = "stopped"
  /\ UNCHANGED <<step, created, starts, demo, entries, moved>>

Start ==
  /\ place = "stopped" /\ starts < MaxStarts
  /\ place' = "seeding" /\ step' = 1 /\ created' = FALSE /\ starts' = starts + 1
  /\ UNCHANGED <<demo, entries, moved>>

-----------------------------------------------------------------------------
(* What the application makes of the rows: the operations other modules detail *)

Application(row, amount) ==
  /\ place = "api"
  /\ demo' = row /\ moved' = moved + amount
  /\ UNCHANGED <<place, step, created, starts, entries>>

SetDefaultVehicle == Application([demo EXCEPT !.vehicle = "other"], 0)
SetDefaultMethod  == Application([demo EXCEPT !.method = "other"], 0)
DisableOperator   == demo.admin = "ACTIVE" /\ Application([demo EXCEPT !.admin = "DISABLED"], 0)
PublishTariff     == demo.draft = "DRAFT" /\ Application([demo EXCEPT !.draft = "PUBLISHED"], 0)
Occupy            == Application([demo EXCEPT !.connector = "OCCUPIED"], 0)
\* The webhook of the pending Pix: its key is credited once.
PayPix ==
  LET credited == IF moved = 0 THEN PixAmount ELSE 0 IN
  /\ demo.pix = "PENDING"
  /\ Application([demo EXCEPT !.pix = "CAPTURED", !.wallet = @ + credited], credited)

Operate ==
  \/ SetDefaultVehicle \/ SetDefaultMethod \/ DisableOperator \/ PublishTariff \/ Occupy \/ PayPix

-----------------------------------------------------------------------------

Init ==
  /\ place = "stopped" /\ step = 1 /\ created = FALSE /\ starts = 0
  /\ demo = NoRows /\ moved = 0
  /\ entries = [t \in ToSet(Transactions) |-> "none"]

Next ==
  \/ SeedDriver \/ SeedAdmins \/ SeedVehicle \/ SeedStations \/ SeedTariffs \/ SeedWallet
  \/ SeedSession \/ SeedMethod \/ SeedIntents \/ SeedReceipt
  \/ \E t \in ToSet(Transactions) : SeedLedgerTransaction(t) \/ PostLedgerTransaction(t)
  \/ StartApi \/ Stop \/ Start \/ Operate

Spec == Init /\ [][Next]_vars

-----------------------------------------------------------------------------
(* Properties *)

\* Every variable has its type.
TypeOK ==
  /\ place \in {"seeding", "api", "stopped", "failed"}
  /\ step \in 1 .. Len(Order) + 1 /\ created \in BOOLEAN /\ starts \in 0 .. MaxStarts
  /\ demo.vehicle \in {"none", "seeded", "other"} /\ demo.method \in {"none", "seeded", "other"}
  /\ entries \in [ToSet(Transactions) -> {"none", "PENDING", "POSTED"}]

\* Until the application changes something, the wallet has what the ledger gives it whenever the
\* API runs, wherever starts before were cut off (main, seedLedgerTransaction).
FreshBooksAgree == place = "api" /\ moved = 0 => demo.wallet = Balance

\* README.md:53: the seed is idempotent and the API starts after it.
StartsAgain == place # "failed"
=============================================================================
