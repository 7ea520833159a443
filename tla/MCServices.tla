----------------------------- MODULE MCServices -----------------------------
(***************************************************************************)
(* The services of the backend that keep a table of their own, the search  *)
(* of stations, and the backend of the demonstration mode side by side:    *)
(* focus names the one that runs, the variables of the others are at rest. *)
(***************************************************************************)
EXTENDS Operators, Sequences, TLC

CONSTANTS CommandKeys, Commands, TariffIds, Places, Fields, Values, Intents,
          StationIds, MaxFetches, MaxChanges, MaxFaults, MaxExpired, MaxVersion, MaxRows, MaxValues, LastDay, LastHour,
          MaxSessions, MaxClock, MaxEnergy,
          Spendings, RechargeAmounts, RechargeFaults

VARIABLES focus, lock, faults, command, dispatched, effective, tariff, versions, today, taken, station, held,
          vehicle, method, raced, user, result, session, made, call,
          intent, remote, run, recorded,
          row, now, list, shown, steady, cut, values, chart,
          wallet, reservation, journal, rule, card, worker, hour, late, lost, crashes, errors,
          place, step, created, starts, demo, entries, moved,
          area, requests, identity, garage, methods, autoRecharge, purse, intents, charging,
          sites, filters, draft, origin, typed, search, cache, fetch, previous, fetches, changes,
          clock, charge, audit

RemoteCommands == INSTANCE RemoteCommands WITH Keys <- CommandKeys
Tariffs        == INSTANCE Tariffs
Stations       == INSTANCE Stations
Garage         == INSTANCE Garage WITH MaxVehicles <- MaxRows, MaxVersion <- 2
PaymentMethods == INSTANCE PaymentMethods WITH MaxMethods <- MaxRows
Profile        == INSTANCE Profile
Idempotency    == INSTANCE Idempotency
Reconciliation == INSTANCE Reconciliation WITH Runs <- Requests
Listings       == INSTANCE Listings WITH Limit <- 1, MaxTime <- 1
MeterSampling  == INSTANCE MeterSampling WITH Points <- {10, 11, 13}
AutoRecharge   == INSTANCE AutoRecharge
                    WITH Workers <- Requests, Driver <- "purse", MaxFaults <- RechargeFaults
Seed           == INSTANCE Seed WITH MaxStarts <- 3
MockBackend    == INSTANCE MockBackend WITH MaxRequests <- 2, MaxEdits <- 1
StationSearch  == INSTANCE StationSearch
Reports        == INSTANCE Reports

Services == {"operators", "commands", "tariffs", "stations", "garage", "methods", "profile",
             "idempotency", "reconciliation", "listings", "sampling", "recharge", "seed", "mock", "search", "reports"}
HaveRequests == {"operators", "commands", "tariffs", "stations", "garage", "methods", "profile"}
HaveLocks == {"idempotency", "reconciliation", "recharge"}

allVars == <<focus, vars, lock, faults, command, dispatched, effective, tariff, versions, today, taken, station, held,
          vehicle, method, raced, user, result, session, made, call,
          intent, remote, run, recorded,
          row, now, list, shown, steady, cut, values, chart,
          wallet, reservation, journal, rule, card, worker, hour, late, lost, crashes, errors,
          place, step, created, starts, demo, entries, moved,
          area, requests, identity, garage, methods, autoRecharge, purse, intents, charging,
          sites, filters, draft, origin, typed, search, cache, fetch, previous, fetches, changes,
          clock, charge, audit>>

AtRest == "at rest"

\* The operators of a tenant whose requests do not run.
First == CHOOSE m \in Members : TRUE
OperatorsAtRest == [m \in Members |-> IF m = First THEN [status |-> "ACTIVE", admin |-> TRUE] ELSE NoMember]

MCInit ==
  /\ focus \in Services
  /\ IF focus = "operators" THEN Init ELSE member = OperatorsAtRest
  /\ IF focus = "commands" THEN RemoteCommands!Init
     ELSE command = AtRest /\ dispatched = AtRest /\ effective = AtRest
  /\ IF focus = "tariffs" THEN Tariffs!Init
     ELSE tariff = AtRest /\ versions = AtRest /\ today = AtRest /\ taken = AtRest
  /\ IF focus = "stations" THEN Stations!Init ELSE station = AtRest /\ held = AtRest
  /\ IF focus = "garage" THEN Garage!Init ELSE vehicle = AtRest
  /\ IF focus = "methods" THEN PaymentMethods!Init ELSE raced = AtRest
  /\ IF focus = "profile" THEN Profile!Init ELSE user = AtRest
  /\ IF focus = "idempotency" THEN Idempotency!Init
     ELSE result = AtRest /\ session = AtRest /\ made = AtRest /\ call = AtRest
  /\ IF focus = "reconciliation" THEN Reconciliation!Init
     ELSE remote = AtRest /\ run = AtRest /\ recorded = AtRest
  /\ IF focus = "listings" THEN Listings!Init
     ELSE row = AtRest /\ now = AtRest /\ list = AtRest /\ shown = AtRest /\ steady = AtRest /\ cut = AtRest
  /\ IF focus = "sampling" THEN MeterSampling!Init ELSE values = AtRest /\ chart = AtRest
  /\ IF focus \in HaveRequests THEN TRUE ELSE request = AtRest
  /\ IF focus = "recharge" THEN AutoRecharge!Init
     ELSE /\ wallet = AtRest /\ reservation = AtRest /\ journal = AtRest /\ rule = AtRest
          /\ card = AtRest /\ worker = AtRest /\ hour = AtRest
          /\ late = AtRest /\ lost = AtRest /\ crashes = AtRest /\ errors = AtRest
  /\ IF focus = "seed" THEN Seed!Init
     ELSE /\ place = AtRest /\ step = AtRest /\ created = AtRest /\ starts = AtRest
          /\ demo = AtRest /\ entries = AtRest /\ moved = AtRest
  /\ IF focus = "mock" THEN MockBackend!Init
     ELSE /\ area = AtRest /\ requests = AtRest /\ identity = AtRest /\ garage = AtRest /\ methods = AtRest
          /\ autoRecharge = AtRest /\ purse = AtRest /\ intents = AtRest /\ charging = AtRest
  /\ IF focus = "search" THEN StationSearch!Init
     ELSE /\ sites = AtRest /\ filters = AtRest /\ draft = AtRest /\ origin = AtRest /\ typed = AtRest
          /\ search = AtRest /\ cache = AtRest /\ fetch = AtRest /\ previous = AtRest
          /\ fetches = AtRest /\ changes = AtRest
  /\ IF focus = "reports" THEN Reports!Init ELSE clock = AtRest /\ charge = AtRest /\ audit = AtRest
  /\ IF focus \in {"methods", "recharge"} THEN TRUE ELSE method = AtRest
  /\ IF focus \in {"reconciliation", "recharge"} THEN TRUE ELSE intent = AtRest
  /\ IF focus \in HaveLocks THEN TRUE ELSE lock = AtRest
  /\ IF focus \in {"commands", "idempotency"} THEN TRUE ELSE faults = AtRest

Step ==
  CASE focus = "operators"      -> Next
    [] focus = "commands"       -> RemoteCommands!Next
    [] focus = "tariffs"        -> Tariffs!Next
    [] focus = "stations"       -> Stations!Next
    [] focus = "garage"         -> Garage!Next
    [] focus = "methods"        -> PaymentMethods!Next
    [] focus = "profile"        -> Profile!Next
    [] focus = "idempotency"    -> Idempotency!Next
    [] focus = "reconciliation" -> Reconciliation!Next
    [] focus = "listings"       -> Listings!Next
    [] focus = "sampling"       -> MeterSampling!Next
    [] focus = "recharge"       -> AutoRecharge!Next
    [] focus = "seed"           -> Seed!Next
    [] focus = "mock"           -> MockBackend!Next
    [] focus = "search"         -> StationSearch!Next
    [] focus = "reports"        -> Reports!Next

Rest ==
  /\ UNCHANGED focus
  /\ IF focus = "operators" THEN TRUE ELSE UNCHANGED member
  /\ IF focus = "commands" THEN TRUE ELSE UNCHANGED <<command, dispatched, effective>>
  /\ IF focus = "tariffs" THEN TRUE ELSE UNCHANGED <<tariff, versions, today, taken>>
  /\ IF focus = "stations" THEN TRUE ELSE UNCHANGED <<station, held>>
  /\ IF focus = "garage" THEN TRUE ELSE UNCHANGED vehicle
  /\ IF focus = "methods" THEN TRUE ELSE UNCHANGED raced
  /\ IF focus = "profile" THEN TRUE ELSE UNCHANGED user
  /\ IF focus = "idempotency" THEN TRUE ELSE UNCHANGED <<result, session, made, call>>
  /\ IF focus = "reconciliation" THEN TRUE ELSE UNCHANGED <<remote, run, recorded>>
  /\ IF focus = "listings" THEN TRUE ELSE UNCHANGED <<row, now, list, shown, steady, cut>>
  /\ IF focus = "sampling" THEN TRUE ELSE UNCHANGED <<values, chart>>
  /\ IF focus \in HaveRequests THEN TRUE ELSE UNCHANGED request
  /\ IF focus = "recharge" THEN TRUE
     ELSE UNCHANGED <<wallet, reservation, journal, rule, card, worker, hour, late, lost, crashes, errors>>
  /\ IF focus = "seed" THEN TRUE ELSE UNCHANGED <<place, step, created, starts, demo, entries, moved>>
  /\ IF focus = "mock" THEN TRUE
     ELSE UNCHANGED <<area, requests, identity, garage, methods, autoRecharge, purse, intents, charging>>
  /\ IF focus = "search" THEN TRUE
     ELSE UNCHANGED <<sites, filters, draft, origin, typed, search, cache, fetch, previous, fetches, changes>>
  /\ IF focus = "reports" THEN TRUE ELSE UNCHANGED <<clock, charge, audit>>
  /\ IF focus \in {"methods", "recharge"} THEN TRUE ELSE UNCHANGED method
  /\ IF focus \in {"reconciliation", "recharge"} THEN TRUE ELSE UNCHANGED intent
  /\ IF focus \in HaveLocks THEN TRUE ELSE UNCHANGED lock
  /\ IF focus \in {"commands", "idempotency"} THEN TRUE ELSE UNCHANGED faults

MCNext == Step /\ Rest

MCSpec == MCInit /\ [][MCNext]_allVars

Symmetry == Permutations(Requests)

DispatchedOnce      == focus = "commands" => RemoteCommands!DispatchedOnce
PublishedHasVersion == focus = "tariffs" => Tariffs!PublishedHasVersion
StationIsCoherent   == focus = "stations" => Stations!StationIsCoherent
DefaultIsKept       == [][focus = "garage" => Garage!KeepsDefault]_allVars
DefaultIsActive     == focus = "methods" => PaymentMethods!DefaultIsActive
NoEditIsLost        == [][focus = "profile" => Profile!KeepsEdits]_allVars
KeyIsHeld           == focus = "idempotency" => Idempotency!KeyIsHeld
RunsAreAlone        == focus = "reconciliation" => Reconciliation!RunsAreAlone
ChargedIsCredited   == focus = "recharge" => AutoRecharge!ChargedIsCredited
RechargesDoNotPileUp == focus = "recharge" => AutoRecharge!RechargesDoNotPileUp
FreshBooksAgree     == focus = "seed" => Seed!FreshBooksAgree

\* What a driver is told of the table: the pages of the history, the chart of a session, and the sums.
HistoryIsFaithful ==
  CASE focus = "listings" -> Listings!ListedOnce
    [] focus = "sampling" -> MeterSampling!ChartIsFaithful
    [] focus = "reports" -> Reports!ReportsAgree
    [] OTHER -> TRUE

SearchIsRight == focus = "search" => StationSearch!SearchIsRight

\* The demonstration mode keeps what the backend keeps.
MockIsSound == focus = "mock" => MockBackend!OneMain /\ MockBackend!BalanceIsPaid /\ MockBackend!ChargesOnce
=============================================================================
