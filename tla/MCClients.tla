----------------------------- MODULE MCClients -----------------------------
(***************************************************************************)
(* The clients of the backend side by side, one of them in each behaviour: *)
(* two drivers that share an app, an operator with two tabs, a driver who  *)
(* starts a charge, one who watches it, one whom the map follows, and one  *)
(* on the screens of payments.                                             *)
(***************************************************************************)
EXTENDS Integers, Sequences, FiniteSets

CONSTANTS ana, bia, t1, t2, Slots, DriverTokens, OperatorTokens, MaxLaunches, MaxVisits, MaxLost, MaxLocates,
          Visits, MaxCalls, MaxFailures

VARIABLES
  focus, lost, session, screen, active,
  token, blocked, member, call, stored, shown, straddled, cookie,
  created, visit, starting,
  poll, feed, recovered, stop,
  phone, mounted, current, operation, aborted, subscribed, view,
  server, visited, opened, query, mutation, form, unsure, calls, failures

Drivers == {ana, bia}
Tabs == {t1, t2}

ASSUME StartBounds == MaxVisits \in Nat
ASSUME LocateBounds == MaxLocates \in Nat \ {0}
ASSUME TabsAreApart == Tabs \cap {"login", "refresh", "ghost", "office"} = {}
ASSUME DriversAreApart == Drivers \cap {"nobody", "restoring"} = {}

Places == {"login", "refresh", "ghost", "office"} \cup Tabs

Driver == INSTANCE DriverSession
            WITH Users <- Drivers, Calls <- Places, AdminCalls <- Tabs, MaxTokens <- DriverTokens

Admin == INSTANCE AdminSession
           WITH Users <- {ana}, Operator <- ana, Calls <- Places, AdminCalls <- Tabs,
                MaxTokens <- OperatorTokens

Start == INSTANCE ChargeStart WITH Places <- Slots

Watch == INSTANCE ActiveCharge

Location == INSTANCE UserLocation

Wallet == INSTANCE WalletScreens

tokens == <<token, blocked, member, call>>
app    == <<stored, shown, straddled>>
starts == <<created, visit, starting>>
feeds  == <<poll, feed, recovered, stop>>
places == <<phone, mounted, current, operation, aborted, subscribed, view>>
wallets == <<server, visited, opened, query, mutation, form, unsure, calls, failures>>
vars == <<focus, lost, session, screen, active, tokens, app, cookie, starts, feeds, places, wallets>>

AtRest == "at rest"

NoTokens == token = AtRest /\ blocked = AtRest /\ member = AtRest /\ call = AtRest
NoApp    == stored = AtRest /\ shown = AtRest /\ straddled = AtRest
NoStarts == created = AtRest /\ visit = AtRest /\ starting = AtRest
NoFeeds  == poll = AtRest /\ feed = AtRest /\ recovered = AtRest /\ stop = AtRest
NoPlaces == /\ phone = AtRest /\ mounted = AtRest /\ current = AtRest /\ operation = AtRest
            /\ aborted = AtRest /\ subscribed = AtRest /\ view = AtRest
NoWallet == /\ server = AtRest /\ visited = AtRest /\ opened = AtRest /\ query = AtRest /\ mutation = AtRest
            /\ form = AtRest /\ unsure = AtRest /\ calls = AtRest /\ failures = AtRest
NoScreen == screen = AtRest /\ active = AtRest

NoClient == NoTokens /\ NoApp /\ NoStarts /\ NoFeeds /\ NoScreen /\ lost = AtRest /\ session = AtRest /\ cookie = AtRest

Init ==
  \/ /\ focus = "driver" /\ Driver!DriverInit
     /\ NoStarts /\ NoFeeds /\ NoScreen /\ NoPlaces /\ NoWallet /\ session = AtRest /\ cookie = AtRest
  \/ focus = "admin" /\ Admin!AdminInit /\ NoApp /\ NoStarts /\ NoFeeds /\ NoScreen /\ NoPlaces /\ NoWallet
  \/ focus = "start" /\ Start!Init /\ NoTokens /\ NoApp /\ NoFeeds /\ NoPlaces /\ NoWallet /\ cookie = AtRest
  \/ focus = "watch" /\ Watch!Init /\ NoTokens /\ NoApp /\ NoStarts /\ NoPlaces /\ NoWallet /\ cookie = AtRest
  \/ focus = "location" /\ Location!Init /\ NoClient /\ NoWallet
  \/ focus = "wallet" /\ Wallet!Init /\ NoClient /\ NoPlaces

RestOfDriver   == UNCHANGED <<focus, session, screen, active, cookie, starts, feeds, places, wallets>>
RestOfAdmin    == UNCHANGED <<focus, screen, active, app, starts, feeds, places, wallets>>
RestOfStart    == UNCHANGED <<focus, tokens, app, cookie, feeds, places, wallets>>
RestOfWatch    == UNCHANGED <<focus, tokens, app, cookie, starts, places, wallets>>
RestOfLocation == UNCHANGED <<focus, lost, session, screen, active, tokens, app, cookie, starts, feeds, wallets>>
RestOfWallet   == UNCHANGED <<focus, lost, session, screen, active, tokens, app, cookie, starts, feeds, places>>

Next ==
  \/ focus = "driver" /\ Driver!DriverNext /\ RestOfDriver
  \/ focus = "admin" /\ Admin!AdminNext /\ RestOfAdmin
  \/ focus = "start" /\ Start!Next /\ RestOfStart
  \/ focus = "watch" /\ Watch!Next /\ RestOfWatch
  \/ focus = "location" /\ Location!Next /\ RestOfLocation
  \/ focus = "wallet" /\ Wallet!Next /\ RestOfWallet

Spec == Init /\ [][Next]_vars

\* The fairness of ActiveCharge and of WalletScreens.
Fairness ==
  /\ WF_vars(focus = "watch" /\ Watch!PollMetrics /\ RestOfWatch)
  /\ WF_vars(focus = "watch" /\ Watch!Polled /\ RestOfWatch)
  /\ WF_vars(focus = "wallet" /\ Wallet!Poll /\ RestOfWallet)
  /\ WF_vars(focus = "wallet" /\ Wallet!Read("intent") /\ RestOfWallet)
  /\ WF_vars(focus = "wallet" /\ Wallet!Receive("intent") /\ RestOfWallet)

FairSpec == Spec /\ Fairness

\* One good token for each family, and none for an operator who is disabled.
TokensAreFew ==
  CASE focus = "driver" -> Driver!OneGoodPerFamily
    [] focus = "admin" -> Admin!OneGoodPerFamily /\ Admin!DisabledHasNone
    [] OTHER -> TRUE
DeadStaysDead ==
  [][CASE focus = "driver" -> Driver!DeadStaysDead
       [] focus = "admin" -> Admin!DeadStaysDead
       [] OTHER -> TRUE]_vars
AppKeepsItsSession == focus = "driver" => Driver!AppKeepsItsSession
OneSessionPerVisit == focus = "start" => Start!OneSessionPerVisit
\* What the screens show, and the watch that one of them owns.
ScreensAreTrue ==
  CASE focus = "location" -> Location!WatchIsOwned
    [] focus = "wallet" -> Wallet!ScreensAreTrue
    [] OTHER -> TRUE
\* The end of a charge, and the end of a payment.
EndIsShown ==
  /\ (focus = "watch" /\ Watch!Watching /\ session[active.id] \in Watch!Ended)
       ~> (focus = "watch" /\ (~Watch!Watching \/ active = Watch!Seen(active.id)))
  /\ (focus = "wallet" /\ "pix" \in opened /\ server.payment \in {"CAPTURED", "CANCELLED", "EXPIRED"})
       ~> (focus = "wallet" /\ ("pix" \notin opened \/ query["intent"].shows = Wallet!Holds("intent")))
=============================================================================
