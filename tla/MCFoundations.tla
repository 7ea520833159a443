--------------------------- MODULE MCFoundations ---------------------------
(***************************************************************************)
(* Four small instances, one in each behaviour; focus names it, and what   *)
(* belongs to the others stays as it was:                                  *)
(*   ledger       two wallets that share the platform's accounts, with two *)
(*                sessions that may both reserve from one wallet           *)
(*   connections  two connections of one charge point                    *)
(*   sharing      two sessions of one driver on one connector              *)
(*   written      the same, while the charge point or an operator writes   *)
(*                the connector once, with one handler at a time           *)
(***************************************************************************)
EXTENDS WalletLedger, OcppConnections, TLC

CONSTANTS w1, w2, s1, s2, c1, r1, k1, k2, plug

VARIABLES focus, purse, hold, postings, session, connector, intent, receipt, charger, worker,
          statusWrites, crashes, errors, abandoned

MCWallets == {w1, w2}
MCSessions == {s1, s2}
MCCreditKeys == {c1}
MCRefundKeys == {r1}
MCSockets == {k1, k2}

Settlement == INSTANCE ChargingSettlement
                WITH Workers <- MCSockets, Connectors <- {plug}, Driver <- w1, TopUps <- {c1},
                     TopUpAmount <- 2, PreAuth <- 2, MaxSession <- 2, Costs <- {1},
                     MaxVersion <- 3, MaxWrites <- 1, MaxCrashes <- 0, MaxErrors <- 0, MaxFaults <- 1,
                     wallet <- purse, reservation <- hold, journal <- postings

shared == <<purse, hold, postings, session, connector, intent, receipt, charger, worker,
            statusWrites, crashes, errors, abandoned>>
allVars == <<focus, vars, connVars, shared>>

AtRest == "at rest"

SharingAtRest ==
  /\ purse = AtRest /\ hold = AtRest /\ postings = AtRest /\ session = AtRest
  /\ connector = AtRest /\ intent = AtRest /\ receipt = AtRest /\ charger = AtRest
  /\ worker = AtRest /\ statusWrites = AtRest /\ crashes = AtRest
  /\ errors = AtRest /\ abandoned = AtRest

\* What does not run is in an initial state, or has none.
MCInit ==
  /\ Init /\ ConnInit
  /\ \/ focus \in {"ledger", "connections"} /\ SharingAtRest
     \/ focus \in {"sharing", "written"} /\ Settlement!Init
  /\ focus # "connections" => policy = "replace"

AtWork == {w \in MCSockets : worker[w].op # "idle"}

\* Where nothing more need happen: every connection has been made, or no handler is at work.
Quiet ==
  \/ focus = "connections" /\ \A s \in Sockets : socket[s] # "new"
  \/ focus \in {"sharing", "written"} /\ AtWork = {}

\* The one step that is no handler's is the top-up: it comes before there are sessions, if at all, since
\* a connector depends on whether there is money and not on when it came.
MoneyFirst == worker' = worker => \A s \in MCSessions : session[s] = Settlement!NoSession

MCNext ==
  /\ UNCHANGED focus
  /\ \/ focus = "ledger" /\ Next /\ UNCHANGED <<connVars, shared>>
     \/ focus = "connections" /\ ConnNext /\ UNCHANGED <<vars, shared>>
     \/ Quiet /\ UNCHANGED allVars
     \/ /\ \/ focus = "sharing" /\ Settlement!Next /\ statusWrites' = 0 /\ MoneyFirst
           \/ focus = "written" /\ Settlement!Next /\ Cardinality(AtWork') <= 1
        /\ UNCHANGED <<vars, connVars>>

MCSpec == MCInit /\ [][MCNext]_allVars

\* What is interchangeable: no action or property names one.
Symmetry == Permutations(MCSockets)

ConnectorIsShared == focus \in {"sharing", "written"} => Settlement!ConnectorIsShared
=============================================================================
