------------------------- MODULE FoundationsProofs -------------------------
(***************************************************************************)
(* Proofs about MCFoundations: each component does there what it does      *)
(* alone, so that its theorems hold there.  The settlement's parameters    *)
(* are given in part, and its theorems are taken from an instance of       *)
(* ChargingSettlementProofs with the same ones.                            *)
(***************************************************************************)
EXTENDS MCFoundations, FiniteSetTheorems, TLAPS

Proofs == INSTANCE ChargingSettlementProofs
            WITH Workers <- MCSockets, Connectors <- {plug}, Driver <- w1, TopUps <- {c1},
                 TopUpAmount <- 2, PreAuth <- 2, MaxSession <- 2, Costs <- {1},
                 MaxVersion <- 3, MaxWrites <- 1, MaxCrashes <- 0, MaxErrors <- 0, MaxFaults <- 1,
                 wallet <- purse, reservation <- hold, journal <- postings

\* The settlement of the run and that of its theorems are the same formulas.
LEMMA SameInit == Settlement!Init <=> Proofs!Init
BY DEF Settlement!Idle, Settlement!Init, Settlement!NoIntent, Settlement!NoOne,
       Settlement!NoSession, Settlement!Unread, Settlement!Ledger!Init, Settlement!Ledger!Keys,
       Settlement!Ledger!NoAccount, Settlement!Ledger!NoPosting, Settlement!Ledger!NoReservation,
       Settlement!Ledger!NoWallet, Settlement!Ledger!Posting, Proofs!Idle, Proofs!Init,
       Proofs!NoIntent, Proofs!NoOne, Proofs!NoSession, Proofs!Unread, Proofs!Ledger!Init,
       Proofs!Ledger!Keys, Proofs!Ledger!NoAccount, Proofs!Ledger!NoPosting,
       Proofs!Ledger!NoReservation, Proofs!Ledger!NoWallet, Proofs!Ledger!Posting

LEMMA SameNext == Settlement!Next <=> Proofs!Next
BY DEF Settlement!ActiveSession, Settlement!AfterError, Settlement!AfterTransition,
       Settlement!AfterTransitionError, Settlement!Arrive, Settlement!At, Settlement!AuthorizeCatch,
       Settlement!AuthorizeSession, Settlement!AutoRecharge, Settlement!Begin,
       Settlement!BeginStart, Settlement!BeginStop, Settlement!Cancel, Settlement!CancelReservation,
       Settlement!Capturable, Settlement!Capture, Settlement!ChargerStops, Settlement!Complete,
       Settlement!ConnectionLost, Settlement!ConnectorStatus, Settlement!Crash, Settlement!Create,
       Settlement!CreateIntent, Settlement!Decide, Settlement!DisconnectEvent,
       Settlement!EquipmentFree, Settlement!FailSession, Settlement!FailureEvent,
       Settlement!FaultLeft, Settlement!Fresh, Settlement!GatewayStart, Settlement!GatewayStop,
       Settlement!Goto, Settlement!Handle, Settlement!HandleDisconnect, Settlement!HandleMeter,
       Settlement!HandleStopped, Settlement!HasRead, Settlement!Idle, Settlement!InTransition,
       Settlement!IntentTarget, Settlement!IntentTransitions, Settlement!LegalIntentMove,
       Settlement!Lost, Settlement!MeterEvent, Settlement!Moved, Settlement!Next,
       Settlement!NoIntent, Settlement!NoOne, Settlement!NoSession, Settlement!Of,
       Settlement!OnError, Settlement!Ops, Settlement!OtherOps, Settlement!OutOfUse,
       Settlement!RacedIntent, Settlement!ReadIntent, Settlement!ReadSession,
       Settlement!ReceiptRead, Settlement!ReceiptWrite, Settlement!Release, Settlement!ReserveMoney,
       Settlement!Seen, Settlement!SessionOps, Settlement!SessionRefused,
       Settlement!SessionReplayed, Settlement!SessionStatus, Settlement!SessionTransitions,
       Settlement!SessionWrite, Settlement!SetConnector, Settlement!Settle, Settlement!StartCommit,
       Settlement!StartPrepare, Settlement!StatusNotification, Settlement!StopPrepare,
       Settlement!StoppedEvent, Settlement!TerminalSession, Settlement!Throw, Settlement!Throwing,
       Settlement!TopUp, Settlement!Unread, Settlement!UpdateConnectorStatus,
       Settlement!WriteConnector, Settlement!WriteIntent, Settlement!faults, Settlement!money,
       Settlement!rows, Settlement!Ledger!Active, Settlement!Ledger!Available,
       Settlement!Ledger!CanCapture, Settlement!Ledger!CanRelease,
       Settlement!Ledger!CapturePostings, Settlement!Ledger!CaptureReplays,
       Settlement!Ledger!CaptureReserved, Settlement!Ledger!Clearing, Settlement!Ledger!Credit,
       Settlement!Ledger!Fresh, Settlement!Ledger!NoAccount, Settlement!Ledger!NoPosting,
       Settlement!Ledger!NoReservation, Settlement!Ledger!NoWallet, Settlement!Ledger!Post,
       Settlement!Ledger!Posted, Settlement!Ledger!Posting, Settlement!Ledger!ReleaseReplays,
       Settlement!Ledger!ReleaseReserved, Settlement!Ledger!Reserve, Settlement!Ledger!Reserved,
       Settlement!Ledger!Revenue, Settlement!Ledger!Total, Settlement!Ledger!Units,
       Proofs!ActiveSession, Proofs!AfterError, Proofs!AfterTransition, Proofs!AfterTransitionError,
       Proofs!Arrive, Proofs!At, Proofs!AuthorizeCatch, Proofs!AuthorizeSession,
       Proofs!AutoRecharge, Proofs!Begin, Proofs!BeginStart, Proofs!BeginStop, Proofs!Cancel,
       Proofs!CancelReservation, Proofs!Capturable, Proofs!Capture, Proofs!ChargerStops,
       Proofs!Complete, Proofs!ConnectionLost, Proofs!ConnectorStatus, Proofs!Crash, Proofs!Create,
       Proofs!CreateIntent, Proofs!Decide, Proofs!DisconnectEvent, Proofs!EquipmentFree,
       Proofs!FailSession, Proofs!FailureEvent, Proofs!FaultLeft, Proofs!Fresh, Proofs!GatewayStart,
       Proofs!GatewayStop, Proofs!Goto, Proofs!Handle, Proofs!HandleDisconnect, Proofs!HandleMeter,
       Proofs!HandleStopped, Proofs!HasRead, Proofs!Idle, Proofs!InTransition, Proofs!IntentTarget,
       Proofs!IntentTransitions, Proofs!LegalIntentMove, Proofs!Lost, Proofs!MeterEvent,
       Proofs!Moved, Proofs!Next, Proofs!NoIntent, Proofs!NoOne, Proofs!NoSession, Proofs!Of,
       Proofs!OnError, Proofs!Ops, Proofs!OtherOps, Proofs!OutOfUse, Proofs!RacedIntent,
       Proofs!ReadIntent, Proofs!ReadSession, Proofs!ReceiptRead, Proofs!ReceiptWrite,
       Proofs!Release, Proofs!ReserveMoney, Proofs!Seen, Proofs!SessionOps, Proofs!SessionRefused,
       Proofs!SessionReplayed, Proofs!SessionStatus, Proofs!SessionTransitions, Proofs!SessionWrite,
       Proofs!SetConnector, Proofs!Settle, Proofs!StartCommit, Proofs!StartPrepare,
       Proofs!StatusNotification, Proofs!StopPrepare, Proofs!StoppedEvent, Proofs!TerminalSession,
       Proofs!Throw, Proofs!Throwing, Proofs!TopUp, Proofs!Unread, Proofs!UpdateConnectorStatus,
       Proofs!WriteConnector, Proofs!WriteIntent, Proofs!faults, Proofs!money, Proofs!rows,
       Proofs!Ledger!Active, Proofs!Ledger!Available, Proofs!Ledger!CanCapture,
       Proofs!Ledger!CanRelease, Proofs!Ledger!CapturePostings, Proofs!Ledger!CaptureReplays,
       Proofs!Ledger!CaptureReserved, Proofs!Ledger!Clearing, Proofs!Ledger!Credit,
       Proofs!Ledger!Fresh, Proofs!Ledger!NoAccount, Proofs!Ledger!NoPosting,
       Proofs!Ledger!NoReservation, Proofs!Ledger!NoWallet, Proofs!Ledger!Post,
       Proofs!Ledger!Posted, Proofs!Ledger!Posting, Proofs!Ledger!ReleaseReplays,
       Proofs!Ledger!ReleaseReserved, Proofs!Ledger!Reserve, Proofs!Ledger!Reserved,
       Proofs!Ledger!Revenue, Proofs!Ledger!Total, Proofs!Ledger!Units

LEMMA SameVars == UNCHANGED Settlement!vars <=> UNCHANGED Proofs!vars
BY DEF Settlement!faults, Settlement!money, Settlement!rows, Settlement!vars, Proofs!faults,
       Proofs!money, Proofs!rows, Proofs!vars

LEMMA SameShared == Settlement!ConnectorIsShared <=> Proofs!ConnectorIsShared
<1>1. \A s : Settlement!ActiveSession(s) <=> Proofs!ActiveSession(s)
  BY DEF Settlement!ActiveSession, Settlement!SessionTransitions, Settlement!TerminalSession,
         Proofs!ActiveSession, Proofs!SessionTransitions, Proofs!TerminalSession
<1>2. \A c : {s \in Sessions : Settlement!ActiveSession(s) /\ session[s].connector = c}
               = {s \in Sessions : Proofs!ActiveSession(s) /\ session[s].connector = c}
  BY <1>1
<1>3. \A S : Settlement!Cardinality(S) = Proofs!Cardinality(S)
  BY DEF Settlement!Cardinality, Proofs!Cardinality
<1> QED
  BY <1>2, <1>3 DEF Settlement!ConnectorIsShared, Proofs!ConnectorIsShared

\* Where two sessions of one driver share a connector.
Shares == focus \in {"sharing", "written"}

\* What the settlement does there is what it does alone.
LEMMA SharesAsAlone ==
  Shares /\ [MCNext]_allVars => Shares' /\ [Settlement!Next]_(Settlement!vars)
<1> SUFFICES ASSUME Shares, [MCNext]_allVars
             PROVE  Shares' /\ [Settlement!Next]_(Settlement!vars)
  OBVIOUS
<1>1. UNCHANGED shared => UNCHANGED Settlement!vars
  BY DEF shared, Settlement!vars, Settlement!money, Settlement!rows, Settlement!faults
<1>2. focus' = focus /\ (Settlement!Next \/ UNCHANGED shared)
  BY DEF Shares, MCNext, allVars
<1> QED BY <1>1, <1>2 DEF Shares

\* A connector has one session at most, is AVAILABLE only without one and RESERVED or OCCUPIED
\* only with one, unless the charge point or an operator set it: for any sessions of the driver
\* and whatever else the backend does meanwhile (create, charging_sessions_connector_active_key).
THEOREM ConnectorStaysShared ==
  ASSUME IsFiniteSet(Sessions), MaxMinor \in Nat, MaxMinor >= 2
  PROVE  /\ Settlement!Spec => []Settlement!ConnectorIsShared
         /\ MCSpec => []ConnectorIsShared
<1>1. Proofs!SettlementAssumption
  <2>1. IsFiniteSet({c1})
    BY FS_Singleton
  <2>2. \A S : IsFiniteSet(S) <=> Proofs!IsFiniteSet(S)
    BY DEF IsFiniteSet, Proofs!IsFiniteSet
  <2>3. /\ {1} \subseteq 0 .. MaxMinor /\ {2, 2} \subseteq 1 .. MaxMinor
        /\ {2, 3, 1, 0, 0, 1} \subseteq Nat
    OBVIOUS
  <2> QED BY <2>1, <2>2, <2>3 DEF Proofs!SettlementAssumption
<1>2. Proofs!Spec => []Proofs!ConnectorIsShared
  BY <1>1, Proofs!ConnectorsAreShared
<1>3. Settlement!Init => Proofs!Init
  BY SameInit
<1>4. [Settlement!Next]_(Settlement!vars) => [Proofs!Next]_(Proofs!vars)
  BY SameNext, SameVars
<1>5. Proofs!ConnectorIsShared => Settlement!ConnectorIsShared
  BY SameShared
<1>6. Settlement!Spec => []Settlement!ConnectorIsShared
  BY <1>2, <1>3, <1>4, <1>5, PTL DEF Settlement!Spec, Proofs!Spec
<1>7. MCSpec => []ConnectorIsShared
  <2>1. MCInit => ~Shares \/ (Shares /\ Settlement!Init)
    BY DEF MCInit, Shares
  <2>2. ~Shares /\ [MCNext]_allVars => ~Shares'
    BY DEF Shares, MCNext, allVars
  <2>3. ~Shares => ConnectorIsShared
    BY DEF Shares, ConnectorIsShared
  <2>4. Settlement!ConnectorIsShared => ConnectorIsShared
    BY DEF ConnectorIsShared
  <2> QED
    BY <1>6, <2>1, <2>2, <2>3, <2>4, SharesAsAlone, PTL DEF MCSpec, Settlement!Spec
<1> QED BY <1>6, <1>7

\* The wallets and the connections do what they do alone, and rest otherwise: what
\* WalletLedgerProofs and OcppProofs prove of them holds here.
THEOREM ComponentsRunAlone == MCSpec => Spec /\ ConnSpec
<1>1. MCInit => Init /\ ConnInit
  BY DEF MCInit
<1>2. [MCNext]_allVars => [Next]_vars /\ [ConnNext]_connVars
  BY DEF MCNext, allVars
<1> QED BY <1>1, <1>2, PTL DEF MCSpec, Spec, ConnSpec
=============================================================================
