---------------------------- MODULE WalletLedger ----------------------------
(***************************************************************************)
(* The wallets and the double-entry ledger of the backend                  *)
(* (payments/wallet/wallet.service.ts, payments/ledger/ledger.service.ts). *)
(*                                                                         *)
(* Every public method of WalletService is ONE serializable transaction    *)
(* that first locks the wallet row (SELECT ... FOR UPDATE), so a call that *)
(* commits is one action here.  A call that throws rolls its transaction   *)
(* back and a replayed call returns what is stored: both are stuttering    *)
(* steps.                                                                  *)
(*                                                                         *)
(* A wallet stores its balances; the ledger stores postings, each under an *)
(* idempotency key.  Nothing in the database ties the two together: that   *)
(* they agree is the main property of this module.                         *)
(***************************************************************************)
EXTENDS Integers, FiniteSets

CONSTANTS
  Wallets,      \* the wallets of the tenant, one currency
  Sessions,     \* charging sessions: a session has at most one reservation
  CreditKeys,   \* idempotency keys of top-ups and automatic recharges
  RefundKeys,   \* idempotency keys of refunds (one per refund row)
  MaxMinor      \* environment.maximumMoneyMinor: the largest Money

ASSUME FiniteAssumption ==
  /\ IsFiniteSet(Sessions)
  /\ IsFiniteSet(CreditKeys)
  /\ IsFiniteSet(RefundKeys)

ASSUME MaxMinorAssumption == MaxMinor \in Nat

VARIABLES
  wallet,       \* wallets: status, availableBalanceMinor, reservedBalanceMinor
  reservation,  \* wallet_reservations, by charging session
  journal       \* ledger_transactions with their entries, by idempotency key

vars == <<wallet, reservation, journal>>

-----------------------------------------------------------------------------
(* Data *)

Money == 0 .. MaxMinor

NoWallet == "none"

WalletStatus == {"ACTIVE", "BLOCKED"}

\* "NONE" stands for a session without a reservation row.
ReservationStatus == {"NONE", "RESERVED", "CAPTURED", "RELEASED"}

NoReservation ==
  [wallet |-> NoWallet, status |-> "NONE",
   amount |-> 0, captured |-> 0, released |-> 0]

(***************************************************************************)
(* The keys a posting can have.  The key of a credit or a refund comes     *)
(* from the caller; the keys of a reservation's postings are built from    *)
(* the one key its session gives it.                                       *)
(***************************************************************************)
Keys ==
  ({"credit"} \X CreditKeys)
    \cup ({"refund"} \X RefundKeys)
    \cup ({"reserve", "capture", "excess", "release"} \X Sessions)

Available(w) == <<"available", w>>
Reserved(w)  == <<"reserved", w>>
Clearing     == <<"platform", "clearing">>
Revenue      == <<"platform", "revenue">>
RefundAcc    == <<"platform", "refund">>
NoAccount    == <<"platform", "none">>

Accounts ==
  ({"available", "reserved"} \X Wallets)
    \cup {Clearing, Revenue, RefundAcc}

\* A posting has one debit and one credit entry of the same amount, so it
\* passes assertBalanced when the amount is positive.
Posting(debit, credit, amount) ==
  [debit |-> debit, credit |-> credit, amount |-> amount]

NoPosting == Posting(NoAccount, NoAccount, 0)

Fresh(key) == journal[key] = NoPosting

(***************************************************************************)
(* Sums.  Total(S, f) is the sum of f[x] over x in S, as the number of     *)
(* minor units <<x, i>> it consists of.                                    *)
(***************************************************************************)
Units(S, f) == {u \in S \X (1 .. MaxMinor) : u[2] <= f[u[1]]}

Total(S, f) == Cardinality(Units(S, f))

Amounts(j) == [k \in Keys |-> j[k].amount]

Credits(j, account) == {k \in Keys : j[k].credit = account}
Debits(j, account)  == {k \in Keys : j[k].debit = account}

\* The balance of an account according to the ledger entries.
Balance(j, account) ==
  Total(Credits(j, account), Amounts(j)) - Total(Debits(j, account), Amounts(j))

Held(r, w) == {s \in Sessions : r[s].wallet = w /\ r[s].status = "RESERVED"}

\* What the active reservations of wallet w hold.
HeldAmount(r, w) == Total(Held(r, w), [s \in Sessions |-> r[s].amount])

-----------------------------------------------------------------------------
(* The operations *)

Init ==
  /\ wallet = [w \in Wallets |->
                 [status |-> "ACTIVE", available |-> 0, reserved |-> 0]]
  /\ reservation = [s \in Sessions |-> NoReservation]
  /\ journal = [k \in Keys |-> NoPosting]

\* Faulty variant: the status of the locked wallet is not looked at.
ActiveUnchecked(w) == w \in Wallets

\* lockActiveWallet: every operation but setBlocked requires an ACTIVE wallet.
Active(w) == wallet[w].status = "ACTIVE"

Posted(j, key, posting) == [j EXCEPT ![key] = posting]

Post(key, posting) == journal' = Posted(journal, key, posting)

\* Faulty variant: the balance grows on a replayed key as well.
CreditOnReplay(w, key, amount) ==
  /\ ActiveUnchecked(w)
  /\ amount > 0
  /\ journal' = IF Fresh(<<"credit", key>>)
                  THEN Posted(journal, <<"credit", key>>,
                              Posting(Clearing, Available(w), amount))
                  ELSE journal
  /\ wallet' = [wallet EXCEPT ![w].available = @ + amount]
  /\ UNCHANGED reservation

\* LedgerService.post replays a key that is already posted, and the caller
\* then leaves the balance alone: only a fresh key changes anything.
Credit(w, key, amount) ==
  /\ Active(w)
  /\ amount > 0
  /\ Fresh(<<"credit", key>>)
  /\ Post(<<"credit", key>>, Posting(Clearing, Available(w), amount))
  /\ wallet' = [wallet EXCEPT ![w].available = @ + amount]
  /\ UNCHANGED reservation

Reserve(w, s, amount) ==
  /\ Active(w)
  /\ amount > 0
  /\ reservation[s] = NoReservation
  /\ amount <= wallet[w].available
  /\ reservation' = [reservation EXCEPT ![s] =
       [wallet |-> w, status |-> "RESERVED",
        amount |-> amount, captured |-> 0, released |-> 0]]
  /\ Post(<<"reserve", s>>, Posting(Available(w), Reserved(w), amount))
  /\ wallet' = [wallet EXCEPT ![w].available = @ - amount,
                              ![w].reserved = @ + amount]

(***************************************************************************)
(* captureReserved posts the captured part to revenue (if any) and the     *)
(* rest back to the available balance (if any).                            *)
(***************************************************************************)
CanCapture(w, s, amount) ==
  /\ Active(w)
  /\ reservation[s].wallet = w
  /\ reservation[s].status = "RESERVED"
  /\ amount <= reservation[s].amount

\* Faulty variant: the excess is not posted back.
CapturePostsAll(w, s, amount) ==
  IF amount > 0
    THEN Posted(journal, <<"capture", s>>,
                Posting(Reserved(w), Revenue, reservation[s].amount))
    ELSE journal

CapturePostings(w, s, amount) ==
  LET excess == reservation[s].amount - amount
      settled == IF amount > 0
                   THEN Posted(journal, <<"capture", s>>,
                               Posting(Reserved(w), Revenue, amount))
                   ELSE journal
  IN IF excess > 0
       THEN Posted(settled, <<"excess", s>>,
                   Posting(Reserved(w), Available(w), excess))
       ELSE settled

\* Faulty variant: the excess stays in the reserved balance.
CaptureKeepsExcess(w, s, amount) ==
  /\ CanCapture(w, s, amount)
  /\ journal' = CapturePostings(w, s, amount)
  /\ reservation' = [reservation EXCEPT
       ![s].status = "CAPTURED",
       ![s].captured = amount,
       ![s].released = reservation[s].amount - amount]
  /\ wallet' = [wallet EXCEPT ![w].reserved = @ - amount]

CaptureReserved(w, s, amount) ==
  /\ CanCapture(w, s, amount)
  /\ journal' = CapturePostings(w, s, amount)
  /\ reservation' = [reservation EXCEPT
       ![s].status = "CAPTURED",
       ![s].captured = amount,
       ![s].released = reservation[s].amount - amount]
  /\ wallet' = [wallet EXCEPT
       ![w].available = @ + (reservation[s].amount - amount),
       ![w].reserved = @ - reservation[s].amount]

\* A second capture of the same amount is answered, not repeated.
CaptureReplays(w, s, amount) ==
  /\ Active(w)
  /\ reservation[s].wallet = w
  /\ reservation[s].status = "CAPTURED"
  /\ reservation[s].captured = amount

CanRelease(w, s) ==
  /\ Active(w)
  /\ reservation[s].wallet = w
  /\ reservation[s].status = "RESERVED"

ReleaseReserved(w, s) ==
  /\ CanRelease(w, s)
  /\ Post(<<"release", s>>,
          Posting(Reserved(w), Available(w), reservation[s].amount))
  /\ reservation' = [reservation EXCEPT
       ![s].status = "RELEASED", ![s].released = reservation[s].amount]
  /\ wallet' = [wallet EXCEPT ![w].available = @ + reservation[s].amount,
                              ![w].reserved = @ - reservation[s].amount]

ReleaseReplays(w, s) ==
  /\ Active(w)
  /\ reservation[s].wallet = w
  /\ reservation[s].status = "RELEASED"

Refund(w, key, amount) ==
  /\ Active(w)
  /\ amount > 0
  /\ Fresh(<<"refund", key>>)
  /\ Post(<<"refund", key>>, Posting(RefundAcc, Available(w), amount))
  /\ wallet' = [wallet EXCEPT ![w].available = @ + amount]
  /\ UNCHANGED reservation

SetBlocked(w, blocked) ==
  /\ wallet' = [wallet EXCEPT ![w].status =
                  IF blocked THEN "BLOCKED" ELSE "ACTIVE"]
  /\ UNCHANGED <<reservation, journal>>

WalletStep(w) ==
  \/ \E k \in CreditKeys, a \in Money : Credit(w, k, a)
  \/ \E k \in RefundKeys, a \in Money : Refund(w, k, a)
  \/ \E s \in Sessions, a \in Money : Reserve(w, s, a)
  \/ \E s \in Sessions, a \in Money : CaptureReserved(w, s, a)
  \/ \E s \in Sessions : ReleaseReserved(w, s)
  \/ \E b \in BOOLEAN : SetBlocked(w, b)

Next == \E w \in Wallets : WalletStep(w)

Spec == Init /\ [][Next]_vars

-----------------------------------------------------------------------------
(* Properties *)

\* The rows have the types of the schema.  Balances and the columns of a
\* reservation are natural numbers: the CHECK constraints of the database
\* (balances >= 0, captured + released <= amount) never stop an operation.
TypeOK ==
  /\ wallet \in [Wallets -> [status : WalletStatus,
                             available : Nat, reserved : Nat]]
  /\ reservation \in [Sessions -> [wallet : Wallets \cup {NoWallet},
                                   status : ReservationStatus,
                                   amount : Money, captured : Money,
                                   released : Money]]
  /\ journal \in [Keys -> [debit : Accounts \cup {NoAccount},
                           credit : Accounts \cup {NoAccount},
                           amount : Money]]

\* The balances stored in a wallet are those its ledger accounts have,
\* whatever the order of credits, reservations, captures, releases, refunds
\* and replays: the wallet row is updated exactly when an entry is posted.
WalletMatchesLedger ==
  \A w \in Wallets :
    /\ wallet[w].available = Balance(journal, Available(w))
    /\ wallet[w].reserved = Balance(journal, Reserved(w))

\* The reserved balance is the sum of the reservations still active, so a
\* capture or a release always finds the money it takes back.
ReservedIsHeld ==
  \A w \in Wallets : wallet[w].reserved = HeldAmount(reservation, w)

\* A settled reservation is split exactly into what was captured and what was
\* given back, and the ledger shows the same split: revenue for the captured
\* part only, and never both a settlement and a release of one reservation.
SettlementInLedger ==
  \A s \in Sessions :
    /\ reservation[s].status \in {"CAPTURED", "RELEASED"}
         => reservation[s].captured + reservation[s].released
              = reservation[s].amount
    /\ journal[<<"capture", s>>].amount = reservation[s].captured
    /\ journal[<<"excess", s>>].amount + journal[<<"release", s>>].amount
         = reservation[s].released
    /\ Fresh(<<"release", s>>)
         \/ (Fresh(<<"capture", s>>) /\ Fresh(<<"excess", s>>))

\* Posted transactions are immutable (the trigger of the migration rejects an
\* update), a reservation settles once, and a blocked wallet is frozen.
OnlyGrows ==
  /\ \A k \in Keys : journal[k] # NoPosting => journal'[k] = journal[k]
  /\ \A s \in Sessions :
       reservation[s].status \in {"CAPTURED", "RELEASED"}
         => reservation'[s] = reservation[s]
  /\ \A w \in Wallets :
       wallet[w].status = "BLOCKED"
         => /\ wallet'[w].available = wallet[w].available
            /\ wallet'[w].reserved = wallet[w].reserved

LedgerOnlyGrows == [][OnlyGrows]_vars

=============================================================================
