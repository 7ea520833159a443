------------------------- MODULE WalletLedgerProofs -------------------------
(***************************************************************************)
(* Proofs about WalletLedger for every set of wallets, sessions and keys   *)
(* and every bound on amounts.                                             *)
(***************************************************************************)
EXTENDS WalletLedger, FiniteSetTheorems, TLAPS

-----------------------------------------------------------------------------
(* Sums *)

\* The units of a finite set of amounts are finite, so their number is a
\* natural number.
LEMMA TotalType ==
  ASSUME NEW S, IsFiniteSet(S), NEW f
  PROVE  IsFiniteSet(Units(S, f)) /\ Total(S, f) \in Nat
<1>1. IsFiniteSet(1 .. MaxMinor)
  BY FS_Interval, MaxMinorAssumption
<1>2. IsFiniteSet(S \X (1 .. MaxMinor))
  BY <1>1, FS_Product
<1>3. Units(S, f) \in SUBSET (S \X (1 .. MaxMinor))
  BY DEF Units
<1>4. IsFiniteSet(Units(S, f))
  BY <1>2, <1>3, FS_Subset
<1>5. QED
  BY <1>4, FS_CardinalityType DEF Total

\* A sum depends only on the amounts of its own elements.
LEMMA TotalSame ==
  ASSUME NEW S, NEW f, NEW g, \A x \in S : f[x] = g[x]
  PROVE  Total(S, f) = Total(S, g)
<1>1. Units(S, f) = Units(S, g)
  BY DEF Units
<1>2. QED
  BY <1>1 DEF Total

\* Nothing sums to zero.
LEMMA TotalEmpty ==
  ASSUME NEW f
  PROVE  Total({}, f) = 0
<1>1. Units({}, f) = {}
  BY DEF Units
<1>2. QED
  BY <1>1, FS_EmptySet DEF Total

\* Adding one element adds its amount.
LEMMA TotalAdd ==
  ASSUME NEW S, IsFiniteSet(S), NEW x, x \notin S, NEW f, f[x] \in Money
  PROVE  Total(S \cup {x}, f) = Total(S, f) + f[x]
<1> DEFINE own == {x} \X (1 .. f[x])
<1>1. IsFiniteSet({x}) /\ Cardinality({x}) = 1
  BY FS_Singleton
<1>0. f[x] \in Nat /\ 1 \in Int /\ f[x] \in Int
  BY MaxMinorAssumption DEF Money
<1>2. IsFiniteSet(1 .. f[x]) /\ Cardinality(1 .. f[x]) = f[x]
  <2>1. /\ IsFiniteSet(1 .. f[x])
        /\ Cardinality(1 .. f[x]) = IF 1 > f[x] THEN 0 ELSE f[x] - 1 + 1
    BY ONLY <1>0, FS_Interval
  <2>2. QED
    BY <1>0, <2>1
<1>3. IsFiniteSet(own) /\ Cardinality(own) = f[x]
  <2>1. IsFiniteSet(own) /\ Cardinality(own) = Cardinality({x}) * Cardinality(1 .. f[x])
    BY <1>1, <1>2, FS_Product
  <2>2. QED
    BY <1>0, <1>1, <1>2, <2>1
<1>4. IsFiniteSet(Units(S, f))
  BY TotalType
<1>5. Units(S \cup {x}, f) = Units(S, f) \cup own
  <2>1. 1 .. f[x] \subseteq 1 .. MaxMinor
    BY MaxMinorAssumption DEF Money
  <2>2. ASSUME NEW u \in Units(S \cup {x}, f)
        PROVE  u \in Units(S, f) \cup own
    BY <2>2, MaxMinorAssumption DEF Units, Money
  <2>3. ASSUME NEW u \in own
        PROVE  u \in Units(S \cup {x}, f)
    BY <2>1, <2>3, MaxMinorAssumption DEF Units, Money
  <2>4. Units(S, f) \subseteq Units(S \cup {x}, f)
    BY DEF Units
  <2>5. QED
    BY <2>2, <2>3, <2>4
<1>6. Units(S, f) \cap own = {}
  BY DEF Units
<1>7. Cardinality(Units(S, f) \cup own) = Cardinality(Units(S, f)) + Cardinality(own)
  <2>1. Cardinality(Units(S, f) \cap own) = 0
    BY <1>6, FS_EmptySet
  <2>2. Cardinality(Units(S, f)) \in Nat /\ Cardinality(own) \in Nat
    BY <1>3, <1>4, FS_CardinalityType
  <2>3. Cardinality(Units(S, f) \cup own) =
          Cardinality(Units(S, f)) + Cardinality(own) - Cardinality(Units(S, f) \cap own)
    BY <1>3, <1>4, FS_Union
  <2>4. QED
    BY <2>1, <2>2, <2>3
<1>8. QED
  BY <1>3, <1>5, <1>7 DEF Total

\* Removing one element takes its amount away.
LEMMA TotalRemove ==
  ASSUME NEW S, IsFiniteSet(S), NEW x \in S, NEW f, f[x] \in Money
  PROVE  Total(S \ {x}, f) = Total(S, f) - f[x]
<1>1. IsFiniteSet(S \ {x})
  BY FS_RemoveElement
<1>2. Total((S \ {x}) \cup {x}, f) = Total(S \ {x}, f) + f[x]
  BY <1>1, TotalAdd
<1>3. (S \ {x}) \cup {x} = S
  OBVIOUS
<1>4. Total(S \ {x}, f) \in Nat
  BY <1>1, TotalType
<1>5. Total(S, f) = Total(S \ {x}, f) + f[x]
  BY <1>2, <1>3
<1>6. f[x] \in Nat
  BY MaxMinorAssumption DEF Money
<1>7. QED
  BY <1>4, <1>5, <1>6

-----------------------------------------------------------------------------
(* Ledger balances *)

\* The ledger has finitely many keys.
LEMMA KeysFinite == IsFiniteSet(Keys)
<1>1. IsFiniteSet({"credit"}) /\ IsFiniteSet({"refund"})
  BY FS_Singleton
<1>2. IsFiniteSet({"reserve", "capture", "excess", "release"})
  <2>1. IsFiniteSet({"reserve"})
    BY FS_Singleton
  <2>2. IsFiniteSet({"reserve"} \cup {"capture"})
    BY <2>1, FS_AddElement
  <2>3. IsFiniteSet(({"reserve"} \cup {"capture"}) \cup {"excess"})
    BY <2>2, FS_AddElement
  <2>4. IsFiniteSet((({"reserve"} \cup {"capture"}) \cup {"excess"}) \cup {"release"})
    BY <2>3, FS_AddElement
  <2>5. (({"reserve"} \cup {"capture"}) \cup {"excess"}) \cup {"release"}
          = {"reserve", "capture", "excess", "release"}
    OBVIOUS
  <2>6. QED
    BY <2>4, <2>5
<1>3. /\ IsFiniteSet({"credit"} \X CreditKeys)
      /\ IsFiniteSet({"refund"} \X RefundKeys)
      /\ IsFiniteSet({"reserve", "capture", "excess", "release"} \X Sessions)
  BY <1>1, <1>2, FS_Product, FiniteAssumption
<1>4. IsFiniteSet(({"credit"} \X CreditKeys) \cup ({"refund"} \X RefundKeys))
  BY <1>3, FS_Union
<1>5. QED
  BY <1>3, <1>4, FS_Union DEF Keys

Postings == [debit : Accounts \cup {NoAccount},
             credit : Accounts \cup {NoAccount},
             amount : Money]

\* Balances are integers.
LEMMA BalanceType ==
  ASSUME NEW j, NEW account
  PROVE  Balance(j, account) \in Int
<1>1. IsFiniteSet(Credits(j, account)) /\ IsFiniteSet(Debits(j, account))
  BY KeysFinite, FS_Subset DEF Credits, Debits
<1>2. QED
  BY <1>1, TotalType DEF Balance

\* Posting under a fresh key moves the amount from the debited to the credited
\* account and leaves every other account as it was.
LEMMA BalancePosted ==
  ASSUME NEW j \in [Keys -> Postings],
         NEW k \in Keys, j[k] = NoPosting,
         NEW d \in Accounts, NEW c \in Accounts, d # c,
         NEW a \in Money,
         NEW account \in Accounts
  PROVE  Balance(Posted(j, k, Posting(d, c, a)), account) =
           Balance(j, account) + (IF account = c THEN a ELSE 0)
                               - (IF account = d THEN a ELSE 0)
<1> DEFINE n == Posted(j, k, Posting(d, c, a))
<1>1. /\ n[k] = Posting(d, c, a)
      /\ \A x \in Keys \ {k} : n[x] = j[x]
  BY DEF Posted
<1>2. account # NoAccount
  BY DEF Accounts, NoAccount, Clearing, Revenue, RefundAcc
<1>3. k \notin Credits(j, account) /\ k \notin Debits(j, account)
  BY <1>2 DEF Credits, Debits, NoPosting, Posting
<1>4. IsFiniteSet(Credits(j, account)) /\ IsFiniteSet(Debits(j, account))
  BY KeysFinite, FS_Subset DEF Credits, Debits
<1>5. /\ Total(Credits(j, account), Amounts(n)) = Total(Credits(j, account), Amounts(j))
      /\ Total(Debits(j, account), Amounts(n)) = Total(Debits(j, account), Amounts(j))
  <2>1. \A x \in Credits(j, account) : Amounts(n)[x] = Amounts(j)[x]
    BY <1>1, <1>3 DEF Amounts, Credits
  <2>2. \A x \in Debits(j, account) : Amounts(n)[x] = Amounts(j)[x]
    BY <1>1, <1>3 DEF Amounts, Debits
  <2>3. QED
    BY <2>1, <2>2, TotalSame
<1>6. Amounts(n)[k] = a
  BY <1>1 DEF Amounts, Posting
<1>7. /\ Total(Credits(j, account), Amounts(j)) \in Nat
      /\ Total(Debits(j, account), Amounts(j)) \in Nat
  BY <1>4, TotalType
<1>8. CASE account = c
  <2>1. Credits(n, account) = Credits(j, account) \cup {k}
    BY <1>1, <1>8 DEF Credits, Posting
  <2>2. Debits(n, account) = Debits(j, account)
    BY <1>1, <1>3, <1>8 DEF Debits, Posting
  <2>3. Total(Credits(n, account), Amounts(n)) = Total(Credits(j, account), Amounts(n)) + a
    BY <2>1, <1>3, <1>4, <1>6, TotalAdd
  <2>4. QED
    BY <2>2, <2>3, <1>5, <1>7, <1>8, MaxMinorAssumption DEF Balance, Money
<1>9. CASE account = d
  <2>1. Debits(n, account) = Debits(j, account) \cup {k}
    BY <1>1, <1>9 DEF Debits, Posting
  <2>2. Credits(n, account) = Credits(j, account)
    BY <1>1, <1>3, <1>9 DEF Credits, Posting
  <2>3. Total(Debits(n, account), Amounts(n)) = Total(Debits(j, account), Amounts(n)) + a
    BY <2>1, <1>3, <1>4, <1>6, TotalAdd
  <2>4. QED
    BY <2>2, <2>3, <1>5, <1>7, <1>9, MaxMinorAssumption DEF Balance, Money
<1>10. CASE account # c /\ account # d
  <2>1. Credits(n, account) = Credits(j, account)
    BY <1>1, <1>3, <1>10 DEF Credits, Posting
  <2>2. Debits(n, account) = Debits(j, account)
    BY <1>1, <1>3, <1>10 DEF Debits, Posting
  <2>3. QED
    BY <2>1, <2>2, <1>5, <1>7, <1>10 DEF Balance
<1>11. QED
  BY <1>8, <1>9, <1>10

\* The accounts of different wallets and of the platform are different.
LEMMA AccountsDistinct ==
  /\ \A w \in Wallets : Available(w) \in Accounts /\ Reserved(w) \in Accounts
  /\ Clearing \in Accounts /\ Revenue \in Accounts /\ RefundAcc \in Accounts
  /\ \A w, v \in Wallets :
       /\ Available(w) = Available(v) <=> w = v
       /\ Reserved(w) = Reserved(v) <=> w = v
       /\ Available(w) # Reserved(v)
  /\ \A w \in Wallets :
       /\ Available(w) \notin {Clearing, Revenue, RefundAcc}
       /\ Reserved(w) \notin {Clearing, Revenue, RefundAcc}
BY DEF Available, Reserved, Clearing, Revenue, RefundAcc, Accounts

-----------------------------------------------------------------------------
(* Held amounts *)

\* What session s contributes to the amount wallet w holds.
HeldPart(r, s, w) == IF s \in Held(r, w) THEN r[s].amount ELSE 0

\* Changing the reservation of one session changes what a wallet holds by
\* what that session holds after the change less what it held before.
LEMMA HeldChange ==
  ASSUME NEW r, NEW q, NEW s \in Sessions, NEW w,
         \A x \in Sessions \ {s} : q[x] = r[x],
         r[s].amount \in Money, q[s].amount \in Money
  PROVE  HeldAmount(q, w) = HeldAmount(r, w)
                              + HeldPart(q, s, w) - HeldPart(r, s, w)
<1> DEFINE others == Held(r, w) \ {s}
           f == [x \in Sessions |-> r[x].amount]
           g == [x \in Sessions |-> q[x].amount]
           dr == IF s \in Held(r, w) THEN r[s].amount ELSE 0
           dq == IF s \in Held(q, w) THEN q[s].amount ELSE 0
<1>1. IsFiniteSet(Held(r, w)) /\ IsFiniteSet(Held(q, w)) /\ IsFiniteSet(others)
  <2>1. Held(r, w) \in SUBSET Sessions /\ Held(q, w) \in SUBSET Sessions
    BY DEF Held
  <2>2. others \in SUBSET Sessions
    BY <2>1
  <2>3. QED
    BY <2>1, <2>2, FS_Subset, FiniteAssumption
<1>2. others = Held(q, w) \ {s}
  BY DEF Held
<1>3. Total(others, f) = Total(others, g)
  <2>1. \A x \in others : f[x] = g[x]
    BY DEF Held
  <2>2. QED
    BY <2>1, TotalSame
<1>4. /\ f[s] = r[s].amount /\ g[s] = q[s].amount
      /\ f[s] \in Nat /\ g[s] \in Nat
      /\ f[s] \in Money /\ g[s] \in Money
  BY MaxMinorAssumption DEF Money
<1>5. /\ Total(others, f) \in Nat
      /\ Total(Held(r, w), f) \in Nat
      /\ Total(Held(q, w), g) \in Nat
  BY <1>1, TotalType
<1>6. Total(others, f) = Total(Held(r, w), f) - dr
  <2>1. CASE s \in Held(r, w)
    <3>1. Total(Held(r, w) \ {s}, f) = Total(Held(r, w), f) - f[s]
      BY <1>1, <1>4, <2>1, TotalRemove
    <3>2. dr = f[s]
      BY <1>4, <2>1
    <3>3. QED
      BY <1>2, <3>1, <3>2
  <2>2. CASE s \notin Held(r, w)
    <3>1. Total(others, f) = Total(Held(r, w), f)
      <4>1. others = Held(r, w)
        BY <1>2, <2>2
      <4>2. QED
        BY <4>1
    <3>2. dr = 0
      BY <2>2
    <3> HIDE DEF others, f, dr
    <3>3. QED
      BY <1>5, <3>1, <3>2
  <2>3. QED
    BY <2>1, <2>2
<1>7. Total(others, g) = Total(Held(q, w), g) - dq
  <2>1. CASE s \in Held(q, w)
    <3>1. Total(Held(q, w) \ {s}, g) = Total(Held(q, w), g) - g[s]
      BY <1>1, <1>4, <2>1, TotalRemove
    <3>2. dq = g[s]
      BY <1>4, <2>1
    <3>3. QED
      BY <1>2, <3>1, <3>2
  <2>2. CASE s \notin Held(q, w)
    <3>1. Total(others, g) = Total(Held(q, w), g)
      <4>1. others = Held(q, w)
        BY <1>2, <2>2
      <4>2. QED
        BY <4>1
    <3>2. dq = 0
      BY <2>2
    <3> HIDE DEF others, g, dq
    <3>3. QED
      BY <1>5, <3>1, <3>2
  <2>3. QED
    BY <2>1, <2>2
<1>8. HeldAmount(r, w) = Total(Held(r, w), f) /\ HeldAmount(q, w) = Total(Held(q, w), g)
  BY DEF HeldAmount
<1>9. dr \in Nat /\ dq \in Nat
  BY <1>4
<1>10. HeldAmount(q, w) = HeldAmount(r, w) + dq - dr
  <2> HIDE DEF others, f, g, dr, dq
  <2>1. Total(Held(q, w), g) - dq = Total(Held(r, w), f) - dr
    BY <1>3, <1>6, <1>7
  <2>2. \A a, b, c, d \in Nat : b - d = a - c => b = a + d - c
    OBVIOUS
  <2>3. Total(Held(q, w), g) = Total(Held(r, w), f) + dq - dr
    <3>1. Total(Held(q, w), g) \in Nat
      BY <1>5
    <3>2. Total(Held(r, w), f) \in Nat
      BY <1>5
    <3>3. dr \in Nat
      BY <1>9
    <3>4. dq \in Nat
      BY <1>9
    <3>5. QED
      BY <3>1, <3>2, <3>3, <3>4, <2>1, <2>2
  <2>4. QED
    BY <1>8, <2>3
<1>11. QED
  BY <1>10 DEF HeldPart

-----------------------------------------------------------------------------
(* The inductive invariant *)

Rows == [wallet : Wallets \cup {NoWallet}, status : ReservationStatus,
         amount : Money, captured : Money, released : Money]

\* A posted transaction moves a positive amount, so a key whose posting moves
\* nothing is a fresh one.
PostedPositive ==
  \A k \in Keys : journal[k].amount = 0 => journal[k] = NoPosting

\* What the columns of a reservation are before it settles.
OpenReservations ==
  \A s \in Sessions :
    LET r == reservation[s] IN
    /\ r.status = "NONE" => r = NoReservation /\ Fresh(<<"reserve", s>>)
    /\ r.status = "RESERVED" =>
         /\ r.wallet \in Wallets
         /\ r.amount > 0
         /\ r.captured = 0
         /\ r.released = 0

LedgerInv ==
  /\ TypeOK
  /\ PostedPositive
  /\ OpenReservations
  /\ WalletMatchesLedger
  /\ ReservedIsHeld
  /\ SettlementInLedger

\* Every step posts under a key that is a key of the ledger.
LEMMA SessionKeys ==
  \A s \in Sessions :
    /\ <<"reserve", s>> \in Keys
    /\ <<"capture", s>> \in Keys
    /\ <<"excess", s>> \in Keys
    /\ <<"release", s>> \in Keys
BY DEF Keys

\* Amounts of postings are natural numbers.
LEMMA PostingType ==
  ASSUME TypeOK, NEW k \in Keys
  PROVE  journal[k] \in Postings /\ journal[k].amount \in Nat
<1>1. journal[k] \in Postings
  BY DEF TypeOK, Postings
<1>2. QED
  BY <1>1, MaxMinorAssumption DEF Postings, Money

\* The keys of an unsettled reservation's postings are fresh.
LEMMA UnsettledKeys ==
  ASSUME LedgerInv, NEW s \in Sessions,
         reservation[s].status \in {"NONE", "RESERVED"}
  PROVE  /\ Fresh(<<"capture", s>>) /\ Fresh(<<"excess", s>>)
         /\ Fresh(<<"release", s>>)
         /\ reservation[s].captured = 0 /\ reservation[s].released = 0
<1>1. reservation[s].captured = 0 /\ reservation[s].released = 0
  <2>1. CASE reservation[s].status = "NONE"
    <3>1. reservation[s] = NoReservation
      BY <2>1 DEF LedgerInv, OpenReservations
    <3>2. QED
      BY <3>1 DEF NoReservation
  <2>2. CASE reservation[s].status = "RESERVED"
    BY <2>2 DEF LedgerInv, OpenReservations
  <2>3. QED
    BY <2>1, <2>2
<1>2. /\ journal[<<"capture", s>>].amount \in Nat
      /\ journal[<<"excess", s>>].amount \in Nat
      /\ journal[<<"release", s>>].amount \in Nat
  BY SessionKeys, PostingType DEF LedgerInv
<1>3. /\ journal[<<"capture", s>>].amount = 0
      /\ journal[<<"excess", s>>].amount + journal[<<"release", s>>].amount = 0
  BY <1>1 DEF LedgerInv, SettlementInLedger
<1>4. /\ journal[<<"excess", s>>].amount = 0
      /\ journal[<<"release", s>>].amount = 0
  BY <1>2, <1>3
<1>5. QED
  BY <1>1, <1>3, <1>4, SessionKeys DEF LedgerInv, PostedPositive, Fresh

\* The initial state satisfies the invariant.
LEMMA LedgerInit == Init => LedgerInv
<1> SUFFICES ASSUME Init PROVE LedgerInv
  OBVIOUS
<1>1. TypeOK
  BY MaxMinorAssumption
  DEF Init, TypeOK, WalletStatus, ReservationStatus, NoReservation, NoPosting,
      Posting, Money
<1>2. PostedPositive /\ OpenReservations
  BY SessionKeys
  DEF Init, PostedPositive, OpenReservations, NoReservation, NoPosting, Posting, Fresh
<1>3. WalletMatchesLedger
  <2>1. ASSUME NEW account \in Accounts
        PROVE  Balance(journal, account) = 0
    <3>1. account # NoAccount
      BY DEF Accounts, NoAccount, Clearing, Revenue, RefundAcc
    <3>2. Credits(journal, account) = {} /\ Debits(journal, account) = {}
      BY <3>1 DEF Init, Credits, Debits, NoPosting, Posting
    <3>3. QED
      BY <3>2, TotalEmpty DEF Balance
  <2>2. QED
    BY <2>1, AccountsDistinct DEF Init, WalletMatchesLedger
<1>4. ReservedIsHeld
  <2>1. ASSUME NEW w \in Wallets PROVE HeldAmount(reservation, w) = 0
    <3>1. Held(reservation, w) = {}
      BY DEF Init, Held, NoReservation
    <3>2. QED
      BY <3>1, TotalEmpty DEF HeldAmount
  <2>2. QED
    BY <2>1 DEF Init, ReservedIsHeld
<1>5. SettlementInLedger
  <2>1. ASSUME NEW s \in Sessions
        PROVE  /\ reservation[s] = NoReservation
               /\ journal[<<"capture", s>>] = NoPosting
               /\ journal[<<"excess", s>>] = NoPosting
               /\ journal[<<"release", s>>] = NoPosting
    BY SessionKeys DEF Init
  <2>2. NoPosting.amount = 0
    BY DEF NoPosting, Posting
  <2>3. /\ NoReservation.captured = 0 /\ NoReservation.released = 0
        /\ NoReservation.status = "NONE"
    BY DEF NoReservation
  <2>4. QED
    <3>1. ASSUME NEW s \in Sessions
          PROVE  /\ reservation[s].status = "NONE"
                 /\ journal[<<"capture", s>>].amount = reservation[s].captured
                 /\ journal[<<"excess", s>>].amount
                      + journal[<<"release", s>>].amount = reservation[s].released
                 /\ Fresh(<<"release", s>>)
      BY <2>1, <2>2, <2>3 DEF Fresh
    <3>2. QED
      BY <3>1 DEF SettlementInLedger
<1>6. QED
  BY <1>1, <1>2, <1>3, <1>4, <1>5 DEF LedgerInv

\* Money that enters a wallet, from a top-up or a refund, keeps the invariant.
LEMMA IncomePreserves ==
  ASSUME LedgerInv, NEW w \in Wallets, NEW k \in Keys, NEW a \in Money,
         NEW source \in {Clearing, RefundAcc},
         k[1] \in {"credit", "refund"}, a > 0, Fresh(k),
         Post(k, Posting(source, Available(w), a)),
         wallet' = [wallet EXCEPT ![w].available = @ + a],
         UNCHANGED reservation
  PROVE  LedgerInv'
<1>1. TypeOK'
  BY AccountsDistinct, MaxMinorAssumption
  DEF LedgerInv, TypeOK, Post, Posted, Posting, Money
<1>2. \A s \in Sessions :
        /\ journal'[<<"reserve", s>>] = journal[<<"reserve", s>>]
        /\ journal'[<<"capture", s>>] = journal[<<"capture", s>>]
        /\ journal'[<<"excess", s>>] = journal[<<"excess", s>>]
        /\ journal'[<<"release", s>>] = journal[<<"release", s>>]
  <2>1. ASSUME NEW s \in Sessions,
               NEW kind \in {"reserve", "capture", "excess", "release"}
        PROVE  k # <<kind, s>>
    <3>1. <<kind, s>>[1] = kind
      OBVIOUS
    <3>2. QED
      BY <3>1
  <2>2. \A x \in Keys : x # k => journal'[x] = journal[x]
    BY DEF LedgerInv, TypeOK, Post, Posted
  <2>3. QED
    BY <2>1, <2>2, SessionKeys
<1>3. PostedPositive'
  BY DEF LedgerInv, TypeOK, PostedPositive, Post, Posted, Posting
<1>4. OpenReservations' /\ SettlementInLedger'
  BY <1>2 DEF LedgerInv, OpenReservations, SettlementInLedger, Fresh
<1>5. WalletMatchesLedger'
  <2>1. \A account \in Accounts :
          Balance(journal', account) =
            Balance(journal, account) + (IF account = Available(w) THEN a ELSE 0)
                                      - (IF account = source THEN a ELSE 0)
    BY BalancePosted, AccountsDistinct
    DEF LedgerInv, TypeOK, Post, Fresh, Postings
  <2>2. ASSUME NEW v \in Wallets
        PROVE  /\ wallet'[v].available = Balance(journal', Available(v))
               /\ wallet'[v].reserved = Balance(journal', Reserved(v))
    <3>1. /\ wallet[v].available = Balance(journal, Available(v))
          /\ wallet[v].reserved = Balance(journal, Reserved(v))
          /\ wallet[v].available \in Nat /\ wallet[v].reserved \in Nat
      BY DEF LedgerInv, WalletMatchesLedger, TypeOK
    <3>2. /\ wallet'[v].available = wallet[v].available + (IF v = w THEN a ELSE 0)
          /\ wallet'[v].reserved = wallet[v].reserved
      BY <3>1 DEF LedgerInv, TypeOK
    <3>3. /\ Balance(journal', Available(v))
               = wallet[v].available + (IF v = w THEN a ELSE 0) - 0
          /\ Balance(journal', Reserved(v)) = wallet[v].reserved + 0 - 0
      BY <2>1, <3>1, AccountsDistinct
    <3>4. QED
      BY <3>1, <3>2, <3>3, MaxMinorAssumption DEF Money
  <2>3. QED
    BY <2>2 DEF WalletMatchesLedger
<1>6. ReservedIsHeld'
  BY DEF LedgerInv, ReservedIsHeld, TypeOK
<1>7. QED
  BY <1>1, <1>3, <1>4, <1>5, <1>6 DEF LedgerInv

\* Reserving keeps the invariant.
LEMMA ReservePreserves ==
  ASSUME LedgerInv, NEW w \in Wallets, NEW s \in Sessions, NEW a \in Money,
         Reserve(w, s, a)
  PROVE  LedgerInv'
<1> DEFINE k == <<"reserve", s>>
           row == [wallet |-> w, status |-> "RESERVED",
                   amount |-> a, captured |-> 0, released |-> 0]
<1>1. /\ a > 0 /\ a \in Nat /\ a <= wallet[w].available
      /\ reservation[s] = NoReservation
      /\ reservation[s].status = "NONE"
      /\ reservation' = [reservation EXCEPT ![s] = row]
      /\ journal' = Posted(journal, k, Posting(Available(w), Reserved(w), a))
      /\ wallet' = [wallet EXCEPT ![w].available = @ - a, ![w].reserved = @ + a]
  BY MaxMinorAssumption DEF Reserve, Post, NoReservation, Money
<1>2. /\ wallet \in [Wallets -> [status : WalletStatus, available : Nat, reserved : Nat]]
      /\ k \in Keys /\ journal[k] = NoPosting
      /\ journal \in [Keys -> Postings]
  BY <1>1, SessionKeys DEF LedgerInv, TypeOK, OpenReservations, Fresh, Postings
<1>3. \A v \in Wallets :
        /\ wallet'[v].available = wallet[v].available - (IF v = w THEN a ELSE 0)
        /\ wallet'[v].reserved = wallet[v].reserved + (IF v = w THEN a ELSE 0)
        /\ wallet[v].available \in Nat /\ wallet[v].reserved \in Nat
  BY <1>1, <1>2
<1>4. \A t \in Sessions \ {s} : reservation'[t] = reservation[t]
  BY <1>1 DEF LedgerInv, TypeOK
<1>5. reservation'[s] = row
  BY <1>1 DEF LedgerInv, TypeOK
<1>6. /\ \A x \in Keys : x # k => journal'[x] = journal[x]
      /\ journal'[k] = Posting(Available(w), Reserved(w), a)
  BY <1>1, <1>2 DEF Posted
<1>7. \A t \in Sessions :
        /\ t # s => journal'[<<"reserve", t>>] = journal[<<"reserve", t>>]
        /\ journal'[<<"capture", t>>] = journal[<<"capture", t>>]
        /\ journal'[<<"excess", t>>] = journal[<<"excess", t>>]
        /\ journal'[<<"release", t>>] = journal[<<"release", t>>]
  BY <1>6, SessionKeys
<1>8. TypeOK'
  <2>1. wallet' \in [Wallets -> [status : WalletStatus, available : Nat, reserved : Nat]]
    BY <1>1, <1>2
  <2>2. row \in [wallet : Wallets \cup {NoWallet}, status : ReservationStatus,
                 amount : Money, captured : Money, released : Money]
    BY MaxMinorAssumption DEF ReservationStatus, Money
  <2>3. reservation' \in [Sessions -> [wallet : Wallets \cup {NoWallet},
                                       status : ReservationStatus,
                                       amount : Money, captured : Money,
                                       released : Money]]
    BY <1>1, <2>2 DEF LedgerInv, TypeOK
  <2>4. journal' \in [Keys -> Postings]
    BY <1>1, <1>2, AccountsDistinct DEF Posted, Posting, Postings
  <2>5. QED
    BY <2>1, <2>3, <2>4 DEF TypeOK, Postings
<1>9. PostedPositive'
  BY <1>1, <1>6 DEF LedgerInv, PostedPositive, Posting
<1>10. OpenReservations'
  <2>1. ASSUME NEW t \in Sessions, t # s
        PROVE  /\ reservation'[t] = reservation[t]
               /\ Fresh(<<"reserve", t>>) => Fresh(<<"reserve", t>>)'
    BY <1>4, <1>7, <2>1 DEF Fresh
  <2>2. row.status = "RESERVED" /\ row.wallet \in Wallets /\ row.amount > 0
          /\ row.captured = 0 /\ row.released = 0
    BY <1>1
  <2>3. QED
    BY <1>5, <2>1, <2>2 DEF LedgerInv, OpenReservations
<1>11. SettlementInLedger'
  <2>1. row.captured = 0 /\ row.released = 0 /\ row.status = "RESERVED"
    OBVIOUS
  <2>2. /\ Fresh(<<"capture", s>>) /\ Fresh(<<"excess", s>>)
        /\ Fresh(<<"release", s>>)
    BY <1>1, UnsettledKeys
  <2>3. NoPosting.amount = 0
    BY DEF NoPosting, Posting
  <2>4. /\ journal'[<<"capture", s>>] = NoPosting
        /\ journal'[<<"excess", s>>] = NoPosting
        /\ journal'[<<"release", s>>] = NoPosting
    BY <1>7, <2>2 DEF Fresh
  <2>5. ASSUME NEW t \in Sessions
        PROVE  /\ reservation'[t].status \in {"CAPTURED", "RELEASED"}
                    => reservation'[t].captured + reservation'[t].released
                         = reservation'[t].amount
               /\ journal'[<<"capture", t>>].amount = reservation'[t].captured
               /\ journal'[<<"excess", t>>].amount + journal'[<<"release", t>>].amount
                    = reservation'[t].released
               /\ \/ journal'[<<"release", t>>] = NoPosting
                  \/ /\ journal'[<<"capture", t>>] = NoPosting
                     /\ journal'[<<"excess", t>>] = NoPosting
    <3>1. CASE t = s
      BY <1>5, <2>1, <2>3, <2>4, <3>1
    <3>2. CASE t # s
      BY <1>4, <1>7, <3>2 DEF LedgerInv, SettlementInLedger, Fresh
    <3>3. QED
      BY <3>1, <3>2
  <2>6. QED
    BY <2>5 DEF SettlementInLedger, Fresh
<1>12. WalletMatchesLedger'
  <2>1. \A account \in Accounts :
          Balance(journal', account) =
            Balance(journal, account) + (IF account = Reserved(w) THEN a ELSE 0)
                                      - (IF account = Available(w) THEN a ELSE 0)
    BY <1>1, <1>2, BalancePosted, AccountsDistinct
  <2>2. ASSUME NEW v \in Wallets
        PROVE  /\ wallet'[v].available = Balance(journal', Available(v))
               /\ wallet'[v].reserved = Balance(journal', Reserved(v))
    <3>1. /\ wallet[v].available = Balance(journal, Available(v))
          /\ wallet[v].reserved = Balance(journal, Reserved(v))
      BY DEF LedgerInv, WalletMatchesLedger
    <3>2. /\ Balance(journal', Available(v))
               = wallet[v].available + 0 - (IF v = w THEN a ELSE 0)
          /\ Balance(journal', Reserved(v))
               = wallet[v].reserved + (IF v = w THEN a ELSE 0) - 0
      BY <2>1, <3>1, AccountsDistinct
    <3>3. CASE v = w
      <4>1. a \in Nat
        BY <1>1
      <4>2. wallet[v].available \in Nat
        BY <1>3
      <4>3. wallet[v].reserved \in Nat
        BY <1>3
      <4>4. Balance(journal', Available(v)) = wallet[v].available + 0 - a
        BY <3>2, <3>3
      <4>5. Balance(journal', Reserved(v)) = wallet[v].reserved + a - 0
        BY <3>2, <3>3
      <4>6. wallet'[v].available = wallet[v].available - a
        BY <1>3, <3>3
      <4>7. wallet'[v].reserved = wallet[v].reserved + a
        BY <1>3, <3>3
      <4>8. wallet'[v].available = Balance(journal', Available(v))
        BY <4>1, <4>2, <4>4, <4>6
      <4>9. wallet'[v].reserved = Balance(journal', Reserved(v))
        BY <4>1, <4>3, <4>5, <4>7
      <4>10. QED
        BY <4>8, <4>9
    <3>4. CASE v # w
      <4>1. /\ Balance(journal', Available(v)) = wallet[v].available
            /\ wallet'[v].available = wallet[v].available
        BY <1>3, <3>2, <3>4
      <4>2. /\ Balance(journal', Reserved(v)) = wallet[v].reserved
            /\ wallet'[v].reserved = wallet[v].reserved
        BY <1>3, <3>2, <3>4
      <4>3. QED
        BY <4>1, <4>2
    <3>5. QED
      BY <3>3, <3>4
  <2>3. QED
    BY <2>2 DEF WalletMatchesLedger
<1>13. ReservedIsHeld'
  <2>1. ASSUME NEW v \in Wallets
        PROVE  wallet'[v].reserved = HeldAmount(reservation', v)
    <3>1. reservation[s].amount \in Money /\ reservation'[s].amount \in Money
      BY <1>1, <1>5, MaxMinorAssumption DEF NoReservation, Money
    <3>2. HeldAmount(reservation', v) = HeldAmount(reservation, v)
            + HeldPart(reservation', s, v) - HeldPart(reservation, s, v)
      BY <1>4, <3>1, HeldChange
    <3>3. s \notin Held(reservation, v)
      BY <1>1 DEF Held
    <3>4. s \in Held(reservation', v) <=> v = w
      BY <1>5 DEF Held
    <3>5. reservation'[s].amount = a
      BY <1>5
    <3>6. wallet[v].reserved = HeldAmount(reservation, v)
      BY DEF LedgerInv, ReservedIsHeld
    <3>7. HeldAmount(reservation', v) = wallet[v].reserved + (IF v = w THEN a ELSE 0) - 0
      BY <3>2, <3>3, <3>4, <3>5, <3>6 DEF HeldPart
    <3>8. wallet[v].reserved \in Nat
      BY <1>3
    <3>9. wallet'[v].reserved = wallet[v].reserved + (IF v = w THEN a ELSE 0)
      BY <1>3
    <3> DEFINE delta == IF v = w THEN a ELSE 0
    <3>10. delta \in Nat
      BY <1>1
    <3>11. HeldAmount(reservation', v) = wallet[v].reserved + delta
      <4>1. HeldAmount(reservation', v) = wallet[v].reserved + delta - 0
        BY <3>7
      <4> HIDE DEF delta
      <4>2. QED
        BY <3>8, <3>10, <4>1
    <3>12. QED
      BY <3>9, <3>11
  <2>2. QED
    BY <2>1 DEF ReservedIsHeld
<1>14. QED
  BY <1>8, <1>9, <1>10, <1>11, <1>12, <1>13 DEF LedgerInv

\* A wallet's reserved balance covers each of its active reservations.
LEMMA HeldCovers ==
  ASSUME LedgerInv, NEW w \in Wallets, NEW s \in Held(reservation, w)
  PROVE  /\ s \in Sessions
         /\ reservation[s].amount \in Money
         /\ reservation[s].amount \in Nat
         /\ reservation[s].amount > 0
         /\ reservation[s].amount <= wallet[w].reserved
<1> DEFINE f == [x \in Sessions |-> reservation[x].amount]
           others == Held(reservation, w) \ {s}
<1>1. s \in Sessions
  BY DEF Held
<1>2. reservation[s].amount \in Money
  BY <1>1 DEF LedgerInv, TypeOK
<1>3. reservation[s].amount \in Nat
  BY <1>2, MaxMinorAssumption DEF Money
<1>4. reservation[s].amount > 0
  BY <1>1 DEF LedgerInv, OpenReservations, Held
<1>5. IsFiniteSet(Held(reservation, w)) /\ IsFiniteSet(others)
  <2>1. Held(reservation, w) \in SUBSET Sessions /\ others \in SUBSET Sessions
    BY DEF Held
  <2>2. QED
    BY <2>1, FS_Subset, FiniteAssumption
<1>6. f[s] = reservation[s].amount
  BY <1>1
<1>7. Total(others, f) = Total(Held(reservation, w), f) - f[s]
  BY <1>2, <1>5, <1>6, TotalRemove
<1>8. Total(others, f) \in Nat
  BY <1>5, TotalType
<1>9. Total(Held(reservation, w), f) \in Nat
  BY <1>5, TotalType
<1>10. wallet[w].reserved = Total(Held(reservation, w), f)
  BY DEF LedgerInv, ReservedIsHeld, HeldAmount
<1>11. reservation[s].amount <= wallet[w].reserved
  <2> HIDE DEF f, others
  <2>1. \A x, y, z \in Nat : x = y - z => z <= y
    OBVIOUS
  <2>2. f[s] \in Nat
    BY <1>3, <1>6
  <2>3. QED
    BY <1>6, <1>7, <1>8, <1>9, <1>10, <2>1, <2>2
<1>12. QED
  BY <1>1, <1>2, <1>3, <1>4, <1>11

\* Settling an active reservation, whatever it is settled to, takes its whole
\* amount from the wallet's reserved balance and from what the wallet holds.
LEMMA SettlingPreservesHeld ==
  ASSUME LedgerInv, NEW w \in Wallets, NEW s \in Sessions, s \in Held(reservation, w),
         NEW row, row.status \in {"CAPTURED", "RELEASED"}, row.amount \in Money,
         \A t \in Sessions \ {s} : reservation'[t] = reservation[t],
         reservation'[s] = row,
         \A v \in Wallets :
           wallet'[v].reserved = wallet[v].reserved
                                   - (IF v = w THEN reservation[s].amount ELSE 0)
  PROVE  ReservedIsHeld'
<1> DEFINE a == reservation[s].amount
<1>1. s \in Sessions /\ a \in Money /\ a \in Nat
  BY HeldCovers
<1>2. /\ \A t \in Sessions \ {s} : reservation'[t] = reservation[t]
      /\ reservation'[s] = row
  OBVIOUS
<1>3. ASSUME NEW v \in Wallets
      PROVE  wallet'[v].reserved = HeldAmount(reservation', v)
  <2> DEFINE delta == IF v = w THEN a ELSE 0
  <2>1. HeldAmount(reservation', v) = HeldAmount(reservation, v)
          + HeldPart(reservation', s, v) - HeldPart(reservation, s, v)
    <3>1. reservation[s].amount \in Money /\ reservation'[s].amount \in Money
      BY <1>1, <1>2
    <3>2. \A t \in Sessions \ {s} : reservation'[t] = reservation[t]
      BY <1>2
    <3>3. s \in Sessions
      BY <1>1
    <3>4. QED
      BY ONLY <3>1, <3>2, <3>3, HeldChange
  <2>2. s \notin Held(reservation', v)
    BY <1>2 DEF Held
  <2>3. s \in Held(reservation, v) <=> v = w
    BY DEF Held
  <2>4. HeldAmount(reservation, v) = wallet[v].reserved
    BY DEF LedgerInv, ReservedIsHeld
  <2>5. HeldAmount(reservation', v) = wallet[v].reserved + 0 - delta
    BY <2>1, <2>2, <2>3, <2>4 DEF HeldPart
  <2>6. delta \in Nat
    BY <1>1
  <2>7. wallet[v].reserved \in Nat
    BY DEF LedgerInv, TypeOK
  <2>8. wallet'[v].reserved = wallet[v].reserved - delta
    OBVIOUS
  <2> HIDE DEF delta
  <2>9. QED
    BY <2>5, <2>6, <2>7, <2>8
<1>4. QED
  BY <1>3 DEF ReservedIsHeld

\* The ledger balances after the two postings of a capture.
LEMMA CaptureBalances ==
  ASSUME LedgerInv, NEW w \in Wallets, NEW s \in Held(reservation, w),
         NEW b \in Money, b <= reservation[s].amount,
         NEW account \in Accounts
  PROVE  Balance(CapturePostings(w, s, b), account) =
           Balance(journal, account)
             + (IF account = Available(w) THEN reservation[s].amount - b ELSE 0)
             + (IF account = Revenue THEN b ELSE 0)
             - (IF account = Reserved(w) THEN reservation[s].amount ELSE 0)
<1> DEFINE a == reservation[s].amount
           e == a - b
           settled == IF b > 0
                        THEN Posted(journal, <<"capture", s>>,
                                    Posting(Reserved(w), Revenue, b))
                        ELSE journal
           final == IF e > 0
                      THEN Posted(settled, <<"excess", s>>,
                                  Posting(Reserved(w), Available(w), e))
                      ELSE settled
           B0 == Balance(journal, account)
           B1 == Balance(settled, account)
           B2 == Balance(final, account)
<1>1. s \in Sessions /\ a \in Nat /\ b \in Nat
  BY HeldCovers, MaxMinorAssumption DEF Money
<1>2. e \in Money /\ e \in Nat
  <2>1. a \in Money
    BY HeldCovers
  <2>2. QED
    BY <1>1, <2>1, MaxMinorAssumption DEF Money
<1>3. /\ journal \in [Keys -> Postings]
      /\ journal[<<"capture", s>>] = NoPosting
      /\ journal[<<"excess", s>>] = NoPosting
  <2>1. reservation[s].status = "RESERVED"
    BY DEF Held
  <2>2. QED
    BY <1>1, <2>1, UnsettledKeys DEF LedgerInv, TypeOK, Postings, Fresh
<1>4. B1 = B0 + (IF account = Revenue THEN b ELSE 0)
              - (IF account = Reserved(w) THEN b ELSE 0)
  <2>1. CASE b > 0
    <3>1. B1 = Balance(Posted(journal, <<"capture", s>>,
                              Posting(Reserved(w), Revenue, b)), account)
      BY <2>1
    <3>2. /\ <<"capture", s>> \in Keys
          /\ Reserved(w) \in Accounts /\ Revenue \in Accounts
          /\ Reserved(w) # Revenue
      BY <1>1, SessionKeys, AccountsDistinct
    <3> HIDE DEF B0, B1
    <3>3. B1 = Balance(journal, account) + (IF account = Revenue THEN b ELSE 0)
                                         - (IF account = Reserved(w) THEN b ELSE 0)
      BY <1>3, <3>1, <3>2, BalancePosted
    <3>4. QED
      BY <3>3 DEF B0
  <2>2. CASE b = 0
    <3>1. B1 = B0
      BY <2>2
    <3>2. B0 \in Int
      BY BalanceType
    <3> HIDE DEF B0, B1
    <3>3. QED
      BY <2>2, <3>1, <3>2
  <2>3. QED
    BY <1>1, <2>1, <2>2
<1>5. settled \in [Keys -> Postings] /\ settled[<<"excess", s>>] = NoPosting
  <2>1. <<"excess", s>> # <<"capture", s>>
    OBVIOUS
  <2>2. Posting(Reserved(w), Revenue, b) \in Postings
    BY AccountsDistinct DEF Posting, Postings
  <2>3. QED
    BY <1>1, <1>3, <2>1, <2>2, SessionKeys DEF Posted
<1>6. B2 = B1 + (IF account = Available(w) THEN e ELSE 0)
              - (IF account = Reserved(w) THEN e ELSE 0)
  <2>1. CASE e > 0
    <3>1. B2 = Balance(Posted(settled, <<"excess", s>>,
                              Posting(Reserved(w), Available(w), e)), account)
      BY <2>1
    <3>2. /\ <<"excess", s>> \in Keys
          /\ Reserved(w) \in Accounts /\ Available(w) \in Accounts
          /\ Reserved(w) # Available(w)
      BY <1>1, SessionKeys, AccountsDistinct
    <3> HIDE DEF settled, e, B2, B1
    <3>3. B2 = Balance(settled, account) + (IF account = Available(w) THEN e ELSE 0)
                                         - (IF account = Reserved(w) THEN e ELSE 0)
      BY <1>2, <1>5, <3>1, <3>2, BalancePosted
    <3>4. QED
      BY <3>3 DEF B1
  <2>2. CASE e = 0
    <3>1. B2 = B1
      BY <2>2
    <3>2. B1 \in Int
      BY BalanceType
    <3> HIDE DEF B1, B2, e
    <3>3. QED
      BY <2>2, <3>1, <3>2
  <2>3. QED
    BY <1>2, <2>1, <2>2
<1>7. final = CapturePostings(w, s, b)
  BY DEF CapturePostings
<1>8. B0 \in Int
  BY BalanceType
<1>9. /\ Revenue # Reserved(w) /\ Revenue # Available(w)
      /\ Available(w) # Reserved(w)
  BY AccountsDistinct
<1>10. B2 = B0 + (IF account = Available(w) THEN e ELSE 0)
               + (IF account = Revenue THEN b ELSE 0)
               - (IF account = Reserved(w) THEN a ELSE 0)
  <2>1. e = a - b
    OBVIOUS
  <2> HIDE DEF B0, B1, B2, settled, final, e, a
  <2>2. CASE account = Available(w)
    BY <1>1, <1>2, <1>4, <1>6, <1>8, <1>9, <2>1, <2>2
  <2>3. CASE account = Revenue
    BY <1>1, <1>2, <1>4, <1>6, <1>8, <1>9, <2>1, <2>3
  <2>4. CASE account = Reserved(w)
    BY <1>1, <1>2, <1>4, <1>6, <1>8, <1>9, <2>1, <2>4
  <2>5. CASE account \notin {Available(w), Revenue, Reserved(w)}
    BY <1>1, <1>2, <1>4, <1>6, <1>8, <1>9, <2>1, <2>5
  <2>6. QED
    BY <2>2, <2>3, <2>4, <2>5
<1>11. QED
  BY <1>7, <1>10

\* What a capture and a release have in common: the session's reservation is
\* settled, its whole amount leaves the reserved balance, the released part is
\* available again, and only the session's own keys are posted under.
LEMMA SettlementPreserves ==
  ASSUME LedgerInv, NEW w \in Wallets,
         NEW s \in Sessions, s \in Held(reservation, w),
         NEW row \in Rows,
         row.status \in {"CAPTURED", "RELEASED"},
         row.amount = reservation[s].amount,
         row.captured + row.released = row.amount,
         reservation' \in [Sessions -> Rows],
         \A t \in Sessions \ {s} : reservation'[t] = reservation[t],
         reservation'[s] = row,
         wallet' = [wallet EXCEPT ![w].available = @ + row.released,
                                  ![w].reserved = @ - row.amount],
         journal' \in [Keys -> Postings],
         PostedPositive',
         \A k \in Keys : (k \notin {<<"capture", s>>, <<"excess", s>>, <<"release", s>>})
                           => journal'[k] = journal[k],
         journal'[<<"capture", s>>].amount = row.captured,
         journal'[<<"excess", s>>].amount + journal'[<<"release", s>>].amount
           = row.released,
         \/ journal'[<<"release", s>>] = NoPosting
         \/ /\ journal'[<<"capture", s>>] = NoPosting
            /\ journal'[<<"excess", s>>] = NoPosting,
         \A v \in Wallets :
           /\ Balance(journal', Available(v)) =
                wallet[v].available + (IF v = w THEN row.released ELSE 0)
           /\ Balance(journal', Reserved(v)) =
                wallet[v].reserved - (IF v = w THEN row.amount ELSE 0)
  PROVE  LedgerInv'
<1>0. /\ LedgerInv /\ w \in Wallets /\ s \in Sessions /\ s \in Held(reservation, w)
      /\ row.status \in {"CAPTURED", "RELEASED"}
  OBVIOUS
<1>1. /\ \A t \in Sessions \ {s} : reservation'[t] = reservation[t]
      /\ reservation'[s] = row
      /\ reservation' \in [Sessions -> Rows]
  OBVIOUS
<1>2. wallet \in [Wallets -> [status : WalletStatus, available : Nat, reserved : Nat]]
  BY DEF LedgerInv, TypeOK
<1>3. /\ row.released \in Nat /\ row.amount \in Nat
      /\ row.amount <= wallet[w].reserved
  BY HeldCovers, MaxMinorAssumption DEF Rows, Money
<1>4. \A v \in Wallets :
        /\ wallet'[v].available = wallet[v].available + (IF v = w THEN row.released ELSE 0)
        /\ wallet'[v].reserved = wallet[v].reserved - (IF v = w THEN row.amount ELSE 0)
  <2>1. \A v \in Wallets : wallet[v].available \in Nat /\ wallet[v].reserved \in Nat
    BY <1>2
  <2>2. /\ wallet'[w].available = wallet[w].available + row.released
        /\ wallet'[w].reserved = wallet[w].reserved - row.amount
    BY <1>2
  <2>3. \A v \in Wallets \ {w} : wallet'[v] = wallet[v]
    BY <1>2
  <2>4. ASSUME NEW v \in Wallets
        PROVE  /\ wallet'[v].available =
                    wallet[v].available + (IF v = w THEN row.released ELSE 0)
               /\ wallet'[v].reserved =
                    wallet[v].reserved - (IF v = w THEN row.amount ELSE 0)
    <3>1. CASE v = w
      BY <2>2, <3>1
    <3>2. CASE v # w
      <4>1. wallet'[v] = wallet[v]
        BY <2>3, <3>2
      <4>2. wallet[v].available \in Nat /\ wallet[v].reserved \in Nat
        BY <2>1
      <4>3. \A x \in Nat : x + 0 = x /\ x - 0 = x
        OBVIOUS
      <4>4. wallet'[v].available = wallet[v].available + 0
              /\ wallet'[v].reserved = wallet[v].reserved - 0
        BY <4>1, <4>2, <4>3
      <4>5. QED
        BY <3>2, <4>4
    <3>3. QED
      BY <3>1, <3>2
  <2>5. QED
    BY <2>4
<1>5. TypeOK'
  <2>1. wallet' \in [Wallets -> [status : WalletStatus, available : Nat, reserved : Nat]]
    <3>1. wallet[w].available + row.released \in Nat
      BY <1>2, <1>3
    <3>2. wallet[w].reserved - row.amount \in Nat
      BY <1>2, <1>3
    <3>3. \A v \in Wallets :
            wallet'[v] \in [status : WalletStatus, available : Nat, reserved : Nat]
      <4>1. wallet'[w] \in [status : WalletStatus, available : Nat, reserved : Nat]
        BY <1>2, <3>1, <3>2
      <4>2. \A v \in Wallets \ {w} : wallet'[v] = wallet[v]
        BY <1>2
      <4>3. QED
        BY <1>2, <4>1, <4>2
    <3>4. wallet' = [v \in Wallets |-> wallet'[v]]
      BY <1>2
    <3>5. QED
      BY ONLY <3>3, <3>4
  <2>2. QED
    BY <1>1, <2>1 DEF TypeOK, Rows, Postings
<1>6. OpenReservations'
  <2>1. \A t \in Sessions \ {s} : journal'[<<"reserve", t>>] = journal[<<"reserve", t>>]
    BY SessionKeys
  <2>2. ASSUME NEW t \in Sessions, t # s
        PROVE  /\ reservation'[t] = reservation[t]
               /\ Fresh(<<"reserve", t>>) => Fresh(<<"reserve", t>>)'
    BY <1>1, <2>1, <2>2 DEF Fresh
  <2>3. reservation'[s].status \notin {"NONE", "RESERVED"}
    BY <1>1
  <2>4. QED
    BY <2>2, <2>3 DEF LedgerInv, OpenReservations
<1>7. SettlementInLedger'
  <2>1. ASSUME NEW t \in Sessions
        PROVE  /\ reservation'[t].status \in {"CAPTURED", "RELEASED"}
                    => reservation'[t].captured + reservation'[t].released
                         = reservation'[t].amount
               /\ journal'[<<"capture", t>>].amount = reservation'[t].captured
               /\ journal'[<<"excess", t>>].amount + journal'[<<"release", t>>].amount
                    = reservation'[t].released
               /\ \/ journal'[<<"release", t>>] = NoPosting
                  \/ /\ journal'[<<"capture", t>>] = NoPosting
                     /\ journal'[<<"excess", t>>] = NoPosting
    <3>1. CASE t = s
      BY <1>1, <3>1
    <3>2. CASE t # s
      <4>1. /\ journal'[<<"capture", t>>] = journal[<<"capture", t>>]
            /\ journal'[<<"excess", t>>] = journal[<<"excess", t>>]
            /\ journal'[<<"release", t>>] = journal[<<"release", t>>]
        BY <3>2, SessionKeys
      <4>2. reservation'[t] = reservation[t]
        BY <1>1, <3>2
      <4>3. QED
        BY <4>1, <4>2 DEF LedgerInv, SettlementInLedger, Fresh
    <3>3. QED
      BY <3>1, <3>2
  <2>2. QED
    BY <2>1 DEF SettlementInLedger, Fresh
<1>8. WalletMatchesLedger'
  BY <1>4 DEF WalletMatchesLedger
<1>9. ReservedIsHeld'
  <2>1. row.amount \in Money
    BY DEF Rows
  <2>2. \A v \in Wallets :
          wallet'[v].reserved = wallet[v].reserved
                                  - (IF v = w THEN reservation[s].amount ELSE 0)
    BY <1>4
  <2>3. QED
    BY ONLY <1>0, <1>1, <2>1, <2>2, SettlingPreservesHeld
<1>10. QED
  BY <1>5, <1>6, <1>7, <1>8, <1>9 DEF LedgerInv

\* Releasing a reservation keeps the invariant.
LEMMA ReleasePreserves ==
  ASSUME LedgerInv, NEW w \in Wallets, NEW s \in Sessions, ReleaseReserved(w, s)
  PROVE  LedgerInv'
<1> DEFINE a == reservation[s].amount
           k == <<"release", s>>
           row == [reservation[s] EXCEPT !.status = "RELEASED", !.released = a]
<1>1. s \in Held(reservation, w) /\ reservation[s].status = "RESERVED"
  BY DEF ReleaseReserved, CanRelease, Held
<1>2. a \in Money /\ a \in Nat /\ a > 0
  BY <1>1, HeldCovers
<1>3. /\ Fresh(<<"capture", s>>) /\ Fresh(<<"excess", s>>) /\ Fresh(k)
      /\ reservation[s].captured = 0
  BY <1>1, UnsettledKeys
<1>4. /\ row \in Rows /\ row.status = "RELEASED" /\ row.amount = a
      /\ row.captured = 0 /\ row.released = a
  BY <1>2, <1>3 DEF LedgerInv, TypeOK, Rows, ReservationStatus
<1>5. /\ reservation' \in [Sessions -> Rows]
      /\ \A t \in Sessions \ {s} : reservation'[t] = reservation[t]
      /\ reservation'[s] = row
  <2>1. reservation' = [reservation EXCEPT ![s] = row]
    BY DEF ReleaseReserved, LedgerInv, TypeOK
  <2>2. reservation \in [Sessions -> Rows]
    BY DEF LedgerInv, TypeOK, Rows
  <2> HIDE DEF row
  <2>3. QED
    BY <1>4, <2>1, <2>2
<1>6. wallet' = [wallet EXCEPT ![w].available = @ + row.released,
                               ![w].reserved = @ - row.amount]
  BY <1>4 DEF ReleaseReserved
<1>7. /\ journal \in [Keys -> Postings] /\ k \in Keys
      /\ journal' = Posted(journal, k, Posting(Reserved(w), Available(w), a))
      /\ Posting(Reserved(w), Available(w), a) \in Postings
  BY <1>2, SessionKeys, AccountsDistinct
  DEF ReleaseReserved, Post, LedgerInv, TypeOK, Postings, Posting
<1>8. /\ journal' \in [Keys -> Postings]
      /\ \A x \in Keys : x # k => journal'[x] = journal[x]
      /\ journal'[k] = Posting(Reserved(w), Available(w), a)
  BY <1>7 DEF Posted
<1>9. PostedPositive'
  BY <1>2, <1>8 DEF LedgerInv, PostedPositive, Posting
<1>10. /\ journal'[<<"capture", s>>] = NoPosting
       /\ journal'[<<"excess", s>>] = NoPosting
       /\ journal'[k].amount = a
       /\ NoPosting.amount = 0
  <2>1. <<"capture", s>> # k /\ <<"excess", s>> # k
    OBVIOUS
  <2>2. /\ journal[<<"capture", s>>] = NoPosting
        /\ journal[<<"excess", s>>] = NoPosting
    BY <1>3 DEF Fresh
  <2>3. journal'[k].amount = a
    BY <1>8 DEF Posting
  <2>4. NoPosting.amount = 0
    BY DEF NoPosting, Posting
  <2>5. QED
    BY <1>8, <2>1, <2>2, <2>3, <2>4, SessionKeys
<1>11. ASSUME NEW v \in Wallets
       PROVE  /\ Balance(journal', Available(v)) =
                   wallet[v].available + (IF v = w THEN row.released ELSE 0)
              /\ Balance(journal', Reserved(v)) =
                   wallet[v].reserved - (IF v = w THEN row.amount ELSE 0)
  <2>1. \A account \in Accounts :
          Balance(journal', account) =
            Balance(journal, account) + (IF account = Available(w) THEN a ELSE 0)
                                      - (IF account = Reserved(w) THEN a ELSE 0)
    BY <1>2, <1>3, <1>7, BalancePosted, AccountsDistinct DEF Fresh
  <2>2. /\ wallet[v].available = Balance(journal, Available(v))
        /\ wallet[v].reserved = Balance(journal, Reserved(v))
    BY DEF LedgerInv, WalletMatchesLedger
  <2>3. /\ Balance(journal', Available(v)) =
             wallet[v].available + (IF v = w THEN a ELSE 0) - 0
        /\ Balance(journal', Reserved(v)) =
             wallet[v].reserved + 0 - (IF v = w THEN a ELSE 0)
    BY <2>1, <2>2, AccountsDistinct
  <2>4. wallet[v].available \in Nat /\ wallet[v].reserved \in Nat
    BY DEF LedgerInv, TypeOK
  <2> DEFINE delta == IF v = w THEN a ELSE 0
  <2>5. delta \in Nat
    BY <1>2
  <2>6. delta = (IF v = w THEN row.released ELSE 0)
          /\ delta = (IF v = w THEN row.amount ELSE 0)
    BY <1>4
  <2>7. /\ Balance(journal', Available(v)) = wallet[v].available + delta - 0
        /\ Balance(journal', Reserved(v)) = wallet[v].reserved + 0 - delta
    BY <2>3
  <2> HIDE DEF delta, row, a
  <2>8. /\ Balance(journal', Available(v)) = wallet[v].available + delta
        /\ Balance(journal', Reserved(v)) = wallet[v].reserved - delta
    BY <2>4, <2>5, <2>7
  <2>9. QED
    BY <2>6, <2>8
<1>12. /\ row.captured + row.released = row.amount
       /\ journal'[<<"capture", s>>].amount = row.captured
       /\ journal'[<<"excess", s>>].amount + journal'[k].amount = row.released
  <2>1. 0 + a = a
    BY <1>2
  <2>2. QED
    BY <1>4, <1>10, <2>1
<1> HIDE DEF row, k
<1>13. \A x \in Keys : (x \notin {<<"capture", s>>, <<"excess", s>>, <<"release", s>>})
                         => journal'[x] = journal[x]
  BY <1>8 DEF k
<1>14. QED
  BY <1>1, <1>4, <1>5, <1>6, <1>8, <1>9, <1>10, <1>11, <1>12, <1>13,
     SettlementPreserves DEF k

\* Capturing a reservation, in full or in part, keeps the invariant.
LEMMA CapturePreserves ==
  ASSUME LedgerInv, NEW w \in Wallets, NEW s \in Sessions, NEW b \in Money,
         CaptureReserved(w, s, b)
  PROVE  LedgerInv'
<1> DEFINE a == reservation[s].amount
           e == a - b
           kc == <<"capture", s>>
           ke == <<"excess", s>>
           settled == IF b > 0
                        THEN Posted(journal, kc, Posting(Reserved(w), Revenue, b))
                        ELSE journal
           row == [reservation[s] EXCEPT !.status = "CAPTURED",
                                         !.captured = b, !.released = e]
<1>1. s \in Held(reservation, w) /\ reservation[s].status = "RESERVED" /\ b <= a
  BY DEF CaptureReserved, CanCapture, Held
<1>2. a \in Money /\ a \in Nat /\ b \in Nat
  BY <1>1, HeldCovers, MaxMinorAssumption DEF Money
<1>3. e \in Money /\ e \in Nat /\ b + e = a
  BY <1>1, <1>2, MaxMinorAssumption DEF Money
<1>4. /\ journal[kc] = NoPosting /\ journal[ke] = NoPosting
      /\ journal[<<"release", s>>] = NoPosting
  BY <1>1, UnsettledKeys DEF Fresh
<1>5. row \in Rows /\ row.status = "CAPTURED" /\ row.amount = a
        /\ row.captured = b /\ row.released = e
  <2> HIDE DEF e
  <2>1. QED
    BY <1>2, <1>3 DEF LedgerInv, TypeOK, Rows, ReservationStatus
<1>6. /\ reservation' \in [Sessions -> Rows]
      /\ \A t \in Sessions \ {s} : reservation'[t] = reservation[t]
      /\ reservation'[s] = row
  <2>1. reservation' = [reservation EXCEPT ![s] = row]
    BY DEF CaptureReserved, LedgerInv, TypeOK
  <2>2. reservation \in [Sessions -> Rows]
    BY DEF LedgerInv, TypeOK, Rows
  <2> HIDE DEF row
  <2>3. QED
    BY <1>5, <2>1, <2>2
<1>7. wallet' = [wallet EXCEPT ![w].available = @ + row.released,
                               ![w].reserved = @ - row.amount]
  BY <1>5 DEF CaptureReserved
<1>8. journal \in [Keys -> Postings] /\ kc \in Keys /\ ke \in Keys
  BY SessionKeys DEF LedgerInv, TypeOK, Postings
<1>9. /\ Posting(Reserved(w), Revenue, b) \in Postings
      /\ Posting(Reserved(w), Available(w), e) \in Postings
  BY <1>3, AccountsDistinct DEF Posting, Postings
<1>10. journal' = IF e > 0
                    THEN Posted(settled, ke, Posting(Reserved(w), Available(w), e))
                    ELSE settled
  BY DEF CaptureReserved, CapturePostings
<1>11. /\ settled \in [Keys -> Postings]
       /\ \A x \in Keys : x # kc => settled[x] = journal[x]
       /\ settled[kc].amount = b
       /\ b > 0 => settled[kc] # NoPosting
  <2>1. NoPosting.amount = 0
    BY DEF NoPosting, Posting
  <2>2. CASE b > 0
    <3>1. settled = Posted(journal, kc, Posting(Reserved(w), Revenue, b))
      BY <2>2
    <3>2. settled[kc] = Posting(Reserved(w), Revenue, b)
      BY <1>8, <3>1 DEF Posted
    <3>3. settled[kc].amount = b
      BY <3>2 DEF Posting
    <3>4. settled \in [Keys -> Postings] /\ \A x \in Keys : x # kc => settled[x] = journal[x]
      BY <1>8, <1>9, <3>1 DEF Posted
    <3> HIDE DEF settled, kc
    <3>5. QED
      BY <2>1, <2>2, <3>3, <3>4
  <2>3. CASE b = 0
    BY <1>4, <1>8, <2>1, <2>3
  <2>4. QED
    BY <1>2, <2>2, <2>3
<1>12. kc # ke /\ kc # <<"release", s>> /\ ke # <<"release", s>>
  OBVIOUS
<1>13. /\ journal' \in [Keys -> Postings]
       /\ \A x \in Keys : x # ke => journal'[x] = settled[x]
       /\ journal'[ke].amount = e
  <2>1. NoPosting.amount = 0
    BY DEF NoPosting, Posting
  <2> HIDE DEF settled, e, kc, ke
  <2>2. settled[ke] = NoPosting
    BY <1>4, <1>8, <1>11, <1>12
  <2>3. CASE e > 0
    <3>1. journal' = Posted(settled, ke, Posting(Reserved(w), Available(w), e))
      BY <1>10, <2>3
    <3>2. journal'[ke] = Posting(Reserved(w), Available(w), e)
      BY <1>8, <1>11, <3>1 DEF Posted
    <3>3. journal'[ke].amount = e
      BY <3>2 DEF Posting
    <3>4. QED
      BY <1>8, <1>9, <1>11, <3>1, <3>3 DEF Posted
  <2>4. CASE e = 0
    BY <1>10, <1>11, <2>1, <2>2, <2>4
  <2>5. QED
    BY <1>3, <2>3, <2>4
<1>14. PostedPositive'
  <2>1. ASSUME NEW x \in Keys, journal'[x].amount = 0
        PROVE  journal'[x] = NoPosting
    <3> HIDE DEF settled, e, kc, ke
    <3>1. CASE x = ke
      <4>1. e = 0
        BY <1>13, <2>1, <3>1
      <4>2. journal' = settled
        BY <1>10, <4>1
      <4>3. QED
        BY <1>4, <1>8, <1>11, <1>12, <3>1, <4>2
    <3>2. CASE x = kc
      <4>1. settled[kc].amount = 0
        BY <1>8, <1>12, <1>13, <2>1, <3>2
      <4>2. b = 0
        BY <1>11, <4>1
      <4>3. settled = journal
        BY <4>2 DEF settled
      <4>4. QED
        BY <1>4, <1>8, <1>12, <1>13, <3>2, <4>3
    <3>3. CASE x # kc /\ x # ke
      BY <1>11, <1>13, <2>1, <3>3 DEF LedgerInv, PostedPositive
    <3>4. QED
      BY <3>1, <3>2, <3>3
  <2>2. QED
    BY <2>1 DEF PostedPositive
<1>15. /\ journal'[kc].amount = row.captured
       /\ journal'[<<"release", s>>] = NoPosting
       /\ journal'[ke].amount + journal'[<<"release", s>>].amount = row.released
       /\ row.captured + row.released = row.amount
  <2>1. journal'[kc].amount = row.captured
    BY <1>5, <1>8, <1>11, <1>12, <1>13
  <2>2. journal'[<<"release", s>>] = NoPosting
    BY <1>4, <1>11, <1>12, <1>13, SessionKeys
  <2>3. journal'[<<"release", s>>].amount = 0
    BY <2>2 DEF NoPosting, Posting
  <2>4. e + 0 = e
    BY <1>3
  <2>5. QED
    BY <1>3, <1>5, <1>13, <2>1, <2>2, <2>3, <2>4
<1>16. ASSUME NEW v \in Wallets
       PROVE  /\ Balance(journal', Available(v)) =
                   wallet[v].available + (IF v = w THEN row.released ELSE 0)
              /\ Balance(journal', Reserved(v)) =
                   wallet[v].reserved - (IF v = w THEN row.amount ELSE 0)
  <2> DEFINE x == IF v = w THEN e ELSE 0
             y == IF v = w THEN a ELSE 0
  <2>1. \A account \in Accounts :
          Balance(journal', account) =
            Balance(journal, account)
              + (IF account = Available(w) THEN a - b ELSE 0)
              + (IF account = Revenue THEN b ELSE 0)
              - (IF account = Reserved(w) THEN a ELSE 0)
    <3>1. journal' = CapturePostings(w, s, b)
      BY DEF CaptureReserved
    <3>2. QED
      BY <1>1, <3>1, CaptureBalances
  <2>2. /\ wallet[v].available = Balance(journal, Available(v))
        /\ wallet[v].reserved = Balance(journal, Reserved(v))
    BY DEF LedgerInv, WalletMatchesLedger
  <2>3. /\ Available(v) \in Accounts /\ Available(v) # Revenue
        /\ Available(v) # Reserved(w) /\ (Available(v) = Available(w) <=> v = w)
        /\ Reserved(v) \in Accounts /\ Reserved(v) # Revenue
        /\ Reserved(v) # Available(w) /\ (Reserved(v) = Reserved(w) <=> v = w)
    BY AccountsDistinct
  <2>4. Balance(journal', Available(v)) = wallet[v].available + x + 0 - 0
    BY <2>1, <2>2, <2>3
  <2>5. Balance(journal', Reserved(v)) = wallet[v].reserved + 0 + 0 - y
    BY <2>1, <2>2, <2>3
  <2>6. wallet[v].available \in Nat /\ wallet[v].reserved \in Nat
    BY DEF LedgerInv, TypeOK
  <2>7. x \in Nat /\ y \in Nat
    <3> HIDE DEF e
    <3>1. QED
      BY <1>2, <1>3
  <2>8. x = (IF v = w THEN row.released ELSE 0) /\ y = (IF v = w THEN row.amount ELSE 0)
    BY <1>5
  <2> HIDE DEF x, y, row, a, e
  <2>9. /\ Balance(journal', Available(v)) = wallet[v].available + x
        /\ Balance(journal', Reserved(v)) = wallet[v].reserved - y
    BY <2>4, <2>5, <2>6, <2>7
  <2>10. QED
    BY <2>8, <2>9
<1>17. \A x \in Keys : (x \notin {<<"capture", s>>, <<"excess", s>>, <<"release", s>>})
                         => journal'[x] = journal[x]
  BY <1>11, <1>13
<1> HIDE DEF row, kc, ke, a, e, settled
<1>18. QED
  BY <1>1, <1>5, <1>6, <1>7, <1>13, <1>14, <1>15, <1>16, <1>17,
     SettlementPreserves DEF a, kc, ke

\* Blocking and unblocking a wallet keep the invariant.
LEMMA BlockPreserves ==
  ASSUME LedgerInv, NEW w \in Wallets, NEW b \in BOOLEAN, SetBlocked(w, b)
  PROVE  LedgerInv'
<1>1. /\ wallet \in [Wallets -> [status : WalletStatus, available : Nat, reserved : Nat]]
      /\ wallet' = [wallet EXCEPT ![w].status = IF b THEN "BLOCKED" ELSE "ACTIVE"]
      /\ reservation' = reservation /\ journal' = journal
  BY DEF LedgerInv, TypeOK, SetBlocked
<1>2. \A v \in Wallets : /\ wallet'[v].available = wallet[v].available
                         /\ wallet'[v].reserved = wallet[v].reserved
  BY <1>1
<1>3. wallet' \in [Wallets -> [status : WalletStatus, available : Nat, reserved : Nat]]
  BY <1>1 DEF WalletStatus
<1>4. TypeOK'
  BY <1>1, <1>3 DEF LedgerInv, TypeOK
<1>5. PostedPositive' /\ OpenReservations' /\ SettlementInLedger'
  BY <1>1 DEF LedgerInv, PostedPositive, OpenReservations, SettlementInLedger, Fresh
<1>6. WalletMatchesLedger'
  BY <1>1, <1>2 DEF LedgerInv, WalletMatchesLedger
<1>7. ReservedIsHeld'
  BY <1>1, <1>2 DEF LedgerInv, ReservedIsHeld
<1>8. QED
  BY <1>4, <1>5, <1>6, <1>7 DEF LedgerInv

\* Every step keeps the invariant.
LEMMA LedgerNext == LedgerInv /\ [Next]_vars => LedgerInv'
<1> SUFFICES ASSUME LedgerInv, [Next]_vars PROVE LedgerInv'
  OBVIOUS
<1>1. ASSUME NEW w \in Wallets, NEW k \in CreditKeys, NEW a \in Money, Credit(w, k, a)
      PROVE  LedgerInv'
  <2>1. <<"credit", k>> \in Keys /\ <<"credit", k>>[1] = "credit"
    BY DEF Keys
  <2>2. QED
    BY <1>1, <2>1, IncomePreserves DEF Credit
<1>2. ASSUME NEW w \in Wallets, NEW k \in RefundKeys, NEW a \in Money, Refund(w, k, a)
      PROVE  LedgerInv'
  <2>1. <<"refund", k>> \in Keys /\ <<"refund", k>>[1] = "refund"
    BY DEF Keys
  <2>2. QED
    BY <1>2, <2>1, IncomePreserves DEF Refund
<1>3. CASE UNCHANGED vars
  BY <1>3
  DEF vars, LedgerInv, TypeOK, PostedPositive, OpenReservations, WalletMatchesLedger,
      ReservedIsHeld, SettlementInLedger, Fresh
<1>4. CASE Next
  BY <1>1, <1>2, <1>4, ReservePreserves, CapturePreserves, ReleasePreserves,
     BlockPreserves
  DEF Next, WalletStep
<1>5. QED
  BY <1>3, <1>4

-----------------------------------------------------------------------------
(* Theorems *)

\* The invariant holds in every reachable state.
THEOREM LedgerInvariant == Spec => []LedgerInv
BY LedgerInit, LedgerNext, PTL DEF Spec

\* The rows always have the types of the schema; in particular no operation
\* ever makes a balance negative.
THEOREM WalletTypes == Spec => []TypeOK
<1>1. LedgerInv => TypeOK
  BY DEF LedgerInv
<1>2. QED
  BY <1>1, LedgerInvariant, PTL

\* The stored balances of every wallet are always those of the ledger.
THEOREM WalletAgreesWithLedger == Spec => []WalletMatchesLedger
<1>1. LedgerInv => WalletMatchesLedger
  BY DEF LedgerInv
<1>2. QED
  BY <1>1, LedgerInvariant, PTL

\* The reserved balance of every wallet is always the sum of its active
\* reservations.
THEOREM ReservedBalanceIsHeld == Spec => []ReservedIsHeld
<1>1. LedgerInv => ReservedIsHeld
  BY DEF LedgerInv
<1>2. QED
  BY <1>1, LedgerInvariant, PTL

\* Every settled reservation is split in the ledger as in its row.
THEOREM SettlementsPosted == Spec => []SettlementInLedger
<1>1. LedgerInv => SettlementInLedger
  BY DEF LedgerInv
<1>2. QED
  BY <1>1, LedgerInvariant, PTL

\* No step rewrites a posting, reopens a settled reservation or moves the
\* money of a blocked wallet.
LEMMA StepOnlyGrows == LedgerInv /\ [Next]_vars => [OnlyGrows]_vars
<1> SUFFICES ASSUME LedgerInv, Next PROVE OnlyGrows
  BY DEF vars
<1>1. /\ wallet \in [Wallets -> [status : WalletStatus, available : Nat, reserved : Nat]]
      /\ reservation \in [Sessions -> Rows]
      /\ journal \in [Keys -> Postings]
  BY DEF LedgerInv, TypeOK, Rows, Postings
<1>2. ASSUME NEW w \in Wallets, NEW k \in CreditKeys, NEW a \in Money, Credit(w, k, a)
      PROVE  OnlyGrows
  <2>1. <<"credit", k>> \in Keys
    BY DEF Keys
  <2>2. QED
    BY <1>1, <1>2, <2>1 DEF Credit, Post, Posted, Fresh, Active, OnlyGrows
<1>3. ASSUME NEW w \in Wallets, NEW k \in RefundKeys, NEW a \in Money, Refund(w, k, a)
      PROVE  OnlyGrows
  <2>1. <<"refund", k>> \in Keys
    BY DEF Keys
  <2>2. QED
    BY <1>1, <1>3, <2>1 DEF Refund, Post, Posted, Fresh, Active, OnlyGrows
<1>4. ASSUME NEW w \in Wallets, NEW s \in Sessions, NEW a \in Money, Reserve(w, s, a)
      PROVE  OnlyGrows
  <2>1. Fresh(<<"reserve", s>>) /\ reservation[s].status = "NONE"
    BY <1>4 DEF Reserve, LedgerInv, OpenReservations, NoReservation
  <2>2. QED
    BY <1>1, <1>4, <2>1, SessionKeys DEF Reserve, Post, Posted, Fresh, Active, OnlyGrows
<1>5. ASSUME NEW w \in Wallets, NEW s \in Sessions, NEW a \in Money,
             CaptureReserved(w, s, a)
      PROVE  OnlyGrows
  <2>1. reservation[s].status = "RESERVED" /\ Active(w)
    BY <1>5 DEF CaptureReserved, CanCapture
  <2>2. journal[<<"capture", s>>] = NoPosting /\ journal[<<"excess", s>>] = NoPosting
    BY <2>1, UnsettledKeys DEF Fresh
  <2>3. \A k \in Keys : journal[k] # NoPosting => journal'[k] = journal[k]
    BY <1>1, <1>5, <2>2 DEF CaptureReserved, CapturePostings, Posted
  <2>4. \A t \in Sessions : t # s => reservation'[t] = reservation[t]
    BY <1>1, <1>5 DEF CaptureReserved
  <2>5. \A v \in Wallets : v # w => wallet'[v] = wallet[v]
    BY <1>1, <1>5 DEF CaptureReserved
  <2>6. QED
    BY <2>1, <2>3, <2>4, <2>5 DEF OnlyGrows, Active
<1>6. ASSUME NEW w \in Wallets, NEW s \in Sessions, ReleaseReserved(w, s)
      PROVE  OnlyGrows
  <2>1. reservation[s].status = "RESERVED" /\ Active(w)
    BY <1>6 DEF ReleaseReserved, CanRelease
  <2>2. journal[<<"release", s>>] = NoPosting
    BY <2>1, UnsettledKeys DEF Fresh
  <2>3. \A k \in Keys : journal[k] # NoPosting => journal'[k] = journal[k]
    BY <1>1, <1>6, <2>2 DEF ReleaseReserved, Post, Posted
  <2>4. \A t \in Sessions : t # s => reservation'[t] = reservation[t]
    BY <1>1, <1>6 DEF ReleaseReserved
  <2>5. \A v \in Wallets : v # w => wallet'[v] = wallet[v]
    BY <1>1, <1>6 DEF ReleaseReserved
  <2>6. QED
    BY <2>1, <2>3, <2>4, <2>5 DEF OnlyGrows, Active
<1>7. ASSUME NEW w \in Wallets, NEW b \in BOOLEAN, SetBlocked(w, b)
      PROVE  OnlyGrows
  BY <1>1, <1>7 DEF SetBlocked, OnlyGrows
<1>8. QED
  BY <1>2, <1>3, <1>4, <1>5, <1>6, <1>7 DEF Next, WalletStep

\* Posted transactions are immutable, a reservation settles at most once and a
\* blocked wallet is frozen.
THEOREM LedgerGrows == Spec => LedgerOnlyGrows
BY LedgerInvariant, StepOnlyGrows, PTL DEF Spec, LedgerOnlyGrows
=============================================================================
