CONSTANTS
  w1 = w1
  w2 = w2
  s1 = s1
  s2 = s2
  c1 = c1
  r1 = r1
  k1 = k1
  k2 = k2
  plug = plug
  Wallets <- MCWallets
  Sessions <- MCSessions
  CreditKeys <- MCCreditKeys
  RefundKeys <- MCRefundKeys
  MaxMinor = 3
  Sockets <- MCSockets
  Ids = {i1}
  Answers = {result, error}
  MaxRestarts = 1
SPECIFICATION MCSpec
SYMMETRY Symmetry
INVARIANTS
  WalletMatchesLedger
  ReservedIsHeld
  SettlementInLedger
  OneActiveConnection
  SameAnswer
  ConnectorIsShared
PROPERTY LedgerOnlyGrows
