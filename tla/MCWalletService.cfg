\* Two users and three sessions, one event that may be delivered twice and one
\* manual transaction.
SPECIFICATION Spec
CONSTANTS
  Users = {u1, u2}
  Sessions = {s1, s2, s3}
  e1 = e1
  m1 = m1
  None = None
  Keys <- MCKeys
  Events <- MCEvents
  Manuals <- MCManuals
  Amounts <- MCAmounts
INVARIANTS
  TypeOK
  FreshUnderLock
  LedgerChained
  CreditedOnce
  BalanceIsEarnedMinusSpent
PROPERTIES
  ImplementsPointLedger
  EveryRequestEnds
