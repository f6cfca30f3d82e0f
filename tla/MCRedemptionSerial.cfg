\* One request after the other: one session, two requests, restocking allowed.
SPECIFICATION SpecAll
CONSTANTS
  Users = {u1}
  Sessions = {s1}
  Rewards = {w1}
  e1 = e1
  e2 = e2
  r1 = r1
  r2 = r2
  None = None
  Redemptions <- MCRedemptions
  Keys <- MCKeys
  Events <- MCEvents
  Manuals <- MCManuals
  Amounts <- MCAmounts
  Costs <- MCCosts
  Totals = {1, 2, None}
  Quantities = {1, 2}
INVARIANTS
  PendingIsExact
  RedeemedIsExact
  StockIsHonest
PROPERTIES
  TransitionsEnforced
  RedemptionsImplementPointLedger
