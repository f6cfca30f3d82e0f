\* Two sessions decide about the same request.
SPECIFICATION SpecAll
CONSTANTS
  Users = {u1}
  Sessions = {s1, s2}
  Rewards = {w1}
  e1 = e1
  e2 = e2
  r1 = r1
  r2 = r2
  None = None
  Redemptions <- MCRedemptions
  Keys <- MCKeys
  Events <- MCEvents
  Manuals <- MCManuals
  Amounts <- MCAmounts
  Costs <- MCCosts
  Totals = {1}
  Quantities <- MCQuantities
PROPERTY TransitionsEnforced
