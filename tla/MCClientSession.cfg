\* Two tabs, three calls and two sessions: a login and the refresh that the two
\* tabs race for.
SPECIFICATION Spec
CONSTANTS
  t1 = t1
  t2 = t2
  c1 = c1
  c2 = c2
  c3 = c3
  Tabs <- MCTabs
  Calls <- MCCalls
  TabOf <- MCTabOf
  KindOf <- MCKindOf
  MaxToken = 2
CHECK_DEADLOCK FALSE
INVARIANTS
  TypeOK
  OneRefreshInFlight
  RetryIsFresh
PROPERTIES
  CallsSettle
