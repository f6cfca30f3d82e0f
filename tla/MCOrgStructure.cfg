\* A chart of two departments and one of another organisation, one request
\* of each kind in flight.
SPECIFICATION Spec
CONSTANTS
  a = a
  b = b
  x = x
  o1 = o1
  o2 = o2
  Root = Root
  New = New
  Gone = Gone
  NoOne = NoOne
  Users = {u1, u2}
  Depts <- MCDepts
  Orgs = {o1, o2}
  OrgOf <- MCOrgOf
  InitialTree <- MCTree
  MaxRequests = 1
INVARIANTS
  ParentInOrg
  ManagerShownIsManagerSaved
PROPERTIES
  DropHidesNothing
