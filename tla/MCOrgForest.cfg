\* A reorder is checked against a tree that another administrator changes before
\* the commit.
SPECIFICATION Spec
CONSTANTS
  a = a
  b = b
  x = x
  o1 = o1
  o2 = o2
  Root = Root
  New = New
  Gone = Gone
  NoOne = NoOne
  Users = {u1, u2}
  Depts <- MCDepts
  Orgs = {o1, o2}
  OrgOf <- MCOrgOf
  InitialTree <- MCTree
  MaxRequests = 1
PROPERTIES
  ReorderKeepsForest
