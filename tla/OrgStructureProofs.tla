-------------------------- MODULE OrgStructureProofs --------------------------
(***************************************************************************)
(* Theorems about OrgStructure, for any departments, organisations, users  *)
(* and number of requests in flight: no department hangs below one that is *)
(* gone or of another organisation, the manager field saves the one it     *)
(* shows, and dropping a row of a chart that shows every department leaves *)
(* one that still does.                                                    *)
(*                                                                         *)
(* The reorder request is the one write whose check is old when it         *)
(* commits.  Which departments exist may have changed, and the commit      *)
(* fails then; of which organisation they are has not.  That the trees     *)
(* stay free of cycles is not proved: it is false, see ReorderKeepsForest. *)
(* What is drawn is a least fixed point, so the drop is argued by the      *)
(* levels of the chart, and an induction over them by a least              *)
(* counterexample.                                                         *)
(***************************************************************************)
EXTENDS OrgStructure, FiniteSetTheorems, WellFoundedInduction, TLAPS

IsMove(m) ==
    m = [org |-> m.org, items |-> m.items, to |-> m.to, st |-> m.st, writes |-> m.writes]

(* A checked reorder writes departments of one organisation.               *)
CheckedInOrg(m) ==
    m.st = "checked" =>
       /\ \A d \in m.writes : d \in Depts /\ OrgOf[d] = m.org
       /\ m.to = Root \/ (m.to \in Depts /\ OrgOf[m.to] = m.org)

MovesInv == \A m \in moves : IsMove(m) /\ CheckedInOrg(m)

IsTree == parent = [d \in Depts |-> parent[d]]

TreeInv == IsTree /\ ParentInOrg /\ MovesInv

MgrInv ==
    /\ mgr = [hidden |-> mgr.hidden, shown |-> mgr.shown, open |-> mgr.open,
              results |-> mgr.results, active |-> mgr.active]
    /\ mgr.hidden # NoOne => mgr.shown = mgr.hidden

----------------------------------------------------------------------------
(* The writes of the tree.                                                 *)

(* A department put below one that exists, of its own organisation.        *)
LEMMA PutKeeps ==
    ASSUME IsTree, ParentInOrg, NEW d \in Depts, NEW p,
           p = Root \/ (p \in Exists(parent) \ {d} /\ OrgOf[p] = OrgOf[d]),
           parent' = [parent EXCEPT ![d] = p]
    PROVE  IsTree' /\ ParentInOrg'
<1>1. \A e \in Depts : parent'[e] = IF e = d THEN p ELSE parent[e]
  BY DEF IsTree
<1>2. p \notin Absent
  BY OrgAssumption DEF Exists
<1>3. Exists(parent) \subseteq Exists(parent')
  BY <1>1, <1>2 DEF Exists
<1>4. \A e \in Exists(parent') \ {d} : e \in Exists(parent)
  BY <1>1 DEF Exists
<1>5. IsTree'
  BY DEF IsTree
<1>. QED
  BY <1>1, <1>3, <1>4, <1>5 DEF ParentInOrg, Exists

(* Those below a deleted department are freed.                             *)
LEMMA DeleteKeeps ==
    ASSUME IsTree, ParentInOrg, NEW d \in Depts, parent' = Deleted(d)
    PROVE  IsTree' /\ ParentInOrg'
<1>1. \A e \in Depts : parent'[e] = IF e = d THEN Gone ELSE IF parent[e] = d THEN Root ELSE parent[e]
  BY DEF Deleted
<1>2. \A e \in Exists(parent') : e \in Exists(parent) /\ e # d
  <2>. SUFFICES ASSUME NEW e \in Exists(parent') PROVE e \in Exists(parent) /\ e # d
    OBVIOUS
  <2>1. e \in Depts /\ parent'[e] \notin Absent
    BY DEF Exists
  <2>2. e # d
    BY <1>1, <2>1 DEF Absent
  <2>3. parent[e] \notin Absent
    BY <1>1, <2>1, <2>2, OrgAssumption
  <2>. QED
    BY <2>1, <2>2, <2>3 DEF Exists
<1>3. \A e \in Exists(parent) \ {d} : e \in Exists(parent')
  BY <1>1, OrgAssumption DEF Exists
<1>4. IsTree'
  BY <1>1 DEF IsTree, Deleted
<1>. QED
  BY <1>1, <1>2, <1>3, <1>4 DEF ParentInOrg, Exists

(* A checked reorder, when nothing it names has gone since.                *)
LEMMA ReorderKeeps ==
    ASSUME IsTree, ParentInOrg, NEW m, CheckedInOrg(m), m.st = "checked",
           m.writes \cup ({m.to} \ {Root}) \subseteq Exists(parent),
           parent' = [d \in Depts |-> IF d \in m.writes THEN m.to ELSE parent[d]]
    PROVE  IsTree' /\ ParentInOrg'
<1>1. \A e \in Depts : parent'[e] = IF e \in m.writes THEN m.to ELSE parent[e]
  OBVIOUS
<1>2. m.to = Root \/ m.to \in Exists(parent)
  OBVIOUS
<1>3. m.to \notin Absent
  BY <1>2, OrgAssumption DEF Exists
<1>4. Exists(parent') = Exists(parent)
  BY <1>1, <1>3 DEF Exists
<1>5. IsTree'
  BY DEF IsTree
<1>. QED
  <2>. SUFFICES ASSUME NEW e \in Exists(parent), parent'[e] # Root
                PROVE  parent'[e] \in Exists(parent) /\ OrgOf[parent'[e]] = OrgOf[e]
    BY <1>4, <1>5 DEF ParentInOrg
  <2>1. e \in Depts
    BY DEF Exists
  <2>2. CASE e \in m.writes
    BY <1>1, <1>2, <2>1, <2>2 DEF CheckedInOrg
  <2>3. CASE e \notin m.writes
    BY <1>1, <2>1, <2>3 DEF ParentInOrg
  <2>. QED
    BY <2>2, <2>3

(* The check looks only at departments of the organisation.                *)
LEMMA AcceptedInOrg ==
    ASSUME NEW m, ReorderAccepted(m)
    PROVE  /\ \A d \in m.items : d \in Depts /\ OrgOf[d] = m.org
           /\ m.to = Root \/ (m.to \in Depts /\ OrgOf[m.to] = m.org)
<1>1. \A d \in Exists(OfOrg(parent, m.org)) : d \in Depts /\ OrgOf[d] = m.org
  BY DEF Exists, OfOrg, Absent
<1>2. m.items \subseteq Exists(OfOrg(parent, m.org)) /\ m.to \in Exists(OfOrg(parent, m.org)) \cup {Root}
  BY DEF ReorderAccepted
<1>. QED
  BY <1>1, <1>2

(* One request of the page goes, or is replaced by one that is not checked.*)
LEMMA MovesKeep ==
    ASSUME MovesInv, NEW n, n \in moves' => IsMove(n) /\ CheckedInOrg(n),
           \A m \in moves' : m \in moves \/ m = n
    PROVE  MovesInv'
BY DEF MovesInv, IsMove, CheckedInOrg

----------------------------------------------------------------------------
(* department_service.py: whatever reorders, dialogs and administrators    *)
(* write, together with what a checked reorder is about to.                *)
THEOREM TreeInvariant == Spec => []TreeInv
<1>1. Init => TreeInv
  <2>. SUFFICES ASSUME Init PROVE TreeInv
    OBVIOUS
  <2>1. parent = InitialTree /\ moves = {}
    BY DEF Init
  <2>2. InitialTree = [d \in Depts |-> InitialTree[d]]
    BY OrgAssumption DEF Trees
  <2>3. \A d \in Exists(parent) : parent[d] \in Depts \cup {Root}
    BY <2>1, OrgAssumption DEF Trees, Exists
  <2>4. ParentInOrg
    BY <2>1, <2>3, OrgAssumption DEF ParentInOrg, Exists
  <2>. QED
    BY <2>1, <2>2, <2>4 DEF TreeInv, IsTree, MovesInv
<1>2. TreeInv /\ [Next]_vars => TreeInv'
  <2>. SUFFICES ASSUME TreeInv, [Next]_vars PROVE TreeInv'
    OBVIOUS
  <2>. USE DEF TreeInv
  <2>1. ASSUME UNCHANGED parent, moves' \subseteq moves PROVE TreeInv'
    BY <2>1 DEF IsTree, ParentInOrg, MovesInv
  <2>2. ASSUME IsTree' /\ ParentInOrg', UNCHANGED moves PROVE TreeInv'
    BY <2>2 DEF MovesInv
  <2>3. CASE OtherAdmin
    <3>1. PICK d \in Exists(parent) :
            \/ parent' = Deleted(d)
            \/ \E p \in (Exists(parent) \ (Below(parent, d) \cup {d})) \cup {Root} :
                  ParentAllowed(OrgOf[d], d, p) /\ parent' = [parent EXCEPT ![d] = p]
      BY <2>3 DEF OtherAdmin
    <3>2. d \in Depts
      BY DEF Exists
    <3>3. IsTree' /\ ParentInOrg'
      BY <3>1, <3>2, DeleteKeeps, PutKeeps DEF ParentAllowed
    <3>. QED
      BY <2>2, <2>3, <3>3 DEF OtherAdmin
  <2>4. ASSUME NEW d \in Depts, RemoveDept(d) PROVE TreeInv'
    <3>1. CASE d \in Exists(parent)
      BY <2>2, <2>4, <3>1, DeleteKeeps DEF RemoveDept
    <3>2. CASE d \notin Exists(parent)
      BY <2>1, <2>4, <3>2 DEF RemoveDept
    <3>. QED
      BY <3>1, <3>2
  <2>5. ASSUME NEW s \in saves, ServerSaves(s) PROVE TreeInv'
    <3>1. CASE /\ s.id \in Exists(parent) /\ ParentAllowed(OrgOf[s.id], s.id, s.parent)
               /\ parent' = [parent EXCEPT ![s.id] = s.parent]
      <4>1. s.id \in Depts
        BY <3>1 DEF Exists
      <4>2. IsTree' /\ ParentInOrg'
        BY <3>1, <4>1, PutKeeps DEF ParentAllowed
      <4>. QED
        BY <2>2, <2>5, <4>2 DEF ServerSaves
    <3>2. ASSUME NEW d \in deptChildren(parent, New), OrgOf[d] = s.org,
                 ParentAllowed(s.org, New, s.parent), parent' = [parent EXCEPT ![d] = s.parent]
          PROVE  TreeInv'
      <4>1. d \in Depts /\ d \notin Exists(parent)
        BY DEF deptChildren, Exists, Absent
      <4>2. IsTree' /\ ParentInOrg'
        BY <3>2, <4>1, PutKeeps DEF ParentAllowed
      <4>. QED
        BY <2>2, <2>5, <4>2 DEF ServerSaves
    <3>3. CASE UNCHANGED parent
      BY <2>1, <2>5, <3>3 DEF ServerSaves
    <3>. QED
      BY <2>5, <3>1, <3>2, <3>3 DEF ServerSaves
  <2>6. ASSUME NEW m \in moves, ReorderReads(m) PROVE TreeInv'
    <3>1. IsMove(m) /\ CheckedInOrg(m)
      BY DEF MovesInv
    <3>2. CASE ReorderAccepted(m)
      <4>1. PICK n : n = [m EXCEPT !.st = "checked", !.writes = {d \in m.items : parent[d] # m.to}]
        OBVIOUS
      <4>2. /\ IsMove(n) /\ n.org = m.org /\ n.to = m.to
            /\ n.writes = {d \in m.items : parent[d] # m.to}
        BY <3>1, <4>1 DEF IsMove
      <4>3. CheckedInOrg(n)
        BY <3>2, <4>2, AcceptedInOrg DEF CheckedInOrg
      <4>4. moves' = (moves \ {m}) \cup {n}
        BY <2>6, <3>2, <4>1 DEF ReorderReads
      <4>5. MovesInv'
        BY <4>2, <4>3, <4>4, MovesKeep
      <4>. QED
        BY <2>6, <4>5 DEF ReorderReads, IsTree, ParentInOrg
    <3>3. CASE ~ ReorderAccepted(m)
      <4>1. PICK n : n = [m EXCEPT !.st = "answered"]
        OBVIOUS
      <4>2. IsMove(n) /\ n.st = "answered"
        BY <3>1, <4>1 DEF IsMove
      <4>3. moves' = (moves \ {m}) \cup {n}
        BY <2>6, <3>3, <4>1 DEF ReorderReads
      <4>4. MovesInv'
        BY <4>2, <4>3, MovesKeep DEF CheckedInOrg
      <4>. QED
        BY <2>6, <4>4 DEF ReorderReads, IsTree, ParentInOrg
    <3>. QED
      BY <3>2, <3>3
  <2>7. ASSUME NEW m \in moves, ReorderCommits(m) PROVE TreeInv'
    <3>1. IsMove(m) /\ CheckedInOrg(m) /\ m.st = "checked"
      BY <2>7 DEF MovesInv, ReorderCommits
    <3>2. PICK n : n = [m EXCEPT !.st = "answered"]
      OBVIOUS
    <3>3. IsMove(n) /\ n.st = "answered"
      BY <3>1, <3>2 DEF IsMove
    <3>4. moves' = (moves \ {m}) \cup {n}
      BY <2>7, <3>2 DEF ReorderCommits
    <3>5. MovesInv'
      BY <3>3, <3>4, MovesKeep DEF CheckedInOrg
    <3>6. CASE m.writes \cup ({m.to} \ {Root}) \subseteq Exists(parent)
      <4>1. parent' = [d \in Depts |-> IF d \in m.writes THEN m.to ELSE parent[d]]
        BY <2>7, <3>6 DEF ReorderCommits
      <4>. QED
        BY <3>1, <3>5, <3>6, <4>1, ReorderKeeps
    <3>7. CASE ~ (m.writes \cup ({m.to} \ {Root}) \subseteq Exists(parent))
      <4>1. UNCHANGED parent
        BY <2>7, <3>7 DEF ReorderCommits
      <4>. QED
        BY <3>5, <4>1 DEF IsTree, ParentInOrg
    <3>. QED
      BY <3>6, <3>7
  <2>8. ASSUME NEW to, Drop(to) PROVE TreeInv'
    <3>1. PICK n : n = [org |-> org, items |-> deptChildren(tree, to) \cup {drag},
                        to |-> to, st |-> "sent", writes |-> {}]
      OBVIOUS
    <3>2. IsMove(n) /\ n.st = "sent"
      BY <3>1 DEF IsMove
    <3>3. moves' = moves \cup {n} /\ UNCHANGED parent
      BY <2>8, <3>1 DEF Drop
    <3>4. MovesInv'
      BY <3>2, <3>3, MovesKeep DEF CheckedInOrg
    <3>. QED
      BY <3>3, <3>4 DEF IsTree, ParentInOrg
  <2>9. ASSUME NEW m \in moves, MoveEnds(m) PROVE TreeInv'
    BY <2>1, <2>9 DEF MoveEnds
  <2>10. CASE MembersArrive \/ DragEnd \/ OpenCreateDept \/ CloseDialog
    BY <2>1, <2>10 DEF MembersArrive, DragEnd, OpenCreateDept, CloseDialog, page
  <2>11. ASSUME NEW l \in loads, DeptsArrive(l) \/ LoadFails(l) PROVE TreeInv'
    BY <2>1, <2>11 DEF DeptsArrive, LoadFails
  <2>12. ASSUME NEW s \in saves, SaveEnds(s) PROVE TreeInv'
    BY <2>1, <2>12 DEF SaveEnds
  <2>13. ASSUME NEW o, OpenFor(o) PROVE TreeInv'
    BY <2>1, <2>13 DEF OpenFor
  <2>14. ASSUME NEW d, DragStart(d) \/ DragOver(d) \/ OpenEditDept(d) PROVE TreeInv'
    BY <2>1, <2>14 DEF DragStart, DragOver, OpenEditDept, page
  <2>15. ASSUME NEW p, SaveDept(p) PROVE TreeInv'
    BY <2>1, <2>15 DEF SaveDept, page
  <2>16. ASSUME NEW next, MgrStep(next) PROVE TreeInv'
    BY <2>1, <2>16 DEF MgrStep, page
  <2>17. CASE MgrType \/ RunManagerSearch \/ MgrClick \/ OnManagerKeydown
    BY <2>16, <2>17 DEF MgrType, RunManagerSearch, MgrClick, OnManagerKeydown, pickManager
  <2>18. CASE UNCHANGED vars
    BY <2>1, <2>18 DEF vars
  <2>. QED
    BY <2>3, <2>4, <2>5, <2>6, <2>7, <2>8, <2>9, <2>10, <2>11, <2>12, <2>13, <2>14, <2>15,
       <2>17, <2>18 DEF Next
<1>. QED
  BY <1>1, <1>2, PTL DEF Spec

(* department_service.py:146-160: no department hangs below one that is    *)
(* gone or of another organisation, for any charts, whoever changes them,  *)
(* however late the page is.                                               *)
THEOREM ParentsInOrg == Spec => []ParentInOrg
<1>1. TreeInv => ParentInOrg
  BY DEF TreeInv
<1>. QED
  BY <1>1, TreeInvariant, PTL

----------------------------------------------------------------------------
(* org_structure.js:472-580: what the manager field saves is what it shows,*)
(* for any users and answers to its searches.                              *)
THEOREM ManagerAsShown == Spec => []ManagerShownIsManagerSaved
<1>1. Init => MgrInv
  BY DEF Init, MgrInv, Manager
<1>2. MgrInv /\ [Next]_vars => MgrInv'
  <2>. SUFFICES ASSUME MgrInv, [Next]_vars PROVE MgrInv'
    OBVIOUS
  <2>1. CASE UNCHANGED mgr
    BY <2>1 DEF MgrInv
  <2>2. ASSUME NEW u, mgr' = Manager(u) PROVE MgrInv'
    BY <2>2 DEF MgrInv, Manager
  <2>3. CASE MgrType
    BY <2>3 DEF MgrType, MgrStep, MgrInput, MgrInv
  <2>4. ASSUME NEW u, pickManager(u) PROVE MgrInv'
    BY <2>4 DEF pickManager, MgrStep, MgrInv
  <2>5. ASSUME NEW r, NEW i, mgr' = [mgr EXCEPT !.results = r, !.active = i] PROVE MgrInv'
    BY <2>5 DEF MgrInv
  <2>6. ASSUME NEW o, NEW i, mgr' = [mgr EXCEPT !.open = o, !.active = i] PROVE MgrInv'
    BY <2>6 DEF MgrInv
  <2>7. ASSUME NEW i, mgr' = [mgr EXCEPT !.active = i] PROVE MgrInv'
    BY <2>7 DEF MgrInv
  <2>8. CASE RunManagerSearch \/ MgrClick \/ OnManagerKeydown
    BY <2>4, <2>5, <2>6, <2>7, <2>8
       DEF RunManagerSearch, MgrClick, OnManagerKeydown, MgrStep
  <2>9. CASE OpenCreateDept \/ CloseDialog \/ \E d \in Depts : OpenEditDept(d)
    BY <2>2, <2>9 DEF OpenCreateDept, CloseDialog, OpenEditDept, close
  <2>10. ASSUME NEW s \in saves, SaveEnds(s) PROVE MgrInv'
    BY <2>1, <2>2, <2>10 DEF SaveEnds, close
  <2>11. CASE OtherAdmin \/ MembersArrive \/ DragEnd
    BY <2>1, <2>11 DEF OtherAdmin, MembersArrive, DragEnd, dialog
  <2>12. ASSUME NEW m \in moves, ReorderReads(m) \/ ReorderCommits(m) \/ MoveEnds(m) PROVE MgrInv'
    BY <2>1, <2>12 DEF ReorderReads, ReorderCommits, MoveEnds, dialog
  <2>13. ASSUME NEW l \in loads, DeptsArrive(l) \/ LoadFails(l) PROVE MgrInv'
    BY <2>1, <2>13 DEF DeptsArrive, LoadFails, dialog
  <2>14. ASSUME NEW s \in saves, ServerSaves(s) PROVE MgrInv'
    BY <2>1, <2>14 DEF ServerSaves
  <2>15. ASSUME NEW o, OpenFor(o) PROVE MgrInv'
    BY <2>1, <2>15 DEF OpenFor, dialog
  <2>16. ASSUME NEW d, DragStart(d) \/ DragOver(d) \/ RemoveDept(d) PROVE MgrInv'
    BY <2>1, <2>16 DEF DragStart, DragOver, RemoveDept, dialog
  <2>17. ASSUME NEW p, Drop(p) \/ SaveDept(p) PROVE MgrInv'
    BY <2>1, <2>17 DEF Drop, SaveDept, dialog
  <2>18. CASE UNCHANGED vars
    BY <2>1, <2>18 DEF vars, dialog
  <2>. QED
    BY <2>3, <2>8, <2>9, <2>10, <2>11, <2>12, <2>13, <2>14, <2>15, <2>16, <2>17, <2>18 DEF Next
<1>3. MgrInv => ManagerShownIsManagerSaved
  BY DEF MgrInv, ManagerShownIsManagerSaved
<1>. QED
  BY <1>1, <1>2, <1>3, PTL DEF Spec
----------------------------------------------------------------------------
(* Trees: what is below a department                                       *)

LEMMA LeastNumber ==
    ASSUME NEW S \in SUBSET Nat, S # {}
    PROVE  \E n \in S : \A m \in S : n <= m
<1>1. PICK n \in S : \A m \in S : ~ (<<m, n>> \in OpToRel(<, Nat))
  BY NatLessThanWellFounded, WFMin
<1>2. \A m \in S : ~ (m < n)
  BY <1>1 DEF OpToRel
<1>. QED
  BY <1>2

(* One level more.                                                         *)
Wider(t, s) == s \cup UNION {deptChildren(t, e) : e \in s}

(* The recursive function of Below, and its beginnings.                    *)
IsLevels(g, t, d) ==
    g = [n \in Nat |-> IF n = 0 THEN deptChildren(t, d) ELSE Wider(t, g[n - 1])]

IsBeginning(g, k, t, d) ==
    g = [n \in 0..k |-> IF n = 0 THEN deptChildren(t, d) ELSE Wider(t, g[n - 1])]

LEMMA BelowDef ==
    ASSUME NEW t, NEW d
    PROVE  Below(t, d) = (CHOOSE g : IsLevels(g, t, d))[Cardinality(Depts)]
BY DEF Below, IsLevels, Wider

LEMMA BeginningsAgree ==
    ASSUME NEW t, NEW d, NEW k \in Nat, NEW g, IsBeginning(g, k, t, d),
           NEW l \in Nat, NEW h, IsBeginning(h, l, t, d), k <= l
    PROVE  \A n \in 0..k : g[n] = h[n]
<1>. DEFINE Bad == {n \in 0..k : g[n] # h[n]}
<1>. SUFFICES ASSUME Bad # {} PROVE FALSE
  OBVIOUS
<1>1. PICK n \in Bad : \A m \in Bad : n <= m
  <2>1. Bad \in SUBSET Nat
    OBVIOUS
  <2>. HIDE DEF Bad
  <2>. QED
    BY <2>1, LeastNumber
<1>2. /\ g[n] = IF n = 0 THEN deptChildren(t, d) ELSE Wider(t, g[n - 1])
      /\ h[n] = IF n = 0 THEN deptChildren(t, d) ELSE Wider(t, h[n - 1])
  BY DEF IsBeginning
<1>3. CASE n = 0
  BY <1>2, <1>3
<1>4. CASE n # 0
  <2>1. n - 1 \in 0..k /\ ~ (n <= n - 1)
    BY <1>4
  <2>2. g[n - 1] = h[n - 1]
    BY <1>1, <2>1
  <2>. QED
    BY <1>2, <1>4, <2>2
<1>. QED
  BY <1>3, <1>4

LEMMA BeginningsExist ==
    ASSUME NEW t, NEW d
    PROVE  \A k \in Nat : \E g : IsBeginning(g, k, t, d)
<1>. DEFINE Bad == {k \in Nat : ~ \E g : IsBeginning(g, k, t, d)}
<1>. SUFFICES ASSUME Bad # {} PROVE FALSE
  OBVIOUS
<1>1. PICK k \in Bad : \A m \in Bad : k <= m
  <2>1. Bad \in SUBSET Nat
    OBVIOUS
  <2>. HIDE DEF Bad
  <2>. QED
    BY <2>1, LeastNumber
<1>2. CASE k = 0
  <2>. DEFINE h == [n \in 0..0 |-> deptChildren(t, d)]
  <2>1. h = [n \in 0..0 |-> IF n = 0 THEN deptChildren(t, d) ELSE Wider(t, h[n - 1])]
    OBVIOUS
  <2>. QED
    BY <1>2, <2>1 DEF IsBeginning
<1>3. CASE k # 0
  <2>1. k - 1 \in Nat /\ ~ (k <= k - 1)
    BY <1>3
  <2>2. PICK g : IsBeginning(g, k - 1, t, d)
    BY <1>1, <2>1
  <2>. DEFINE h == [n \in 0..k |-> IF n = k THEN Wider(t, g[k - 1]) ELSE g[n]]
  <2>3. ASSUME NEW n \in 0..k
        PROVE  h[n] = IF n = 0 THEN deptChildren(t, d) ELSE Wider(t, h[n - 1])
    <3>1. CASE n = k
      BY <1>3, <2>1, <3>1
    <3>2. CASE n # k
      <4>1. n \in 0..(k - 1)
        BY <2>1, <3>2
      <4>2. g[n] = IF n = 0 THEN deptChildren(t, d) ELSE Wider(t, g[n - 1])
        BY <2>2, <4>1 DEF IsBeginning
      <4>3. n # 0 => n - 1 \in 0..k /\ n - 1 # k
        BY <4>1
      <4>. QED
        BY <3>2, <4>2, <4>3
    <3>. QED
      BY <3>1, <3>2
  <2>4. h = [n \in 0..k |-> h[n]]
    OBVIOUS
  <2>. HIDE DEF h
  <2>5. IsBeginning(h, k, t, d)
    BY <2>3, <2>4 DEF IsBeginning
  <2>. QED
    BY <2>5
<1>. QED
  BY <1>2, <1>3

LEMMA LevelsExist ==
    ASSUME NEW t, NEW d
    PROVE  \E g : IsLevels(g, t, d)
<1>. DEFINE Beginning(k) == CHOOSE g : IsBeginning(g, k, t, d)
            h == [n \in Nat |-> Beginning(n)[n]]
<1>1. \A k \in Nat : IsBeginning(Beginning(k), k, t, d)
  BY BeginningsExist
<1>. HIDE DEF Beginning
<1>2. ASSUME NEW n \in Nat
      PROVE  h[n] = IF n = 0 THEN deptChildren(t, d) ELSE Wider(t, h[n - 1])
  <2>1. h[n] = IF n = 0 THEN deptChildren(t, d) ELSE Wider(t, Beginning(n)[n - 1])
    BY <1>1 DEF IsBeginning
  <2>2. CASE n # 0
    <3>1. n - 1 \in Nat /\ n - 1 <= n /\ n - 1 \in 0..(n - 1)
      BY <2>2
    <3>2. IsBeginning(Beginning(n), n, t, d) /\ IsBeginning(Beginning(n - 1), n - 1, t, d)
      BY <1>1, <3>1
    <3>3. Beginning(n - 1)[n - 1] = Beginning(n)[n - 1]
      BY <3>1, <3>2, BeginningsAgree
    <3>. QED
      BY <2>1, <2>2, <3>1, <3>3
  <2>. QED
    BY <2>1, <2>2
<1>3. h = [n \in Nat |-> h[n]]
  OBVIOUS
<1>. HIDE DEF h
<1>4. IsLevels(h, t, d)
  BY <1>2, <1>3 DEF IsLevels
<1>. QED
  BY <1>4

(* What is below d is the last of a chain of levels.                       *)
LEMMA LevelsOf ==
    ASSUME NEW t, NEW d
    PROVE  \E g : /\ Below(t, d) = g[Cardinality(Depts)]
                  /\ g[0] = deptChildren(t, d)
                  /\ \A n \in Nat : g[n + 1] = Wider(t, g[n])
<1>. DEFINE g == CHOOSE g : IsLevels(g, t, d)
<1>1. IsLevels(g, t, d)
  BY LevelsExist
<1>2. Below(t, d) = g[Cardinality(Depts)]
  BY BelowDef
<1>. HIDE DEF g
<1>3. g[0] = deptChildren(t, d)
  BY <1>1 DEF IsLevels
<1>4. ASSUME NEW n \in Nat PROVE g[n + 1] = Wider(t, g[n])
  <2>1. n + 1 \in Nat /\ n + 1 # 0 /\ (n + 1) - 1 = n
    OBVIOUS
  <2>. QED
    BY <1>1, <2>1 DEF IsLevels
<1>. QED
  BY <1>2, <1>3, <1>4

(* It is in every set that holds the children of d and of its own members. *)
LEMMA BelowIsLeast ==
    ASSUME NEW t, NEW d, NEW S, deptChildren(t, d) \subseteq S,
           \A e \in S : deptChildren(t, e) \subseteq S
    PROVE  Below(t, d) \subseteq S
<1>1. PICK g : /\ Below(t, d) = g[Cardinality(Depts)]
               /\ g[0] = deptChildren(t, d)
               /\ \A n \in Nat : g[n + 1] = Wider(t, g[n])
  BY LevelsOf
<1>. DEFINE Bad == {n \in Nat : ~ (g[n] \subseteq S)}
<1>2. Bad = {}
  <2>. SUFFICES ASSUME Bad # {} PROVE FALSE
    OBVIOUS
  <2>1. PICK n \in Bad : \A m \in Bad : n <= m
    <3>1. Bad \in SUBSET Nat
      OBVIOUS
    <3>. HIDE DEF Bad
    <3>. QED
      BY <3>1, LeastNumber
  <2>2. n # 0
    BY <1>1
  <2>3. n - 1 \in Nat /\ ~ (n <= n - 1) /\ (n - 1) + 1 = n
    BY <2>2
  <2>4. g[n - 1] \subseteq S
    BY <2>1, <2>3
  <2>5. g[n] = Wider(t, g[n - 1])
    BY <1>1, <2>3
  <2>6. Wider(t, g[n - 1]) \subseteq S
    BY <2>4 DEF Wider
  <2>. QED
    BY <2>5, <2>6
<1>3. Cardinality(Depts) \in Nat
  BY OrgAssumption, FS_CardinalityType
<1>. QED
  BY <1>1, <1>2, <1>3

(* And it is such a set: a level that adds nothing is the last, and one    *)
(* that adds something has more departments than levels before it.         *)
LEMMA BelowIsClosed ==
    ASSUME NEW t, NEW d
    PROVE  /\ Below(t, d) \subseteq Depts
           /\ deptChildren(t, d) \subseteq Below(t, d)
           /\ \A e \in Below(t, d) : deptChildren(t, e) \subseteq Below(t, d)
<1>1. PICK g : /\ Below(t, d) = g[Cardinality(Depts)]
               /\ g[0] = deptChildren(t, d)
               /\ \A n \in Nat : g[n + 1] = Wider(t, g[n])
  BY LevelsOf
<1>. DEFINE Grown(n) == /\ g[n] \subseteq Depts /\ g[0] \subseteq g[n]
                        /\ Wider(t, g[n]) = g[n] \/ Cardinality(g[n]) >= n + 1
            Bad == {n \in Nat : ~ Grown(n)}
<1>2. ASSUME NEW s \in SUBSET Depts
      PROVE  /\ IsFiniteSet(s) /\ Cardinality(s) \in Nat
             /\ Cardinality(s) <= Cardinality(Depts)
             /\ \A r \in SUBSET s : /\ Cardinality(r) <= Cardinality(s)
                                    /\ Cardinality(r) = Cardinality(s) => r = s
  <2>1. IsFiniteSet(s) /\ Cardinality(s) <= Cardinality(Depts)
    BY OrgAssumption, FS_Subset
  <2>. QED
    BY <2>1, FS_CardinalityType, FS_Subset
<1>3. \A s \in SUBSET Depts : Wider(t, s) \subseteq Depts /\ s \subseteq Wider(t, s)
  BY DEF Wider, deptChildren
<1>4. Grown(0)
  <2>1. g[0] \subseteq Depts
    BY <1>1 DEF deptChildren
  <2>2. CASE g[0] = {}
    BY <2>1, <2>2 DEF Wider
  <2>3. CASE g[0] # {}
    <3>1. IsFiniteSet(g[0]) /\ Cardinality(g[0]) \in Nat
      BY <1>2, <2>1
    <3>2. Cardinality(g[0]) # 0
      BY <2>3, <3>1, FS_EmptySet
    <3>. QED
      BY <2>1, <3>1, <3>2
  <2>. QED
    BY <2>2, <2>3
<1>5. ASSUME NEW n \in Nat, Grown(n) PROVE Grown(n + 1)
  <2>1. g[n + 1] = Wider(t, g[n])
    BY <1>1
  <2>2. g[n + 1] \subseteq Depts /\ g[n] \subseteq g[n + 1] /\ g[0] \subseteq g[n + 1]
    BY <1>3, <1>5, <2>1
  <2>3. CASE Wider(t, g[n]) = g[n]
    BY <2>1, <2>2, <2>3
  <2>4. CASE Wider(t, g[n]) # g[n]
    <3>1. Cardinality(g[n]) >= n + 1
      BY <1>5, <2>4
    <3>2. g[n] \in SUBSET Depts /\ g[n + 1] \in SUBSET Depts /\ g[n] \in SUBSET g[n + 1]
      BY <1>5, <2>2
    <3>3. /\ Cardinality(g[n]) \in Nat /\ Cardinality(g[n + 1]) \in Nat
          /\ Cardinality(g[n]) <= Cardinality(g[n + 1])
          /\ Cardinality(g[n]) # Cardinality(g[n + 1])
      BY <1>2, <2>1, <2>4, <3>2
    <3>4. Cardinality(g[n + 1]) >= (n + 1) + 1
      BY <3>1, <3>3
    <3>. QED
      BY <2>2, <3>4
  <2>. QED
    BY <2>3, <2>4
<1>6. Bad = {}
  <2>. SUFFICES ASSUME Bad # {} PROVE FALSE
    OBVIOUS
  <2>1. PICK n \in Bad : \A m \in Bad : n <= m
    <3>1. Bad \in SUBSET Nat
      OBVIOUS
    <3>. HIDE DEF Bad
    <3>. QED
      BY <3>1, LeastNumber
  <2>. HIDE DEF Grown
  <2>2. n # 0
    BY <1>4
  <2>3. n - 1 \in Nat /\ ~ (n <= n - 1) /\ (n - 1) + 1 = n
    BY <2>2
  <2>4. Grown(n - 1)
    BY <2>1, <2>3
  <2>5. Grown((n - 1) + 1)
    BY <1>5, <2>3, <2>4
  <2>. QED
    BY <2>3, <2>5
<1>7. Cardinality(Depts) \in Nat
  BY OrgAssumption, FS_CardinalityType
<1>8. /\ Below(t, d) \subseteq Depts /\ deptChildren(t, d) \subseteq Below(t, d)
      /\ Wider(t, Below(t, d)) = Below(t, d) \/ Cardinality(Below(t, d)) >= Cardinality(Depts) + 1
  BY <1>1, <1>6, <1>7
<1>9. Wider(t, Below(t, d)) = Below(t, d)
  BY <1>2, <1>7, <1>8
<1>. QED
  BY <1>8, <1>9 DEF Wider

(* The parent of what is drawn is drawn.                                   *)
LEMMA DrawnFromTheTop ==
    ASSUME NEW t
    PROVE  /\ Drawn(t) \subseteq Depts
           /\ \A e \in Drawn(t) : t[e] = Root \/ t[e] \in Drawn(t)
           /\ \A e \in Depts : t[e] = Root \/ t[e] \in Drawn(t) => e \in Drawn(t)
<1>. DEFINE S == {e \in Drawn(t) : t[e] = Root \/ t[e] \in Drawn(t)}
<1>1. /\ Drawn(t) \subseteq Depts /\ deptChildren(t, Root) \subseteq Drawn(t)
      /\ \A e \in Drawn(t) : deptChildren(t, e) \subseteq Drawn(t)
  BY BelowIsClosed DEF Drawn
<1>2. deptChildren(t, Root) \subseteq S
  BY <1>1 DEF deptChildren
<1>3. \A e \in S : deptChildren(t, e) \subseteq S
  BY <1>1 DEF deptChildren
<1>4. Drawn(t) \subseteq S
  <2>. HIDE DEF S
  <2>. QED
    BY <1>2, <1>3, BelowIsLeast DEF Drawn
<1>. QED
  BY <1>1, <1>4 DEF deptChildren

(* A department put below one that is drawn and neither it nor below it,   *)
(* or below the parent of such a one.                                      *)
LEMMA MovedStaysDrawn ==
    ASSUME NEW t, NEW u, NEW d \in Depts, NEW o \in Drawn(t), NEW to,
           to = o \/ to = t[o], o # d, o \notin Below(t, d),
           u[d] = to, \A e \in Depts : e # d => u[e] = t[e]
    PROVE  Drawn(t) \subseteq Drawn(u)
<1>. DEFINE Under == Below(t, d) \cup {d}
            S == {e \in Depts : e \in Under \/ e \in Drawn(u)}
<1>1. /\ Below(t, d) \subseteq Depts
      /\ \A e \in Depts : t[e] \in Under => e \in Under
  BY BelowIsClosed DEF deptChildren
<1>2. o \in Depts /\ \A e \in Drawn(t) : t[e] = Root \/ t[e] \in Drawn(t)
  BY DrawnFromTheTop
<1>3. Drawn(u) \subseteq Depts /\ \A e \in Depts : u[e] = Root \/ u[e] \in Drawn(u) => e \in Drawn(u)
  BY DrawnFromTheTop
<1>4. to = Root \/ (to \in Drawn(t) /\ to \notin Under)
  BY <1>1, <1>2
<1>. HIDE DEF Under
<1>5. d \in Under
  BY DEF Under
<1>6. \A e \in Depts : t[e] = Root \/ t[e] \in S => e \in S
  BY <1>1, <1>3, <1>5
<1>7. Drawn(t) \subseteq S
  <2>. HIDE DEF S
  <2>1. deptChildren(t, Root) \subseteq S /\ \A e \in S : deptChildren(t, e) \subseteq S
    BY <1>6 DEF deptChildren
  <2>. QED
    BY <2>1, BelowIsLeast DEF Drawn
<1>8. d \in Drawn(u)
  BY <1>3, <1>4, <1>7
<1>9. Below(t, d) \subseteq Drawn(u)
  <2>1. \A e \in Drawn(u) : deptChildren(t, e) \subseteq Drawn(u)
    BY <1>3, <1>8 DEF deptChildren
  <2>2. deptChildren(t, d) \subseteq Drawn(u)
    BY <1>8, <2>1
  <2>. QED
    BY <2>1, <2>2, BelowIsLeast
<1>. QED
  BY <1>7, <1>8, <1>9 DEF Under

(* org_structure.js, applyDrop: it checks the drop again in the list it    *)
(* changes, so whatever has been loaded since the drag began, a chart that *)
(* shows every department goes on showing every one.                       *)
THEOREM DropsHideNothing == Spec => DropHidesNothing
<1>1. ASSUME NEW to \in Parents, Drop(to), Forest(tree) PROVE Forest(tree')
  <2>. PICK t : t = tree
    OBVIOUS
  <2>. PICK u : u = tree'
    OBVIOUS
  <2>. PICK d : d = drag
    OBVIOUS
  <2>. PICK o : o = over
    OBVIOUS
  <2>1. /\ Exists(t) = Drawn(t) /\ d \in Exists(t) /\ o \in Exists(t)
        /\ to \in Depts \cup {Root} /\ (to = o \/ to = t[o])
        /\ o # d /\ o \notin Below(t, d)
    BY <1>1 DEF Drop, DropAllowed, isDescendant, Forest
  <2>2. u = [e \in Depts |-> IF e \in deptChildren(t, to) \cup {d} THEN to ELSE t[e]]
    BY <1>1 DEF Drop
  <2>3. d \in Depts /\ o \in Depts
    BY <2>1 DEF Exists
  <2>4. u[d] = to /\ \A e \in Depts : e # d => u[e] = t[e]
    BY <2>2, <2>3 DEF deptChildren
  <2>5. Drawn(t) \subseteq Drawn(u)
    <3>1. o \in Drawn(t) /\ o # d /\ o \notin Below(t, d) /\ (to = o \/ to = t[o])
      BY <2>1
    <3>. QED
      BY <2>3, <2>4, <3>1, MovedStaysDrawn
  <2>6. Exists(u) \subseteq Exists(t)
    BY <2>1, <2>4 DEF Exists
  <2>7. Drawn(u) \subseteq Exists(u)
    <3>. SUFFICES ASSUME NEW e \in Drawn(u) PROVE u[e] \notin Absent /\ e \in Depts
      BY DEF Exists
    <3>1. e \in Depts /\ u[e] \in Depts \cup {Root}
      BY DrawnFromTheTop
    <3>. QED
      BY <3>1, OrgAssumption
  <2>8. Exists(u) = Drawn(u)
    BY <2>1, <2>5, <2>6, <2>7
  <2>. QED
    BY <2>8 DEF Forest
<1>2. [Next]_vars => [\A p \in Parents : Drop(p) /\ Forest(tree) => Forest(tree')]_vars
  BY <1>1
<1>. QED
  BY <1>2, PTL DEF Spec, DropHidesNothing
=============================================================================
