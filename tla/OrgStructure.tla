--------------------------- MODULE OrgStructure ---------------------------
(***************************************************************************)
(* The page of the organisation chart, assets/js/org_structure.js, in the  *)
(* browser of one administrator, over the departments that                 *)
(* routers/departments.py and services/department_service.py keep, which   *)
(* other administrators change at the same time.                           *)
(*                                                                         *)
(* A tree gives every department its parent: another department, Root, or  *)
(* a mark that it does not exist yet (New) or any more (Gone).  The order  *)
(* among siblings is left out: a drop between two siblings names the same  *)
(* parent and sends the same rows.  A GET is answered with the tree of the *)
(* moment it is sent; its answer reaches the page later, in any order.     *)
(***************************************************************************)
EXTENDS Naturals, FiniteSets, Sequences

CONSTANTS Depts,      \* ids of departments
          Orgs,       \* organisations a super_admin may open
          OrgOf,      \* OrgOf[d]: the organisation of department d
          Users,      \* users that may be managers
          Root, New, Gone, NoOne,
          InitialTree,
          MaxRequests \* bound: requests of the page in flight

Absent == {New, Gone}

Trees == [Depts -> Depts \cup {Root} \cup Absent]

ASSUME OrgAssumption ==
    /\ IsFiniteSet(Depts) /\ OrgOf \in [Depts -> Orgs] /\ InitialTree \in Trees
    /\ Depts \cap (Absent \cup {Root}) = {} /\ Root \notin Absent
    /\ \A d, p \in Depts : InitialTree[d] = p =>
          InitialTree[p] \notin Absent /\ OrgOf[p] = OrgOf[d]

VARIABLES parent,  \* the departments on the server
          org,     \* state.orgId
          tree,    \* state.depts
          rows,    \* the departments drawn on the page
          people,  \* state.membersLoaded
          drag,    \* state.dragId
          over,    \* the row whose dragover has allowed a drop
          moves,   \* PATCH /departments/reorder in flight
          loads,   \* GET /departments in flight
          form,    \* the department dialog
          saves,   \* its request in flight, the save button is disabled meanwhile
          mgr      \* the manager field of the dialog

page == <<org, tree, rows, people, drag, over>>
dialog == <<form, saves, mgr>>
vars == <<parent, page, moves, loads, dialog>>

(* A free connection for one more request.                                 *)
MaySend == Cardinality(moves) + Cardinality(loads) + Cardinality(saves) < MaxRequests

Exists(t) == {d \in Depts : t[d] \notin Absent}
OfOrg(t, o) == [d \in Depts |-> IF OrgOf[d] = o THEN t[d] ELSE New]

----------------------------------------------------------------------------
(* Trees                                                                   *)

deptChildren(t, p) == {d \in Depts : t[d] = p}

(* The departments below d: deptChildren taken again and again.            *)
Below(t, d) ==
    LET levels[n \in Nat] == IF n = 0 THEN deptChildren(t, d)
                             ELSE levels[n - 1] \cup UNION {deptChildren(t, e) : e \in levels[n - 1]}
    IN levels[Cardinality(Depts)]

isDescendant(t, candidate, ancestor) == candidate \in Below(t, ancestor)

(* renderDeptTable and renderDeptTree draw what a walk from the top meets: *)
(* a department on a cycle is on no page.                                  *)
Drawn(t) == Below(t, Root)

Forest(t) == Exists(t) = Drawn(t)

----------------------------------------------------------------------------
(* department_service.py and routers/departments.py                        *)

(* The reorder request is checked against one read of the organisation's   *)
(* departments; it writes the rows whose parent differs from that read.    *)
ReorderAccepted(m) ==
    LET now == OfOrg(parent, m.org)
        proposed == [d \in Depts |-> IF d \in m.items THEN m.to ELSE now[d]]
    IN /\ m.items \subseteq Exists(now)
       /\ m.to \in Exists(now) \cup {Root}
       /\ m.to \notin m.items
       /\ Forest(proposed)

ReorderReads(m) ==
    /\ m \in moves /\ m.st = "sent"
    /\ moves' = (moves \ {m}) \cup
         {IF ReorderAccepted(m)
          THEN [m EXCEPT !.st = "checked", !.writes = {d \in m.items : parent[d] # m.to}]
          ELSE [m EXCEPT !.st = "answered"]}
    /\ UNCHANGED <<parent, page, loads, dialog>>

(* The transaction fails if a row or the parent has been deleted since.    *)
ReorderCommits(m) ==
    /\ m \in moves /\ m.st = "checked"
    /\ IF m.writes \cup ({m.to} \ {Root}) \subseteq Exists(parent)
       THEN parent' = [d \in Depts |-> IF d \in m.writes THEN m.to ELSE parent[d]]
       ELSE UNCHANGED parent
    /\ moves' = (moves \ {m}) \cup {[m EXCEPT !.st = "answered"]}
    /\ UNCHANGED <<page, loads, dialog>>

(* Any department may be a parent.                                         *)
ParentExists(o, d, p) == p \in (Exists(parent) \ {d}) \cup {Root}

(* A parent must be another department of the same organisation.           *)
ParentAllowed(o, d, p) ==
    p = Root \/ (p \in Exists(parent) \ {d} /\ OrgOf[p] = o)

(* create_department and update_department; an update writes the parent    *)
(* whatever hangs below the department.                                    *)
ServerSaves(s) ==
    /\ s \in saves /\ s.st = "sent"
    /\ \/ /\ s.id \in Exists(parent) /\ ParentAllowed(OrgOf[s.id], s.id, s.parent)
          /\ parent' = [parent EXCEPT ![s.id] = s.parent]
          /\ saves' = {[s EXCEPT !.st = "ok"]}
       \/ /\ s.id = New /\ ParentAllowed(s.org, New, s.parent)
          /\ \E d \in deptChildren(parent, New) :
                OrgOf[d] = s.org /\ parent' = [parent EXCEPT ![d] = s.parent]
          /\ saves' = {[s EXCEPT !.st = "ok"]}
       \/ /\ saves' = {[s EXCEPT !.st = "failed"]}
          /\ UNCHANGED parent
    /\ UNCHANGED <<page, moves, loads, form, mgr>>

(* delete_department: the foreign key frees the departments below.         *)
Deleted(d) == [e \in Depts |-> IF e = d THEN Gone
                               ELSE IF parent[e] = d THEN Root ELSE parent[e]]

(* What another administrator does with an up-to-date page of the chart.   *)
OtherAdmin ==
    /\ \E d \in Exists(parent) :
        \/ parent' = Deleted(d)
        \/ \E p \in (Exists(parent) \ (Below(parent, d) \cup {d})) \cup {Root} :
              ParentAllowed(OrgOf[d], d, p) /\ parent' = [parent EXCEPT ![d] = p]
    /\ UNCHANGED <<page, moves, loads, dialog>>

----------------------------------------------------------------------------
(* org_structure.js: loading and drawing                                   *)

(* loadDepts empties the page and asks for the departments of state.orgId. *)
loadDepts(o) ==
    /\ loads' = loads \cup {[org |-> o, tree |-> OfOrg(parent, o)]}
    /\ rows' = {}

(* openFor, for a super_admin.  Nothing waits for the load of the chart    *)
(* that was open before.                                                   *)
OpenFor(o) ==
    /\ form = "closed" /\ o # org /\ MaySend
    /\ org' = o
    /\ loadDepts(o)
    /\ UNCHANGED <<parent, tree, people, drag, over, moves, dialog>>

(* The answer becomes state.depts at once; once people have been loaded    *)
(* the rows wait for the next load of the people.                          *)
DeptsArrive(l) ==
    /\ l \in loads
    /\ loads' = loads \ {l}
    /\ tree' = l.tree
    /\ rows' = IF people THEN rows ELSE Drawn(l.tree)
    /\ UNCHANGED <<parent, org, people, drag, over, moves, dialog>>

LoadFails(l) ==
    /\ l \in loads
    /\ loads' = loads \ {l}
    /\ rows' = {}
    /\ UNCHANGED <<parent, org, tree, people, drag, over, moves, dialog>>

(* loadMembers answers, for togglePeople, toggleAllPeople or loadDepts.    *)
MembersArrive ==
    /\ form = "closed"
    /\ people' = TRUE
    /\ rows' = Drawn(tree)
    /\ UNCHANGED <<parent, org, tree, drag, over, moves, loads, dialog>>

----------------------------------------------------------------------------
(* org_structure.js: drag and drop                                         *)

DragStart(d) ==
    /\ form = "closed" /\ d \in rows
    /\ drag' = d /\ over' = NoOne
    /\ UNCHANGED <<parent, org, tree, rows, people, moves, loads, dialog>>

DragOver(target) ==
    /\ form = "closed" /\ drag # NoOne /\ target \in rows
    /\ over' = IF target = drag \/ isDescendant(tree, target, drag) THEN NoOne ELSE target
    /\ UNCHANGED <<parent, org, tree, rows, people, drag, moves, loads, dialog>>

(* A drop that trusts the last dragover.                                   *)
DropAllowedOnce(target) == drag # target /\ target \in Exists(tree)

(* applyDrop checks again: state.depts may have changed since the dragover.*)
DropAllowed(target) ==
    /\ drag # target
    /\ target \in Exists(tree)
    /\ ~ isDescendant(tree, target, drag)

(* The new siblings are moved on the page first, then sent; a department   *)
(* that is no longer in state.depts stops the handler.                     *)
Drop(to) ==
    LET items == deptChildren(tree, to) \cup {drag} IN
    /\ over \in rows /\ to \in {over, tree[over]} \cap (Depts \cup {Root})
    /\ DropAllowed(over)
    /\ drag \in Exists(tree)
    /\ MaySend
    /\ tree' = [d \in Depts |-> IF d \in items THEN to ELSE tree[d]]
    /\ rows' = Drawn(tree')
    /\ moves' = moves \cup {[org |-> org, items |-> items, to |-> to, st |-> "sent", writes |-> {}]}
    /\ drag' = NoOne /\ over' = NoOne
    /\ UNCHANGED <<parent, org, people, loads, dialog>>

(* A drop applyDrop ignores, and the end of a drag.                        *)
DragEnd ==
    /\ drag # NoOne
    /\ drag' = NoOne /\ over' = NoOne
    /\ UNCHANGED <<parent, org, tree, rows, people, moves, loads, dialog>>

(* Accepted, refused or lost: the page goes back to the server's tree.     *)
MoveEnds(m) ==
    /\ m \in moves /\ m.st \in {"sent", "answered"}
    /\ moves' = moves \ {m}
    /\ loadDepts(org)
    /\ UNCHANGED <<parent, org, tree, people, drag, over, dialog>>

----------------------------------------------------------------------------
(* org_structure.js: the department dialog                                 *)

(* An empty manager field: what is saved, what is shown, the menu.         *)
Manager(u) == [hidden |-> u, shown |-> u, open |-> FALSE, results |-> <<>>, active |-> 0]

(* populateParentDeptSelect: not the department, nor any one below it.     *)
ParentOptions(d) == (Exists(tree) \ (Below(tree, d) \cup {d})) \cup {Root}

OpenCreateDept ==
    /\ form = "closed" /\ drag = NoOne
    /\ form' = New
    /\ mgr' = Manager(NoOne)
    /\ UNCHANGED <<parent, page, moves, loads, saves>>

OpenEditDept(d) ==
    /\ form = "closed" /\ drag = NoOne /\ d \in Exists(tree) \cap rows
    /\ form' = d
    /\ \E u \in Users \cup {NoOne} : mgr' = Manager(u)
    /\ UNCHANGED <<parent, page, moves, loads, saves>>

(* The fields of a closed dialog are set anew when it opens.               *)
close == form' = "closed" /\ mgr' = Manager(NoOne)

CloseDialog ==
    /\ form # "closed" /\ close
    /\ UNCHANGED <<parent, page, moves, loads, saves>>

(* saveDept, with the save button enabled.                                 *)
SaveDept(p) ==
    /\ form # "closed" /\ saves = {} /\ MaySend
    /\ p \in IF form = New THEN Exists(tree) \cup {Root} ELSE ParentOptions(form)
    /\ saves' = {[id |-> form, org |-> org, parent |-> p, manager |-> mgr.hidden, st |-> "sent"]}
    /\ UNCHANGED <<parent, page, moves, loads, form, mgr>>

(* Success closes whichever department dialog is open by now.              *)
SaveEnds(s) ==
    /\ s \in saves /\ s.st # "sent"
    /\ saves' = {}
    /\ IF s.st = "ok" THEN close /\ loadDepts(org)
                      ELSE UNCHANGED <<form, mgr, loads, rows>>
    /\ UNCHANGED <<parent, org, tree, people, drag, over, moves>>

(* removeDept after its confirmation.                                      *)
RemoveDept(d) ==
    /\ form = "closed" /\ d \in rows
    /\ parent' = IF d \in Exists(parent) THEN Deleted(d) ELSE parent
    /\ MaySend
    /\ loads' = loads \cup {[org |-> org, tree |-> OfOrg(parent', org)]}
    /\ rows' = {}
    /\ UNCHANGED <<org, tree, people, drag, over, moves, dialog>>

----------------------------------------------------------------------------
(* org_structure.js: the manager field, a search over users.  Bound: it is *)
(* used while no drop, load or save is under way.                          *)

MgrStep(next) ==
    /\ form # "closed" /\ moves = {} /\ loads = {} /\ saves = {}
    /\ mgr' = next
    /\ UNCHANGED <<parent, page, moves, loads, form, saves>>

(* Typing that only changes the text of the field.                         *)
MgrInputKeepsChoice == [mgr EXCEPT !.shown = "text", !.open = TRUE]

(* Typing voids the choice and starts a search after the debounce.         *)
MgrInput == [mgr EXCEPT !.hidden = NoOne, !.shown = "text", !.open = TRUE]

MgrType == MgrStep(MgrInput)

(* A search answers, perhaps an old one, or fails with no results.         *)
RunManagerSearch ==
    \E found \in {<<>>} \cup {<<u>> : u \in Users} :
        MgrStep([mgr EXCEPT !.results = found, !.active = 0])

(* The first choice is no manager, the others are the results.             *)
managerChoices == <<NoOne>> \o mgr.results

pickManager(u) == MgrStep([mgr EXCEPT !.hidden = u, !.shown = u, !.open = FALSE, !.active = 0])

MgrClick == mgr.open /\ \E i \in 1..Len(managerChoices) : pickManager(managerChoices[i])

(* Arrows move the mark over the choices, Enter takes the marked one;      *)
(* active counts from 1, 0 marks none.                                     *)
OnManagerKeydown ==
    \/ MgrStep([mgr EXCEPT !.open = TRUE,
                !.active = IF @ < Len(managerChoices) THEN @ + 1 ELSE @])
    \/ MgrStep([mgr EXCEPT !.active = IF @ > 1 THEN @ - 1 ELSE 1])
    \/ mgr.open /\ mgr.active > 0 /\ pickManager(managerChoices[mgr.active])
    \/ mgr.open /\ MgrStep([mgr EXCEPT !.open = FALSE, !.active = 0])

----------------------------------------------------------------------------
Init ==
    /\ parent = InitialTree
    /\ org \in Orgs
    /\ tree = OfOrg(InitialTree, org) /\ rows = Drawn(tree)
    /\ people = FALSE /\ drag = NoOne /\ over = NoOne
    /\ moves = {} /\ loads = {} /\ saves = {}
    /\ form = "closed" /\ mgr = Manager(NoOne)

Next ==
    \/ OtherAdmin \/ MembersArrive \/ DragEnd \/ OpenCreateDept \/ CloseDialog
    \/ \E m \in moves : ReorderReads(m) \/ ReorderCommits(m) \/ MoveEnds(m)
    \/ \E l \in loads : DeptsArrive(l) \/ LoadFails(l)
    \/ \E s \in saves : ServerSaves(s) \/ SaveEnds(s)
    \/ \E o \in Orgs : OpenFor(o)
    \/ \E d \in Depts : DragStart(d) \/ DragOver(d) \/ OpenEditDept(d) \/ RemoveDept(d)
    \/ \E p \in Depts \cup {Root} : Drop(p) \/ SaveDept(p)
    \/ MgrType \/ RunManagerSearch \/ MgrClick \/ OnManagerKeydown

Spec == Init /\ [][Next]_vars

----------------------------------------------------------------------------
(* Properties                                                              *)

Parents == Depts \cup {Root}

(* The trees, what is under way and the dialog have their types.           *)
TypeOK ==
    /\ parent \in Trees /\ tree \in Trees
    /\ org \in Orgs
    /\ rows \subseteq Depts /\ people \in BOOLEAN
    /\ drag \in Depts \cup {NoOne} /\ over \in Depts \cup {NoOne}
    /\ moves \subseteq [org: Orgs, items: SUBSET Depts, to: Parents,
                        st: {"sent", "checked", "answered"}, writes: SUBSET Depts]
    /\ loads \subseteq [org: Orgs, tree: Trees]
    /\ form \in Depts \cup {"closed", New}
    /\ saves \subseteq [id: Depts \cup {New}, org: Orgs, parent: Parents,
                        manager: Users \cup {NoOne}, st: {"sent", "ok", "failed"}]
    /\ mgr.hidden \in Users \cup {NoOne}

(* A chart that is out of date, or still shows the organisation that was   *)
(* open before, never hangs a department below one of another organisation.*)
ParentInOrg ==
    \A d \in Exists(parent) : parent[d] = Root \/
        (parent[d] \in Exists(parent) /\ OrgOf[parent[d]] = OrgOf[d])

(* The manager a save would send is the one whose name the field shows,    *)
(* whatever was typed, searched, answered late or picked by key.           *)
ManagerShownIsManagerSaved ==
    form # "closed" /\ mgr.hidden # NoOne => mgr.shown = mgr.hidden

(* A drop on a chart that shows every department keeps it so, even when    *)
(* the tree has changed under the drag: a department put below itself      *)
(* would vanish from the page, with all that hangs below it.               *)
DropHidesNothing ==
    [][\A p \in Parents : Drop(p) /\ Forest(tree) => Forest(tree')]_vars

(* reorder_departments: the final result must not make a cycle.            *)
ReorderKeepsForest ==
    [][\A m \in moves : ReorderCommits(m) /\ Forest(parent) => Forest(parent')]_vars
=============================================================================
