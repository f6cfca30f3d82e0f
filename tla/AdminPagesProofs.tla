--------------------------- MODULE AdminPagesProofs ---------------------------
(***************************************************************************)
(* Theorems about the pages of an administrator, for any organisations,    *)
(* rows and number of requests in flight, and for the tab that shows one   *)
(* page at a time.                                                         *)
(*                                                                         *)
(* Where the server checks what it writes at the time it writes it, the    *)
(* rows alone are inductive; what a dialog shows needs all of the page.    *)
(* The types need handlers that know what they asked for: what a dialog is *)
(* filled from.                                                            *)
(***************************************************************************)
EXTENDS AdminPages, WellFoundedInduction, TLAPS

(* The contents: a request may hold anything, the write looks at the row.  *)
IsContent(row) == row = [owner |-> row.owner, targets |-> row.targets, categories |-> row.categories]

ContentsInv ==
    /\ contents = [c \in ContentIds |-> contents[c]]
    /\ \A c \in Existing : IsContent(contents[c])
    /\ AudienceInOrg

LEMMA RowWritten ==
    ASSUME ContentsInv, NEW c \in ContentIds, NEW row, IsContent(row),
           row.targets \cup row.categories \subseteq {row.owner},
           contents' = [contents EXCEPT ![c] = row]
    PROVE  ContentsInv'
<1>1. \A d \in ContentIds : contents'[d] = IF d = c THEN row ELSE contents[d]
  BY DEF ContentsInv
<1>2. contents' = [d \in ContentIds |-> contents'[d]]
  BY DEF ContentsInv
<1>3. \A d \in Existing' : d \in ContentIds /\ (d = c \/ d \in Existing)
  BY <1>1 DEF Existing
<1>. QED
  BY <1>1, <1>2, <1>3 DEF ContentsInv, AudienceInOrg, IsContent

(* _validate_targets of content_service.py, and for the categories: every  *)
(* write keeps the targets and categories of a row in its organisation.    *)
THEOREM ContentsInvariant == ContentSpec => []ContentsInv
<1>1. ContentInit => ContentsInv
  <2>. SUFFICES ASSUME ContentInit PROVE ContentsInv
    OBVIOUS
  <2>1. contents \in FirstRows /\ contents \in [ContentIds -> Row \cup {Nil}]
    BY ContentFormAssumption DEF ContentInit
  <2>2. \A c \in Existing : contents[c] \in Row
    BY <2>1 DEF Existing
  <2>3. \A row \in Row : IsContent(row)
    BY DEF Row, IsContent
  <2>4. AudienceInOrg
    BY <2>1, ContentFormAssumption DEF AudienceInOrg, Existing
  <2>. QED
    BY <2>1, <2>2, <2>3, <2>4 DEF ContentsInv
<1>2. ContentsInv /\ [ContentNext]_contentVars => ContentsInv'
  <2>. SUFFICES ASSUME ContentsInv, [ContentNext]_contentVars PROVE ContentsInv'
    OBVIOUS
  <2>1. CASE UNCHANGED contents
    BY <2>1 DEF ContentsInv, AudienceInOrg, Existing, IsContent
  <2>2. ASSUME NEW w, CreateContent(w) PROVE ContentsInv'
    <3>1. PICK row : row = [owner |-> w.owner, targets |-> {}, categories |-> w.categories]
      OBVIOUS
    <3>2. IsContent(row) /\ row.owner = w.owner /\ row.targets = {} /\ row.categories = w.categories
      BY <3>1 DEF IsContent
    <3>3. CASE /\ CategoriesAllowed(row, w.categories)
               /\ \E c \in ContentIds \ Existing : contents' = [contents EXCEPT ![c] = row]
      BY <3>2, <3>3, RowWritten DEF CategoriesAllowed
    <3>. QED
      BY <2>1, <2>2, <3>1, <3>3 DEF CreateContent
  <2>3. ASSUME NEW w, ReplaceTargets(w) PROVE ContentsInv'
    <3>1. CASE w.id \in Existing /\ TargetsAllowed(contents[w.id], w.targets)
      <4>1. w.id \in ContentIds /\ IsContent(contents[w.id])
        BY <3>1 DEF ContentsInv, Existing
      <4>2. PICK row : row = [contents[w.id] EXCEPT !.targets = w.targets]
        OBVIOUS
      <4>3. /\ IsContent(row) /\ row.owner = contents[w.id].owner /\ row.targets = w.targets
            /\ row.categories = contents[w.id].categories
        BY <4>1, <4>2 DEF IsContent
      <4>4. row.targets \cup row.categories \subseteq {row.owner}
        BY <3>1, <4>3 DEF TargetsAllowed, ContentsInv, AudienceInOrg
      <4>5. contents' = [contents EXCEPT ![w.id] = row]
        BY <2>3, <3>1, <4>1, <4>2 DEF ReplaceTargets, ContentsInv
      <4>. QED
        BY <4>1, <4>3, <4>4, <4>5, RowWritten
    <3>. QED
      BY <2>1, <2>3, <3>1 DEF ReplaceTargets
  <2>4. ASSUME NEW w, ReplaceCategories(w) PROVE ContentsInv'
    <3>1. CASE w.id \in Existing /\ CategoriesAllowed(contents[w.id], w.categories)
      <4>1. w.id \in ContentIds /\ IsContent(contents[w.id])
        BY <3>1 DEF ContentsInv, Existing
      <4>2. PICK row : row = [contents[w.id] EXCEPT !.categories = w.categories]
        OBVIOUS
      <4>3. /\ IsContent(row) /\ row.owner = contents[w.id].owner
            /\ row.categories = w.categories /\ row.targets = contents[w.id].targets
        BY <4>1, <4>2 DEF IsContent
      <4>4. row.targets \cup row.categories \subseteq {row.owner}
        BY <3>1, <4>3 DEF CategoriesAllowed, ContentsInv, AudienceInOrg
      <4>5. contents' = [contents EXCEPT ![w.id] = row]
        BY <2>4, <3>1, <4>1, <4>2 DEF ReplaceCategories, ContentsInv
      <4>. QED
        BY <4>1, <4>3, <4>4, <4>5, RowWritten
    <3>. QED
      BY <2>1, <2>4, <3>1 DEF ReplaceCategories
  <2>5. ASSUME NEW w, NextAnswered(w) \/ SaveAnswered(w) PROVE ContentsInv'
    BY <2>1, <2>5 DEF NextAnswered, SaveAnswered
  <2>6. ASSUME NEW x, \/ ContentArrives(x) \/ OrgsArrive(x) \/ ListsArrive(x)
                      \/ CategoriesArrive(x) \/ UsersArrive(x)
        PROVE  ContentsInv'
    BY <2>1, <2>6 DEF ContentArrives, OrgsArrive, ListsArrive, CategoriesArrive, UsersArrive
  <2>7. ASSUME NEW x, \/ OpenEdit(x) \/ ToggleTarget(x) \/ ToggleCategory(x)
                      \/ OnOrgChange(x) \/ ClickTab(x)
        PROVE  ContentsInv'
    BY <2>1, <2>7 DEF OpenEdit, ToggleTarget, ToggleCategory, OnOrgChange, ClickTab
  <2>8. CASE \/ OpenCreate \/ Close \/ OnPublicToggle \/ SearchUsers \/ PrevTab
             \/ UNCHANGED contentVars
    BY <2>1, <2>8 DEF OpenCreate, Close, OnPublicToggle, SearchUsers, PrevTab, contentVars
  <2>9. CASE NextOfBasic \/ NextOfAccess \/ SaveChanges
    BY <2>1, <2>9 DEF NextOfBasic, NextOfAccess, SaveChanges, Press
  <2>. QED
    BY <2>2, <2>3, <2>4, <2>5, <2>6, <2>7, <2>8, <2>9 DEF ContentNext
<1>. QED
  BY <1>1, <1>2, PTL DEF ContentSpec

----------------------------------------------------------------------------
(* The programs: the boxes follow the choice, unless the departments are   *)
(* being loaded or could not be.                                           *)
Drawing(w) ==
    /\ w.drawn = w.depts
    /\ w.boxes = IF eoDeptIsAll(w) THEN w.depts ELSE w.depts \cap w.sel

IsDialog(w) ==
    w = [visible |-> w.visible, mode |-> w.mode, id |-> w.id, stepsOf |-> w.stepsOf,
         foot |-> w.foot, tab |-> w.tab, unlocked |-> w.unlocked, depts |-> w.depts,
         sel |-> w.sel, drawn |-> w.drawn, boxes |-> w.boxes, reset |-> w.reset,
         tags |-> w.tags, failed |-> w.failed]

(* w shows the departments as v does.                                      *)
SameBoxes(v, w) ==
    /\ IsDialog(w)
    /\ w.depts = v.depts /\ w.sel = v.sel /\ w.drawn = v.drawn /\ w.boxes = v.boxes
    /\ w.failed = v.failed

Loading == \E j \in jobs : j.at = "depts"

IsJob(j) == j = [kind |-> j.kind, at |-> j.at, id |-> j.id, targets |-> j.targets,
                 units |-> j.units]

JobsInv == \A j \in jobs : IsJob(j)

ChoiceInv == IsDialog(prog) /\ (Loading \/ prog.failed = TRUE \/ Drawing(prog)) /\ JobsInv

LEMMA ChoiceShown == ASSUME ChoiceInv PROVE SavedIsShown
BY DEF ChoiceInv, SavedIsShown, Drawing, Loading, Payload, eoDeptIsAll

LEMMA Redraws ==
    ASSUME NEW w, IsDialog(w)
    PROVE  /\ IsDialog(renderDeptOptions(w)) /\ Drawing(renderDeptOptions(w))
           /\ IsDialog(Redrawn(w)) /\ Drawing(Redrawn(w))
<1>1. ASSUME NEW v, IsDialog(v)
      PROVE  IsDialog(renderDeptOptions(v)) /\ Drawing(renderDeptOptions(v))
  <2>1. PICK r : r = renderDeptOptions(v)
    OBVIOUS
  <2>2. PICK reset : r = [v EXCEPT !.drawn = v.depts, !.reset = reset,
                            !.boxes = IF eoDeptIsAll(v) THEN v.depts ELSE v.depts \cap v.sel]
    BY <2>1 DEF renderDeptOptions
  <2>3. /\ IsDialog(r) /\ r.depts = v.depts /\ r.sel = v.sel /\ r.drawn = v.depts
        /\ r.boxes = IF eoDeptIsAll(v) THEN v.depts ELSE v.depts \cap v.sel
    BY <1>1, <2>2 DEF IsDialog
  <2>4. eoDeptIsAll(r) <=> eoDeptIsAll(v)
    BY <2>3 DEF eoDeptIsAll
  <2>. QED
    BY <2>1, <2>3, <2>4 DEF Drawing
<1>2. PICK v : v = renderDeptValues(w)
  OBVIOUS
<1>3. PICK tags : v = [w EXCEPT !.failed = FALSE, !.tags = tags]
  BY <1>2 DEF renderDeptValues
<1>4. IsDialog(v)
  BY <1>3 DEF IsDialog
<1>. QED
  BY <1>1, <1>2, <1>4 DEF Redrawn

LEMMA BlankDraws == IsDialog(NoDialog) /\ Drawing(NoDialog)
BY DEF NoDialog, IsDialog, Drawing, eoDeptIsAll

LEMMA SameDraws ==
    ASSUME NEW v, NEW w, SameBoxes(v, w), v.failed = TRUE \/ Drawing(v)
    PROVE  IsDialog(w) /\ (w.failed = TRUE \/ Drawing(w))
BY DEF SameBoxes, Drawing, eoDeptIsAll

(* Opening, closing and turning the tabs of a dialog.                      *)
LEMMA SameTabs ==
    ASSUME NEW w, IsDialog(w), NEW n, NEW x, NEW y, NEW z
    PROVE  /\ SameBoxes(w, w)
           /\ SameBoxes(w, switchProgramTab(w, n))
           /\ SameBoxes(w, [w EXCEPT !.visible = x])
           /\ SameBoxes(w, [w EXCEPT !.id = x])
           /\ SameBoxes(w, [w EXCEPT !.stepsOf = x])
           /\ SameBoxes(w, [w EXCEPT !.unlocked = x])
           /\ SameBoxes(w, [w EXCEPT !.stepsOf = x, !.unlocked = y])
<1>1. ASSUME NEW v,
             \/ v = [w EXCEPT !.tab = n, !.foot = w.mode]
             \/ v = [w EXCEPT !.visible = x] \/ v = [w EXCEPT !.id = x]
             \/ v = [w EXCEPT !.stepsOf = x] \/ v = [w EXCEPT !.unlocked = x]
             \/ v = [w EXCEPT !.stepsOf = x, !.unlocked = y]
      PROVE  SameBoxes(w, v)
  BY <1>1 DEF SameBoxes, IsDialog
<1>2. SameBoxes(w, w)
  BY DEF SameBoxes
<1>. QED
  BY <1>1, <1>2 DEF switchProgramTab

(* A job in another state, a new one.                                      *)
LEMMA JobsBecome ==
    ASSUME NEW j, IsJob(j), NEW kind, NEW at, NEW x, NEW y
    PROVE  /\ \A k \in {[j EXCEPT !.at = at], [j EXCEPT !.at = at, !.id = x]} : IsJob(k)
           /\ \A k \in {Job(kind, at), [Job(kind, at) EXCEPT !.id = x],
                        [Job(kind, at) EXCEPT !.targets = x],
                        [Job(kind, at) EXCEPT !.id = x, !.targets = y]} : IsJob(k)
           /\ IsJob(AsksDepts([j EXCEPT !.id = x, !.targets = y]))
           /\ AsksDepts([j EXCEPT !.id = x, !.targets = y]).at = "depts"
           /\ IsJob(AsksDepts(Job(kind, at))) /\ AsksDepts(Job(kind, at)).at = "depts"
<1>1. PICK m : m = Job(kind, at)
  OBVIOUS
<1>2. m = [kind |-> kind, at |-> at, id |-> NoProgram, targets |-> {}, units |-> {}]
  BY <1>1 DEF Job
<1>3. ASSUME NEW k,
             \/ k = [j EXCEPT !.at = at] \/ k = [j EXCEPT !.at = at, !.id = x]
             \/ k = m \/ k = [m EXCEPT !.id = x] \/ k = [m EXCEPT !.targets = x]
             \/ k = [m EXCEPT !.id = x, !.targets = y]
      PROVE  IsJob(k)
  BY <1>2, <1>3 DEF IsJob
<1>4. ASSUME NEW i, IsJob(i) PROVE IsJob(AsksDepts(i)) /\ AsksDepts(i).at = "depts"
  <2>1. PICK k : k = AsksDepts(i)
    OBVIOUS
  <2>2. k = [i EXCEPT !.at = "depts", !.units = units]
    BY <2>1 DEF AsksDepts
  <2>3. IsJob(k) /\ k.at = "depts"
    BY <1>4, <2>2 DEF IsJob
  <2>. QED
    BY <2>1, <2>3
<1>5. PICK i : i = [j EXCEPT !.id = x, !.targets = y]
  OBVIOUS
<1>6. IsJob(i) /\ IsJob(m)
  BY <1>2, <1>5 DEF IsJob
<1>. QED
  BY <1>1, <1>3, <1>4, <1>5, <1>6

(* What employee_onboarding_admin.js draws of the departments is what it   *)
(* has ticked, in every order its requests are answered in.                *)
THEOREM ChoiceInvariant == ProgramsSpec => []ChoiceInv
<1>1. ProgramsInit => ChoiceInv
  BY BlankDraws DEF ProgramsInit, ChoiceInv, JobsInv
<1>2. ChoiceInv /\ [ProgramsNext]_programVars => ChoiceInv'
  <2>. SUFFICES ASSUME ChoiceInv, [ProgramsNext]_programVars PROVE ChoiceInv'
    OBVIOUS
  <2>1. IsDialog(prog) /\ JobsInv
    BY DEF ChoiceInv
  <2>2. ASSUME JobsInv', Loading => Loading', NEW w, SameBoxes(prog, w),
               prog' = w \/ prog' = NoDialog
        PROVE  ChoiceInv'
    <3>1. CASE Loading
      BY <2>2, <3>1, BlankDraws DEF ChoiceInv, IsDialog, SameBoxes
    <3>2. CASE ~ Loading
      <4>1. IsDialog(w) /\ (w.failed = TRUE \/ Drawing(w))
        BY <2>2, <3>2, SameDraws DEF ChoiceInv
      <4>2. IsDialog(prog') /\ (prog'.failed = TRUE \/ Drawing(prog'))
        BY <2>2, <4>1, BlankDraws
      <4>. QED
        BY <2>2, <4>2 DEF ChoiceInv, IsDialog, Drawing, eoDeptIsAll
    <3>. QED
      BY <3>1, <3>2
  <2>3. ASSUME NEW w, NEW js, prog' = Settled(w, js), SameBoxes(prog, w), JobsInv',
               Loading => Loading'
        PROVE  ChoiceInv'
    BY <2>2, <2>3 DEF Settled
  <2>4. ASSUME UNCHANGED prog, JobsInv', Loading => Loading' PROVE ChoiceInv'
    BY <2>1, <2>2, <2>4, SameTabs
  <2>5. ASSUME NEW w, IsDialog(w), w.failed = TRUE \/ Drawing(w), prog' = w \/ prog' = NoDialog,
               JobsInv'
        PROVE  ChoiceInv'
    <3>1. IsDialog(prog') /\ (prog'.failed = TRUE \/ Drawing(prog'))
      BY <2>5, BlankDraws
    <3>. QED
      BY <2>5, <3>1 DEF ChoiceInv, IsDialog, Drawing, eoDeptIsAll
  <2>6. ASSUME NEW j \in jobs, j.at # "depts", jobs' = jobs \ {j} PROVE JobsInv' /\ (Loading => Loading')
    BY <2>1, <2>6 DEF JobsInv, IsJob, Loading
  <2>7. ASSUME NEW j \in jobs, j.at # "depts", NEW k, IsJob(k), Moves(j, k)
        PROVE  JobsInv' /\ (Loading => Loading')
    BY <2>1, <2>7 DEF JobsInv, IsJob, Loading, Moves
  <2>8. ASSUME NEW k, IsJob(k), jobs' = jobs \cup {k}
        PROVE  JobsInv' /\ (Loading => Loading') /\ (k.at = "depts" => Loading')
    BY <2>1, <2>8 DEF JobsInv, IsJob, Loading
  <2>9. UNCHANGED jobs => JobsInv' /\ (Loading => Loading')
    BY <2>1 DEF JobsInv, IsJob, Loading
  <2>10. \A j \in jobs : IsJob(j)
    BY <2>1 DEF JobsInv
  <2>11. ASSUME NEW j \in jobs, CreateProgram(j) PROVE ChoiceInv'
    <3>1. PICK k : IsJob(k) /\ Moves(j, k)
      BY <2>10, <2>11, JobsBecome DEF CreateProgram
    <3>. QED
      BY <2>4, <2>7, <2>11, <3>1 DEF CreateProgram
  <2>12. ASSUME NEW j \in jobs, UpdateProgram(j) PROVE ChoiceInv'
    <3>1. PICK k : IsJob(k) /\ Moves(j, k)
      BY <2>10, <2>12, JobsBecome DEF UpdateProgram
    <3>. QED
      BY <2>4, <2>7, <2>12, <3>1 DEF UpdateProgram
  <2>13. ASSUME NEW j \in jobs, StepRequest(j) PROVE ChoiceInv'
    <3>1. PICK at : Moves(j, [j EXCEPT !.at = at, !.id = NoProgram])
      BY <2>13 DEF StepRequest
    <3>2. IsJob([j EXCEPT !.at = at, !.id = NoProgram])
      BY <2>10, JobsBecome
    <3>. QED
      BY <2>4, <2>7, <2>13, <3>1, <3>2 DEF StepRequest
  <2>14. ASSUME NEW u, DeleteUnit(u) PROVE ChoiceInv'
    BY <2>4, <2>9, <2>14 DEF DeleteUnit
  <2>15. CASE openCreateProgram
    <3>1. PICK v : v = [prog EXCEPT !.visible = TRUE, !.mode = "create", !.id = NoProgram,
                              !.stepsOf = NoProgram, !.unlocked = 1, !.tags = {}]
      OBVIOUS
    <3>2. PICK w : w = [v EXCEPT !.sel = {}]
      OBVIOUS
    <3>3. IsDialog(w)
      BY <2>1, <3>1, <3>2 DEF IsDialog
    <3>4. prog' = switchProgramTab(w, 1)
      BY <2>15, <3>1, <3>2 DEF openCreateProgram, Selects
    <3>5. IsDialog(prog')
      BY <3>3, <3>4, SameTabs DEF SameBoxes
    <3>6. jobs' = jobs \cup {AsksDepts(Job("create", "depts"))}
      BY <2>15 DEF openCreateProgram
    <3>7. IsJob(AsksDepts(Job("create", "depts"))) /\ AsksDepts(Job("create", "depts")).at = "depts"
      <4>1. PICK i : i = [kind |-> "create", at |-> "depts", id |-> NoProgram, targets |-> {},
                          units |-> {}]
        OBVIOUS
      <4>2. IsJob(i)
        BY <4>1 DEF IsJob
      <4>. QED
        BY <4>2, JobsBecome
    <3>8. JobsInv' /\ Loading'
      BY <2>8, <3>6, <3>7
    <3>. QED
      BY <3>5, <3>8 DEF ChoiceInv, IsDialog
  <2>16. ASSUME NEW j \in jobs, DetailArrives(j) PROVE ChoiceInv'
    <3>1. PICK v : v = [prog EXCEPT !.mode = "edit", !.id = j.id, !.stepsOf = j.id]
      OBVIOUS
    <3>2. PICK w : w = [v EXCEPT !.sel = j.targets]
      OBVIOUS
    <3>3. IsDialog(w)
      BY <2>1, <3>1, <3>2 DEF IsDialog
    <3>4. prog' = w
      BY <2>16, <3>1, <3>2 DEF DetailArrives, Selects
    <3>5. PICK k : k = AsksDepts([j EXCEPT !.id = NoProgram, !.targets = {}])
      OBVIOUS
    <3>6. IsJob(k) /\ k.at = "depts"
      BY <2>10, <3>5, JobsBecome
    <3>7. Moves(j, k) /\ j.at = "detail"
      BY <2>16, <3>5 DEF DetailArrives
    <3>8. JobsInv' /\ Loading'
      <4>1. JobsInv'
        BY <2>7, <3>6, <3>7
      <4>2. Loading'
        BY <3>6, <3>7 DEF Loading, Moves
      <4>. QED
        BY <4>1, <4>2
    <3>. QED
      BY <3>3, <3>4, <3>8 DEF ChoiceInv, IsDialog
  <2>17. ASSUME NEW j \in jobs, UnitsArrive(j) PROVE ChoiceInv'
    <3>1. JobsInv'
      <4>1. IsJob(Job("edit", "lists"))
        BY <2>10, JobsBecome
      <4>2. \A k \in jobs' : k \in jobs \/ k = Job("edit", "lists")
        BY <2>17 DEF UnitsArrive
      <4>. QED
        BY <2>10, <4>1, <4>2 DEF JobsInv, IsJob
    <3>2. PICK v : v = [prog EXCEPT !.depts = j.units]
      OBVIOUS
    <3>3. IsDialog(v)
      BY <2>1, <3>2 DEF IsDialog
    <3>4. PICK f : f = [prog EXCEPT !.depts = {}, !.failed = TRUE, !.tags = {}]
      OBVIOUS
    <3>5. IsDialog(f) /\ f.failed = TRUE
      BY <2>1, <3>4 DEF IsDialog
    <3>6. \/ prog' = Settled(Redrawn(v), jobs')
          \/ prog' = Settled(f, jobs')
      BY <2>17, <3>2, <3>4 DEF UnitsArrive
    <3>. QED
      BY <2>5, <3>1, <3>3, <3>5, <3>6, Redraws DEF Settled
  <2>18. ASSUME NEW k, IsJob(k), jobs' = jobs \cup {k}, UNCHANGED prog PROVE ChoiceInv'
    BY <2>4, <2>8, <2>18
  <2>19. ASSUME NEW kind, NEW at, NEW x, NEW y
         PROVE  /\ IsJob([Job(kind, at) EXCEPT !.id = x])
                /\ IsJob([Job(kind, at) EXCEPT !.targets = x])
                /\ IsJob([Job(kind, at) EXCEPT !.id = x, !.targets = y])
    <3>1. PICK any : any = [kind |-> kind, at |-> at, id |-> x, targets |-> y, units |-> {}]
      OBVIOUS
    <3>2. IsJob(any)
      BY <3>1 DEF IsJob
    <3>. QED
      BY <3>2, JobsBecome
  <2>20. ASSUME NEW p, openEditProgram(p) PROVE ChoiceInv'
    <3>1. jobs' = jobs \cup {[Job("edit", "detail") EXCEPT !.id = p, !.targets = targets[p]]}
          /\ UNCHANGED prog
      BY <2>20 DEF openEditProgram
    <3>. QED
      BY <2>18, <2>19, <3>1
  <2>21. CASE nextProgramTab \/ saveProgram \/ saveStep \/ removeStep
    <3>1. CASE nextProgramTab
      BY <2>18, <2>19, <3>1 DEF nextProgramTab
    <3>2. CASE saveProgram
      BY <2>18, <2>19, <3>2 DEF saveProgram
    <3>3. CASE saveStep
      BY <2>18, <2>19, <3>3 DEF saveStep
    <3>4. CASE removeStep
      BY <2>18, <2>19, <3>4 DEF removeStep
    <3>. QED
      BY <2>21, <3>1, <3>2, <3>3, <3>4
  <2>22. ASSUME NEW j \in jobs, ListsArriveForEdit(j) PROVE ChoiceInv'
    <3>1. PICK v : v = [prog EXCEPT !.unlocked = 2]
      OBVIOUS
    <3>2. PICK w : w = switchProgramTab(v, 1)
      OBVIOUS
    <3>3. SameBoxes(prog, v)
      BY <2>1, <3>1, SameTabs
    <3>4. SameBoxes(v, w)
      <4>1. IsDialog(v)
        BY <3>3 DEF SameBoxes
      <4>. QED
        BY <3>2, <4>1, SameTabs
    <3>5. SameBoxes(w, [w EXCEPT !.visible = TRUE])
      BY <3>4, SameTabs DEF SameBoxes
    <3>6. SameBoxes(prog, [w EXCEPT !.visible = TRUE])
      BY <3>3, <3>4, <3>5 DEF SameBoxes
    <3>7. prog' = [w EXCEPT !.visible = TRUE] /\ jobs' = jobs \ {j} /\ j.at = "lists"
      BY <2>22, <3>1, <3>2 DEF ListsArriveForEdit
    <3>. QED
      BY <2>2, <2>6, <3>6, <3>7
  <2>23. ASSUME NEW j \in jobs, ProgramCreated(j) PROVE ChoiceInv'
    <3>1. CASE /\ j.at = "ok" /\ prog' = [prog EXCEPT !.id = j.id]
               /\ Moves(j, [j EXCEPT !.at = "lists"])
      BY <2>1, <2>2, <2>7, <2>10, <3>1, SameTabs, JobsBecome
    <3>2. CASE /\ j.at = "lists" /\ jobs' = jobs \ {j}
               /\ prog' = Settled(switchProgramTab([prog EXCEPT !.stepsOf = j.id, !.unlocked = 2],
                                                   2), jobs')
      <4>1. PICK v : v = [prog EXCEPT !.stepsOf = j.id, !.unlocked = 2]
        OBVIOUS
      <4>2. SameBoxes(prog, v)
        BY <2>1, <4>1, SameTabs
      <4>3. SameBoxes(v, switchProgramTab(v, 2))
        <5>1. IsDialog(v)
          BY <4>2 DEF SameBoxes
        <5>. QED
          BY <5>1, SameTabs
      <4>4. SameBoxes(prog, switchProgramTab(v, 2))
        BY <4>2, <4>3 DEF SameBoxes
      <4>. QED
        BY <2>3, <2>6, <3>2, <4>1, <4>4
    <3>3. CASE j.at = "failed" /\ jobs' = jobs \ {j} /\ prog' = Settled(prog, jobs')
      BY <2>1, <2>3, <2>6, <3>3, SameTabs
    <3>. QED
      BY <2>23, <3>1, <3>2, <3>3 DEF ProgramCreated
  <2>24. ASSUME NEW j \in jobs, ProgramSaved(j) PROVE ChoiceInv'
    <3>1. PICK w : w = [prog EXCEPT !.visible = @ /\ j.at = "failed"]
      OBVIOUS
    <3>2. SameBoxes(prog, w)
      BY <2>1, <3>1, SameTabs
    <3>. QED
      BY <2>3, <2>6, <2>24, <3>1, <3>2 DEF ProgramSaved
  <2>25. ASSUME NEW j \in jobs, StepAnswers(j) PROVE ChoiceInv'
    <3>1. CASE j.at = "ok" /\ Moves(j, [j EXCEPT !.at = "steps", !.id = prog.id]) /\ UNCHANGED prog
      BY <2>4, <2>7, <2>10, <3>1, JobsBecome
    <3>2. CASE j.at \in {"ok", "failed"} /\ jobs' = jobs \ {j} /\ prog' = Settled(prog, jobs')
      BY <2>1, <2>3, <2>6, <3>2, SameTabs
    <3>3. CASE /\ j.at = "steps" /\ jobs' = jobs \ {j}
               /\ prog' = Settled([prog EXCEPT !.stepsOf = j.id], jobs')
      BY <2>1, <2>3, <2>6, <3>3, SameTabs
    <3>. QED
      BY <2>25, <3>1, <3>2, <3>3 DEF StepAnswers
  <2>26. CASE closeProgramModal
    <3>1. SameBoxes(prog, [prog EXCEPT !.visible = FALSE])
      BY <2>1, SameTabs
    <3>. QED
      BY <2>3, <2>9, <2>26, <3>1 DEF closeProgramModal
  <2>27. ASSUME NEW p, removeProgram(p) PROVE ChoiceInv'
    BY <2>4, <2>9, <2>27 DEF removeProgram
  <2>28. ASSUME NEW w, Clicks(w), IsDialog(w), Drawing(w) PROVE ChoiceInv'
    BY <2>5, <2>9, <2>28 DEF Clicks
  <2>29. ASSUME NEW ids PROVE IsDialog(Selects(prog, ids))
    <3>1. PICK w : w = [prog EXCEPT !.sel = ids]
      OBVIOUS
    <3>2. IsDialog(w)
      BY <2>1, <3>1 DEF IsDialog
    <3>. QED
      BY <3>1, <3>2 DEF Selects
  <2>30. CASE openDeptDropdown \/ onDeptBulkClick
    BY <2>1, <2>28, <2>29, <2>30, Redraws DEF openDeptDropdown, onDeptBulkClick
  <2>31. ASSUME NEW u, onDeptOptionChange(u) \/ Untag(u) PROVE ChoiceInv'
    BY <2>28, <2>29, <2>31, Redraws DEF onDeptOptionChange, Untag
  <2>32. ASSUME NEW n, ClickProgramTab(n) PROVE ChoiceInv'
    BY <2>1, <2>2, <2>9, <2>32, SameTabs DEF ClickProgramTab, Clicks
  <2>33. CASE openCreateStep \/ openEditStep \/ closeStepForm \/ UNCHANGED programVars
    BY <2>4, <2>9, <2>33 DEF openCreateStep, openEditStep, closeStepForm, programVars
  <2>. QED
    BY <2>11, <2>12, <2>13, <2>14, <2>15, <2>16, <2>17, <2>20, <2>21, <2>22, <2>23, <2>24, <2>25,
       <2>26, <2>27, <2>30, <2>31, <2>32, <2>33 DEF ProgramsNext
<1>. QED
  BY <1>1, <1>2, PTL DEF ProgramsSpec

----------------------------------------------------------------------------
(* The users: types                                                        *)

UserForms == [shown : BOOLEAN, id : UserIds \cup {NoUser}, general : BOOLEAN,
              org : Employer, place : Employer, places : Employer]

Errands == [kind : {"user", "lists", "save", "patch"}, then : {"open", "nothing"},
            id : UserIds \cup {NoUser}, org : Employer \cup {Unsent},
            place : Employer \cup {Unsent}, was : UserRow \cup {NoUser}]

(* Only the request of somebody else may leave a field out.                *)
Complete(waiting) == \A e \in waiting : e.kind # "patch" => e.org \in Employer /\ e.place \in Employer

UsersTyped ==
    /\ users \in [UserIds -> UserRow \cup {NoUser}]
    /\ userForm \in UserForms
    /\ errands \subseteq Errands /\ Complete(errands)

LEMMA FormBecomesTyped ==
    ASSUME NEW form \in UserForms, NEW waiting \in SUBSET Errands, Complete(waiting),
           FormBecomes(form, waiting)
    PROVE  userForm' \in UserForms /\ errands' \subseteq Errands /\ Complete(errands)'
<1>1. PICK blank : blank = [BlankUser EXCEPT !.place = form.place, !.places = form.places]
  OBVIOUS
<1>2. blank \in UserForms
  BY <1>1 DEF BlankUser, UserForms, Employer
<1>3. userForm' \in {blank, form}
  BY <1>1 DEF FormBecomes
<1>. QED
  BY <1>2, <1>3 DEF FormBecomes, Complete

LEMMA ErrandTyped ==
    ASSUME NEW kind \in {"user", "lists", "save", "patch"}, NEW id \in UserIds \cup {NoUser},
           NEW org \in Employer \cup {Unsent}, NEW place \in Employer \cup {Unsent}
    PROVE  /\ Errand(kind, id, org, place) \in Errands
           /\ Errand(kind, id, org, place).kind = kind
           /\ Errand(kind, id, org, place).org = org
           /\ Errand(kind, id, org, place).place = place
BY DEF Errand, Errands

LEMMA PlaceListsTyped ==
    ASSUME NEW id \in UserIds \cup {NoUser}, NEW org \in Employer, NEW place \in Employer,
           NEW then \in {"open", "nothing"}
    PROVE  /\ PlaceLists(id, org, place, then) \in Errands
           /\ PlaceLists(id, org, place, then).org \in Employer
           /\ PlaceLists(id, org, place, then).place \in Employer
<1>1. PICK e : e = Errand("lists", id, org, place)
  OBVIOUS
<1>2. e \in Errands /\ e.org = org /\ e.place = place
  BY <1>1, ErrandTyped
<1>3. PICK d : d = [e EXCEPT !.then = then]
  OBVIOUS
<1>4. d \in Errands /\ d.org = org /\ d.place = place
  BY <1>2, <1>3 DEF Errands
<1>. QED
  BY <1>1, <1>3, <1>4 DEF PlaceLists

(* A row is written with columns that are of an organisation or empty.     *)
LEMMA UpdatesUserTyped ==
    ASSUME UsersTyped, NEW e \in errands, UpdatesUser(e)
    PROVE  users' \in [UserIds -> UserRow \cup {NoUser}]
<1>1. e \in Errands /\ e.id \in UserIds /\ users[e.id] \in UserRow /\ e.was \in UserRow
  BY DEF UsersTyped, UpdatesUser, Present, Errands
<1>2. PICK u \in UserIds : u = e.id
  BY <1>1
<1>3. PICK row : row = users[u]
  OBVIOUS
<1>4. row.org \in Employer /\ row.place \in Employer
  BY <1>1, <1>2, <1>3 DEF UserRow
<1>5. e.org \in Employer \cup {Unsent} /\ e.place \in Employer \cup {Unsent}
  BY <1>1 DEF Errands
<1>6. Column(e.was.org, e.org, row.org) \in Employer
  BY <1>4, <1>5 DEF Column
<1>7. ASSUME NEW sent \in Employer \cup {Unsent}
      PROVE  Column(e.was.place, sent, row.place) \in Employer
  BY <1>4, <1>7 DEF Column
<1>8. NoEmployer \in Employer /\ Employers \subseteq Employer
  BY DEF Employer
<1>9. PlacesWritten(e) \subseteq Employer
  BY <1>2, <1>3, <1>5, <1>7, <1>8 DEF PlacesWritten
<1>10. PICK place \in PlacesWritten(e) :
         users' = [users EXCEPT ![e.id] = [org |-> Column(e.was.org, e.org, @.org),
                                           place |-> place]]
  BY DEF UpdatesUser
<1>11. PICK new : new = [org |-> Column(e.was.org, e.org, row.org), place |-> place]
  OBVIOUS
<1>12. new \in UserRow
  BY <1>6, <1>9, <1>11 DEF UserRow
<1>13. users' = [users EXCEPT ![u] = new]
  BY <1>2, <1>3, <1>10, <1>11
<1>. QED
  BY <1>12, <1>13 DEF UsersTyped

LEMMA UsersTypesStep ==
    ASSUME UsersTyped, [UserFormNext]_userFormVars
    PROVE  UsersTyped'
<1>. USE DEF UsersTyped
<1>1. userForm \in UserForms /\ errands \subseteq Errands /\ Complete(errands)
  OBVIOUS
<1>2. NoEmployer \in Employer /\ Employers \subseteq Employer
  BY DEF Employer
<1>3. ASSUME UNCHANGED users, NEW form \in UserForms, NEW waiting \in SUBSET Errands,
             Complete(waiting), FormBecomes(form, waiting)
      PROVE  UsersTyped'
  BY <1>3, FormBecomesTyped
<1>4. ASSUME NEW u \in UserIds, NEW row \in UserRow \cup {NoUser},
             users' = [users EXCEPT ![u] = row]
      PROVE  users' \in [UserIds -> UserRow \cup {NoUser}]
  BY <1>4
<1>5. \A u \in Present : u \in UserIds /\ users[u].org \in Employer /\ users[u].place \in Employer
  BY DEF Present, UserRow
<1>6. ASSUME NEW d \in Errands, d.org \in Employer, d.place \in Employer
       PROVE  /\ errands \cup {d} \in SUBSET Errands /\ Complete(errands \cup {d})
              /\ \A e \in errands : /\ (errands \ {e}) \cup {d} \in SUBSET Errands
                                    /\ Complete((errands \ {e}) \cup {d})
  BY <1>1, <1>6 DEF Complete
<1>7. \A e \in errands : errands \ {e} \in SUBSET Errands /\ Complete(errands \ {e})
  BY <1>1 DEF Complete
<1>8. ASSUME NEW id \in UserIds \cup {NoUser}, NEW org \in Employer, NEW place \in Employer,
              NEW then \in {"open", "nothing"}, NEW d, d = PlaceLists(id, org, place, then)
       PROVE  /\ errands \cup {d} \in SUBSET Errands /\ Complete(errands \cup {d})
              /\ \A e \in errands : /\ (errands \ {e}) \cup {d} \in SUBSET Errands
                                    /\ Complete((errands \ {e}) \cup {d})
  BY <1>6, <1>8, PlaceListsTyped
<1>9. CASE OpenCreateUser
  <2>1. PICK first \in Employers :
          FormBecomes([userForm EXCEPT !.id = NoUser, !.general = FALSE, !.org = first],
                      errands \cup {PlaceLists(NoUser, first, NoEmployer, "open")})
    BY <1>9 DEF OpenCreateUser
  <2>2. [userForm EXCEPT !.id = NoUser, !.general = FALSE, !.org = first] \in UserForms
    BY <1>1, <1>2 DEF UserForms
  <2>3. PICK d : d = PlaceLists(NoUser, first, NoEmployer, "open")
    OBVIOUS
  <2>4. errands \cup {d} \in SUBSET Errands /\ Complete(errands \cup {d})
    BY <1>2, <1>8, <2>3
  <2>5. UNCHANGED users
    BY <1>9 DEF OpenCreateUser
  <2>. QED
    BY <1>3, <2>1, <2>2, <2>3, <2>4, <2>5
<1>10. ASSUME NEW u \in UserIds, OpenEditUser(u) PROVE UsersTyped'
  <2>1. PICK d : d = Errand("user", u, users[u].org, users[u].place)
    OBVIOUS
  <2>2. users[u].org \in Employer /\ users[u].place \in Employer
    BY <1>5, <1>10 DEF OpenEditUser
  <2>3. d \in Errands /\ d.org \in Employer /\ d.place \in Employer
    BY <2>1, <2>2, ErrandTyped
  <2>4. FormBecomes(userForm, errands \cup {d}) /\ UNCHANGED users
    BY <1>10, <2>1 DEF OpenEditUser
  <2>. QED
    BY <1>1, <1>3, <1>6, <2>3, <2>4
<1>11. ASSUME NEW e \in errands, UserArrives(e) PROVE UsersTyped'
  <2>1. e.id \in UserIds \cup {NoUser} /\ e.org \in Employer /\ e.place \in Employer
    BY <1>1, <1>11 DEF Errands, Complete, UserArrives
  <2>2. CASE FormBecomes([userForm EXCEPT !.id = e.id, !.general = FALSE, !.org = e.org],
                         (errands \ {e}) \cup {PlaceLists(e.id, e.org, e.place, "open")})
    <3>1. [userForm EXCEPT !.id = e.id, !.general = FALSE, !.org = e.org] \in UserForms
      BY <1>1, <2>1 DEF UserForms
    <3>2. PICK d : d = PlaceLists(e.id, e.org, e.place, "open")
      OBVIOUS
    <3>3. (errands \ {e}) \cup {d} \in SUBSET Errands /\ Complete((errands \ {e}) \cup {d})
      BY <1>8, <2>1, <3>2
    <3>. QED
      BY <1>3, <1>11, <2>2, <3>1, <3>2, <3>3 DEF UserArrives
  <2>3. ASSUME NEW first \in Employers,
               FormBecomes(Opened([userForm EXCEPT !.id = e.id, !.general = TRUE, !.org = first]),
                           errands \ {e})
        PROVE  UsersTyped'
    <3>1. PICK f : f = [userForm EXCEPT !.id = e.id, !.general = TRUE, !.org = first]
      OBVIOUS
    <3>2. f \in UserForms
      BY <1>1, <1>2, <2>1, <3>1 DEF UserForms
    <3>3. Opened(f) \in UserForms
      BY <3>2 DEF Opened, UserForms
    <3>. QED
      BY <1>3, <1>11, <1>7, <2>3, <3>1, <3>3 DEF UserArrives
  <2>4. CASE FormBecomes(userForm, errands \ {e})
    BY <1>1, <1>3, <1>11, <1>7, <2>4 DEF UserArrives
  <2>. QED
    BY <1>11, <2>2, <2>3, <2>4 DEF UserArrives
<1>12. ASSUME NEW e \in errands, PlaceListsArrive(e) PROVE UsersTyped'
  <2>1. PICK found \in {e.org, NoEmployer} :
          LET form == [userForm EXCEPT !.places = found,
                         !.place = IF e.place = found THEN found ELSE NoEmployer] IN
          FormBecomes(IF e.then = "open" THEN Opened(form) ELSE form, errands \ {e})
    BY <1>12 DEF PlaceListsArrive
  <2>2. found \in Employer
    BY <1>1, <1>2, <1>12 DEF Errands, Complete, PlaceListsArrive
  <2>3. PICK form : form = [userForm EXCEPT !.places = found,
                              !.place = IF e.place = found THEN found ELSE NoEmployer]
    OBVIOUS
  <2>4. form \in UserForms
    BY <1>1, <1>2, <2>2, <2>3 DEF UserForms
  <2>5. Opened(form) \in UserForms
    BY <2>4 DEF Opened, UserForms
  <2>. QED
    BY <1>3, <1>12, <1>7, <2>1, <2>3, <2>4, <2>5 DEF PlaceListsArrive
<1>13. CASE onGeneralUserToggle
  <2>1. [userForm EXCEPT !.general = FALSE] \in UserForms
    BY <1>1 DEF UserForms
  <2>2. [userForm EXCEPT !.general = TRUE, !.place = NoEmployer] \in UserForms
    BY <1>1, <1>2 DEF UserForms
  <2>3. userForm.org \in Employer
    BY <1>1 DEF UserForms
  <2>4. PICK d : d = PlaceLists(NoUser, userForm.org, NoEmployer, "nothing")
    OBVIOUS
  <2>5. errands \cup {d} \in SUBSET Errands /\ Complete(errands \cup {d})
    BY <1>2, <1>8, <2>3, <2>4
  <2>. QED
    BY <1>1, <1>3, <1>13, <2>1, <2>2, <2>4, <2>5 DEF onGeneralUserToggle
<1>14. ASSUME NEW o \in Employers, ChangeOrg(o) PROVE UsersTyped'
  <2>1. [userForm EXCEPT !.org = o] \in UserForms
    BY <1>1, <1>2 DEF UserForms
  <2>2. PICK d : d = PlaceLists(NoUser, o, NoEmployer, "nothing")
    OBVIOUS
  <2>3. errands \cup {d} \in SUBSET Errands /\ Complete(errands \cup {d})
    BY <1>2, <1>8, <2>2
  <2>. QED
    BY <1>3, <1>14, <2>1, <2>2, <2>3 DEF ChangeOrg
<1>15. CASE ChoosePlace
  <2>1. PICK place \in {userForm.places, NoEmployer} :
          FormBecomes([userForm EXCEPT !.place = place], errands)
    BY <1>15 DEF ChoosePlace
  <2>2. [userForm EXCEPT !.place = place] \in UserForms
    BY <1>1, <1>2 DEF UserForms
  <2>. QED
    BY <1>1, <1>3, <1>15, <2>1, <2>2 DEF ChoosePlace
<1>16. [userForm EXCEPT !.shown = FALSE] \in UserForms
  BY <1>1 DEF UserForms
<1>17. CASE CloseUserForm
  BY <1>1, <1>3, <1>16, <1>17 DEF CloseUserForm
<1>18. CASE SaveUser
  <2>1. PICK id, org, place :
          /\ id = userForm.id
          /\ org = IF userForm.general THEN NoEmployer ELSE userForm.org
          /\ place = IF userForm.general THEN NoEmployer ELSE userForm.place
    OBVIOUS
  <2>2. id \in UserIds \cup {NoUser} /\ org \in Employer /\ place \in Employer
    BY <1>1, <1>2, <2>1 DEF UserForms
  <2>3. PICK d : d = Errand("save", id, org, place)
    OBVIOUS
  <2>4. d \in Errands /\ d.org \in Employer /\ d.place \in Employer
    BY <2>2, <2>3 DEF Errand, Errands
  <2>5. FormBecomes(userForm, errands \cup {d}) /\ UNCHANGED users
    BY <1>18, <2>1, <2>3 DEF SaveUser
  <2>. QED
    BY <1>1, <1>3, <1>6, <2>4, <2>5
<1>19. ASSUME NEW e \in errands, UserSaved(e) PROVE UsersTyped'
  <2>1. CASE (CreatesUser(e) \/ UpdatesUser(e))
             /\ FormBecomes([userForm EXCEPT !.shown = FALSE], errands \ {e})
    <3>1. users' \in [UserIds -> UserRow \cup {NoUser}]
      <4>1. CASE CreatesUser(e)
        <5>1. PICK u \in UserIds : users' = [users EXCEPT ![u] = [org |-> e.org, place |-> e.place]]
          BY <4>1 DEF CreatesUser, FreshIds
        <5>2. [org |-> e.org, place |-> e.place] \in UserRow
          BY <1>1, <1>19 DEF Complete, UserSaved, UserRow
        <5>. QED
          BY <1>4, <5>1, <5>2
      <4>2. CASE UpdatesUser(e)
        BY <4>2, UpdatesUserTyped
      <4>. QED
        BY <2>1, <4>1, <4>2
    <3>2. userForm' \in UserForms /\ errands' \subseteq Errands /\ Complete(errands)'
      BY <1>16, <1>7, <2>1, FormBecomesTyped
    <3>. QED
      BY <3>1, <3>2
  <2>2. CASE FormBecomes(userForm, errands \ {e}) /\ UNCHANGED users
    BY <1>1, <1>3, <1>7, <2>2
  <2>. QED
    BY <1>19, <2>1, <2>2 DEF UserSaved
<1>20. ASSUME NEW u \in UserIds, RemoveUser(u) PROVE UsersTyped'
  BY <1>4, <1>20 DEF RemoveUser
<1>21. ASSUME NEW o \in Employers, ImportUsers(o) PROVE UsersTyped'
  <2>1. PICK u \in UserIds, place \in {o, NoEmployer} :
          users' = [users EXCEPT ![u] = [org |-> o, place |-> place]]
    BY <1>21 DEF ImportUsers, ImportsUser, Present, FreshIds
  <2>2. [org |-> o, place |-> place] \in UserRow
    BY <1>2 DEF UserRow
  <2>3. users' \in [UserIds -> UserRow \cup {NoUser}]
    BY <1>4, <2>1, <2>2
  <2>. QED
    BY <1>21, <2>3 DEF ImportUsers
<1>22. ASSUME NEW e \in errands, ReadsUser(e) PROVE UsersTyped'
  <2>1. users[e.id] \in UserRow /\ e \in Errands
    BY <1>22 DEF ReadsUser, Present
  <2>2. PICK d : d = [e EXCEPT !.was = users[e.id]]
    OBVIOUS
  <2>3. d \in Errands /\ d.kind = e.kind /\ d.org = e.org /\ d.place = e.place
    BY <2>1, <2>2 DEF Errands
  <2>4. errands' = (errands \ {e}) \cup {d} /\ UNCHANGED <<users, userForm>>
    BY <1>22, <2>2 DEF ReadsUser
  <2>. QED
    BY <1>1, <2>3, <2>4 DEF Complete
<1>23. ASSUME NEW u \in UserIds, PatchUser(u) PROVE UsersTyped'
  <2>1. PICK org \in Employer \cup {Unsent}, place \in Employer \cup {Unsent} :
          errands' = errands \cup {Errand("patch", u, org, place)}
    BY <1>23 DEF PatchUser
  <2>2. PICK d : d = Errand("patch", u, org, place)
    OBVIOUS
  <2>3. d \in Errands /\ d.kind = "patch"
    BY <2>2 DEF Errand, Errands
  <2>. QED
    BY <1>1, <1>23, <2>1, <2>2, <2>3 DEF PatchUser, Complete
<1>24. ASSUME NEW e \in errands, UserPatched(e) PROVE UsersTyped'
  <2>1. users' \in [UserIds -> UserRow \cup {NoUser}]
    BY <1>24, UpdatesUserTyped DEF UserPatched
  <2>. QED
    BY <1>7, <1>24, <2>1 DEF UserPatched, Complete
<1>25. CASE UNCHANGED userFormVars
  BY <1>25 DEF userFormVars, Complete
<1>. QED
  BY <1>9, <1>10, <1>11, <1>12, <1>13, <1>14, <1>15, <1>17, <1>18, <1>19, <1>20, <1>21, <1>25,
     <1>22, <1>23, <1>24 DEF UserFormNext

(* The users, their dialog and its handlers keep their types.              *)
THEOREM UserFormTypes == UserFormSpec => []UserFormTypeOK
<1>1. UserFormInit => UsersTyped
  BY DEF UserFormInit, UsersTyped, NoUsers, BlankUser, UserForms, Employer, Complete
<1>2. UsersTyped => UserFormTypeOK
  BY DEF UsersTyped, UserFormTypeOK, UserForms, Errands
<1>. QED
  BY <1>1, <1>2, UsersTypesStep, PTL DEF UserFormSpec

----------------------------------------------------------------------------
(* The grants: types                                                       *)

AccessDialogs == [visible : BOOLEAN, org : Tenants \cup {Unset}, byRole : BOOLEAN,
                  found : SUBSET Members, user : Members \cup {Unset},
                  rows : SUBSET GrantIds]

AdminCalls == [id : 1..MaxAdminCalls, kind : {"table", "search", "add", "remove"},
               st : {"sent", "new", "ok", "failed"}, grant : Grant \cup {Unset},
               rows : SUBSET GrantIds, found : SUBSET Members]

(* A request that adds a grant names one.                                  *)
GrantsTyped ==
    /\ belongs \in [Members -> Tenants \cup {Unset}]
    /\ grants \in [GrantIds -> Grant \cup {Unset}]
    /\ access \in AccessDialogs /\ adminCalls \subseteq AdminCalls
    /\ \A c \in adminCalls : c.kind = "add" => c.grant \in Grant

(* A request that may be sent has a number.                                *)
LEMMA AdminCallTyped ==
    ASSUME AdminFree # {}, NEW kind \in {"table", "search", "add", "remove"}
    PROVE  AdminCall(kind) \in AdminCalls /\ AdminCall(kind).kind = kind
<1>1. PICK S : S = AdminFree
  OBVIOUS
<1>2. S \in SUBSET Nat /\ S \subseteq 1..MaxAdminCalls /\ S # {}
  BY <1>1, TicketGrantsAssumption DEF AdminFree
<1>3. PICK n \in S : \A m \in S : ~ (<<m, n>> \in OpToRel(<, Nat))
  BY <1>2, NatLessThanWellFounded, WFMin
<1>4. \A m \in S : ~ (m < n)
  BY <1>2, <1>3 DEF OpToRel
<1>5. \E i \in S : \A m \in S : i <= m
  BY <1>2, <1>4
<1>6. (CHOOSE i \in AdminFree : \A m \in AdminFree : i <= m) \in 1..MaxAdminCalls
  BY <1>1, <1>2, <1>5
<1>. QED
  BY <1>6 DEF AdminCall, AdminCalls

LEMMA LoadsTyped ==
    ASSUME NEW c \in AdminCalls, NEW org
    PROVE  Loads(c, org) \in AdminCalls /\ Loads(c, org).kind # "add"
<1>1. PICK rows : rows = {g \in Granted : org = Unset \/ grants[g].org = org}
  OBVIOUS
<1>2. rows \subseteq GrantIds
  BY <1>1 DEF Granted
<1>3. PICK d : d = [c EXCEPT !.kind = "table", !.st = "sent", !.grant = Unset, !.rows = rows]
  OBVIOUS
<1>4. d \in AdminCalls /\ d.kind # "add"
  BY <1>2, <1>3 DEF AdminCalls
<1>. QED
  BY <1>1, <1>3, <1>4 DEF Loads

LEMMA GrantsTypesStep ==
    ASSUME GrantsTyped, [GrantsNext]_grantVars
    PROVE  GrantsTyped'
<1>. USE DEF GrantsTyped
<1>1. \A c \in adminCalls : c \in AdminCalls
  OBVIOUS
<1>2. /\ \A S \in SUBSET Members : [access EXCEPT !.found = S] \in AccessDialogs
      /\ \A m \in Members : [access EXCEPT !.user = m] \in AccessDialogs
      /\ [access EXCEPT !.found = {}, !.user = Unset] \in AccessDialogs
      /\ \A org \in Tenants \cup {Unset} :
           [access EXCEPT !.org = org, !.found = {}, !.user = Unset] \in AccessDialogs
  BY DEF AccessDialogs
<1>3. /\ access.org \in Tenants \cup {Unset} /\ access.user \in Members \cup {Unset}
      /\ access.found \in SUBSET Members /\ access.byRole \in BOOLEAN
  BY DEF AccessDialogs
<1>4. ASSUME UNCHANGED <<belongs, grants>>, access' \in AccessDialogs, NEW d \in AdminCalls,
             d.kind = "add" => d.grant \in Grant,
             \A c \in adminCalls' : c \in adminCalls \/ c = d
      PROVE  GrantsTyped'
  BY <1>4
<1>5. ASSUME UNCHANGED <<belongs, grants>>, access' \in AccessDialogs, adminCalls' \subseteq adminCalls
      PROVE  GrantsTyped'
  BY <1>5
<1>6. ASSUME NEW c \in adminCalls, NEW st \in {"sent", "new", "ok", "failed"}
      PROVE  /\ [c EXCEPT !.st = st] \in AdminCalls
             /\ [c EXCEPT !.st = st].kind = "add" => [c EXCEPT !.st = st].grant \in Grant
  <2>1. PICK d : d = [c EXCEPT !.st = st]
    OBVIOUS
  <2>2. d \in AdminCalls /\ d.kind = c.kind /\ d.grant = c.grant
    BY <2>1 DEF AdminCalls
  <2>. QED
    BY <2>1, <2>2
<1>7. ASSUME NEW c \in adminCalls, CheckGrant(c) PROVE GrantsTyped'
  <2>1. PICK st \in {"new", "ok", "failed"} : Becoming(c, [c EXCEPT !.st = st])
    BY <1>7 DEF CheckGrant
  <2>2. UNCHANGED <<belongs, grants, access>>
    BY <1>7 DEF CheckGrant
  <2>3. PICK d : d = [c EXCEPT !.st = st]
    OBVIOUS
  <2>4. d \in AdminCalls /\ (d.kind = "add" => d.grant \in Grant)
    BY <1>6, <2>3
  <2>. QED
    BY <1>4, <2>1, <2>2, <2>3, <2>4 DEF Becoming
<1>8. ASSUME NEW c \in adminCalls, InsertGrant(c) PROVE GrantsTyped'
  <2>1. c.grant \in Grant
    BY <1>8 DEF InsertGrant
  <2>2. grants' \in [GrantIds -> Grant \cup {Unset}]
    BY <1>8, <2>1 DEF InsertGrant
  <2>3. PICK d : d = [c EXCEPT !.st = "ok"]
    OBVIOUS
  <2>4. d \in AdminCalls /\ (d.kind = "add" => d.grant \in Grant)
    BY <1>6, <2>3
  <2>. QED
    BY <1>8, <2>2, <2>3, <2>4 DEF InsertGrant, Becoming
<1>9. ASSUME NEW c \in adminCalls, AdminAnswered(c) PROVE GrantsTyped'
  <2>1. access' \in AccessDialogs
    <3>1. [access EXCEPT !.rows = c.rows] \in AccessDialogs /\ c.found \in SUBSET Members
      BY <1>1 DEF AccessDialogs, AdminCalls
    <3>. QED
      BY <1>2, <1>9, <3>1 DEF AdminAnswered
  <2>2. PICK d : d = Loads(c, access.org)
    OBVIOUS
  <2>3. d \in AdminCalls /\ d.kind # "add"
    BY <1>1, <2>2, LoadsTyped
  <2>4. UNCHANGED <<belongs, grants>> /\ (adminCalls' = adminCalls \ {c} \/ Becoming(c, d))
    BY <1>9, <2>2 DEF AdminAnswered
  <2>. QED
    BY <1>4, <1>5, <2>1, <2>3, <2>4 DEF Becoming
<1>10. ASSUME UNCHANGED <<belongs, grants>>, access' \in AccessDialogs, NEW org, Asks(Loads(AdminCall("table"), org))
       PROVE  GrantsTyped'
  <2>1. PICK c : c = AdminCall("table")
    OBVIOUS
  <2>2. c \in AdminCalls
    BY <1>10, <2>1, AdminCallTyped DEF Asks
  <2>3. Loads(c, org) \in AdminCalls /\ Loads(c, org).kind # "add"
    BY <2>2, LoadsTyped
  <2>. QED
    BY <1>4, <1>10, <2>1, <2>3 DEF Asks
<1>11. CASE openAccessGrants
  <2>1. access' \in AccessDialogs
    BY <1>11 DEF openAccessGrants, AccessDialogs
  <2>. QED
    BY <1>10, <1>11, <2>1 DEF openAccessGrants
<1>12. ASSUME NEW org \in Tenants \cup {Unset}, onGrantOrgChange(org) PROVE GrantsTyped'
  BY <1>2, <1>10, <1>12 DEF onGrantOrgChange
<1>13. CASE onGrantTypeChange
  <2>1. access' \in AccessDialogs
    BY <1>13 DEF onGrantTypeChange, AccessDialogs
  <2>. QED
    BY <1>5, <1>13, <2>1 DEF onGrantTypeChange
<1>14. CASE runGrantUserSearch
  <2>1. PICK c : c = AdminCall("search")
    OBVIOUS
  <2>2. c \in AdminCalls /\ c.kind = "search"
    BY <1>14, <2>1, AdminCallTyped DEF runGrantUserSearch, Asks
  <2>3. PICK d : d = [c EXCEPT !.found = {m \in Members : belongs[m] = access.org}]
    OBVIOUS
  <2>4. d \in AdminCalls /\ d.kind # "add"
    BY <1>3, <2>2, <2>3 DEF AdminCalls
  <2>. QED
    BY <1>2, <1>4, <1>14, <2>1, <2>3, <2>4 DEF runGrantUserSearch, Asks
<1>15. ASSUME NEW m \in Members, selectGrantUser(m) PROVE GrantsTyped'
  BY <1>2, <1>5, <1>15 DEF selectGrantUser
<1>16. CASE addGrant
  <2>1. PICK grant : grant = [org |-> access.org, to |-> IF access.byRole THEN AnyRole ELSE access.user]
    OBVIOUS
  <2>2. grant \in Grant
    BY <1>3, <1>16, <2>1 DEF addGrant, Grant
  <2>3. PICK c : c = AdminCall("add")
    OBVIOUS
  <2>4. c \in AdminCalls /\ c.kind = "add"
    BY <1>16, <2>3, AdminCallTyped DEF addGrant, Asks
  <2>5. PICK d : d = [c EXCEPT !.grant = grant]
    OBVIOUS
  <2>6. d \in AdminCalls /\ d.grant = grant
    BY <2>2, <2>4, <2>5 DEF AdminCalls
  <2>. QED
    BY <1>4, <1>16, <2>1, <2>2, <2>3, <2>5, <2>6 DEF addGrant, Asks
<1>17. ASSUME NEW g \in GrantIds, removeGrant(g) PROVE GrantsTyped'
  <2>1. CASE UNCHANGED <<grants, adminCalls>>
    BY <1>5, <1>17, <2>1 DEF removeGrant
  <2>2. CASE grants' = [grants EXCEPT ![g] = Unset]
             /\ Asks([AdminCall("remove") EXCEPT !.st = "ok"])
    <3>1. PICK c : c = AdminCall("remove")
      OBVIOUS
    <3>2. c \in AdminCalls /\ c.kind = "remove"
      BY <2>2, <3>1, AdminCallTyped DEF Asks
    <3>3. PICK d : d = [c EXCEPT !.st = "ok"]
      OBVIOUS
    <3>4. d \in AdminCalls /\ d.kind # "add"
      BY <3>2, <3>3 DEF AdminCalls
    <3>5. grants' \in [GrantIds -> Grant \cup {Unset}] /\ UNCHANGED <<belongs, access>>
      BY <1>17, <2>2 DEF removeGrant
    <3>. QED
      BY <2>2, <3>1, <3>3, <3>4, <3>5 DEF Asks
  <2>. QED
    BY <1>17, <2>1, <2>2 DEF removeGrant
<1>18. CASE closeAccessGrants
  <2>1. access' \in AccessDialogs
    BY <1>18 DEF closeAccessGrants, AccessDialogs
  <2>. QED
    BY <1>5, <1>18, <2>1 DEF closeAccessGrants
<1>19. ASSUME NEW m \in Members, NEW org \in Tenants \cup {Unset}, MoveMember(m, org)
       PROVE  GrantsTyped'
  BY <1>19 DEF MoveMember
<1>20. CASE UNCHANGED grantVars
  BY <1>20 DEF grantVars
<1>. QED
  BY <1>7, <1>8, <1>9, <1>11, <1>12, <1>13, <1>14, <1>15, <1>16, <1>17, <1>18, <1>19,
     <1>20 DEF GrantsNext

(* The grants, their dialog and its requests keep their types.             *)
THEOREM GrantsTypes == GrantsSpec => []GrantsTypeOK
<1>1. GrantsInit => GrantsTyped
  BY DEF GrantsInit, GrantsTyped, ClosedAccess, AccessDialogs
<1>2. GrantsTyped => GrantsTypeOK
  BY DEF GrantsTyped, GrantsTypeOK, AccessDialogs, AdminCalls
<1>. QED
  BY <1>1, <1>2, GrantsTypesStep, PTL DEF GrantsSpec

----------------------------------------------------------------------------
(* The contents: types                                                     *)

Modes == {"none", "create", "edit"}
Chosen == Firms \cup {Nil}

Wizards == [visible : BOOLEAN, mode : Modes, id : ContentIds \cup {Nil}, foot : Modes,
            tab : Tabs3, unlocked : Tabs3, reach : Tabs3, org : Chosen, public : BOOLEAN,
            fixed : BOOLEAN, section : BOOLEAN, searchOrg : Chosen, targets : SUBSET Firms,
            categories : SUBSET Firms, boxes : Chosen, found : Chosen, offered : Chosen]

FormWaits == [at : {"content", "orgs", "lists", "categories", "users"},
              then : {"create", "edit", "categories", "nothing"},
              owner : Owners, id : ContentIds \cup {Nil}, row : Row \cup {Nil}]

(* The row a handler fills the form from is the one it asked for, and it   *)
(* asks for lists only of an organisation.                                 *)
WaitFits(t) ==
    /\ t.then = "edit" => t.row \in Row /\ t.row.owner = t.owner
    /\ t.at \in {"lists", "users"} => t.owner \in Firms
    /\ t.at = "content" => t.then = "edit"
    /\ t.at = "orgs" => t.then \in {"create", "edit"}

Sent == [button : {"next", "save"}, kind : {"create", "update"},
         st : {"sent", "targets", "ok", "failed"}, id : ContentIds \cup {Nil},
         owner : Owners \cup {Nil}, targets : SUBSET Firms, categories : SUBSET Firms]

ContentTyped ==
    /\ contents \in [ContentIds -> Row \cup {Nil}] /\ wizard \in Wizards
    /\ tasks \subseteq FormWaits /\ writes \subseteq Sent /\ orgsLoaded \in BOOLEAN
    /\ \A t \in tasks : WaitFits(t)
    /\ \A w \in writes : w.kind = "create" => w.owner \in Owners

LEMMA BlankTyped == Blank \in Wizards
BY DEF Blank, Wizards, Modes, Chosen, Tabs3

LEMMA UntickedTyped == ASSUME NEW w \in Wizards PROVE Unticked(w) \in Wizards
BY DEF Unticked, Wizards, Chosen

(* One field of the form at a time.                                        *)
LEMMA FieldsTyped ==
    ASSUME NEW w \in Wizards
    PROVE  /\ \A v \in BOOLEAN : [w EXCEPT !.visible = v] \in Wizards
           /\ \A v \in Modes : [w EXCEPT !.mode = v] \in Wizards
           /\ \A v \in ContentIds \cup {Nil} : [w EXCEPT !.id = v] \in Wizards
           /\ \A v \in Modes : [w EXCEPT !.foot = v] \in Wizards
           /\ \A v \in Tabs3 : [w EXCEPT !.tab = v] \in Wizards
           /\ \A v \in Tabs3 : [w EXCEPT !.unlocked = v] \in Wizards
           /\ \A v \in Tabs3 : [w EXCEPT !.reach = v] \in Wizards
           /\ \A v \in Chosen : [w EXCEPT !.org = v] \in Wizards
           /\ \A v \in BOOLEAN : [w EXCEPT !.public = v] \in Wizards
           /\ \A v \in BOOLEAN : [w EXCEPT !.fixed = v] \in Wizards
           /\ \A v \in BOOLEAN : [w EXCEPT !.section = v] \in Wizards
           /\ \A v \in Chosen : [w EXCEPT !.searchOrg = v] \in Wizards
           /\ \A v \in SUBSET Firms : [w EXCEPT !.targets = v] \in Wizards
           /\ \A v \in SUBSET Firms : [w EXCEPT !.categories = v] \in Wizards
           /\ \A v \in Chosen : [w EXCEPT !.boxes = v] \in Wizards
           /\ \A v \in Chosen : [w EXCEPT !.found = v] \in Wizards
           /\ \A v \in Chosen : [w EXCEPT !.offered = v] \in Wizards
BY DEF Wizards

LEMMA FormConstants ==
    /\ Nil \in Chosen /\ Nil \in ContentIds \cup {Nil}
    /\ 1 \in Tabs3 /\ 2 \in Tabs3 /\ 3 \in Tabs3
    /\ "none" \in Modes /\ "create" \in Modes /\ "edit" \in Modes
    /\ TRUE \in BOOLEAN /\ FALSE \in BOOLEAN
BY DEF Chosen, Tabs3, Modes

LEMMA ClosedTyped ==
    ASSUME NEW w \in Wizards
    PROVE  [w EXCEPT !.tab = 1, !.foot = "none", !.unlocked = 1, !.reach = 1,
                     !.offered = Nil] \in Wizards
<1>1. PICK a \in Wizards : a = [w EXCEPT !.tab = 1]
  BY FieldsTyped, FormConstants
<1>2. PICK b \in Wizards : b = [a EXCEPT !.foot = "none"]
  BY FieldsTyped, FormConstants
<1>3. PICK c \in Wizards : c = [b EXCEPT !.unlocked = 1]
  BY FieldsTyped, FormConstants
<1>4. PICK d \in Wizards : d = [c EXCEPT !.reach = 1]
  BY FieldsTyped, FormConstants
<1>5. PICK e \in Wizards : e = [d EXCEPT !.offered = Nil]
  BY FieldsTyped, FormConstants
<1>6. e = [w EXCEPT !.tab = 1, !.foot = "none", !.unlocked = 1, !.reach = 1,
                   !.offered = Nil]
  BY <1>1, <1>2, <1>3, <1>4, <1>5
<1>. QED
  BY <1>6

LEMMA SwitchTyped ==
    ASSUME NEW w \in Wizards, NEW n \in Tabs3
    PROVE  SwitchTab(w, n) \in Wizards
BY DEF SwitchTab, Wizards

LEMMA UnlockTyped ==
    ASSUME NEW w \in Wizards, NEW n \in Tabs3
    PROVE  setTabsUnlocked(w, n) \in Wizards
<1>1. PICK m \in Tabs3 : m = IF w.mode = "create" THEN n ELSE 3
  BY FormConstants
<1>2. PICK a \in Wizards : a = [w EXCEPT !.unlocked = n]
  BY FieldsTyped, FormConstants
<1>3. PICK b \in Wizards : b = [a EXCEPT !.reach = m]
  BY FieldsTyped, FormConstants
<1>4. setTabsUnlocked(w, n) = b
  BY <1>1, <1>2, <1>3 DEF setTabsUnlocked
<1>. QED
  BY <1>4

LEMMA FilledTyped ==
    ASSUME NEW w \in Wizards, NEW t \in FormWaits, WaitFits(t), t.then \in {"create", "edit"}
    PROVE  Filled(w, t) \in Wizards
<1>1. CASE t.then = "create"
  <2>1. PICK a \in Wizards : a = [w EXCEPT !.org = Nil]
    BY FieldsTyped, FormConstants
  <2>2. PICK b \in Wizards : b = [a EXCEPT !.searchOrg = Nil]
    BY FieldsTyped, FormConstants
  <2>3. PICK c \in Wizards : c = [b EXCEPT !.boxes = Nil]
    BY FieldsTyped, FormConstants
  <2>4. Filled(w, t) = c
    BY <1>1, <2>1, <2>2, <2>3 DEF Filled
  <2>. QED
    BY <2>4
<1>2. CASE t.then = "edit"
  <2>1. /\ t.row.targets \in SUBSET Firms /\ t.row.categories \in SUBSET Firms
        /\ t.owner = Public \/ t.owner \in Chosen
    BY <1>2 DEF WaitFits, Row, FormWaits, Owners, Chosen
  <2>2. PICK S \in SUBSET Firms : S = w.targets \cup t.row.targets
    BY <2>1 DEF Wizards
  <2>3. PICK a \in Wizards : a = [w EXCEPT !.targets = S]
    BY FieldsTyped
  <2>4. CASE t.owner = Public
    <3>1. PICK b \in Wizards : b = [a EXCEPT !.categories = t.row.categories]
      BY <2>1, FieldsTyped
    <3>2. Filled(w, t) = b
      BY <1>2, <2>2, <2>3, <2>4, <3>1 DEF Filled
    <3>. QED
      BY <3>2
  <2>5. CASE t.owner # Public
    <3>1. PICK b \in Wizards : b = [a EXCEPT !.org = t.owner]
      BY <2>1, <2>5, FieldsTyped
    <3>2. PICK c \in Wizards : c = [b EXCEPT !.fixed = TRUE]
      BY FieldsTyped, FormConstants
    <3>3. Filled(w, t) = c
      BY <1>2, <2>2, <2>3, <2>5, <3>1, <3>2 DEF Filled
    <3>. QED
      BY <3>3
  <2>. QED
    BY <2>4, <2>5
<1>. QED
  BY <1>1, <1>2

LEMMA CreatedTyped ==
    ASSUME wizard \in Wizards, NEW w \in Sent
    PROVE  Created(w) \in Wizards
<1>1. w.id \in ContentIds \cup {Nil} /\ (w.owner # Public) \in BOOLEAN
  BY DEF Sent
<1>2. PICK a \in Wizards : a = [wizard EXCEPT !.id = w.id]
  BY <1>1, FieldsTyped
<1>3. PICK b \in Wizards : b = [a EXCEPT !.fixed = TRUE]
  BY FieldsTyped, FormConstants
<1>4. PICK v \in BOOLEAN : v = (w.owner # Public)
  BY <1>1
<1>5. PICK c \in Wizards : c = [b EXCEPT !.section = v]
  BY FieldsTyped
<1>6. c = [wizard EXCEPT !.id = w.id, !.fixed = TRUE, !.section = w.owner # Public]
  BY <1>2, <1>3, <1>4, <1>5
<1>7. SwitchTab(setTabsUnlocked(c, 2), 2) \in Wizards
  BY UnlockTyped, SwitchTyped, FormConstants
<1>. QED
  BY <1>6, <1>7 DEF Created

LEMMA WaitTyped ==
    ASSUME NEW at \in {"content", "orgs", "lists", "categories", "users"},
           NEW then \in {"create", "edit", "categories", "nothing"}, NEW owner \in Owners
    PROVE  /\ Task(at, then, owner) \in FormWaits
           /\ Task(at, then, owner).at = at /\ Task(at, then, owner).then = then
           /\ Task(at, then, owner).owner = owner
BY DEF Task, FormWaits

LEMMA ContentTypesStep ==
    ASSUME ContentTyped, [ContentNext]_contentVars
    PROVE  ContentTyped'
<1>1. /\ contents \in [ContentIds -> Row \cup {Nil}] /\ wizard \in Wizards
      /\ tasks \subseteq FormWaits /\ writes \subseteq Sent /\ orgsLoaded \in BOOLEAN
      /\ \A t \in tasks : WaitFits(t)
      /\ \A w \in writes : w.kind = "create" => w.owner \in Owners
  BY DEF ContentTyped
<1>2. \A t \in tasks : /\ t \in FormWaits /\ WaitFits(t) /\ t.owner \in Owners
                       /\ t.id \in ContentIds \cup {Nil}
                       /\ t.then \in {"create", "edit", "categories", "nothing"}
                       /\ t.then = "edit" => t.row \in Row /\ t.row.categories \in SUBSET Firms
  BY <1>1 DEF FormWaits, WaitFits, Row
<1>3. \A w \in writes : /\ w \in Sent /\ w.targets \in SUBSET Firms /\ w.categories \in SUBSET Firms
                        /\ w.kind = "create" => w.owner \in Owners
  BY <1>1 DEF Sent
<1>4. \A c \in Existing : contents[c] \in Row /\ contents[c].owner \in Owners
  BY <1>1 DEF Existing, Row
<1>5. /\ wizard.org \in Chosen /\ wizard.searchOrg \in Chosen /\ wizard.id \in ContentIds \cup {Nil}
      /\ wizard.boxes \in Chosen /\ wizard.found \in Chosen /\ wizard.offered \in Chosen
      /\ wizard.targets \in SUBSET Firms /\ wizard.categories \in SUBSET Firms
      /\ wizard.tab \in Tabs3
  BY <1>1 DEF Wizards
(* What the steps of the page have in common.                              *)
<1>6. ASSUME NEW w \in Wizards, SetForm(w) PROVE wizard' \in Wizards
  BY <1>6, BlankTyped, ClosedTyped DEF SetForm
<1>7. ASSUME wizard' \in Wizards, orgsLoaded' \in BOOLEAN, tasks' \subseteq tasks,
             writes' \subseteq writes, UNCHANGED contents
      PROVE  ContentTyped'
  BY <1>1, <1>7 DEF ContentTyped
<1>8. ASSUME NEW l \in FormWaits, WaitFits(l), wizard' \in Wizards, orgsLoaded' \in BOOLEAN,
             \A t \in tasks' : t \in tasks \/ t = l, UNCHANGED <<contents, writes>>
      PROVE  ContentTyped'
  BY <1>1, <1>8 DEF ContentTyped
<1>9. ASSUME NEW t \in FormWaits, WaitFits(t), NEW w \in Wizards,
             NEW at \in {"content", "orgs", "lists", "categories", "users"},
             at \in {"lists", "users"} => t.owner \in Firms,
             at = "content" => t.then = "edit",
             at = "orgs" => t.then \in {"create", "edit"},
             Continue(w, t, at), orgsLoaded' \in BOOLEAN, UNCHANGED <<contents, writes>>
      PROVE  ContentTyped'
  <2>1. PICK l : l = [t EXCEPT !.at = at]
    OBVIOUS
  <2>2. /\ l \in FormWaits /\ l.at = at /\ l.then = t.then /\ l.owner = t.owner /\ l.row = t.row
    BY <2>1 DEF FormWaits
  <2>3. WaitFits(l)
    BY <1>9, <2>2 DEF WaitFits
  <2>4. wizard' = w /\ \A m \in tasks' : m \in tasks \/ m = l
    BY <1>9, <2>1 DEF Continue
  <2>. QED
    BY <1>8, <1>9, <2>2, <2>3, <2>4
<1>10. ASSUME NEW t \in FormWaits, WaitFits(t), t.then \in {"create", "edit"}, NEW w \in Wizards,
              FillForm(w, t), orgsLoaded' \in BOOLEAN, UNCHANGED <<contents, writes>>
       PROVE  ContentTyped'
  <2>1. PICK v \in Wizards : v = Filled(w, t)
    BY <1>10, FilledTyped
  <2>2. PICK at \in {"categories", "lists"} : at = IF t.owner = Public THEN "categories" ELSE "lists"
    OBVIOUS
  <2>3. Continue(v, t, at)
    BY <1>10, <2>1, <2>2 DEF FillForm
  <2>4. at = "lists" => t.owner \in Firms
    BY <2>2 DEF FormWaits, Owners
  <2>. QED
    BY <1>9, <1>10, <2>3, <2>4
<1>11. ASSUME NEW t \in FormWaits, WaitFits(t), t.then \in {"create", "edit"}, NEW w \in Wizards,
              AwaitOrgs(w, t), UNCHANGED <<contents, writes, orgsLoaded>>
       PROVE  ContentTyped'
  <2>1. CASE FillForm(w, t)
    BY <1>1, <1>10, <1>11, <2>1
  <2>2. CASE Continue(w, t, "orgs")
    BY <1>1, <1>9, <1>11, <2>2
  <2>. QED
    BY <1>11, <2>1, <2>2 DEF AwaitOrgs
<1>12. ASSUME NEW at \in {"lists", "categories", "users"}, NEW then \in {"categories", "nothing"},
              NEW owner \in Owners, at # "categories" => owner \in Firms,
              NEW l, l = Task(at, then, owner)
       PROVE  l \in FormWaits /\ WaitFits(l)
  <2>1. l \in FormWaits /\ l.at = at /\ l.then = then /\ l.owner = owner
    BY <1>12, WaitTyped
  <2>. QED
    BY <1>12, <2>1 DEF WaitFits
<1>13. Public \in Owners /\ Firms \subseteq Owners /\ Firms \subseteq Chosen
  BY DEF Owners, Chosen
<1>14. ASSUME NEW a \in Sent, a.kind = "create" => a.owner \in Owners,
              contents' \in [ContentIds -> Row \cup {Nil}], UNCHANGED <<wizard, tasks, orgsLoaded>>,
              \A w \in writes' : w \in writes \/ w = a
       PROVE  ContentTyped'
  BY <1>1, <1>14 DEF ContentTyped
<1>15. ASSUME NEW w \in writes, NEW st \in {"sent", "targets", "ok", "failed"},
              NEW S \in SUBSET Firms, Becomes(w, st, S),
              contents' \in [ContentIds -> Row \cup {Nil}], UNCHANGED <<wizard, tasks, orgsLoaded>>
       PROVE  ContentTyped'
  <2>1. PICK a : a = [w EXCEPT !.st = st, !.targets = {}, !.categories = S]
    OBVIOUS
  <2>2. a \in Sent /\ a.kind = w.kind /\ a.owner = w.owner
    BY <1>3, <2>1 DEF Sent
  <2>3. \A v \in writes' : v \in writes \/ v = a
    BY <1>15, <2>1 DEF Becomes
  <2>. QED
    BY <1>3, <1>14, <1>15, <2>2, <2>3
<1>16. ASSUME NEW w \in writes, CreateContent(w) PROVE ContentTyped'
  <2>1. CASE Fails(w) /\ UNCHANGED contents
    <3>1. Becomes(w, "failed", {}) /\ UNCHANGED <<wizard, tasks, orgsLoaded>>
      BY <1>16, <2>1 DEF Fails, CreateContent
    <3>2. contents' \in [ContentIds -> Row \cup {Nil}]
      BY <1>1, <2>1
    <3>. QED
      BY <1>15, <3>1, <3>2
  <2>2. ASSUME NEW c \in ContentIds \ Existing,
               contents' = [contents EXCEPT ![c] = [owner |-> w.owner, targets |-> {},
                                                    categories |-> w.categories]],
               writes' = (writes \ {w}) \cup {[w EXCEPT !.st = "ok", !.id = c, !.categories = {}]}
        PROVE  ContentTyped'
    <3>1. PICK row : row = [owner |-> w.owner, targets |-> {}, categories |-> w.categories]
      OBVIOUS
    <3>2. row \in Row
      BY <1>3, <1>16, <3>1 DEF CreateContent, Row
    <3>3. contents' \in [ContentIds -> Row \cup {Nil}]
      BY <1>1, <2>2, <3>1, <3>2
    <3>4. PICK a : a = [w EXCEPT !.st = "ok", !.id = c, !.categories = {}]
      OBVIOUS
    <3>5. a \in Sent /\ a.kind = w.kind /\ a.owner = w.owner
      BY <1>3, <3>4 DEF Sent
    <3>. QED
      BY <1>3, <1>14, <1>16, <2>2, <3>3, <3>4, <3>5 DEF CreateContent
  <2>. QED
    BY <1>16, <2>1, <2>2 DEF CreateContent
<1>17. ASSUME NEW w \in writes, ReplaceTargets(w) PROVE ContentTyped'
  <2>1. CASE Fails(w) /\ UNCHANGED contents
    <3>1. Becomes(w, "failed", {}) /\ UNCHANGED <<wizard, tasks, orgsLoaded>>
      BY <1>17, <2>1 DEF Fails, ReplaceTargets
    <3>2. contents' \in [ContentIds -> Row \cup {Nil}]
      BY <1>1, <2>1
    <3>. QED
      BY <1>15, <3>1, <3>2
  <2>2. CASE w.id \in Existing /\ Becomes(w, "targets", w.categories)
             /\ contents' = [contents EXCEPT ![w.id].targets = w.targets]
    <3>1. PICK row : row = [contents[w.id] EXCEPT !.targets = w.targets]
      OBVIOUS
    <3>2. row \in Row
      BY <1>3, <1>4, <2>2, <3>1 DEF Row
    <3>3. contents' = [contents EXCEPT ![w.id] = row]
      BY <2>2, <3>1
    <3>4. contents' \in [ContentIds -> Row \cup {Nil}]
      BY <1>1, <3>2, <3>3
    <3>. QED
      BY <1>3, <1>15, <1>17, <2>2, <3>4 DEF ReplaceTargets
  <2>. QED
    BY <1>17, <2>1, <2>2 DEF ReplaceTargets
<1>18. ASSUME NEW w \in writes, ReplaceCategories(w) PROVE ContentTyped'
  <2>1. CASE Fails(w) /\ UNCHANGED contents
    <3>1. Becomes(w, "failed", {}) /\ UNCHANGED <<wizard, tasks, orgsLoaded>>
      BY <1>18, <2>1 DEF Fails, ReplaceCategories
    <3>2. contents' \in [ContentIds -> Row \cup {Nil}]
      BY <1>1, <2>1
    <3>. QED
      BY <1>15, <3>1, <3>2
  <2>2. CASE w.id \in Existing /\ Becomes(w, "ok", {})
             /\ contents' = [contents EXCEPT ![w.id].categories = w.categories]
    <3>1. PICK row : row = [contents[w.id] EXCEPT !.categories = w.categories]
      OBVIOUS
    <3>2. row \in Row
      BY <1>3, <1>4, <2>2, <3>1 DEF Row
    <3>3. contents' = [contents EXCEPT ![w.id] = row]
      BY <2>2, <3>1
    <3>4. contents' \in [ContentIds -> Row \cup {Nil}]
      BY <1>1, <3>2, <3>3
    <3>. QED
      BY <1>15, <1>18, <2>2, <3>4 DEF ReplaceCategories
  <2>. QED
    BY <1>18, <2>1, <2>2 DEF ReplaceCategories
<1>19. ASSUME NEW w \in writes, NextAnswered(w) PROVE ContentTyped'
  <2>1. SwitchTab(setTabsUnlocked(wizard, 3), 3) \in Wizards /\ Created(w) \in Wizards
    BY <1>1, <1>3, UnlockTyped, SwitchTyped, CreatedTyped, FormConstants
  <2>2. PICK v \in Wizards : SetForm(v)
    BY <1>1, <1>19, <2>1 DEF NextAnswered
  <2>. QED
    BY <1>1, <1>6, <1>7, <1>19, <2>2 DEF NextAnswered
<1>20. ASSUME NEW w \in writes, SaveAnswered(w) PROVE ContentTyped'
  BY <1>1, <1>6, <1>7, <1>20 DEF SaveAnswered
<1>21. ASSUME NEW t \in tasks, ContentArrives(t) PROVE ContentTyped'
  <2>1. CASE EndTask(wizard, t)
    BY <1>1, <1>6, <1>7, <1>21, <2>1 DEF EndTask, ContentArrives
  <2>2. CASE AwaitOrgs([Unticked(wizard) EXCEPT !.mode = "edit", !.id = t.id,
                          !.section = t.owner # Public,
                          !.searchOrg = IF t.owner = Public THEN Nil ELSE t.owner], t)
    <3>1. PICK w \in Wizards : w = Unticked(wizard)
      BY <1>1, UntickedTyped
    <3>2. PICK b \in BOOLEAN : b = (t.owner # Public)
      OBVIOUS
    <3>3. PICK o \in Chosen : o = IF t.owner = Public THEN Nil ELSE t.owner
      BY <1>2 DEF Owners, Chosen
    <3>4. PICK c \in Wizards : c = [w EXCEPT !.mode = "edit"]
      BY FieldsTyped, FormConstants
    <3>5. PICK d \in Wizards : d = [c EXCEPT !.id = t.id]
      BY <1>2, FieldsTyped
    <3>6. PICK e \in Wizards : e = [d EXCEPT !.section = b]
      BY FieldsTyped
    <3>7. PICK f \in Wizards : f = [e EXCEPT !.searchOrg = o]
      BY FieldsTyped
    <3>8. AwaitOrgs(f, t)
      <4>1. f = [w EXCEPT !.mode = "edit", !.id = t.id, !.section = b, !.searchOrg = o]
        BY <3>4, <3>5, <3>6, <3>7
      <4>. QED
        BY <2>2, <3>1, <3>2, <3>3, <4>1
    <3>9. t.then \in {"create", "edit"}
      BY <1>2, <1>21 DEF ContentArrives, WaitFits
    <3>. QED
      BY <1>2, <1>11, <1>21, <3>8, <3>9 DEF ContentArrives
  <2>. QED
    BY <1>21, <2>1, <2>2 DEF ContentArrives
<1>22. ASSUME NEW t \in tasks, OrgsArrive(t) PROVE ContentTyped'
  <2>1. t.then \in {"create", "edit"}
    BY <1>2, <1>22 DEF OrgsArrive, WaitFits
  <2>. QED
    BY <1>1, <1>2, <1>10, <1>22, <2>1 DEF OrgsArrive
<1>23. ASSUME NEW t \in tasks, ListsArrive(t) PROVE ContentTyped'
  <2>1. t.owner \in Firms
    BY <1>2, <1>23 DEF ListsArrive, WaitFits
  <2>2. PICK found \in {t.owner, Nil} :
          LET w == [wizard EXCEPT !.boxes = found] IN
          IF t.then = "nothing" THEN EndTask(w, t)
          ELSE Continue(IF t.then = "edit" THEN [w EXCEPT !.categories = t.row.categories] ELSE w,
                        t, "categories")
    BY <1>23 DEF ListsArrive
  <2>3. PICK v \in Wizards : v = [wizard EXCEPT !.boxes = found]
    BY <1>1, <1>13, <2>1, FieldsTyped, FormConstants
  <2>4. CASE t.then = "nothing"
    <3>1. EndTask(v, t)
      BY <2>2, <2>3, <2>4
    <3>. QED
      BY <1>1, <1>6, <1>7, <1>23, <3>1 DEF EndTask, ListsArrive
  <2>5. CASE t.then # "nothing"
    <3>1. PICK u \in Wizards : u = IF t.then = "edit" THEN [v EXCEPT !.categories = t.row.categories] ELSE v
      BY <1>2, FieldsTyped
    <3>2. Continue(u, t, "categories")
      BY <2>2, <2>3, <2>5, <3>1
    <3>. QED
      BY <1>1, <1>2, <1>9, <1>23, <3>2 DEF ListsArrive
  <2>. QED
    BY <2>4, <2>5
<1>24. ASSUME NEW t \in tasks, CategoriesArrive(t) PROVE ContentTyped'
  <2>1. PICK found \in {t.owner, Nil} \ {Public} :
          LET w == [wizard EXCEPT !.offered = found] IN
          EndTask(CASE t.then = "create" ->
                         [SwitchTab(setTabsUnlocked(w, 1), 1) EXCEPT !.visible = TRUE]
                    [] t.then = "edit" ->
                         [SwitchTab(setTabsUnlocked(w, 3), 1) EXCEPT !.visible = TRUE]
                    [] OTHER -> w, t)
    BY <1>24 DEF CategoriesArrive
  <2>2. found \in Chosen
    BY <1>2 DEF Owners, Chosen
  <2>3. PICK w \in Wizards : w = [wizard EXCEPT !.offered = found]
    BY <1>1, <2>2, FieldsTyped
  <2>4. PICK a \in Wizards : a = SwitchTab(setTabsUnlocked(w, 1), 1)
    BY UnlockTyped, SwitchTyped, FormConstants
  <2>5. PICK b \in Wizards : b = SwitchTab(setTabsUnlocked(w, 3), 1)
    BY UnlockTyped, SwitchTyped, FormConstants
  <2>6. PICK c \in Wizards : c = [a EXCEPT !.visible = TRUE]
    BY FieldsTyped, FormConstants
  <2>7. PICK d \in Wizards : d = [b EXCEPT !.visible = TRUE]
    BY FieldsTyped, FormConstants
  <2>8. EndTask(CASE t.then = "create" -> c [] t.then = "edit" -> d [] OTHER -> w, t)
    BY <2>1, <2>3, <2>4, <2>5, <2>6, <2>7
  <2>9. PICK v \in Wizards : EndTask(v, t)
    BY <2>8
  <2>. QED
    BY <1>1, <1>6, <1>7, <1>24, <2>9 DEF EndTask, CategoriesArrive
<1>25. ASSUME NEW t \in tasks, UsersArrive(t) PROVE ContentTyped'
  <2>1. t.owner \in Chosen
    BY <1>2, <1>13, <1>25 DEF UsersArrive, WaitFits
  <2>2. PICK w \in Wizards : w = [wizard EXCEPT !.found = t.owner]
    BY <1>1, <2>1, FieldsTyped
  <2>3. EndTask(w, t)
    BY <1>25, <2>2 DEF UsersArrive
  <2>. QED
    BY <1>1, <1>6, <1>7, <1>25, <2>3 DEF EndTask, UsersArrive
<1>26. ASSUME NEW c \in ContentIds, OpenEdit(c) PROVE ContentTyped'
  <2>1. PICK k : k = Task("content", "edit", contents[c].owner)
    OBVIOUS
  <2>2. PICK l : l = [k EXCEPT !.id = c, !.row = contents[c]]
    OBVIOUS
  <2>3. k \in FormWaits /\ k.at = "content" /\ k.then = "edit" /\ k.owner = contents[c].owner
    BY <1>4, <1>26, <2>1, WaitTyped DEF OpenEdit
  <2>4. /\ l \in FormWaits /\ l.at = "content" /\ l.then = "edit" /\ l.row = contents[c]
        /\ l.owner = contents[c].owner
    BY <1>4, <1>26, <2>2, <2>3 DEF OpenEdit, FormWaits
  <2>5. WaitFits(l)
    BY <1>4, <1>26, <2>4 DEF OpenEdit, WaitFits
  <2>. QED
    BY <1>1, <1>8, <1>26, <2>1, <2>2, <2>4, <2>5 DEF OpenEdit
<1>27. CASE OpenCreate
  <2>1. PICK w \in Wizards : w = Unticked(wizard)
    BY <1>1, UntickedTyped
  <2>2. PICK a \in Wizards : a = [w EXCEPT !.mode = "create"]
    BY FieldsTyped, FormConstants
  <2>3. PICK b \in Wizards : b = [a EXCEPT !.id = Nil]
    BY FieldsTyped, FormConstants
  <2>4. PICK c \in Wizards : c = [b EXCEPT !.section = TRUE]
    BY FieldsTyped, FormConstants
  <2>5. PICK d \in Wizards : d = [c EXCEPT !.public = FALSE]
    BY FieldsTyped, FormConstants
  <2>6. PICK e \in Wizards : e = [d EXCEPT !.fixed = FALSE]
    BY FieldsTyped, FormConstants
  <2>7. PICK l : l = Task("orgs", "create", Public)
    OBVIOUS
  <2>8. l \in FormWaits /\ l.at = "orgs" /\ l.then = "create"
    BY <1>13, <2>7, WaitTyped
  <2>9. WaitFits(l)
    BY <2>8 DEF WaitFits
  <2>10. AwaitOrgs(e, l)
    <3>1. e = [w EXCEPT !.mode = "create", !.id = Nil, !.section = TRUE, !.public = FALSE,
                        !.fixed = FALSE]
      BY <2>2, <2>3, <2>4, <2>5, <2>6
    <3>. QED
      BY <1>27, <2>1, <2>7, <3>1 DEF OpenCreate
  <2>. QED
    BY <1>11, <1>27, <2>8, <2>9, <2>10 DEF OpenCreate
<1>28. CASE Close
  <2>1. PICK w \in Wizards : w = [wizard EXCEPT !.visible = FALSE]
    BY <1>1, FieldsTyped, FormConstants
  <2>2. SetForm(w)
    BY <1>28, <2>1 DEF Close
  <2>. QED
    BY <1>1, <1>6, <1>7, <1>28, <2>2 DEF Close
<1>29. ASSUME NEW o \in Firms \cup {Nil}, OnOrgChange(o) PROVE ContentTyped'
  <2>1. PICK w \in Wizards : w = Unticked(wizard)
    BY <1>1, UntickedTyped
  <2>2. PICK a \in Wizards : a = [w EXCEPT !.org = o]
    BY FieldsTyped DEF Chosen
  <2>3. PICK b \in Wizards : b = [a EXCEPT !.searchOrg = o]
    BY FieldsTyped DEF Chosen
  <2>4. PICK c \in Wizards : c = [b EXCEPT !.boxes = Nil]
    BY FieldsTyped, FormConstants
  <2>5. wizard' = IF o = Nil THEN c ELSE b
    <3>1. b = [w EXCEPT !.org = o, !.searchOrg = o]
      BY <2>2, <2>3
    <3>. QED
      BY <1>29, <2>1, <2>4, <3>1 DEF OnOrgChange
  <2>6. PICK l : l = IF o = Nil THEN Task("categories", "nothing", Public)
                     ELSE Task("lists", "categories", o)
    OBVIOUS
  <2>7. l \in FormWaits /\ WaitFits(l)
    BY <1>12, <1>13, <2>6
  <2>. QED
    BY <1>1, <1>8, <1>29, <2>5, <2>6, <2>7 DEF OnOrgChange
<1>30. CASE OnPublicToggle
  <2>1. CASE ~ wizard.public
    <3>1. PICK w \in Wizards : w = Unticked(wizard)
      BY <1>1, UntickedTyped
    <3>2. PICK a \in Wizards : a = [w EXCEPT !.public = TRUE]
      BY FieldsTyped, FormConstants
    <3>3. PICK b \in Wizards : b = [a EXCEPT !.searchOrg = Nil]
      BY FieldsTyped, FormConstants
    <3>4. wizard' = b
      <4>1. b = [w EXCEPT !.public = TRUE, !.searchOrg = Nil]
        BY <3>2, <3>3
      <4>. QED
        BY <1>30, <2>1, <3>1, <4>1 DEF OnPublicToggle
    <3>5. PICK l : l = Task("categories", "nothing", Public)
      OBVIOUS
    <3>6. l \in FormWaits /\ WaitFits(l)
      BY <1>12, <1>13, <3>5
    <3>. QED
      BY <1>1, <1>8, <1>30, <2>1, <3>4, <3>5, <3>6 DEF OnPublicToggle
  <2>2. CASE wizard.public /\ wizard.org # Nil
    <3>1. PICK a \in Wizards : a = [wizard EXCEPT !.public = FALSE]
      BY <1>1, FieldsTyped, FormConstants
    <3>2. wizard.org \in Firms
      BY <1>5, <2>2 DEF Chosen
    <3>3. PICK l : l = Task("lists", "nothing", wizard.org)
      OBVIOUS
    <3>4. PICK m : m = Task("categories", "nothing", wizard.org)
      OBVIOUS
    <3>5. l \in FormWaits /\ WaitFits(l)
      BY <1>12, <1>13, <3>2, <3>3
    <3>6. m \in FormWaits /\ WaitFits(m)
      BY <1>12, <1>13, <3>2, <3>4
    <3>7. \A t \in tasks' : t \in tasks \/ t = l \/ t = m
      BY <1>30, <2>2, <3>3, <3>4 DEF OnPublicToggle
    <3>. QED
      BY <1>1, <1>30, <2>2, <3>1, <3>5, <3>6, <3>7 DEF OnPublicToggle, ContentTyped
  <2>3. CASE wizard.public /\ wizard.org = Nil
    <3>1. PICK a \in Wizards : a = [wizard EXCEPT !.public = FALSE]
      BY <1>1, FieldsTyped, FormConstants
    <3>2. PICK b \in Wizards : b = [a EXCEPT !.boxes = Nil]
      BY FieldsTyped, FormConstants
    <3>3. wizard' = b
      <4>1. b = [wizard EXCEPT !.public = FALSE, !.boxes = Nil]
        BY <3>1, <3>2
      <4>. QED
        BY <1>30, <2>3, <4>1 DEF OnPublicToggle
    <3>4. PICK l : l = Task("categories", "nothing", Public)
      OBVIOUS
    <3>5. l \in FormWaits /\ WaitFits(l)
      BY <1>12, <1>13, <3>4
    <3>. QED
      BY <1>1, <1>8, <1>30, <2>3, <3>3, <3>4, <3>5 DEF OnPublicToggle
  <2>. QED
    BY <2>1, <2>2, <2>3
<1>31. CASE SearchUsers
  <2>1. wizard.searchOrg \in Firms
    BY <1>5, <1>31 DEF SearchUsers, Chosen
  <2>2. PICK l : l = Task("users", "nothing", wizard.searchOrg)
    OBVIOUS
  <2>3. l \in FormWaits /\ WaitFits(l)
    BY <1>12, <1>13, <2>1, <2>2
  <2>. QED
    BY <1>1, <1>8, <1>31, <2>2, <2>3 DEF SearchUsers
<1>32. ASSUME NEW o \in Firms, ToggleTarget(o) PROVE ContentTyped'
  <2>1. PICK S \in SUBSET Firms : S = Toggle(wizard.targets, o)
    BY <1>5 DEF Toggle
  <2>2. PICK w \in Wizards : w = [wizard EXCEPT !.targets = S]
    BY <1>1, FieldsTyped
  <2>3. wizard' = w
    BY <1>32, <2>1, <2>2 DEF ToggleTarget
  <2>. QED
    BY <1>1, <1>7, <1>32, <2>3 DEF ToggleTarget
<1>33. ASSUME NEW o \in Firms, ToggleCategory(o) PROVE ContentTyped'
  <2>1. PICK S \in SUBSET Firms : S = Toggle(wizard.categories, o)
    BY <1>5 DEF Toggle
  <2>2. PICK w \in Wizards : w = [wizard EXCEPT !.categories = S]
    BY <1>1, FieldsTyped
  <2>3. wizard' = w
    BY <1>33, <2>1, <2>2 DEF ToggleCategory
  <2>. QED
    BY <1>1, <1>7, <1>33, <2>3 DEF ToggleCategory
<1>34. ASSUME NEW n \in Tabs3, ClickTab(n) PROVE ContentTyped'
  BY <1>1, <1>7, <1>34, SwitchTyped DEF ClickTab
<1>35. CASE PrevTab
  <2>1. wizard.tab - 1 \in Tabs3
    BY <1>5, <1>35 DEF PrevTab, Tabs3
  <2>. QED
    BY <1>1, <1>7, <1>35, <2>1, SwitchTyped DEF PrevTab
<1>36. ASSUME NEW button \in {"next", "save"}, NEW kind \in {"create", "update"},
              NEW owner \in Owners \cup {Nil}, kind = "create" => owner \in Owners,
              Press(button, kind, owner)
       PROVE  ContentTyped'
  <2>1. PICK S \in SUBSET Firms : S = IF kind = "create" THEN {} ELSE wizard.targets
    BY <1>5
  <2>2. PICK a : a = [button |-> button, kind |-> kind, st |-> "sent", id |-> wizard.id,
                      owner |-> owner, targets |-> S, categories |-> wizard.categories]
    OBVIOUS
  <2>3. a \in Sent /\ a.kind = kind /\ a.owner = owner
    BY <1>5, <2>2 DEF Sent
  <2>4. writes' = writes \cup {a}
    BY <1>36, <2>1, <2>2 DEF Press
  <2>. QED
    BY <1>1, <1>14, <1>36, <2>3, <2>4 DEF Press
<1>37. CASE NextOfBasic
  <2>1. PICK owner \in Owners : owner = IF wizard.public THEN Public ELSE wizard.org
    BY <1>5, <1>13, <1>37 DEF NextOfBasic, Chosen
  <2>. QED
    BY <1>36, <1>37, <2>1 DEF NextOfBasic
<1>38. CASE NextOfAccess
  BY <1>36, <1>38 DEF NextOfAccess
<1>39. CASE SaveChanges
  BY <1>36, <1>39 DEF SaveChanges
<1>40. CASE UNCHANGED contentVars
  BY <1>1, <1>7, <1>40 DEF contentVars
<1>. QED
  BY <1>16, <1>17, <1>18, <1>19, <1>20, <1>21, <1>22, <1>23, <1>24, <1>25, <1>26, <1>27, <1>28,
     <1>29, <1>30, <1>31, <1>32, <1>33, <1>34, <1>35, <1>37, <1>38, <1>39, <1>40 DEF ContentNext

(* The rows of the contents, the form and what is under way keep their     *)
(* types, also when the answers the form waits for cross.                  *)
THEOREM ContentTypes == ContentSpec => []ContentTypeOK
<1>1. ContentInit => ContentTyped
  BY BlankTyped, ContentFormAssumption DEF ContentInit, ContentTyped
<1>2. ContentTyped => ContentTypeOK
  BY DEF ContentTyped, ContentTypeOK, Wizards, Modes, Chosen, FormWaits, WaitFits, Sent
<1>. QED
  BY <1>1, <1>2, ContentTypesStep, PTL DEF ContentSpec

----------------------------------------------------------------------------
(* The programs: types                                                     *)

Dialogs == [visible : BOOLEAN, mode : {"none", "create", "edit"},
            id : ProgramIds \cup {NoProgram}, stepsOf : ProgramIds \cup {NoProgram},
            foot : {"none", "create", "edit"}, tab : 1..2, unlocked : 1..2,
            depts : SUBSET Units, sel : SUBSET Units, drawn : SUBSET Units,
            boxes : SUBSET Units, reset : BOOLEAN, tags : SUBSET Units, failed : BOOLEAN]

JobKinds == {"create", "edit", "next", "save", "step", "unstep"}
JobStates == {"detail", "depts", "lists", "steps", "sent", "ok", "failed"}

Jobs == [kind : JobKinds, at : JobStates, id : ProgramIds \cup {NoProgram},
         targets : SUBSET Units, units : SUBSET Units]

StepForms == [open : BOOLEAN, of : ProgramIds \cup {NoProgram}]

LEMMA NoDialogTyped == NoDialog \in Dialogs /\ NoForm \in StepForms
BY DEF NoDialog, Dialogs, NoForm, StepForms

(* A dialog that is opened, and one that is given another program.         *)
LEMMA OpenedTyped ==
    ASSUME NEW w \in Dialogs
    PROVE  [w EXCEPT !.visible = TRUE, !.mode = "create", !.id = NoProgram, !.stepsOf = NoProgram,
                     !.unlocked = 1, !.tags = {}] \in Dialogs
<1>1. PICK a : a = [w EXCEPT !.visible = TRUE, !.mode = "create"]
  OBVIOUS
<1>2. PICK b : b = [a EXCEPT !.id = NoProgram, !.stepsOf = NoProgram]
  OBVIOUS
<1>3. PICK c : c = [b EXCEPT !.unlocked = 1]
  OBVIOUS
<1>4. a \in Dialogs
  BY <1>1 DEF Dialogs
<1>5. b \in Dialogs
  BY <1>2, <1>4 DEF Dialogs
<1>6. c \in Dialogs
  BY <1>3, <1>5 DEF Dialogs
<1>7. [c EXCEPT !.tags = {}] \in Dialogs
  BY <1>6 DEF Dialogs
<1>8. [c EXCEPT !.tags = {}]
        = [w EXCEPT !.visible = TRUE, !.mode = "create", !.id = NoProgram, !.stepsOf = NoProgram,
                    !.unlocked = 1, !.tags = {}]
  BY <1>1, <1>2, <1>3
<1>. QED
  BY <1>7, <1>8

LEMMA GivenTyped ==
    ASSUME NEW w \in Dialogs, NEW id \in ProgramIds \cup {NoProgram}
    PROVE  [w EXCEPT !.stepsOf = id, !.unlocked = 2] \in Dialogs
<1>1. PICK a : a = [w EXCEPT !.stepsOf = id]
  OBVIOUS
<1>2. a \in Dialogs
  BY <1>1 DEF Dialogs
<1>3. [a EXCEPT !.unlocked = 2] \in Dialogs
  BY <1>2 DEF Dialogs
<1>. QED
  BY <1>1, <1>3

LEMMA SettledTyped ==
    ASSUME NEW w \in Dialogs, NEW js
    PROVE  Settled(w, js) \in Dialogs
BY NoDialogTyped DEF Settled

LEMMA TabTyped ==
    ASSUME NEW w \in Dialogs, NEW n \in 1..2
    PROVE  switchProgramTab(w, n) \in Dialogs
BY DEF switchProgramTab, Dialogs

LEMMA SelectsTyped ==
    ASSUME NEW w \in Dialogs, NEW ids \in SUBSET Units
    PROVE  Selects(w, ids) \in Dialogs
BY DEF Selects, Dialogs

LEMMA OptionsTyped ==
    ASSUME NEW w \in Dialogs
    PROVE  renderDeptOptions(w) \in Dialogs
<1>1. PICK reset \in BOOLEAN : reset = (w.depts # {} /\ ~ eoDeptIsAll(w))
  OBVIOUS
<1>2. PICK boxes : boxes = IF eoDeptIsAll(w) THEN w.depts ELSE w.depts \cap w.sel
  OBVIOUS
<1>3. boxes \in SUBSET Units
  BY <1>2 DEF Dialogs
<1>4. [w EXCEPT !.drawn = w.depts, !.reset = reset, !.boxes = boxes] \in Dialogs
  BY <1>3 DEF Dialogs
<1>. QED
  BY <1>1, <1>2, <1>4 DEF renderDeptOptions

LEMMA RedrawnTyped ==
    ASSUME NEW w \in Dialogs
    PROVE  Redrawn(w) \in Dialogs
<1>1. PICK tags : tags = IF eoDeptIsAll(w) \/ Cardinality(w.depts \ w.sel) <= Summarised
                         THEN {} ELSE w.sel
  OBVIOUS
<1>2. tags \in SUBSET Units
  BY <1>1 DEF Dialogs
<1>3. PICK v : v = [w EXCEPT !.failed = FALSE, !.tags = tags]
  OBVIOUS
<1>4. v \in Dialogs
  BY <1>2, <1>3 DEF Dialogs
<1>5. Redrawn(w) = renderDeptOptions(v)
  BY <1>1, <1>3 DEF Redrawn, renderDeptValues
<1>. QED
  BY <1>4, <1>5, OptionsTyped

LEMMA PayloadTyped ==
    ASSUME NEW w \in Dialogs
    PROVE  Payload(w) \in SUBSET Units
BY DEF Payload, Dialogs

LEMMA JobTyped ==
    ASSUME NEW kind \in JobKinds, NEW at \in JobStates
    PROVE  Job(kind, at) \in Jobs
BY DEF Job, Jobs

LEMMA AsksDeptsTyped ==
    ASSUME NEW j \in Jobs, units \subseteq Units
    PROVE  AsksDepts(j) \in Jobs
BY DEF AsksDepts, Jobs, JobStates

LEMMA ProgramTypesStep ==
    ASSUME ProgramsTypeOK, [ProgramsNext]_programVars
    PROVE  ProgramsTypeOK'
<1>1. /\ units \subseteq Units /\ saved \subseteq ProgramIds
      /\ targets \in [ProgramIds -> SUBSET Units]
      /\ prog \in Dialogs /\ stepForm \in StepForms
      /\ jobs \subseteq Jobs
  BY DEF ProgramsTypeOK, Dialogs, StepForms, Jobs, JobKinds, JobStates
<1>. DEFINE RowsOK == /\ units' \subseteq Units /\ saved' \subseteq ProgramIds
                      /\ targets' \in [ProgramIds -> SUBSET Units]
            PageOK == /\ prog' \in Dialogs
                      /\ stepForm' \in StepForms
            JobsOK == jobs' \subseteq Jobs
<1>2. SUFFICES RowsOK /\ PageOK /\ JobsOK
  BY DEF ProgramsTypeOK, Dialogs, StepForms, Jobs, JobKinds, JobStates
<1>3. /\ UNCHANGED <<units, saved, targets>> => RowsOK
      /\ UNCHANGED <<prog, stepForm>> => PageOK
      /\ UNCHANGED jobs => JobsOK
      /\ \A j : jobs' = jobs \ {j} => JobsOK
      /\ \A j : \A k \in Jobs : Moves(j, k) => JobsOK
      /\ \A k \in Jobs : jobs' = jobs \cup {k} => JobsOK
  BY <1>1 DEF Moves
<1>4. /\ prog.id \in ProgramIds \cup {NoProgram} /\ prog.stepsOf \in ProgramIds \cup {NoProgram}
      /\ prog.sel \in SUBSET Units /\ prog.depts \in SUBSET Units /\ prog.drawn \in SUBSET Units
      /\ prog.tags \in SUBSET Units
  BY <1>1 DEF Dialogs
<1>5. \A j \in jobs : /\ j \in Jobs /\ j.kind \in JobKinds /\ j.at \in JobStates
                      /\ j.id \in ProgramIds \cup {NoProgram}
                      /\ j.targets \in SUBSET Units /\ j.units \in SUBSET Units
  BY <1>1 DEF Jobs
<1>6. \A j \in Jobs, id \in ProgramIds \cup {NoProgram}, ts \in SUBSET Units, at \in JobStates :
        /\ [j EXCEPT !.id = id] \in Jobs /\ [j EXCEPT !.targets = ts] \in Jobs
        /\ [j EXCEPT !.id = id, !.targets = ts] \in Jobs
        /\ [j EXCEPT !.at = at] \in Jobs /\ [j EXCEPT !.at = at, !.id = id] \in Jobs
  BY DEF Jobs
<1>7. \A kind \in JobKinds, at \in JobStates : Job(kind, at) \in Jobs
  BY JobTyped
<1>8. /\ NoProgram \in ProgramIds \cup {NoProgram} /\ {} \in SUBSET Units
      /\ {"create", "edit", "next", "save", "step"} \subseteq JobKinds
      /\ {"detail", "depts", "lists", "steps", "sent", "ok", "failed"} \subseteq JobStates
  BY DEF JobKinds, JobStates
<1>9. /\ \A x \in BOOLEAN : [prog EXCEPT !.visible = x] \in Dialogs
      /\ \A id \in ProgramIds \cup {NoProgram} : [prog EXCEPT !.id = id] \in Dialogs
      /\ \A id \in ProgramIds \cup {NoProgram} : [prog EXCEPT !.stepsOf = id] \in Dialogs
  BY <1>1 DEF Dialogs
<1>. HIDE DEF RowsOK, PageOK, JobsOK
<1>10. ASSUME NEW j \in jobs, CreateProgram(j) PROVE RowsOK /\ PageOK /\ JobsOK
  <2>1. CASE UNCHANGED <<saved, targets>> /\ Moves(j, Job("next", "failed"))
    BY <1>3, <1>7, <1>8, <1>10, <2>1 DEF CreateProgram
  <2>2. ASSUME NEW p \in ProgramIds, saved' = saved \cup {p},
               targets' = [targets EXCEPT ![p] = j.targets],
               Moves(j, [Job("next", "ok") EXCEPT !.id = p])
        PROVE  RowsOK /\ PageOK /\ JobsOK
    <3>1. PICK k : k = Job("next", "ok")
      OBVIOUS
    <3>2. [k EXCEPT !.id = p] \in Jobs
      BY <1>6, <1>7, <1>8, <3>1
    <3>3. JobsOK
      BY <1>3, <2>2, <3>1, <3>2
    <3>4. RowsOK
      BY <1>1, <1>5, <1>10, <2>2 DEF CreateProgram, RowsOK
    <3>. QED
      BY <1>3, <1>10, <3>3, <3>4 DEF CreateProgram
  <2>. QED
    BY <1>10, <2>1, <2>2 DEF CreateProgram
<1>11. ASSUME NEW j \in jobs, UpdateProgram(j) PROVE RowsOK /\ PageOK /\ JobsOK
  <2>1. RowsOK
    BY <1>1, <1>5, <1>11 DEF UpdateProgram, RowsOK
  <2>2. JobsOK
    BY <1>3, <1>7, <1>8, <1>11 DEF UpdateProgram
  <2>. QED
    BY <1>3, <1>11, <2>1, <2>2 DEF UpdateProgram
<1>12. ASSUME NEW j \in jobs, StepRequest(j) PROVE RowsOK /\ PageOK /\ JobsOK
  <2>1. PICK at \in JobStates : at = IF j.id \in saved THEN "ok" ELSE "failed"
    BY <1>8
  <2>2. [j EXCEPT !.at = at, !.id = NoProgram] \in Jobs
    BY <1>5, <1>6, <1>8
  <2>. QED
    BY <1>3, <1>12, <2>1, <2>2 DEF StepRequest
<1>13. ASSUME NEW u \in Units, DeleteUnit(u) PROVE RowsOK /\ PageOK /\ JobsOK
  <2>1. RowsOK
    BY <1>1, <1>13 DEF DeleteUnit, RowsOK
  <2>. QED
    BY <1>3, <1>13, <2>1 DEF DeleteUnit
<1>14. CASE openCreateProgram
  <2>1. PICK w : w = [prog EXCEPT !.visible = TRUE, !.mode = "create", !.id = NoProgram,
                        !.stepsOf = NoProgram, !.unlocked = 1, !.tags = {}]
    OBVIOUS
  <2>2. w \in Dialogs
    BY <1>1, <2>1, OpenedTyped
  <2>3. switchProgramTab(Selects(w, {}), 1) \in Dialogs
    BY <1>8, <2>2, SelectsTyped, TabTyped
  <2>4. AsksDepts(Job("create", "depts")) \in Jobs
    BY <1>1, <1>7, <1>8, AsksDeptsTyped
  <2>5. PageOK
    BY <1>1, <1>14, <2>1, <2>3 DEF openCreateProgram, PageOK
  <2>. QED
    BY <1>3, <1>14, <2>4, <2>5 DEF openCreateProgram
<1>15. ASSUME NEW p \in ProgramIds, openEditProgram(p) PROVE RowsOK /\ PageOK /\ JobsOK
  <2>1. PICK k : k = Job("edit", "detail")
    OBVIOUS
  <2>2. targets[p] \in SUBSET Units
    BY <1>1
  <2>3. [k EXCEPT !.id = p, !.targets = targets[p]] \in Jobs
    BY <1>6, <1>7, <1>8, <2>1, <2>2
  <2>. QED
    BY <1>3, <1>15, <2>1, <2>3 DEF openEditProgram
<1>16. ASSUME NEW j \in jobs, DetailArrives(j) PROVE RowsOK /\ PageOK /\ JobsOK
  <2>1. PICK w : w = [prog EXCEPT !.mode = "edit", !.id = j.id, !.stepsOf = j.id]
    OBVIOUS
  <2>2. w \in Dialogs
    BY <1>1, <1>5, <2>1 DEF Dialogs
  <2>3. Selects(w, j.targets) \in Dialogs
    BY <1>5, <2>2, SelectsTyped
  <2>4. [j EXCEPT !.id = NoProgram, !.targets = {}] \in Jobs
    BY <1>5, <1>6, <1>8
  <2>5. AsksDepts([j EXCEPT !.id = NoProgram, !.targets = {}]) \in Jobs
    BY <1>1, <2>4, AsksDeptsTyped
  <2>6. PageOK
    BY <1>1, <1>16, <2>1, <2>3 DEF DetailArrives, PageOK
  <2>. QED
    BY <1>3, <1>16, <2>5, <2>6 DEF DetailArrives
<1>17. ASSUME NEW j \in jobs, UnitsArrive(j) PROVE RowsOK /\ PageOK /\ JobsOK
  <2>1. PICK v : v = [prog EXCEPT !.depts = j.units]
    OBVIOUS
  <2>2. PICK w : w = [prog EXCEPT !.depts = {}, !.failed = TRUE, !.tags = {}]
    OBVIOUS
  <2>3. v \in Dialogs /\ w \in Dialogs
    BY <1>1, <1>5, <2>1, <2>2 DEF Dialogs
  <2>4. PICK js : js = jobs'
    OBVIOUS
  <2>5. Settled(Redrawn(v), js) \in Dialogs /\ Settled(w, js) \in Dialogs
    BY <2>3, RedrawnTyped, SettledTyped
  <2>6. prog' = Settled(Redrawn(v), js) \/ prog' = Settled(w, js)
    BY <1>17, <2>1, <2>2, <2>4 DEF UnitsArrive
  <2>7. PageOK
    BY <1>1, <1>17, <2>5, <2>6 DEF UnitsArrive, PageOK
  <2>8. jobs' = jobs \ {j} \/ jobs' = (jobs \ {j}) \cup {Job("edit", "lists")}
    BY <1>17 DEF UnitsArrive
  <2>9. JobsOK
    BY <1>3, <1>7, <1>8, <2>8 DEF Moves
  <2>. QED
    BY <1>3, <1>17, <2>7, <2>9 DEF UnitsArrive
<1>18. ASSUME NEW j \in jobs, ListsArriveForEdit(j) PROVE RowsOK /\ PageOK /\ JobsOK
  <2>1. PICK w : w = switchProgramTab([prog EXCEPT !.unlocked = 2], 1)
    OBVIOUS
  <2>2. [prog EXCEPT !.unlocked = 2] \in Dialogs
    BY <1>1 DEF Dialogs
  <2>3. w \in Dialogs
    BY <2>1, <2>2, TabTyped
  <2>4. [w EXCEPT !.visible = TRUE] \in Dialogs
    BY <2>3 DEF Dialogs
  <2>5. PageOK
    BY <1>1, <1>18, <2>1, <2>4 DEF ListsArriveForEdit, PageOK
  <2>. QED
    BY <1>3, <1>18, <2>5 DEF ListsArriveForEdit
<1>19. CASE closeProgramModal
  <2>1. Settled([prog EXCEPT !.visible = FALSE], jobs) \in Dialogs
    BY <1>9, SettledTyped
  <2>2. PageOK
    BY <1>1, <1>19, <2>1 DEF closeProgramModal, PageOK
  <2>. QED
    BY <1>3, <1>19, <2>2 DEF closeProgramModal
<1>20. ASSUME NEW p \in ProgramIds, removeProgram(p) PROVE RowsOK /\ PageOK /\ JobsOK
  <2>1. RowsOK
    BY <1>1, <1>20 DEF removeProgram, RowsOK
  <2>. QED
    BY <1>3, <1>20, <2>1 DEF removeProgram
<1>21. ASSUME NEW w \in Dialogs, Clicks(w) PROVE RowsOK /\ PageOK /\ JobsOK
  <2>1. PageOK
    BY <1>1, <1>21 DEF Clicks, PageOK
  <2>. QED
    BY <1>3, <1>21, <2>1 DEF Clicks
<1>22. CASE openDeptDropdown
  BY <1>1, <1>21, <1>22, OptionsTyped DEF openDeptDropdown
<1>23. ASSUME NEW ids \in SUBSET Units, Clicks(Redrawn(Selects(prog, ids)))
       PROVE  RowsOK /\ PageOK /\ JobsOK
  <2>1. Redrawn(Selects(prog, ids)) \in Dialogs
    BY <1>1, SelectsTyped, RedrawnTyped
  <2>. QED
    BY <1>21, <1>23, <2>1
<1>24. ASSUME NEW u \in Units, onDeptOptionChange(u) PROVE RowsOK /\ PageOK /\ JobsOK
  <2>1. PICK from \in SUBSET Units : from = IF eoDeptIsAll(prog) THEN prog.depts ELSE prog.sel
    BY <1>4
  <2>2. PICK ids : ids = IF u \in prog.boxes THEN from \ {u} ELSE from \cup {u}
    OBVIOUS
  <2>3. ids \in SUBSET Units
    BY <2>2
  <2>. QED
    BY <1>23, <1>24, <2>1, <2>2, <2>3 DEF onDeptOptionChange
<1>25. CASE onDeptBulkClick
  BY <1>8, <1>23, <1>25 DEF onDeptBulkClick
<1>26. ASSUME NEW u \in Units, Untag(u) PROVE RowsOK /\ PageOK /\ JobsOK
  BY <1>4, <1>23, <1>26 DEF Untag
<1>27. ASSUME NEW n \in 1..2, ClickProgramTab(n) PROVE RowsOK /\ PageOK /\ JobsOK
  BY <1>1, <1>21, <1>27, TabTyped DEF ClickProgramTab
<1>28. ASSUME NEW kind \in JobKinds, NEW id \in ProgramIds \cup {NoProgram}, NEW ts \in SUBSET Units,
              NEW k \in {[Job(kind, "sent") EXCEPT !.targets = ts], [Job(kind, "sent") EXCEPT !.id = id],
                         [Job(kind, "sent") EXCEPT !.id = id, !.targets = ts]},
              jobs' = jobs \cup {k}
       PROVE  JobsOK
  <2>1. PICK j : j = Job(kind, "sent")
    OBVIOUS
  <2>2. j \in Jobs
    BY <1>7, <1>8, <2>1
  <2>3. k \in {[j EXCEPT !.targets = ts], [j EXCEPT !.id = id], [j EXCEPT !.id = id, !.targets = ts]}
    BY <2>1
  <2>4. /\ [j EXCEPT !.targets = ts] \in Jobs /\ [j EXCEPT !.id = id] \in Jobs
        /\ [j EXCEPT !.id = id, !.targets = ts] \in Jobs
    BY <2>2 DEF Jobs
  <2>. QED
    BY <1>3, <1>28, <2>3, <2>4
<1>29. Payload(prog) \in SUBSET Units
  BY <1>1, PayloadTyped
<1>30. CASE nextProgramTab
  <2>1. JobsOK
    BY <1>4, <1>8, <1>28, <1>29, <1>30 DEF nextProgramTab
  <2>. QED
    BY <1>3, <1>30, <2>1 DEF nextProgramTab
<1>31. ASSUME NEW j \in jobs, ProgramCreated(j) PROVE RowsOK /\ PageOK /\ JobsOK
  <2>1. UNCHANGED <<units, targets, saved, stepForm>>
    BY <1>31 DEF ProgramCreated
  <2>2. CASE prog' = [prog EXCEPT !.id = j.id] /\ Moves(j, [j EXCEPT !.at = "lists"])
    <3>1. [j EXCEPT !.at = "lists"] \in Jobs /\ [prog EXCEPT !.id = j.id] \in Dialogs
      BY <1>5, <1>6, <1>8, <1>9
    <3>. QED
      BY <1>1, <1>3, <2>1, <2>2, <3>1 DEF PageOK
  <2>3. CASE /\ jobs' = jobs \ {j}
             /\ prog' = Settled(switchProgramTab([prog EXCEPT !.stepsOf = j.id, !.unlocked = 2], 2),
                                jobs')
    <3>1. PICK w : w = [prog EXCEPT !.stepsOf = j.id, !.unlocked = 2]
      OBVIOUS
    <3>2. w \in Dialogs
      BY <1>1, <1>5, <3>1, GivenTyped
    <3>3. PICK js : js = jobs'
      OBVIOUS
    <3>4. switchProgramTab(w, 2) \in Dialogs
      BY <3>2, TabTyped
    <3>5. Settled(switchProgramTab(w, 2), js) \in Dialogs
      BY <3>4, SettledTyped
    <3>. QED
      BY <1>1, <1>3, <2>1, <2>3, <3>1, <3>3, <3>5 DEF PageOK
  <2>4. CASE jobs' = jobs \ {j} /\ prog' = Settled(prog, jobs')
    <3>1. prog' \in Dialogs
      BY <1>1, <2>4, NoDialogTyped DEF Settled
    <3>. QED
      BY <1>1, <1>3, <2>1, <2>4, <3>1 DEF PageOK
  <2>. QED
    BY <1>31, <2>2, <2>3, <2>4 DEF ProgramCreated
<1>32. CASE saveProgram
  <2>1. JobsOK
    BY <1>4, <1>8, <1>28, <1>29, <1>32 DEF saveProgram
  <2>. QED
    BY <1>3, <1>32, <2>1 DEF saveProgram
<1>33. ASSUME NEW j \in jobs, ProgramSaved(j) PROVE RowsOK /\ PageOK /\ JobsOK
  <2>1. PICK x \in BOOLEAN : x = (prog.visible /\ j.at = "failed")
    OBVIOUS
  <2>2. PICK w : w = [prog EXCEPT !.visible = x]
    OBVIOUS
  <2>3. w \in Dialogs
    BY <1>9, <2>2
  <2>4. w = [prog EXCEPT !.visible = @ /\ j.at = "failed"]
    BY <2>1, <2>2
  <2>5. prog' = Settled(w, jobs')
    BY <1>33, <2>4 DEF ProgramSaved
  <2>6. prog' \in Dialogs
    BY <2>3, <2>5, NoDialogTyped DEF Settled
  <2>. QED
    BY <1>1, <1>3, <1>33, <2>6 DEF ProgramSaved, PageOK
<1>34. CASE openCreateStep \/ openEditStep \/ closeStepForm
  <2>1. [open |-> TRUE, of |-> NoProgram] \in StepForms
        /\ [open |-> TRUE, of |-> prog.stepsOf] \in StepForms
    BY <1>4 DEF StepForms
  <2>2. PageOK
    BY <1>1, <1>34, <2>1, NoDialogTyped DEF openCreateStep, openEditStep, closeStepForm, PageOK
  <2>. QED
    BY <1>3, <1>34, <2>2 DEF openCreateStep, openEditStep, closeStepForm
<1>35. CASE saveStep
  <2>1. PICK id : id = IF stepForm.of = NoProgram THEN prog.id ELSE stepForm.of
    OBVIOUS
  <2>2. id \in ProgramIds \cup {NoProgram}
    BY <1>1, <1>4, <2>1 DEF StepForms
  <2>3. JobsOK
    BY <1>8, <1>28, <1>35, <2>1, <2>2 DEF saveStep
  <2>. QED
    BY <1>3, <1>35, <2>3 DEF saveStep
<1>36. CASE removeStep
  <2>1. PICK id : id = prog.stepsOf
    OBVIOUS
  <2>2. id \in ProgramIds \cup {NoProgram} /\ "unstep" \in JobKinds /\ {} \in SUBSET Units
    BY <1>4, <2>1 DEF JobKinds
  <2>3. jobs' = jobs \cup {[Job("unstep", "sent") EXCEPT !.id = id]}
    BY <1>36, <2>1 DEF removeStep
  <2>4. JobsOK
    BY <1>28, <2>2, <2>3
  <2>. QED
    BY <1>3, <1>36, <2>4 DEF removeStep
<1>37. ASSUME NEW j \in jobs, StepAnswers(j) PROVE RowsOK /\ PageOK /\ JobsOK
  <2>1. UNCHANGED <<units, targets, saved>>
        /\ (UNCHANGED stepForm \/ stepForm' = NoForm)
    BY <1>37 DEF StepAnswers
  <2>2. stepForm' \in StepForms
    BY <1>1, <2>1, NoDialogTyped
  <2>3. [j EXCEPT !.at = "steps", !.id = prog.id] \in Jobs /\ [prog EXCEPT !.stepsOf = j.id] \in Dialogs
    BY <1>4, <1>5, <1>6, <1>8, <1>9
  <2>4. PICK w : w = [prog EXCEPT !.stepsOf = j.id]
    OBVIOUS
  <2>5. prog' \in {prog, Settled(prog, jobs'), Settled(w, jobs')}
    BY <1>37, <2>4 DEF StepAnswers
  <2>6. prog' \in Dialogs
    BY <1>1, <2>3, <2>4, <2>5, NoDialogTyped DEF Settled
  <2>7. JobsOK
    BY <1>3, <1>37, <2>3 DEF StepAnswers
  <2>. QED
    BY <1>3, <2>1, <2>2, <2>6, <2>7 DEF PageOK
<1>38. CASE UNCHANGED programVars
  BY <1>3, <1>38 DEF programVars
<1>. QED
  BY <1>10, <1>11, <1>12, <1>13, <1>14, <1>15, <1>16, <1>17, <1>18, <1>19, <1>20, <1>22, <1>24,
     <1>25, <1>26, <1>27, <1>30, <1>31, <1>32, <1>33, <1>34, <1>35, <1>36, <1>37, <1>38
     DEF ProgramsNext

(* The programs, their dialogs and the handlers keep their types.          *)
THEOREM ProgramTypes == ProgramsSpec => []ProgramsTypeOK
<1>1. ProgramsInit => ProgramsTypeOK
  BY NoDialogTyped DEF ProgramsInit, ProgramsTypeOK, Dialogs, StepForms
<1>. QED
  BY <1>1, ProgramTypesStep, PTL DEF ProgramsSpec

----------------------------------------------------------------------------
(* The catalogue: types                                                    *)

CataloguePages == [org : Companies \cup {NoCompany}, listed : Catalogues, drawn : BOOLEAN]

DocForms == [shown : BOOLEAN, id : DocIds \cup {NoDoc}, isFile : BOOLEAN,
             template : Companies \cup {NoCompany}]

DocCalls == [kind : {"list", "upload", "save", "remove"}, list : Catalogues,
             id : DocIds \cup {NoDoc}, org : Companies \cup {NoCompany},
             template : Companies \cup {NoCompany}]

LEMMA DocsOfTyped ==
    ASSUME NEW there \in Catalogues, NEW o
    PROVE  DocsOf(there, o) \in Catalogues
BY DEF DocsOf, Catalogues

LEMMA DocCallTyped ==
    ASSUME NEW kind \in {"list", "upload", "save", "remove"}
    PROVE  DocCall(kind) \in DocCalls
BY DEF DocCall, DocCalls, NoDocs, Catalogues

LEMMA ListOfTyped ==
    ASSUME NEW there \in Catalogues, NEW o
    PROVE  ListOf(there, o) \in DocCalls
<1>1. PICK c : c = DocCall("list")
  OBVIOUS
<1>2. PICK l : l = DocsOf(there, o)
  OBVIOUS
<1>3. c \in DocCalls /\ l \in Catalogues
  BY <1>1, <1>2, DocCallTyped, DocsOfTyped
<1>4. [c EXCEPT !.list = l] \in DocCalls
  BY <1>3 DEF DocCalls
<1>. QED
  BY <1>1, <1>2, <1>4 DEF ListOf

LEMMA DocTypesStep ==
    ASSUME DocTypesTypeOK, [DocTypesNext]_docVars
    PROVE  DocTypesTypeOK'
<1>1. /\ docTypes \in Catalogues /\ catalogue \in CataloguePages
      /\ docForm \in DocForms /\ docCalls \subseteq DocCalls
  BY DEF DocTypesTypeOK, CataloguePages, DocForms, DocCalls
<1>2. SUFFICES /\ docTypes' \in Catalogues /\ catalogue' \in CataloguePages
               /\ docForm' \in DocForms /\ docCalls' \subseteq DocCalls
  BY DEF DocTypesTypeOK, CataloguePages, DocForms, DocCalls
<1>3. /\ catalogue.org \in Companies \cup {NoCompany} /\ catalogue.listed \in Catalogues
      /\ docForm.id \in DocIds \cup {NoDoc} /\ docForm.template \in Companies \cup {NoCompany}
  BY <1>1 DEF CataloguePages, DocForms
<1>4. \A d \in Listed : /\ d \in DocIds /\ catalogue.listed[d] \in DocRow
                        /\ catalogue.listed[d].template \in Companies \cup {NoCompany}
  BY <1>3 DEF Listed, Catalogues, DocRow
<1>5. [docForm EXCEPT !.shown = FALSE] \in DocForms /\ [catalogue EXCEPT !.drawn = FALSE] \in CataloguePages
  BY <1>1 DEF DocForms, CataloguePages
<1>6. ASSUME NEW k, loadDocTypes(k), docTypes' \in Catalogues
      PROVE  catalogue' \in CataloguePages /\ docCalls' \subseteq DocCalls
  <2>1. PICK there : there = docTypes'
    OBVIOUS
  <2>2. ListOf(there, catalogue.org) \in DocCalls
    BY <1>6, <2>1, ListOfTyped
  <2>. QED
    BY <1>1, <1>5, <1>6, <2>1, <2>2 DEF loadDocTypes
<1>7. ASSUME NEW o \in Companies \cup {NoCompany}, SelectCompany(o)
      PROVE  catalogue' \in CataloguePages /\ docCalls' \subseteq DocCalls
  <2>1. catalogue' \in CataloguePages
    BY <1>1, <1>7 DEF SelectCompany, CataloguePages
  <2>2. ListOf(docTypes, o) \in DocCalls
    BY <1>1, ListOfTyped
  <2>. QED
    BY <1>1, <1>7, <2>1, <2>2 DEF SelectCompany, Posts
<1>8. ASSUME NEW k \in docCalls, DocsArrive(k) PROVE catalogue' \in CataloguePages
  BY <1>1, <1>8 DEF DocsArrive, CataloguePages, DocCalls
<1>9. ASSUME NEW d \in DocIds, openEditDocType(d) PROVE docForm' \in DocForms
  BY <1>4, <1>9 DEF openEditDocType, DocForms
<1>10. CASE onTemplateFileSelected
  <2>1. PICK c : c = DocCall("upload")
    OBVIOUS
  <2>2. c \in DocCalls
    BY <2>1, DocCallTyped
  <2>3. [c EXCEPT !.template = catalogue.org] \in DocCalls
    BY <1>3, <2>2 DEF DocCalls
  <2>. QED
    BY <1>1, <1>10, <2>1, <2>3 DEF onTemplateFileSelected, Posts
<1>11. ASSUME NEW k \in docCalls, TemplateUploaded(k) PROVE docForm' \in DocForms
  BY <1>1, <1>11 DEF TemplateUploaded, DocForms, DocCalls
<1>12. CASE saveDocType
  <2>1. PICK c : c = DocCall("save")
    OBVIOUS
  <2>2. c \in DocCalls
    BY <2>1, DocCallTyped
  <2>3. PICK o \in Companies \cup {NoCompany} :
          o = IF docForm.id = NoDoc THEN catalogue.org ELSE NoCompany
    BY <1>3
  <2>4. PICK t \in Companies \cup {NoCompany} :
          t = IF docForm.isFile THEN docForm.template ELSE NoCompany
    BY <1>3
  <2>5. [c EXCEPT !.id = docForm.id, !.org = o, !.template = t] \in DocCalls
    BY <1>3, <2>2 DEF DocCalls
  <2>. QED
    BY <1>1, <1>12, <2>1, <2>3, <2>4, <2>5 DEF saveDocType, Posts
<1>13. ASSUME NEW k \in docCalls, Stores(k) PROVE docTypes' \in Catalogues
  <2>1. /\ k.id \in DocIds \cup {NoDoc} /\ k.org \in Companies \cup {NoCompany}
        /\ k.template \in Companies \cup {NoCompany}
    BY <1>1 DEF DocCalls
  <2>2. CASE k.id = NoDoc
    <3>1. PICK d \in DocIds : /\ k.org # NoCompany
                              /\ docTypes' = [docTypes EXCEPT ![d] = [org |-> k.org,
                                                                      template |-> k.template]]
      BY <1>13, <2>2 DEF Stores
    <3>2. [org |-> k.org, template |-> k.template] \in DocRow
      BY <2>1, <3>1 DEF DocRow
    <3>. QED
      BY <1>1, <3>1, <3>2 DEF Catalogues
  <2>3. CASE k.id # NoDoc
    <3>1. k.id \in DocIds /\ docTypes[k.id] \in DocRow
      BY <1>1, <1>13, <2>1, <2>3 DEF Stores, Catalogues
    <3>2. [docTypes[k.id] EXCEPT !.template = k.template] \in DocRow
      BY <2>1, <3>1 DEF DocRow
    <3>3. docTypes' = [docTypes EXCEPT ![k.id] = [docTypes[k.id] EXCEPT !.template = k.template]]
      BY <1>13, <2>3 DEF Stores
    <3>. QED
      BY <1>1, <3>2, <3>3 DEF Catalogues
  <2>. QED
    BY <2>2, <2>3
<1>14. ASSUME NEW k \in docCalls, DocTypeSaved(k)
       PROVE  /\ docTypes' \in Catalogues /\ catalogue' \in CataloguePages
              /\ docForm' \in DocForms /\ docCalls' \subseteq DocCalls
  <2>1. CASE Stores(k) /\ docForm' = [docForm EXCEPT !.shown = FALSE] /\ loadDocTypes(k)
    BY <1>5, <1>6, <1>13, <2>1
  <2>2. CASE docCalls' = docCalls \ {k} /\ UNCHANGED <<docTypes, docForm, catalogue>>
    BY <1>1, <2>2
  <2>. QED
    BY <1>14, <2>1, <2>2 DEF DocTypeSaved
<1>15. ASSUME NEW d \in DocIds, removeDocType(d) PROVE docCalls' \subseteq DocCalls
  <2>1. PICK c : c = DocCall("remove")
    OBVIOUS
  <2>2. c \in DocCalls
    BY <2>1, DocCallTyped
  <2>3. [c EXCEPT !.id = d] \in DocCalls
    BY <2>2 DEF DocCalls
  <2>. QED
    BY <1>1, <1>15, <2>1, <2>3 DEF removeDocType, Posts
<1>16. ASSUME NEW k \in docCalls, DocTypeRemoved(k)
       PROVE  /\ docTypes' \in Catalogues /\ catalogue' \in CataloguePages
              /\ docForm' \in DocForms /\ docCalls' \subseteq DocCalls
  <2>1. CASE docTypes' = [docTypes EXCEPT ![k.id] = NoDoc] /\ loadDocTypes(k)
    <3>1. docTypes' \in Catalogues
      BY <1>1, <2>1 DEF Catalogues
    <3>. QED
      BY <1>1, <1>6, <1>16, <2>1, <3>1 DEF DocTypeRemoved
  <2>2. CASE docCalls' = docCalls \ {k} /\ UNCHANGED <<docTypes, catalogue>>
    BY <1>1, <1>16, <2>2 DEF DocTypeRemoved
  <2>. QED
    BY <1>16, <2>1, <2>2 DEF DocTypeRemoved
<1>17. CASE openCreateDocType
  BY <1>1, <1>17 DEF openCreateDocType, NoDocForm, DocForms
<1>18. CASE onDocTypeInputTypeChange
  BY <1>1, <1>18 DEF onDocTypeInputTypeChange, DocForms
<1>19. CASE CloseDocForm
  BY <1>1, <1>5, <1>19 DEF CloseDocForm
<1>20. CASE UNCHANGED docVars
  BY <1>1, <1>20 DEF docVars
<1>21. ASSUME NEW k \in docCalls, DocsArrive(k) \/ TemplateUploaded(k)
       PROVE  docTypes' \in Catalogues /\ docCalls' \subseteq DocCalls
  BY <1>1, <1>21 DEF DocsArrive, TemplateUploaded
<1>. QED
  BY <1>1, <1>7, <1>8, <1>9, <1>10, <1>11, <1>12, <1>14, <1>15, <1>16, <1>17, <1>18, <1>19,
     <1>20, <1>21
     DEF DocTypesNext, SelectCompany, DocsArrive, openEditDocType, onTemplateFileSelected,
         TemplateUploaded, saveDocType, removeDocType, openCreateDocType,
         onDocTypeInputTypeChange, CloseDocForm

(* The types of documents, the page and its requests keep their types.     *)
THEOREM DocTypesTypes == DocTypesSpec => []DocTypesTypeOK
<1>1. DocTypesInit => DocTypesTypeOK
  BY DEF DocTypesInit, DocTypesTypeOK, NoDocs, NoCatalogue, NoDocForm, Catalogues
<1>. QED
  BY <1>1, DocTypesStep, PTL DEF DocTypesSpec

----------------------------------------------------------------------------
(* The items: types                                                        *)

Editors == [visible : BOOLEAN, course : Courses \cup {NoCourse}, listed : Lists, drawn : BOOLEAN]

ItemForms == [shown : BOOLEAN, id : ItemIds \cup {Missing}, file : Courses \cup {NoCourse}]

ChoreKinds == {"open", "list", "move", "remove", "upload", "save", "bulk"}

Chores == [kind : ChoreKinds, step : {"sent", "lists", "posted"}, list : Lists,
           id : ItemIds \cup {Missing}, of : Courses \cup {NoCourse},
           file : Courses \cup {NoCourse}, left : 0..MaxFiles]

(* A handler that needs the content of the dialog has one: course is that. *)
ChoreNamesCourse(k, course) ==
    /\ k.kind = "open" => k.of \in Courses /\ (k.step # "sent" => course \in Courses)
    /\ k.kind = "bulk" => course \in Courses /\ (k.step = "posted" => k.of \in Courses)
    /\ k.kind = "save" /\ k.id = Missing => k.of \in Courses

ItemsTyped ==
    /\ items \in Lists /\ editor \in Editors /\ itemForm \in ItemForms /\ chores \subseteq Chores
    /\ editor.visible \/ itemForm.shown => editor.course \in Courses
    /\ \A k \in chores : ChoreNamesCourse(k, editor.course)

LEMMA ItemsOfTyped ==
    ASSUME NEW there \in Lists, NEW c
    PROVE  ItemsOf(there, c) \in Lists
BY DEF ItemsOf, Lists

LEMMA NoListTyped == NoList \in Lists
BY DEF NoList, Lists

LEMMA ChoreTyped ==
    ASSUME NEW kind \in ChoreKinds
    PROVE  Chore(kind) \in Chores /\ Chore(kind).kind = kind
BY NoListTyped, ContentItemsAssumption DEF Chore, Chores

LEMMA NextChoreTyped ==
    ASSUME NEW k \in Chores, NEW n \in 0..MaxFiles, NEW f \in Courses \cup {NoCourse}
    PROVE  [k EXCEPT !.step = "sent", !.left = n, !.of = NoCourse, !.file = f] \in Chores
BY DEF Chores

LEMMA ItemsTypesStep ==
    ASSUME ItemsTyped, [ItemsNext]_itemVars
    PROVE  ItemsTyped'
<1>1. /\ items \in Lists /\ editor \in Editors /\ itemForm \in ItemForms /\ chores \subseteq Chores
      /\ editor.visible \/ itemForm.shown => editor.course \in Courses
      /\ \A k \in chores : ChoreNamesCourse(k, editor.course)
  BY DEF ItemsTyped
<1>2. /\ editor.course \in Courses \cup {NoCourse} /\ editor.listed \in Lists
      /\ itemForm.id \in ItemIds \cup {Missing} /\ itemForm.file \in Courses \cup {NoCourse}
      /\ NoCourse \in Courses \cup {NoCourse} /\ Missing \in ItemIds \cup {Missing}
  BY <1>1 DEF Editors, ItemForms
<1>3. \A k \in chores : /\ k \in Chores /\ k.kind \in ChoreKinds /\ k.list \in Lists
                        /\ k.id \in ItemIds \cup {Missing} /\ k.of \in Courses \cup {NoCourse}
                        /\ k.file \in Courses \cup {NoCourse} /\ k.left \in 0..MaxFiles
  BY <1>1 DEF Chores
<1>4. \A i \in Shown : /\ i \in ItemIds /\ editor.listed[i] \in ItemRow
                       /\ editor.listed[i].file \in Courses \cup {NoCourse}
                       /\ editor.visible
  BY <1>2 DEF Shown, Lists, ItemRow
<1>5. ASSUME NEW kind \in ChoreKinds PROVE Chore(kind) \in Chores /\ Chore(kind).kind = kind
  BY ChoreTyped
(* A step that adds a handler, or replaces one by another.                 *)
<1>6. ASSUME NEW l \in Chores, \A k \in chores' : k \in chores \/ k = l,
             items' \in Lists, editor' \in Editors, itemForm' \in ItemForms,
             editor'.visible \/ itemForm'.shown => editor'.course \in Courses,
             editor'.course = editor.course, ChoreNamesCourse(l, editor.course)
      PROVE  ItemsTyped'
  <2>1. \A k \in chores' : ChoreNamesCourse(k, editor'.course)
    BY <1>1, <1>6
  <2>2. chores' \subseteq Chores
    BY <1>1, <1>6
  <2>. QED
    BY <1>6, <2>1, <2>2 DEF ItemsTyped, ChoreNamesCourse
<1>7. ASSUME chores' \subseteq chores,
             items' \in Lists, editor' \in Editors, itemForm' \in ItemForms,
             editor'.visible \/ itemForm'.shown => editor'.course \in Courses,
             editor'.course = editor.course
      PROVE  ItemsTyped'
  <2>1. \A k \in chores' : ChoreNamesCourse(k, editor'.course)
    BY <1>1, <1>7
  <2>2. chores' \subseteq Chores
    BY <1>1, <1>7
  <2>. QED
    BY <1>7, <2>1, <2>2 DEF ItemsTyped, ChoreNamesCourse
<1>8. ASSUME NEW l \in Chores, ChoreNamesCourse(l, editor.course), Starts(l),
             UNCHANGED <<items, editor, itemForm>>
      PROVE  ItemsTyped'
  BY <1>1, <1>6, <1>8 DEF Starts
<1>9. ASSUME NEW k \in chores, NEW there \in Lists, LoadsItems(k, there),
             items' \in Lists, itemForm' \in ItemForms, itemForm'.shown => itemForm.shown
      PROVE  ItemsTyped'
  <2>1. PICK c : c = Chore("list")
    OBVIOUS
  <2>2. PICK list : list = ItemsOf(there, editor.course)
    OBVIOUS
  <2>3. PICK l : l = [c EXCEPT !.list = list]
    OBVIOUS
  <2>4. c \in Chores /\ c.kind = "list" /\ list \in Lists
    BY <1>5, <2>1, <2>2, ItemsOfTyped DEF ChoreKinds
  <2>5. l \in Chores /\ l.kind = "list"
    BY <2>3, <2>4 DEF Chores
  <2>6. ChoreNamesCourse(l, editor.course)
    BY <2>5 DEF ChoreNamesCourse
  <2>7. editor' \in Editors /\ editor'.course = editor.course /\ editor'.visible = editor.visible
    BY <1>1, <1>9 DEF LoadsItems, Editors
  <2>8. chores' = (chores \ {k}) \cup {l}
    BY <1>9, <2>1, <2>2, <2>3 DEF LoadsItems, Goes
  <2>. QED
    BY <1>1, <1>6, <1>9, <2>5, <2>6, <2>7, <2>8
<1>10. ASSUME NEW i \in ItemIds, NEW row \in ItemRow \cup {Missing}, items' = [items EXCEPT ![i] = row]
       PROVE  items' \in Lists
  BY <1>1, <1>10 DEF Lists
<1>11. ASSUME NEW c \in Courses, EditCourse(c) PROVE ItemsTyped'
  <2>1. PICK k : k = Chore("open")
    OBVIOUS
  <2>2. PICK list : list = ItemsOf(items, c)
    OBVIOUS
  <2>3. PICK l : l = [k EXCEPT !.of = c, !.list = list]
    OBVIOUS
  <2>4. k \in Chores /\ k.step = "sent" /\ list \in Lists
    BY <1>1, <1>5, <2>1, <2>2, ItemsOfTyped DEF ChoreKinds, Chore
  <2>5. l \in Chores /\ l.of = c /\ l.step = "sent" /\ l.kind = "open"
    BY <2>1, <2>3, <2>4 DEF Chores, Chore
  <2>6. ChoreNamesCourse(l, editor.course)
    BY <2>5 DEF ChoreNamesCourse
  <2>. QED
    BY <1>8, <1>11, <2>1, <2>2, <2>3, <2>5, <2>6 DEF EditCourse
<1>12. ASSUME NEW k \in chores, CourseArrives(k) PROVE ItemsTyped'
  <2>1. k.of \in Courses
    BY <1>1, <1>12 DEF CourseArrives, ChoreNamesCourse
  <2>2. editor' \in Editors /\ editor'.course = k.of
    BY <1>1, <1>12, <2>1 DEF CourseArrives, Editors
  <2>3. PICK l : l = [k EXCEPT !.step = "lists"]
    OBVIOUS
  <2>4. l \in Chores /\ l.kind = k.kind /\ l.of = k.of
    BY <1>3, <2>3 DEF Chores
  <2>5. ChoreNamesCourse(l, k.of) /\ \A m \in chores : ChoreNamesCourse(m, k.of)
    BY <1>1, <1>12, <2>1, <2>4 DEF ChoreNamesCourse, CourseArrives
  <2>6. chores' = (chores \ {k}) \cup {l} /\ UNCHANGED <<items, itemForm>>
    BY <1>12, <2>3 DEF CourseArrives, Goes
  <2>7. \A m \in chores' : ChoreNamesCourse(m, editor'.course)
    BY <2>2, <2>5, <2>6
  <2>. QED
    BY <1>1, <2>1, <2>2, <2>4, <2>6, <2>7 DEF ItemsTyped, ChoreNamesCourse
<1>13. ASSUME NEW k \in chores, CourseShown(k) PROVE ItemsTyped'
  <2>1. editor.course \in Courses
    BY <1>1, <1>13 DEF CourseShown, ChoreNamesCourse
  <2>2. editor' \in Editors /\ editor'.course = editor.course
    BY <1>1, <1>3, <1>13 DEF CourseShown, Editors
  <2>. QED
    BY <1>1, <1>7, <1>13, <2>1, <2>2 DEF CourseShown
<1>14. CASE CloseCourse
  <2>1. editor' \in Editors /\ editor'.course = editor.course
    BY <1>1, <1>14 DEF CloseCourse, Editors
  <2>. QED
    BY <1>1, <1>7, <1>14, <2>1 DEF CloseCourse
<1>15. ASSUME NEW k \in chores, ListArrives(k) PROVE ItemsTyped'
  <2>1. editor' \in Editors /\ editor'.course = editor.course /\ editor'.visible = editor.visible
    BY <1>1, <1>3, <1>15 DEF ListArrives, Editors
  <2>. QED
    BY <1>1, <1>7, <1>15, <2>1 DEF ListArrives
<1>16. ASSUME NEW i \in ItemIds, NEW j \in ItemIds, MoveItem(i, j) PROVE ItemsTyped'
  <2>1. PICK k : k = Chore("move")
    OBVIOUS
  <2>2. PICK list : list = [n \in ItemIds |-> IF n \in {i, j} THEN editor.listed[n] ELSE Missing]
    OBVIOUS
  <2>3. list \in Lists
    BY <1>2, <2>2 DEF Lists
  <2>4. PICK l : l = [k EXCEPT !.list = list]
    OBVIOUS
  <2>5. l \in Chores /\ l.kind = "move"
    BY <1>5, <2>1, <2>3, <2>4 DEF ChoreKinds, Chores
  <2>. QED
    BY <1>8, <1>16, <2>1, <2>2, <2>4, <2>5 DEF MoveItem, ChoreNamesCourse
<1>17. ASSUME NEW k \in chores, MoveAnswered(k) PROVE ItemsTyped'
  <2>1. CASE LoadsItems(k, items)
    BY <1>1, <1>9, <1>17, <2>1 DEF MoveAnswered
  <2>2. CASE chores' = chores \ {k} /\ UNCHANGED editor
    BY <1>1, <1>7, <1>17, <2>2 DEF MoveAnswered
  <2>. QED
    BY <1>17, <2>1, <2>2 DEF MoveAnswered
<1>18. ASSUME NEW i \in ItemIds, removeItem(i) PROVE ItemsTyped'
  <2>1. PICK k : k = Chore("remove")
    OBVIOUS
  <2>2. PICK l : l = [k EXCEPT !.id = i]
    OBVIOUS
  <2>3. l \in Chores /\ l.kind = "remove"
    BY <1>5, <2>1, <2>2 DEF ChoreKinds, Chores
  <2>. QED
    BY <1>8, <1>18, <2>1, <2>2, <2>3 DEF removeItem, ChoreNamesCourse
<1>19. ASSUME NEW k \in chores, ItemRemoved(k) PROVE ItemsTyped'
  <2>1. CASE items' = [items EXCEPT ![k.id] = Missing] /\ LoadsItems(k, items')
    <3>1. items' \in Lists
      BY <1>1, <2>1 DEF Lists
    <3>2. PICK there : there = items'
      OBVIOUS
    <3>. QED
      BY <1>1, <1>9, <1>19, <2>1, <3>1, <3>2 DEF ItemRemoved
  <2>2. CASE chores' = chores \ {k} /\ UNCHANGED <<items, editor>>
    BY <1>1, <1>7, <1>19, <2>2 DEF ItemRemoved
  <2>. QED
    BY <1>19, <2>1, <2>2 DEF ItemRemoved
<1>20. CASE openCreateItem
  <2>1. itemForm' \in ItemForms
    BY <1>20 DEF openCreateItem, ItemForms
  <2>. QED
    BY <1>1, <1>7, <1>20, <2>1 DEF openCreateItem
<1>21. ASSUME NEW i \in ItemIds, openEditItem(i) PROVE ItemsTyped'
  <2>1. itemForm' \in ItemForms
    BY <1>4, <1>21 DEF openEditItem, ItemForms
  <2>. QED
    BY <1>1, <1>4, <1>7, <1>21, <2>1 DEF openEditItem
<1>22. CASE CloseItemForm
  <2>1. itemForm' \in ItemForms
    BY <1>1, <1>22 DEF CloseItemForm, ItemForms
  <2>. QED
    BY <1>1, <1>7, <1>22, <2>1 DEF CloseItemForm
<1>23. CASE uploadItemMedia
  <2>1. PICK k : k = Chore("upload")
    OBVIOUS
  <2>2. PICK l : l = [k EXCEPT !.file = editor.course]
    OBVIOUS
  <2>3. l \in Chores /\ l.kind = "upload"
    BY <1>2, <1>5, <2>1, <2>2 DEF ChoreKinds, Chores
  <2>. QED
    BY <1>8, <1>23, <2>1, <2>2, <2>3 DEF uploadItemMedia, getContentUploadParams, ChoreNamesCourse
<1>24. ASSUME NEW k \in chores, MediaUploaded(k) PROVE ItemsTyped'
  <2>1. itemForm' \in ItemForms /\ itemForm'.shown = itemForm.shown
    BY <1>1, <1>3, <1>24 DEF MediaUploaded, ItemForms
  <2>. QED
    BY <1>1, <1>7, <1>24, <2>1 DEF MediaUploaded
<1>25. CASE saveItem
  <2>1. PICK of : of = IF itemForm.id = Missing THEN editor.course ELSE NoCourse
    OBVIOUS
  <2>2. PICK k : k = Chore("save")
    OBVIOUS
  <2>3. PICK file \in {itemForm.file, NoCourse} :
          Starts([Chore("save") EXCEPT !.id = itemForm.id, !.file = file,
                    !.of = IF itemForm.id = Missing THEN editor.course ELSE NoCourse])
    BY <1>25 DEF saveItem
  <2>4. PICK l : l = [k EXCEPT !.id = itemForm.id, !.file = file, !.of = of]
    OBVIOUS
  <2>5. k \in Chores
    BY <1>5, <2>2 DEF ChoreKinds
  <2>6. l \in Chores /\ l.kind = "save" /\ l.of = of /\ l.id = itemForm.id
    BY <1>2, <2>1, <2>2, <2>4, <2>5 DEF Chores, Chore
  <2>7. ChoreNamesCourse(l, editor.course)
    BY <1>1, <1>25, <2>1, <2>6 DEF ChoreNamesCourse, saveItem
  <2>. QED
    BY <1>8, <1>25, <2>1, <2>2, <2>3, <2>4, <2>6, <2>7 DEF saveItem
<1>26. ASSUME NEW c \in Courses, NEW file \in Courses \cup {NoCourse}, AddsItem(c, file)
       PROVE  items' \in Lists
  <2>1. [of |-> c, file |-> file] \in ItemRow
    BY DEF ItemRow
  <2>. QED
    BY <1>10, <1>26, <2>1 DEF AddsItem
<1>27. ASSUME NEW i \in ItemIds \cup {Missing}, NEW file \in Courses \cup {NoCourse}, UpdatesItem(i, file)
       PROVE  items' \in Lists
  <2>1. i \in ItemIds /\ items[i] \in ItemRow
    BY <1>1, <1>27 DEF UpdatesItem, Lists
  <2>2. [items[i] EXCEPT !.file = file] \in ItemRow
    BY <2>1 DEF ItemRow
  <2>3. items' = [items EXCEPT ![i] = [items[i] EXCEPT !.file = file]]
    BY <1>27 DEF UpdatesItem
  <2>. QED
    BY <1>10, <2>1, <2>2, <2>3
<1>28. ASSUME NEW k \in chores, ItemSaved(k) PROVE ItemsTyped'
  <2>1. CASE /\ IF k.id = Missing THEN AddsItem(k.of, k.file) ELSE UpdatesItem(k.id, k.file)
             /\ itemForm' = [itemForm EXCEPT !.shown = FALSE]
             /\ LoadsItems(k, items')
    <3>1. items' \in Lists
      BY <1>1, <1>3, <1>26, <1>27, <1>28, <2>1 DEF ItemSaved, ChoreNamesCourse
    <3>2. itemForm' \in ItemForms /\ ~ itemForm'.shown
      BY <1>1, <2>1 DEF ItemForms
    <3>3. PICK there : there = items'
      OBVIOUS
    <3>. QED
      BY <1>9, <2>1, <3>1, <3>2, <3>3
  <2>2. CASE chores' = chores \ {k} /\ UNCHANGED <<items, editor, itemForm>>
    BY <1>1, <1>7, <2>2
  <2>. QED
    BY <1>28, <2>1, <2>2 DEF ItemSaved
<1>29. CASE uploadBulkFiles
  <2>1. PICK n \in 1..MaxFiles :
          Starts([Chore("bulk") EXCEPT !.left = n, !.file = getContentUploadParams])
    BY <1>29 DEF uploadBulkFiles
  <2>2. PICK k : k = Chore("bulk")
    OBVIOUS
  <2>3. PICK l : l = [k EXCEPT !.left = n, !.file = editor.course]
    OBVIOUS
  <2>4. n \in 0..MaxFiles
    BY ContentItemsAssumption
  <2>5. k \in Chores /\ k.kind = "bulk" /\ k.step = "sent"
    BY <1>5, <2>2 DEF ChoreKinds, Chore
  <2>6. l \in Chores /\ l.kind = "bulk" /\ l.step = "sent"
    BY <1>2, <2>3, <2>4, <2>5 DEF Chores
  <2>7. ChoreNamesCourse(l, editor.course)
    BY <1>1, <1>29, <2>6 DEF ChoreNamesCourse, uploadBulkFiles
  <2>. QED
    BY <1>8, <1>29, <2>1, <2>2, <2>3, <2>6, <2>7 DEF uploadBulkFiles, getContentUploadParams
<1>30. ASSUME NEW k \in chores, k.kind = "bulk", NEW there \in Lists, NextFile(k, there),
              items' \in Lists, UNCHANGED itemForm
       PROVE  ItemsTyped'
  <2>1. CASE k.left > 1
    <3>1. PICK n : n = k.left - 1
      OBVIOUS
    <3>2. n \in 0..MaxFiles
      BY <1>3, <2>1, <3>1, ContentItemsAssumption
    <3>3. PICK l : l = [k EXCEPT !.step = "sent", !.left = n, !.of = NoCourse, !.file = editor.course]
      OBVIOUS
    <3>4. l \in Chores /\ l.kind = "bulk" /\ l.step = "sent"
      <4>1. [k EXCEPT !.step = "sent", !.left = n, !.of = NoCourse, !.file = editor.course] \in Chores
        BY <1>2, <1>3, <3>2, NextChoreTyped
      <4>2. k \in Chores
        BY <1>3
      <4>. QED
        BY <1>30, <3>3, <4>1, <4>2 DEF Chores
    <3>5. ChoreNamesCourse(l, editor.course)
      BY <1>1, <1>30, <3>4 DEF ChoreNamesCourse
    <3>6. chores' = (chores \ {k}) \cup {l} /\ UNCHANGED editor
      BY <1>30, <2>1, <3>1, <3>3 DEF NextFile, Goes, getContentUploadParams
    <3>. QED
      BY <1>1, <1>6, <1>30, <3>4, <3>5, <3>6
  <2>2. CASE ~ (k.left > 1)
    BY <1>1, <1>9, <1>30, <2>2 DEF NextFile
  <2>. QED
    BY <2>1, <2>2
<1>31. ASSUME NEW k \in chores, FileUploaded(k) PROVE ItemsTyped'
  <2>1. CASE Goes(k, [k EXCEPT !.step = "posted", !.of = editor.course]) /\ UNCHANGED editor
    <3>1. PICK l : l = [k EXCEPT !.step = "posted", !.of = editor.course]
      OBVIOUS
    <3>2. l \in Chores /\ l.kind = "bulk" /\ l.of = editor.course
      BY <1>2, <1>3, <1>31, <3>1 DEF Chores, FileUploaded
    <3>3. ChoreNamesCourse(l, editor.course)
      BY <1>1, <1>31, <3>2 DEF ChoreNamesCourse, FileUploaded
    <3>. QED
      BY <1>1, <1>6, <1>31, <2>1, <3>1, <3>2, <3>3 DEF FileUploaded, Goes
  <2>2. CASE NextFile(k, items)
    BY <1>1, <1>30, <1>31, <2>2 DEF FileUploaded
  <2>. QED
    BY <1>31, <2>1, <2>2 DEF FileUploaded
<1>32. ASSUME NEW k \in chores, FilePosted(k) PROVE ItemsTyped'
  <2>1. k.of \in Courses /\ k.file \in Courses \cup {NoCourse}
    BY <1>1, <1>3, <1>32 DEF FilePosted, ChoreNamesCourse
  <2>2. items' \in Lists
    BY <1>1, <1>26, <1>32, <2>1 DEF FilePosted
  <2>3. PICK there : there = items'
    OBVIOUS
  <2>. QED
    BY <1>30, <1>32, <2>2, <2>3 DEF FilePosted
<1>33. CASE UNCHANGED itemVars
  BY <1>1, <1>7, <1>33 DEF itemVars
<1>. QED
  BY <1>11, <1>12, <1>13, <1>14, <1>15, <1>16, <1>17, <1>18, <1>19, <1>20, <1>21, <1>22, <1>23,
     <1>24, <1>25, <1>28, <1>29, <1>31, <1>32, <1>33 DEF ItemsNext

(* The items, the dialogs of a content and its handlers keep their types,  *)
(* also when the administrator does not wait.                              *)
THEOREM ItemsTypes == ItemsSpec => []ItemsTypeOK
<1>1. ItemsInit => ItemsTyped
  <2>. SUFFICES ASSUME ItemsInit PROVE ItemsTyped
    OBVIOUS
  <2>1. PICK there \in SUBSET ItemIds, c \in Courses :
          items = [i \in ItemIds |-> IF i \in there THEN [of |-> c, file |-> c] ELSE Missing]
    BY DEF ItemsInit
  <2>2. [of |-> c, file |-> c] \in ItemRow
    BY DEF ItemRow
  <2>3. items \in Lists
    BY <2>1, <2>2 DEF Lists
  <2>. QED
    BY <2>3, NoListTyped DEF ItemsInit, ItemsTyped, NoEditor, NoItemForm, Editors, ItemForms
<1>2. ItemsTyped => ItemsTypeOK
  BY DEF ItemsTyped, ItemsTypeOK, Editors, ItemForms, Chores
<1>. QED
  BY <1>1, <1>2, ItemsTypesStep, PTL DEF ItemsSpec

----------------------------------------------------------------------------
(* What the pages promise                                                  *)

(* content_service.py:268: no content addresses departments of another     *)
(* organisation, for any contents and any answers of the form that cross.  *)
THEOREM AudiencesInOrg == ContentSpec => []AudienceInOrg
<1>1. ContentsInv => AudienceInOrg
  BY DEF ContentsInv
<1>. QED
  BY <1>1, ContentsInvariant, PTL

(* onboarding.py:86 and employee_onboarding_admin.js: the boxes ticked are *)
(* the departments a save addresses, for any departments and programs.     *)
THEOREM SavedAsShown == ProgramsSpec => []SavedIsShown
<1>1. ChoiceInv => SavedIsShown
  BY ChoiceShown
<1>. QED
  BY <1>1, ChoiceInvariant, PTL

(* A tab does to each page what the page alone would do, or nothing.       *)
THEOREM AdminPagesApart ==
    AdminSpec => /\ ContentSpec /\ ItemsSpec /\ ProgramsSpec
                 /\ GrantsSpec /\ DocTypesSpec /\ UserFormSpec
<1>1. AdminInit => /\ ContentInit /\ ItemsInit /\ ProgramsInit
                   /\ GrantsInit /\ DocTypesInit /\ UserFormInit
  BY DEF AdminInit
<1>2. [AdminNext]_adminVars => [ContentNext]_contentVars
  BY DEF AdminNext, adminVars
<1>3. [AdminNext]_adminVars => [ItemsNext]_itemVars
  BY DEF AdminNext, adminVars
<1>4. [AdminNext]_adminVars => [ProgramsNext]_programVars
  BY DEF AdminNext, adminVars
<1>5. [AdminNext]_adminVars => [GrantsNext]_grantVars
  BY DEF AdminNext, adminVars
<1>6. [AdminNext]_adminVars => [DocTypesNext]_docVars
  BY DEF AdminNext, adminVars
<1>7. [AdminNext]_adminVars => [UserFormNext]_userFormVars
  BY DEF AdminNext, adminVars
<1>. QED
  BY <1>1, <1>2, <1>3, <1>4, <1>5, <1>6, <1>7, PTL
     DEF AdminSpec, ContentSpec, ItemsSpec, ProgramsSpec, GrantsSpec, DocTypesSpec, UserFormSpec

(* Each page keeps its types in every tab.                                 *)
THEOREM AdminTypes == AdminSpec => []AdminTypeOK
<1>1. AdminInit => open \in OpenPages
  BY DEF AdminInit
<1>2. open \in OpenPages /\ [AdminNext]_adminVars => (open \in OpenPages)'
  BY DEF AdminNext, adminVars
<1>3. AdminSpec => [](open \in OpenPages)
  BY <1>1, <1>2, PTL DEF AdminSpec
<1>4. /\ open \in OpenPages
      /\ ContentTypeOK /\ ItemsTypeOK /\ ProgramsTypeOK /\ GrantsTypeOK /\ DocTypesTypeOK
      /\ UserFormTypeOK
      => AdminTypeOK
  BY DEF AdminTypeOK
<1>. QED
  BY <1>3, <1>4, AdminPagesApart, ContentTypes, ItemsTypes, ProgramTypes, GrantsTypes,
     DocTypesTypes, UserFormTypes, PTL

(* What the run of these pages checks of rows and dialogs, for every        *)
(* instance: onboarding_service.py and content_service.py.                 *)
THEOREM AdminPagesSafe == AdminSpec => [](AudienceInOrg /\ SavedIsShown)
BY AdminPagesApart, AudiencesInOrg, SavedAsShown, PTL

=============================================================================
