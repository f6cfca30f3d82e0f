------------------------------ MODULE Programs ------------------------------
(***************************************************************************)
(* The onboarding programs of one organisation as an admin edits them:     *)
(* the dialog of a program and that of its steps in                        *)
(* assets/js/employee_onboarding_admin.js, and the programs that           *)
(* services/onboarding_service.py keeps.                                   *)
(*                                                                         *)
(* Of a program its target departments matter, and of a list of steps the  *)
(* program they are of.  A GET is answered when it is sent and its answer  *)
(* arrives any time later; what is left of a handler that waits is a job.  *)
(***************************************************************************)
EXTENDS Naturals, FiniteSets

CONSTANTS ProgramIds, NoProgram,
          Units,               \* departments
          Summarised,          \* as many excluded departments as are named: 3 in the code
          MaxJobs              \* bound: handlers that wait

ASSUME ProgramsAssumption ==
    /\ NoProgram \notin ProgramIds
    /\ Summarised \in Nat /\ MaxJobs \in Nat

VARIABLES units,      \* the departments there are
          targets,    \* targets[p]: target_dept_ids of program p
          saved,      \* the programs there are
          prog,       \* the dialog of a program
          stepForm,   \* the dialog of a step
          jobs        \* handlers that wait

programVars == <<units, targets, saved, prog, stepForm, jobs>>

(* mode, id, unlocked, tab, depts and sel are parts of state; stepsOf: the *)
(* program whose steps are state.activeSteps.  foot is the mode the footer *)
(* was drawn for, drawn the departments with a box, boxes those ticked,    *)
(* reset and tags whether, and for which, those buttons were drawn;        *)
(* failed: the error of the departments is shown.                          *)
NoDialog == [visible |-> FALSE, mode |-> "none", id |-> NoProgram, stepsOf |-> NoProgram,
             foot |-> "none", tab |-> 1, unlocked |-> 1,
             depts |-> {}, sel |-> {}, drawn |-> {}, boxes |-> {}, reset |-> FALSE,
             tags |-> {}, failed |-> FALSE]

NoForm == [open |-> FALSE, of |-> NoProgram]

----------------------------------------------------------------------------
(* The choice of departments                                               *)

(* Only a complete selection counts as all.                                *)
eoDeptIsFull(w) == w.depts = {} \/ Cardinality(w.sel) = Cardinality(w.depts)

eoDeptIsAll(w) ==
    w.depts = {} \/ w.sel = {} \/ Cardinality(w.sel) = Cardinality(w.depts)

renderDeptValues(w) ==
    [w EXCEPT !.failed = FALSE,
              !.tags = IF eoDeptIsAll(w) \/ Cardinality(w.depts \ w.sel) <= Summarised
                       THEN {} ELSE w.sel]

renderDeptOptions(w) ==
    [w EXCEPT !.drawn = w.depts, !.reset = w.depts # {} /\ ~ eoDeptIsAll(w),
              !.boxes = IF eoDeptIsAll(w) THEN w.depts ELSE w.depts \cap w.sel]

Redrawn(w) == renderDeptOptions(renderDeptValues(w))

(* target_dept_ids of basicProgramPayload; empty for the whole of the      *)
(* organisation.                                                           *)
Payload(w) == IF eoDeptIsAll(w) THEN {} ELSE w.sel

----------------------------------------------------------------------------
(* onboarding_service.py                                                   *)

ValidTargets(ids) == ids \subseteq units

Job(kind, at) == [kind |-> kind, at |-> at, id |-> NoProgram, targets |-> {}, units |-> {}]

Moves(j, k) == jobs' = (jobs \ {j}) \cup {k}

CreateProgram(j) ==
    /\ j.kind = "next" /\ j.at = "sent"
    /\ \/ \E p \in ProgramIds \ saved :
             /\ ValidTargets(j.targets) /\ targets[p] = {}
             /\ saved' = saved \cup {p}
             /\ targets' = [targets EXCEPT ![p] = j.targets]
             /\ Moves(j, [Job("next", "ok") EXCEPT !.id = p])
       \/ /\ ~ ValidTargets(j.targets) \/ saved = ProgramIds
          /\ Moves(j, Job("next", "failed"))
          /\ UNCHANGED <<saved, targets>>
    /\ UNCHANGED <<units, prog, stepForm>>

UpdateProgram(j) ==
    /\ j.kind = "save" /\ j.at = "sent"
    /\ \/ /\ j.id \in saved /\ ValidTargets(j.targets)
          /\ targets' = [targets EXCEPT ![j.id] = j.targets]
          /\ Moves(j, Job("save", "ok"))
       \/ /\ j.id \notin saved \/ ~ ValidTargets(j.targets)
          /\ Moves(j, Job("save", "failed"))
          /\ UNCHANGED targets
    /\ UNCHANGED <<units, saved, prog, stepForm>>

(* Steps are not kept here: a step needs its program to be there.          *)
StepKinds == {"step", "unstep"}

StepRequest(j) ==
    /\ j.kind \in StepKinds /\ j.at = "sent"
    /\ Moves(j, [j EXCEPT !.at = IF j.id \in saved THEN "ok" ELSE "failed", !.id = NoProgram])
    /\ UNCHANGED <<units, targets, saved, prog, stepForm>>

(* Departments are deleted on another page, and no program forgets one.    *)
DeleteUnit(u) ==
    /\ u \in units
    /\ units' = units \ {u}
    /\ UNCHANGED <<targets, saved, prog, stepForm, jobs>>

----------------------------------------------------------------------------
(* employee_onboarding_admin.js: opening and closing                       *)

Room == Cardinality(jobs) < MaxJobs

(* The button of a handler is disabled until it ends.                      *)
Enabled(kind) == Room /\ \A j \in jobs : j.kind # kind

switchProgramTab(w, n) ==
    IF w.mode = "create" /\ n > w.unlocked THEN w ELSE [w EXCEPT !.tab = n, !.foot = w.mode]

(* loadDeptsForEO                                                          *)
Selects(w, ids) == [w EXCEPT !.sel = ids]
AsksDepts(j) == [j EXCEPT !.at = "depts", !.units = units]

(* What the dialog holds, once closed, the next one sets anew.             *)
Settled(w, js) == IF w.visible \/ js # {} THEN w ELSE NoDialog

openCreateProgram ==
    /\ ~ prog.visible /\ Room
    /\ prog' = switchProgramTab(Selects([prog EXCEPT
                  !.visible = TRUE, !.mode = "create", !.id = NoProgram, !.stepsOf = NoProgram,
                  !.unlocked = 1, !.tags = {}], {}), 1)
    /\ jobs' = jobs \cup {AsksDepts(Job("create", "depts"))}
    /\ UNCHANGED <<units, targets, saved, stepForm>>

openEditProgram(p) ==
    /\ ~ prog.visible /\ Room /\ p \in saved
    /\ jobs' = jobs \cup {[Job("edit", "detail") EXCEPT !.id = p, !.targets = targets[p]]}
    /\ UNCHANGED <<units, targets, saved, prog, stepForm>>

DetailArrives(j) ==
    /\ j.kind = "edit" /\ j.at = "detail"
    /\ prog' = Selects([prog EXCEPT !.mode = "edit", !.id = j.id, !.stepsOf = j.id], j.targets)
    /\ Moves(j, AsksDepts([j EXCEPT !.id = NoProgram, !.targets = {}]))
    /\ UNCHANGED <<units, targets, saved, stepForm>>

(* The boxes are left as they were when the departments do not come.       *)
UnitsArrive(j) ==
    /\ j.at = "depts"
    /\ jobs' = (jobs \ {j}) \cup IF j.kind = "create" THEN {} ELSE {Job("edit", "lists")}
    /\ \/ prog' = Settled(Redrawn([prog EXCEPT !.depts = j.units]), jobs')
       \/ prog' = Settled([prog EXCEPT !.depts = {}, !.failed = TRUE, !.tags = {}], jobs')
    /\ UNCHANGED <<units, targets, saved, stepForm>>

(* loadContentsAndQuizzesForSelect, whose failure empties the lists.       *)
ListsArriveForEdit(j) ==
    /\ j.kind = "edit" /\ j.at = "lists"
    /\ prog' = [switchProgramTab([prog EXCEPT !.unlocked = 2], 1) EXCEPT !.visible = TRUE]
    /\ jobs' = jobs \ {j}
    /\ UNCHANGED <<units, targets, saved, stepForm>>

(* finishProgramWizard, closeProgramModal                                  *)
closeProgramModal ==
    /\ prog.visible /\ ~ stepForm.open
    /\ prog' = Settled([prog EXCEPT !.visible = FALSE], jobs)
    /\ UNCHANGED <<units, targets, saved, stepForm, jobs>>

(* Once confirmed.                                                         *)
removeProgram(p) ==
    /\ ~ prog.visible /\ p \in saved
    /\ saved' = saved \ {p} /\ targets' = [targets EXCEPT ![p] = {}]
    /\ UNCHANGED <<units, prog, stepForm, jobs>>

----------------------------------------------------------------------------
(* employee_onboarding_admin.js: the fields                                *)

Clicks(w) ==
    /\ prog.visible /\ ~ stepForm.open
    /\ prog' = w
    /\ UNCHANGED <<units, targets, saved, stepForm, jobs>>

openDeptDropdown == prog.tab = 1 /\ Clicks(renderDeptOptions(prog))

onDeptOptionChange(u) ==
    /\ prog.tab = 1 /\ u \in prog.drawn
    /\ LET from == IF eoDeptIsAll(prog) THEN prog.depts ELSE prog.sel IN
       Clicks(Redrawn(Selects(prog, IF u \in prog.boxes THEN from \ {u} ELSE from \cup {u})))

onDeptBulkClick == prog.tab = 1 /\ prog.reset /\ Clicks(Redrawn(Selects(prog, {})))

Untag(u) ==
    prog.tab = 1 /\ u \in prog.tags /\ Clicks(Redrawn(Selects(prog, prog.sel \ {u})))

ClickProgramTab(n) ==
    /\ n # prog.tab
    /\ prog.mode = "create" => n <= prog.unlocked
    /\ Clicks(switchProgramTab(prog, n))

nextProgramTab ==
    /\ prog.visible /\ ~ stepForm.open /\ prog.foot = "create" /\ prog.tab = 1
    /\ Enabled("next")
    /\ jobs' = jobs \cup {[Job("next", "sent") EXCEPT !.targets = Payload(prog)]}
    /\ UNCHANGED <<units, targets, saved, prog, stepForm>>

(* The program of the answer becomes that of the dialog, whichever it is.  *)
ProgramCreated(j) ==
    /\ j.kind = "next"
    /\ \/ /\ j.at = "ok"
          /\ prog' = [prog EXCEPT !.id = j.id]
          /\ Moves(j, [j EXCEPT !.at = "lists"])
       \/ /\ j.at = "lists"
          /\ jobs' = jobs \ {j}
          /\ prog' = Settled(switchProgramTab([prog EXCEPT !.stepsOf = j.id, !.unlocked = 2], 2),
                             jobs')
       \/ /\ j.at = "failed"
          /\ jobs' = jobs \ {j}
          /\ prog' = Settled(prog, jobs')
    /\ UNCHANGED <<units, targets, saved, stepForm>>

saveProgram ==
    /\ prog.visible /\ ~ stepForm.open /\ prog.foot = "edit"
    /\ Enabled("save")
    /\ jobs' = jobs \cup {[Job("save", "sent") EXCEPT !.id = prog.id, !.targets = Payload(prog)]}
    /\ UNCHANGED <<units, targets, saved, prog, stepForm>>

ProgramSaved(j) ==
    /\ j.kind = "save" /\ j.at \in {"ok", "failed"}
    /\ jobs' = jobs \ {j}
    /\ prog' = Settled([prog EXCEPT !.visible = @ /\ j.at = "failed"], jobs')
    /\ UNCHANGED <<units, targets, saved, stepForm>>

----------------------------------------------------------------------------
(* employee_onboarding_admin.js: the steps                                 *)

openCreateStep ==
    /\ prog.visible /\ prog.tab = 2 /\ ~ stepForm.open
    /\ stepForm' = [open |-> TRUE, of |-> NoProgram]
    /\ UNCHANGED <<units, targets, saved, prog, jobs>>

openEditStep ==
    /\ prog.visible /\ prog.tab = 2 /\ ~ stepForm.open /\ prog.stepsOf # NoProgram
    /\ stepForm' = [open |-> TRUE, of |-> prog.stepsOf]
    /\ UNCHANGED <<units, targets, saved, prog, jobs>>

(* A new step goes to state.programId.                                     *)
saveStep ==
    /\ stepForm.open /\ Enabled("step")
    /\ jobs' = jobs \cup {[Job("step", "sent") EXCEPT
                             !.id = IF stepForm.of = NoProgram THEN prog.id ELSE stepForm.of]}
    /\ UNCHANGED <<units, targets, saved, prog, stepForm>>

removeStep ==
    /\ prog.visible /\ prog.tab = 2 /\ ~ stepForm.open /\ prog.stepsOf # NoProgram /\ Room
    /\ jobs' = jobs \cup {[Job("unstep", "sent") EXCEPT !.id = prog.stepsOf]}
    /\ UNCHANGED <<units, targets, saved, prog, stepForm>>

closeStepForm ==
    /\ stepForm.open
    /\ stepForm' = NoForm
    /\ UNCHANGED <<units, targets, saved, prog, jobs>>

(* What is saved closes its dialog, and the steps of state.programId are   *)
(* read again.                                                             *)
StepAnswers(j) ==
    /\ j.kind \in StepKinds
    /\ \/ /\ j.at = "ok"
          /\ stepForm' = IF j.kind = "step" THEN NoForm ELSE stepForm
          /\ IF prog.id \in saved
             THEN Moves(j, [j EXCEPT !.at = "steps", !.id = prog.id]) /\ UNCHANGED prog
             ELSE jobs' = jobs \ {j} /\ prog' = Settled(prog, jobs')
       \/ /\ j.at = "steps"
          /\ jobs' = jobs \ {j}
          /\ prog' = Settled([prog EXCEPT !.stepsOf = j.id], jobs')
          /\ UNCHANGED stepForm
       \/ /\ j.at = "failed"
          /\ jobs' = jobs \ {j}
          /\ prog' = Settled(prog, jobs')
          /\ UNCHANGED stepForm
    /\ UNCHANGED <<units, targets, saved>>

----------------------------------------------------------------------------
ProgramsInit ==
    /\ units = Units
    /\ saved \in SUBSET ProgramIds
    /\ targets \in [ProgramIds -> SUBSET Units]
    /\ \A p \in ProgramIds \ saved : targets[p] = {}
    /\ prog = NoDialog /\ stepForm = NoForm /\ jobs = {}

ProgramsNext ==
    \/ \E j \in jobs : \/ CreateProgram(j) \/ UpdateProgram(j) \/ StepRequest(j)
                       \/ DetailArrives(j) \/ UnitsArrive(j) \/ ListsArriveForEdit(j)
                       \/ ProgramCreated(j) \/ ProgramSaved(j) \/ StepAnswers(j)
    \/ \E p \in ProgramIds : openEditProgram(p) \/ removeProgram(p)
    \/ \E u \in Units : DeleteUnit(u) \/ onDeptOptionChange(u) \/ Untag(u)
    \/ \E n \in 1..2 : ClickProgramTab(n)
    \/ openCreateProgram \/ closeProgramModal
    \/ openDeptDropdown \/ onDeptBulkClick \/ nextProgramTab \/ saveProgram
    \/ openCreateStep \/ openEditStep \/ saveStep \/ removeStep \/ closeStepForm

ProgramsSpec == ProgramsInit /\ [][ProgramsNext]_programVars

----------------------------------------------------------------------------
(* The rows, the dialogs and the handlers have their types.                *)
ProgramsTypeOK ==
    /\ units \subseteq Units /\ saved \subseteq ProgramIds
    /\ targets \in [ProgramIds -> SUBSET Units]
    /\ prog \in [visible : BOOLEAN, mode : {"none", "create", "edit"},
                 id : ProgramIds \cup {NoProgram}, stepsOf : ProgramIds \cup {NoProgram},
                 foot : {"none", "create", "edit"}, tab : 1..2, unlocked : 1..2,
                 depts : SUBSET Units, sel : SUBSET Units, drawn : SUBSET Units,
                 boxes : SUBSET Units, reset : BOOLEAN, tags : SUBSET Units, failed : BOOLEAN]
    /\ stepForm \in [open : BOOLEAN, of : ProgramIds \cup {NoProgram}]
    /\ jobs \subseteq [kind : {"create", "edit", "next", "save", "step", "unstep"},
                       at : {"detail", "depts", "lists", "steps", "sent", "ok", "failed"},
                       id : ProgramIds \cup {NoProgram}, targets : SUBSET Units,
                       units : SUBSET Units]

(* onboarding.py:86: an empty list of targets means every department.  The *)
(* boxes an admin sees ticked are the departments that a save addresses,   *)
(* unless they are being loaded or the page says that it failed to.        *)
SavedIsShown ==
    prog.visible /\ ~ prog.failed /\ (\A j \in jobs : j.at # "depts")
      => prog.boxes = IF Payload(prog) = {} THEN prog.drawn ELSE Payload(prog) \cap prog.drawn

(* employee_onboarding_admin.js:178: an empty or a complete selection      *)
(* means all departments.                                                  *)
AllIsEmptyOrComplete ==
    eoDeptIsAll(prog) => prog.sel = {} \/ prog.depts \subseteq prog.sel

=============================================================================
