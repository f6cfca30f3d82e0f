------------------------------ MODULE Journey ------------------------------
(***************************************************************************)
(* A user goes through one onboarding program: the page of the program,    *)
(* assets/js/onboarding_detail.js, and the enrollment that                 *)
(* services/onboarding_service.py keeps for it.  The program is one of     *)
(* employee onboarding, active and visible to the user; an admin may add   *)
(* steps to it and make a step required or optional, but the deletion of a *)
(* step, which takes the rows of it along, is left out.  The steps are     *)
(* those a user completes himself: the status of a document_upload step    *)
(* follows from the documents.                                             *)
(*                                                                         *)
(* Nothing makes an enrollment unique, so a program has as many of them as *)
(* were inserted.  Statuses are kept, the percentage is not.  A GET is     *)
(* answered at once, a POST in the steps of its transactions.              *)
(***************************************************************************)
EXTENDS Naturals, FiniteSets

CONSTANTS Steps, Required, \* the program's steps and those added with is_required
          LateSteps,       \* the steps an admin adds after the beginning
          Revised,         \* those whose is_required an admin changes later
          NoStep,
          ActionSlots      \* bound: requests in flight, whose ids these are

ASSUME JourneyAssumption ==
    Required \subseteq Steps /\ LateSteps \subseteq Steps /\ Revised \subseteq Steps
    /\ NoStep \notin Steps
    /\ IsFiniteSet(ActionSlots)

VARIABLES program,   \* the steps of the program
          required,  \* those with is_required, and those that will be added with it
          progress,  \* progress[e]: the user_step_progress rows of enrollment e
          completed, \* the enrollments with completed_at
          journey,   \* state.detail: the enrollment, the statuses, is_required
          opened,    \* state.openStepId and the buttons of the viewer
          actions    \* POST .../complete and .../skip in flight

records == <<program, required, progress, completed>>
journeyVars == <<records, journey, opened, actions>>

(* A request creates one at most, and none when there is one.              *)
Enrollments == 1..(Cardinality(ActionSlots) + 1)
NotEnrolled == 0

(* The status of a step without a row is "none".                           *)
Statuses == {"none", "not_started", "completed", "skipped"}
NoRows == [s \in Steps |-> "none"]

enrolled == {e \in Enrollments : progress[e] # NoRows}
Rows(s) == {e \in enrolled : progress[e][s] # "none"}

FreeActions == ActionSlots \ {a.id : a \in actions}

(* What has been done, or refused, and is on its way to the page.          *)
Ended == {"answering", "ok", "error", "not found"}

Nobody == [step |-> NoStep, complete |-> FALSE, skip |-> FALSE]
NoJourney == [enrollment |-> NotEnrolled, shown |-> NoRows, is_required |-> {}]

----------------------------------------------------------------------------
(* onboarding_service.py                                                   *)

AddStep ==
    /\ \E s \in LateSteps \ program : program' = program \cup {s}
    /\ UNCHANGED <<required, progress, completed, journey, opened, actions>>

(* update_step, which looks at no enrollment.                              *)
UpdateStep(s) ==
    /\ s \in program \cap Revised
    /\ required' = IF s \in required THEN required \ {s} ELSE required \cup {s}
    /\ UNCHANGED <<program, progress, completed, journey, opened, actions>>

(* get_my_enrollment_detail and get_program_preview_for_user: every step   *)
(* of the program, one without a row as not started.                       *)
Detail(e) == [enrollment |-> e,
              shown |-> [s \in Steps |-> IF s \notin program THEN "none"
                                         ELSE IF e = NotEnrolled \/ progress[e][s] = "none"
                                              THEN "not_started" ELSE progress[e][s]],
              is_required |-> required \cap program]

Becomes(a, b) == actions' = (actions \ {a}) \cup {b}
Fails(a, why) == Becomes(a, [a EXCEPT !.st = why])

(* ensure_step_progress_for_user: a row of the user is taken, two of them  *)
(* are an error; without one, enroll_user looks for the enrollment.        *)
Find(a) ==
    /\ a \in actions /\ a.st = "sent"
    /\ \/ \E e \in Enrollments : Rows(a.step) = {e}
                                 /\ Becomes(a, [a EXCEPT !.st = "found", !.enrollment = e,
                                                         !.old = progress[e][a.step]])
       \/ Cardinality(Rows(a.step)) > 1 /\ Fails(a, "error")
       \/ Rows(a.step) = {} /\ enrolled = {} /\ Becomes(a, [a EXCEPT !.st = "enrolling"])
       \/ Rows(a.step) = {} /\ Cardinality(enrolled) = 1 /\ Fails(a, "not found")
       \/ Rows(a.step) = {} /\ Cardinality(enrolled) > 1 /\ Fails(a, "error")
    /\ UNCHANGED <<records, journey, opened>>

(* enroll_user inserts the enrollment and a row for every step there is,   *)
(* and the step is looked for again, by Find.                              *)
Enroll(a) ==
    /\ a \in actions /\ a.st = "enrolling"
    /\ \E e \in Enrollments \ enrolled :
          /\ \A f \in Enrollments \ enrolled : e <= f
          /\ progress' = [progress EXCEPT ![e] = [s \in Steps |-> IF s \in program THEN "not_started"
                                                                  ELSE "none"]]
    /\ Becomes(a, [a EXCEPT !.st = "sent"])
    /\ UNCHANGED <<program, required, completed, journey, opened>>

(* As many steps done as there are required ones.                          *)
AsManyAsRequired(need, rows) ==
    Cardinality({s \in Steps : rows[s] \in {"completed", "skipped"}}) >= Cardinality(need)

AllRequired(need, rows) == \A s \in need : rows[s] = "completed"

(* set_step_status, which reads the step again.                            *)
SetStatus(a) ==
    /\ a \in actions /\ a.st = "found"
    /\ IF a.to = "skipped" /\ a.step \in required
       THEN Fails(a, "error") ELSE Becomes(a, [a EXCEPT !.st = "set"])
    /\ UNCHANGED <<records, journey, opened>>

(* _recalculate_enrollment_progress reads the enrollment and the steps,    *)
ListSteps(a) ==
    /\ a \in actions /\ a.st = "set"
    /\ Becomes(a, [a EXCEPT !.st = "listed", !.was = a.enrollment \in completed,
                            !.need = required \cap program])
    /\ UNCHANGED <<records, journey, opened>>

(* and then the statuses: are the required steps completed?  Those of the  *)
(* other steps are of the transactions that have committed.                *)
Recalculate(a) ==
    /\ a \in actions /\ a.st = "listed"
    /\ Becomes(a, [a EXCEPT !.st = "counted", !.need = {},
              !.all = AllRequired(a.need, [progress[a.enrollment] EXCEPT ![a.step] = a.to])])
    /\ UNCHANGED <<records, journey, opened>>

(* Only what differs from the row as it was loaded is written.  A request  *)
(* that nobody hears of any more ends here.                                *)
Commit(a) ==
    /\ a \in actions /\ a.st = "counted"
    /\ progress' = IF a.to = a.old THEN progress
                   ELSE [progress EXCEPT ![a.enrollment][a.step] = a.to]
    /\ completed' = IF a.all = a.was THEN completed
                    ELSE IF a.all THEN completed \cup {a.enrollment}
                    ELSE completed \ {a.enrollment}
    /\ IF a.heard
       THEN Becomes(a, [a EXCEPT !.st = "answering", !.old = "none", !.was = FALSE, !.all = FALSE])
       ELSE actions' = actions \ {a}
    /\ UNCHANGED <<program, required, journey, opened>>

(* The detail of the answer is read after the commit.                      *)
Answer(a) ==
    /\ a \in actions /\ a.st = "answering"
    /\ Becomes(a, [a EXCEPT !.st = "ok", !.enrollment = NotEnrolled,
                            !.detail = Detail(a.enrollment)])
    /\ UNCHANGED <<records, journey, opened>>

----------------------------------------------------------------------------
(* onboarding_detail.js                                                    *)

(* load by the id of an enrollment or, from the list of programs, by that  *)
(* of the program.  Nobody hears the answers to the page before it, but    *)
(* what it has requested goes on.                                          *)
LoadJourney ==
    /\ \E e \in enrolled \cup {NotEnrolled} : journey' = Detail(e)
    /\ opened' = Nobody
    /\ actions' = {[a EXCEPT !.heard = FALSE] : a \in {b \in actions : b.st \notin Ended}}
    /\ UNCHANGED records

(* openStep and the buttons of completeSkipBtnsHtml.                       *)
OpenStep(s) ==
    /\ opened = Nobody /\ journey.shown[s] # "none"
    /\ opened' = [step |-> s, complete |-> journey.shown[s] # "completed",
                  skip |-> s \notin journey.is_required /\ journey.shown[s] = "not_started"]
    /\ UNCHANGED <<records, journey, actions>>

(* The buttons stay enabled while a request is in flight.                  *)
Request(to) ==
    /\ \E n \in FreeActions :
          actions' = actions \cup
              {[id |-> n, step |-> opened.step, to |-> to, st |-> "sent", heard |-> TRUE,
                enrollment |-> NotEnrolled, old |-> "none", need |-> {}, was |-> FALSE,
                all |-> FALSE, detail |-> NoJourney]}
    /\ UNCHANGED <<records, journey, opened>>

(* The step marked on the page before the answer.                          *)
completeStepOptimistic ==
    /\ opened.complete
    /\ \E n \in FreeActions :
          actions' = actions \cup
              {[id |-> n, step |-> opened.step, to |-> "completed", st |-> "sent", heard |-> TRUE,
                enrollment |-> NotEnrolled, old |-> "none", need |-> {}, was |-> FALSE,
                all |-> FALSE, detail |-> NoJourney]}
    /\ journey' = [journey EXCEPT !.shown[opened.step] = "completed"]
    /\ UNCHANGED <<records, opened>>

completeStep == opened.complete /\ Request("completed")
skipStep == opened.skip /\ Request("skipped")

(* The detail of the answer replaces the page's, syncEnrollment its        *)
(* enrollment; the viewer of the step closes.                              *)
StepAnswered(a) ==
    /\ a \in actions
    /\ \/ /\ a.st = "ok"
          /\ journey' = a.detail
          /\ opened' = IF opened.step = a.step THEN Nobody ELSE opened
       \/ /\ a.st \in {"error", "not found"}
          /\ UNCHANGED <<journey, opened>>
    /\ actions' = actions \ {a}
    /\ UNCHANGED records

CloseStep ==
    /\ opened # Nobody
    /\ opened' = Nobody
    /\ UNCHANGED <<records, journey, actions>>

----------------------------------------------------------------------------
(* The user has been enrolled with the steps of the beginning, as a new    *)
(* employee is, or has not.                                                *)
JourneyInit ==
    /\ program = Steps \ LateSteps /\ required = Required
    /\ \E first \in {NoRows, [s \in Steps |-> IF s \in LateSteps THEN "none" ELSE "not_started"]} :
          progress = [e \in Enrollments |-> IF e = 1 THEN first ELSE NoRows]
    /\ completed = {}
    /\ journey = NoJourney /\ opened = Nobody /\ actions = {}

JourneyNext ==
    \/ AddStep \/ LoadJourney \/ CloseStep \/ completeStep \/ skipStep
    \/ \E s \in Steps : OpenStep(s) \/ UpdateStep(s)
    \/ \E a \in actions : \/ Find(a) \/ Enroll(a) \/ SetStatus(a) \/ ListSteps(a)
                          \/ Recalculate(a) \/ Commit(a) \/ Answer(a) \/ StepAnswered(a)

JourneySpec == JourneyInit /\ [][JourneyNext]_journeyVars

----------------------------------------------------------------------------
Journeys == [enrollment : Enrollments \cup {NotEnrolled}, shown : [Steps -> Statuses],
             is_required : SUBSET Steps]

Actions == [id : ActionSlots, step : Steps, to : {"completed", "skipped"},
            st : {"sent", "enrolling", "found", "set", "listed", "counted", "answering",
                  "ok", "error", "not found"},
            heard : BOOLEAN, enrollment : Enrollments \cup {NotEnrolled}, old : Statuses,
            need : SUBSET Steps, was : BOOLEAN, all : BOOLEAN, detail : Journeys]

(* The rows, the page and its requests have their types.                   *)
JourneyTypeOK ==
    /\ program \subseteq Steps /\ required \subseteq Steps
    /\ progress \in [Enrollments -> [Steps -> Statuses]]
    /\ completed \subseteq Enrollments
    /\ journey \in Journeys
    /\ opened \in [step : Steps \cup {NoStep}, complete : BOOLEAN, skip : BOOLEAN]
    /\ actions \subseteq Actions

(* onboarding_service.py:1079: an enrollment is completed, and the gate of *)
(* a mandatory one open, only while all its required steps are completed;  *)
(* one added to the program later has no row in it.                        *)
CompletedMeansRequired ==
    \A e \in completed : \A s \in required \cap program : progress[e][s] \in {"completed", "none"}

(* Those whose is_required no admin changes: as Revised is any set, those  *)
(* that happen to stay required from the beginning of a behaviour.         *)
StaysRequired == Required \ Revised

(* onboarding_service.py:7-10: an enrollment is completed only when every  *)
(* step that stays required and has a row in it is completed, although the *)
(* statuses were read before other transactions committed theirs, the      *)
(* result is written after, and other steps become required or optional    *)
(* meanwhile.                                                              *)
CompletedMeansDone ==
    \A e \in completed : \A s \in StaysRequired : progress[e][s] \in {"completed", "none"}

(* The page shows such a step as completed only when it is so in the       *)
(* enrollment the page is of, in whatever order the answers arrive.        *)
ShownIsDone ==
    \A s \in StaysRequired : journey.shown[s] = "completed"
        => journey.enrollment \in Enrollments /\ progress[journey.enrollment][s] = "completed"

(* onboarding_service.py:595: enroll_user is "idempotent": a user has at   *)
(* most one enrollment in a program.                                       *)
OneEnrollment == Cardinality(enrolled) <= 1

(* onboarding_service.py:954-955: a step is not found when it does not     *)
(* exist or its program is not for the user.                               *)
NotFoundMeansNoStep == \A a \in actions : a.st = "not found" => a.step \notin program

=============================================================================
