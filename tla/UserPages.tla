------------------------------ MODULE UserPages ------------------------------
(***************************************************************************)
(* The pages of a user side by side: a content and its quiz, a program of  *)
(* onboarding, the tickets.  A tab shows one of them at a time, and no two *)
(* of them keep state in common, neither in the page nor in the rows they  *)
(* write: a behaviour is that of the page that is open.                    *)
(***************************************************************************)
EXTENDS Learning, Journey, Tickets

CONSTANT OpenPages   \* the pages behaviours are looked at of

ASSUME UserPagesAssumption == OpenPages \subseteq {"content", "program", "tickets"}

VARIABLE open        \* the page

userVars == <<open, learningVars, journeyVars, ticketVars>>

(* The other pages are as nobody has used them.                            *)
UserInit ==
    /\ open \in OpenPages
    /\ LearningInit /\ JourneyInit /\ TicketsInit
    /\ open # "program" => enrolled = {}
    /\ open # "tickets" => desk.side = "creator"

UserNext ==
    /\ UNCHANGED open
    /\ \/ open = "content" /\ LearningNext /\ UNCHANGED <<journeyVars, ticketVars>>
       \/ open = "program" /\ JourneyNext /\ UNCHANGED <<learningVars, ticketVars>>
       \/ open = "tickets" /\ TicketsNext /\ UNCHANGED <<learningVars, journeyVars>>

UserSpec == UserInit /\ [][UserNext]_userVars

(* Each page, its rows and its requests have their types.                  *)
UserTypeOK == open \in OpenPages /\ LearningTypeOK /\ JourneyTypeOK /\ TicketsTypeOK

=============================================================================
