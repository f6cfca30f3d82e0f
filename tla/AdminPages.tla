------------------------------ MODULE AdminPages -----------------------------
(***************************************************************************)
(* The pages of an administrator side by side: the form of a content and   *)
(* its items, the programs of onboarding and the catalogue of documents,   *)
(* the grants of tickets, the users.  As in UserPages, a tab shows one of  *)
(* them at a time and no two of them keep state in common.                 *)
(***************************************************************************)
EXTENDS ContentForm, ContentItems, Programs, TicketGrants, DocTypes, UserForm

CONSTANT OpenPages   \* the pages behaviours are looked at of

ASSUME AdminPagesAssumption ==
    OpenPages \subseteq {"contents", "items", "programs", "catalogue", "grants", "users"}

VARIABLE open        \* the page

adminVars == <<open, contentVars, itemVars, programVars, grantVars, docVars, userFormVars>>

(* The other pages are as nobody has used them.                            *)
AdminInit ==
    /\ open \in OpenPages
    /\ ContentInit /\ ItemsInit /\ ProgramsInit /\ GrantsInit /\ DocTypesInit
    /\ UserFormInit
    /\ open # "contents" => Existing = {}
    /\ open # "items" => items = NoList
    /\ open # "programs" => saved = {}
    /\ open # "grants" => belongs = [m \in Members |-> Unset]

AdminNext ==
    /\ UNCHANGED open
    /\ \/ /\ open = "contents" /\ ContentNext
          /\ UNCHANGED <<itemVars, programVars, grantVars, docVars, userFormVars>>
       \/ /\ open = "items" /\ ItemsNext
          /\ UNCHANGED <<contentVars, programVars, grantVars, docVars, userFormVars>>
       \/ /\ open = "programs" /\ ProgramsNext
          /\ UNCHANGED <<contentVars, itemVars, grantVars, docVars, userFormVars>>
       \/ /\ open = "grants" /\ GrantsNext
          /\ UNCHANGED <<contentVars, itemVars, programVars, docVars, userFormVars>>
       \/ /\ open = "catalogue" /\ DocTypesNext
          /\ UNCHANGED <<contentVars, itemVars, programVars, grantVars, userFormVars>>
       \/ /\ open = "users" /\ UserFormNext
          /\ UNCHANGED <<contentVars, itemVars, programVars, grantVars, docVars>>

AdminSpec == AdminInit /\ [][AdminNext]_adminVars

----------------------------------------------------------------------------
(* Each page, its rows and its requests have their types.                  *)
AdminTypeOK ==
    /\ open \in OpenPages
    /\ ContentTypeOK /\ ItemsTypeOK /\ ProgramsTypeOK /\ GrantsTypeOK /\ DocTypesTypeOK
    /\ UserFormTypeOK

=============================================================================
