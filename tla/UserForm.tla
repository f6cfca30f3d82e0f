------------------------------ MODULE UserForm ------------------------------
(***************************************************************************)
(* The users as a super_admin creates, edits and imports them in           *)
(* assets/js/users.js, over routers/users.py and services/user_service.py. *)
(*                                                                         *)
(* A department and a position are chosen from lists that are asked for    *)
(* and drawn together, and matter for the organisation they are of: one    *)
(* place stands for both, and is that organisation.  The manager, who is   *)
(* chosen with them but may move to another organisation later, and the    *)
(* path of a new employee are left out.  Other administrators, and clients *)
(* of the API, change users meanwhile with requests that need not name     *)
(* every field.                                                            *)
(*                                                                         *)
(* As in ContentItems a GET is answered when it is sent.  An update reads  *)
(* the row and checks the request, and writes later; a user is created,    *)
(* and an import made, in one step.                                        *)
(***************************************************************************)
EXTENDS Naturals, FiniteSets

CONSTANTS Employers, NoEmployer, \* organisations; none
          Unsent,                \* a field the body of a request does not have
          UserIds, NoUser,
          MaxErrands             \* bound: handlers that wait for an answer

Employer == Employers \cup {NoEmployer}

(* org is none for a general user.                                         *)
UserRow == [org : Employer, place : Employer]

ASSUME UserFormAssumption ==
    /\ NoEmployer \notin Employers /\ NoUser \notin UserIds \cup UserRow
    /\ Unsent \notin Employer
    /\ MaxErrands \in Nat

VARIABLES users,     \* the rows
          userForm,  \* the dialog
          errands    \* handlers that wait

userFormVars == <<users, userForm, errands>>

(* org, place and general are the fields un-org, un-dept with un-position, *)
(* and un-general-user; places: whose lists the selects show.              *)
BlankUser == [shown |-> FALSE, id |-> NoUser, general |-> FALSE, org |-> NoEmployer,
              place |-> NoEmployer, places |-> NoEmployer]

Present == {u \in UserIds : users[u] # NoUser}

(* A closed dialog keeps its selects; the rest of it is filled anew before *)
(* the lists are asked for that it opens with.                             *)
FormBecomes(form, waiting) ==
    /\ errands' = waiting
    /\ userForm' = IF ~ form.shown /\ \A e \in waiting : e.kind = "lists" => e.then = "nothing"
                   THEN [BlankUser EXCEPT !.place = form.place, !.places = form.places]
                   ELSE form

MayWait == Cardinality(errands) < MaxErrands

----------------------------------------------------------------------------
(* users.py, user_service.py and user_excel_service.py                     *)

(* was is the row an update has read, no user before it has.               *)
Errand(kind, id, org, place) ==
    [kind |-> kind, then |-> "nothing", id |-> id, org |-> org, place |-> place, was |-> NoUser]

(* An id is not given to another user while somebody means the former one. *)
FreshIds == {u \in UserIds \ Present : u # userForm.id /\ \A e \in errands : e.id # u}

(* _validate_org_refs: those of the body are of the organisation it puts   *)
(* the user in, or the user is of so far; none for a general user.         *)
RefsAllowed(e) ==
    LET target == IF e.org = Unsent THEN users[e.id].org ELSE e.org IN
    e.place \in {target, NoEmployer, Unsent}

(* create_user                                                             *)
CreatesUser(e) ==
    /\ e.id = NoUser /\ RefsAllowed(e)
    /\ \E u \in FreshIds : users' = [users EXCEPT ![u] = [org |-> e.org, place |-> e.place]]

(* update_user, first half                                                 *)
ReadsUser(e) ==
    /\ e.kind \in {"save", "patch"} /\ e.id \in Present /\ e.was = NoUser
    /\ RefsAllowed(e)
    /\ errands' = (errands \ {e}) \cup {[e EXCEPT !.was = users[e.id]]}
    /\ UNCHANGED <<users, userForm>>

(* A commit writes the columns that are not as they were read.             *)
Column(was, sent, now) == IF sent \in {was, Unsent} THEN now ELSE sent

(* One who becomes a general user loses his place.  Another department of  *)
(* the same organisation is a change of the column all the same.           *)
PlacesWritten(e) ==
    LET sent == IF e.org = NoEmployer THEN NoEmployer ELSE e.place IN
    {Column(e.was.place, sent, users[e.id].place)} \cup ({sent} \cap Employers)

(* update_user, second half                                                *)
UpdatesUser(e) ==
    /\ e.id \in Present /\ e.was # NoUser
    /\ \E place \in PlacesWritten(e) :
          users' = [users EXCEPT ![e.id] = [org |-> Column(e.was.org, e.org, @.org),
                                            place |-> place]]

(* import_users_from_excel: a row creates a user of the organisation or    *)
(* updates one of it; places are looked up by name among its own.          *)
ImportsUser(o) ==
    \E u \in Present \cup FreshIds, place \in {o, NoEmployer} :
        /\ u \in Present => users[u].org = o
        /\ users' = [users EXCEPT ![u] = [org |-> o, place |-> place]]

----------------------------------------------------------------------------
(* users.js: opening the dialog                                            *)

(* populateDeptPositionSelects asks for the lists of org; place is the one *)
(* to select in them.                                                      *)
PlaceLists(id, org, place, then) ==
    [Errand("lists", id, org, place) EXCEPT !.then = then]

Opened(form) == [form EXCEPT !.shown = TRUE]

(* The organisations have been loaded with the page; the first of them is  *)
(* the one chosen.                                                         *)
OpenCreateUser ==
    /\ ~ userForm.shown /\ MayWait
    /\ \E first \in Employers :
          FormBecomes([userForm EXCEPT !.id = NoUser, !.general = FALSE, !.org = first],
                      errands \cup {PlaceLists(NoUser, first, NoEmployer, "open")})
    /\ UNCHANGED users

OpenEditUser(u) ==
    /\ ~ userForm.shown /\ MayWait /\ u \in Present
    /\ FormBecomes(userForm, errands \cup
          {Errand("user", u, users[u].org, users[u].place)})
    /\ UNCHANGED users

(* The answer fills the fields; a general user has no lists to wait for.   *)
UserArrives(e) ==
    /\ e.kind = "user"
    /\ \/ /\ e.org # NoEmployer
          /\ FormBecomes([userForm EXCEPT !.id = e.id, !.general = FALSE, !.org = e.org],
                         (errands \ {e}) \cup {PlaceLists(e.id, e.org, e.place, "open")})
       \/ /\ e.org = NoEmployer
          /\ \E first \in Employers :
               FormBecomes(Opened([userForm EXCEPT !.id = e.id, !.general = TRUE, !.org = first]),
                           errands \ {e})
       \/ FormBecomes(userForm, errands \ {e})
    /\ UNCHANGED users

(* The lists are drawn whichever user and organisation the form is of by   *)
(* now; without them the selects are empty.                                *)
PlaceListsArrive(e) ==
    /\ e.kind = "lists"
    /\ \E found \in {e.org, NoEmployer} :
          LET form == [userForm EXCEPT !.places = found,
                         !.place = IF e.place = found THEN found ELSE NoEmployer] IN
          FormBecomes(IF e.then = "open" THEN Opened(form) ELSE form, errands \ {e})
    /\ UNCHANGED users

----------------------------------------------------------------------------
(* users.js: the dialog                                                    *)

(* A general user has no place; one that is no longer general is given the *)
(* lists of the organisation chosen.                                       *)
onGeneralUserToggle ==
    /\ userForm.shown
    /\ IF userForm.general
       THEN MayWait /\ FormBecomes([userForm EXCEPT !.general = FALSE],
               errands \cup {PlaceLists(NoUser, userForm.org, NoEmployer, "nothing")})
       ELSE FormBecomes([userForm EXCEPT !.general = TRUE, !.place = NoEmployer], errands)
    /\ UNCHANGED users

(* un-org.onchange: the lists drawn so far stay until the others come.     *)
ChangeOrg(o) ==
    /\ userForm.shown /\ ~ userForm.general /\ o # userForm.org /\ MayWait
    /\ FormBecomes([userForm EXCEPT !.org = o],
                   errands \cup {PlaceLists(NoUser, o, NoEmployer, "nothing")})
    /\ UNCHANGED users

ChoosePlace ==
    /\ userForm.shown /\ ~ userForm.general
    /\ \E place \in {userForm.places, NoEmployer} :
          FormBecomes([userForm EXCEPT !.place = place], errands)
    /\ UNCHANGED users

CloseUserForm ==
    /\ userForm.shown
    /\ FormBecomes([userForm EXCEPT !.shown = FALSE], errands)
    /\ UNCHANGED users

(* save; its button is disabled until the answer.                          *)
SaveUser ==
    /\ userForm.shown /\ MayWait
    /\ \A e \in errands : e.kind # "save"
    /\ LET f == userForm IN
       FormBecomes(f, errands \cup
          {Errand("save", f.id, IF f.general THEN NoEmployer ELSE f.org,
                  IF f.general THEN NoEmployer ELSE f.place)})
    /\ UNCHANGED users

(* Success closes the dialog that is open by then.                         *)
UserSaved(e) ==
    /\ e.kind = "save"
    /\ \/ /\ CreatesUser(e) \/ UpdatesUser(e)
          /\ FormBecomes([userForm EXCEPT !.shown = FALSE], errands \ {e})
       \/ FormBecomes(userForm, errands \ {e}) /\ UNCHANGED users

(* The request of someone else, whose page may be that of an org_admin,    *)
(* which names no organisation, or no page at all.                         *)
PatchUser(u) ==
    /\ u \in Present /\ MayWait
    /\ \E org, place \in Employer \cup {Unsent} :
          errands' = errands \cup {Errand("patch", u, org, place)}
    /\ UNCHANGED <<users, userForm>>

UserPatched(e) ==
    /\ e.kind = "patch"
    /\ UpdatesUser(e) \/ UNCHANGED users
    /\ errands' = errands \ {e}
    /\ UNCHANGED userForm

(* remove, once confirmed, here or on the page of someone else.            *)
RemoveUser(u) ==
    /\ u \in Present
    /\ users' = [users EXCEPT ![u] = NoUser]
    /\ UNCHANGED <<userForm, errands>>

(* submitImport: a dialog of its own, which nothing of this one waits for. *)
ImportUsers(o) == ImportsUser(o) /\ UNCHANGED <<userForm, errands>>

----------------------------------------------------------------------------
NoUsers == [u \in UserIds |-> NoUser]

UserFormInit == users = NoUsers /\ userForm = BlankUser /\ errands = {}

UserFormNext ==
    \/ \E e \in errands : \/ UserArrives(e) \/ PlaceListsArrive(e)
                          \/ ReadsUser(e) \/ UserSaved(e) \/ UserPatched(e)
    \/ \E u \in UserIds : OpenEditUser(u) \/ PatchUser(u) \/ RemoveUser(u)
    \/ \E o \in Employers : ChangeOrg(o) \/ ImportUsers(o)
    \/ OpenCreateUser \/ CloseUserForm \/ SaveUser \/ onGeneralUserToggle \/ ChoosePlace

UserFormSpec == UserFormInit /\ [][UserFormNext]_userFormVars

----------------------------------------------------------------------------
(* The rows, the dialog and the handlers have their types.                 *)
UserFormTypeOK ==
    /\ users \in [UserIds -> UserRow \cup {NoUser}]
    /\ userForm \in [shown : BOOLEAN, id : UserIds \cup {NoUser}, general : BOOLEAN,
                     org : Employer, place : Employer, places : Employer]
    /\ errands \subseteq [kind : {"user", "lists", "save", "patch"}, then : {"open", "nothing"},
                          id : UserIds \cup {NoUser}, org : Employer \cup {Unsent},
                          place : Employer \cup {Unsent}, was : UserRow \cup {NoUser}]

(* routers/users.py:103-107: no user is tied to a department or a position *)
(* of another organisation; a general user has none.                       *)
PlaceInOrg == \A u \in Present : users[u].place \in {users[u].org, NoEmployer}

=============================================================================
