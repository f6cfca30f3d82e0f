---------------------------- MODULE ContentForm ----------------------------
(***************************************************************************)
(* The form of a content, assets/js/content.js, as a super_admin uses it   *)
(* to create a content in three tabs or to edit one, and the writes of     *)
(* services/content_service.py behind it.                                  *)
(*                                                                         *)
(* A department, a position, a user and a category matter here only for    *)
(* the organisation they are of: a set of targets, or of categories, is    *)
(* the set of their owners; the public categories, which every content may *)
(* have, are left out.  The handlers of the page wait several times; what  *)
(* is left of one is a task, and other clicks come between its steps.      *)
(***************************************************************************)
EXTENDS Naturals, FiniteSets

CONSTANTS ContentIds, Firms, \* contents and organisations
          Public,            \* owner of the public contents
          Nil,               \* no id, no organisation, no row
          FirstRows,         \* the contents there are at first
          MaxTasks           \* bound: dialogs asked for with something in flight

Owners == Firms \cup {Public}

Row == [owner : Owners, targets : SUBSET Firms, categories : SUBSET Firms]

ASSUME ContentFormAssumption ==
    /\ Public \notin Firms /\ Nil \notin Owners \cup ContentIds \cup Row
    /\ FirstRows \subseteq [ContentIds -> Row \cup {Nil}] /\ MaxTasks \in Nat
    /\ \A rows \in FirstRows, c \in ContentIds : rows[c] # Nil =>
          rows[c].targets \cup rows[c].categories \subseteq {rows[c].owner}

VARIABLES contents,    \* the rows of contents, their targets and categories
          wizard,      \* the dialog and the part of state it uses
          tasks,       \* handlers that wait for a GET
          writes,      \* the requests of the buttons Next and Save
          orgsLoaded   \* state.orgsLoaded

contentVars == <<contents, wizard, tasks, writes, orgsLoaded>>

Tabs3 == 1..3      \* basic, access, items

(* mode, id, unlocked and searchOrg are state.mode, contentId,             *)
(* maxUnlockedTab and targetOrgId; foot is the mode the footer was drawn   *)
(* for, reach the last tab whose button is enabled; org, public and fixed  *)
(* are the fields c-org-id and c-is-public and whether they are disabled;  *)
(* section: the targeting is not hidden.  boxes, found and offered are the *)
(* organisations whose departments and positions, users, categories are    *)
(* drawn to be ticked.                                                     *)
Blank == [visible |-> FALSE, mode |-> "none", id |-> Nil, foot |-> "none",
          tab |-> 1, unlocked |-> 1, reach |-> 1,
          org |-> Nil, public |-> FALSE, fixed |-> FALSE,
          section |-> TRUE, searchOrg |-> Nil, targets |-> {}, categories |-> {},
          boxes |-> Nil, found |-> Nil, offered |-> Nil]

(* resetTargetSelections                                                   *)
Unticked(w) == [w EXCEPT !.targets = {}, !.categories = {}, !.found = Nil]

Existing == {c \in ContentIds : contents[c] # Nil}

----------------------------------------------------------------------------
(* content_service.py                                                      *)

(* The targets of any organisation.                                        *)
AnyTargetsAllowed(row, targets) == row.owner = Public => targets = {}

(* _validate_targets: each target is of the organisation of the content.   *)
TargetsAllowed(row, targets) == targets \subseteq {row.owner}

(* _validate_category_ids_for_org                                          *)
CategoriesAllowed(row, cats) == cats \subseteq {row.owner}

(* What a request has written, or failed to, it no longer holds.           *)
Becomes(w, st, cats) ==
    writes' = (writes \ {w}) \cup {[w EXCEPT !.st = st, !.targets = {}, !.categories = cats]}

Fails(w) == Becomes(w, "failed", {})

(* create_content, in one transaction.                                     *)
CreateContent(w) ==
    /\ w \in writes /\ w.kind = "create" /\ w.st = "sent"
    /\ LET row == [owner |-> w.owner, targets |-> {}, categories |-> w.categories] IN
       IF CategoriesAllowed(row, w.categories)
       THEN \E c \in ContentIds \ Existing :
              /\ contents' = [contents EXCEPT ![c] = row]
              /\ writes' = (writes \ {w}) \cup {[w EXCEPT !.st = "ok", !.id = c, !.categories = {}]}
       ELSE Fails(w) /\ UNCHANGED contents
    /\ UNCHANGED <<wizard, tasks, orgsLoaded>>

(* update_content commits its fields, then replace_targets commits, then   *)
(* the categories: an error in the middle leaves the rest as it was.       *)
ReplaceTargets(w) ==
    /\ w \in writes /\ w.kind = "update" /\ w.st = "sent"
    /\ IF w.id \in Existing /\ TargetsAllowed(contents[w.id], w.targets)
       THEN Becomes(w, "targets", w.categories) /\ contents' = [contents EXCEPT ![w.id].targets = w.targets]
       ELSE Fails(w) /\ UNCHANGED contents
    /\ UNCHANGED <<wizard, tasks, orgsLoaded>>

ReplaceCategories(w) ==
    /\ w \in writes /\ w.st = "targets"
    /\ IF w.id \in Existing /\ CategoriesAllowed(contents[w.id], w.categories)
       THEN Becomes(w, "ok", {}) /\ contents' = [contents EXCEPT ![w.id].categories = w.categories]
       ELSE Fails(w) /\ UNCHANGED contents
    /\ UNCHANGED <<wizard, tasks, orgsLoaded>>

----------------------------------------------------------------------------
(* content.js: opening and closing the dialog                              *)

(* Bound: a handler of the dialog starts when nothing else is under way,   *)
(* the opening of one also next to what is.                                *)
Idle == tasks = {} /\ writes = {}
MayOpen == ~ wizard.visible /\ Cardinality(tasks) + Cardinality(writes) < MaxTasks

Task(at, then, owner) == [at |-> at, then |-> then, owner |-> owner, id |-> Nil, row |-> Nil]

(* The form becomes w; what is set anew before a closed one is seen again  *)
(* is dropped: its tabs and categories, all of it when nothing is under    *)
(* way.                                                                    *)
SetForm(w) ==
    wizard' = IF w.visible THEN w
              ELSE IF tasks' = {} /\ writes' = {} THEN Blank
              ELSE [w EXCEPT !.tab = 1, !.foot = "none", !.unlocked = 1, !.reach = 1,
                             !.offered = Nil]

Continue(w, t, at) ==
    wizard' = w /\ tasks' = (tasks \ {t}) \cup {[t EXCEPT !.at = at]}

EndTask(w, t) == tasks' = tasks \ {t} /\ SetForm(w)

(* switchTab                                                               *)
SwitchTab(w, n) ==
    IF w.mode = "create" /\ n > w.unlocked THEN w
    ELSE [w EXCEPT !.tab = n, !.foot = w.mode]

setTabsUnlocked(w, n) ==
    [w EXCEPT !.unlocked = n, !.reach = IF w.mode = "create" THEN n ELSE 3]

(* What openCreate and openEdit do once the organisations are loaded.  A   *)
(* public content has no lists to wait for.                                *)
Filled(w, t) ==
    IF t.then = "create" THEN [w EXCEPT !.org = Nil, !.searchOrg = Nil, !.boxes = Nil]
    ELSE IF t.owner = Public THEN [w EXCEPT !.targets = @ \cup t.row.targets,
                                            !.categories = t.row.categories]
    ELSE [w EXCEPT !.targets = @ \cup t.row.targets, !.org = t.owner, !.fixed = TRUE]

FillForm(w, t) == Continue(Filled(w, t), t, IF t.owner = Public THEN "categories" ELSE "lists")

(* ensureOrgsLoaded asks only once; the form of a public content does not. *)
AwaitOrgs(w, t) ==
    IF orgsLoaded \/ (t.then = "edit" /\ t.owner = Public) THEN FillForm(w, t)
    ELSE Continue(w, t, "orgs")

OpenCreate ==
    /\ MayOpen
    /\ AwaitOrgs([Unticked(wizard) EXCEPT !.mode = "create", !.id = Nil, !.section = TRUE,
                                          !.public = FALSE, !.fixed = FALSE],
                 Task("orgs", "create", Public))
    /\ UNCHANGED <<contents, writes, orgsLoaded>>

OpenEdit(c) ==
    /\ MayOpen /\ c \in Existing
    /\ tasks' = tasks \cup {[Task("content", "edit", contents[c].owner)
                               EXCEPT !.id = c, !.row = contents[c]]}
    /\ UNCHANGED <<contents, wizard, writes, orgsLoaded>>

ContentArrives(t) ==
    /\ t \in tasks /\ t.at = "content" /\ UNCHANGED writes
    /\ \/ AwaitOrgs([Unticked(wizard) EXCEPT !.mode = "edit", !.id = t.id,
                       !.section = t.owner # Public,
                       !.searchOrg = IF t.owner = Public THEN Nil ELSE t.owner], t)
       \/ EndTask(wizard, t)
    /\ UNCHANGED <<contents, orgsLoaded>>

(* The organisations arrive.                                               *)
OrgsArrive(t) ==
    /\ t \in tasks /\ t.at = "orgs"
    /\ orgsLoaded' = TRUE
    /\ FillForm(wizard, t)
    /\ UNCHANGED <<contents, writes>>

(* loadTargetingLists                                                      *)
ListsArrive(t) ==
    /\ t \in tasks /\ t.at = "lists" /\ UNCHANGED writes
    /\ \E found \in {t.owner, Nil} :
          LET w == [wizard EXCEPT !.boxes = found] IN
          IF t.then = "nothing" THEN EndTask(w, t)
          ELSE Continue(IF t.then = "edit" THEN [w EXCEPT !.categories = t.row.categories] ELSE w,
                        t, "categories")
    /\ UNCHANGED <<contents, orgsLoaded>>

(* loadCategoryOptions, the last wait of every handler; openCreate and     *)
(* openEdit then show the dialog at its first tab.                         *)
CategoriesArrive(t) ==
    /\ t \in tasks /\ t.at = "categories" /\ UNCHANGED writes
    /\ \E found \in {t.owner, Nil} \ {Public} :
          LET w == [wizard EXCEPT !.offered = found] IN
          EndTask(CASE t.then = "create" ->
                         [SwitchTab(setTabsUnlocked(w, 1), 1) EXCEPT !.visible = TRUE]
                    [] t.then = "edit" ->
                         [SwitchTab(setTabsUnlocked(w, 3), 1) EXCEPT !.visible = TRUE]
                    [] OTHER -> w, t)
    /\ UNCHANGED <<contents, orgsLoaded>>

(* closeContentModal, finishWizard, a click beside the dialog.             *)
Close ==
    /\ wizard.visible
    /\ UNCHANGED <<contents, tasks, writes, orgsLoaded>>
    /\ SetForm([wizard EXCEPT !.visible = FALSE])

----------------------------------------------------------------------------
(* content.js: the fields                                                  *)

(* onOrgChange, while c-org-id is shown and enabled.                       *)
OnOrgChange(o) ==
    LET w == [Unticked(wizard) EXCEPT !.org = o, !.searchOrg = o] IN
    /\ wizard.visible /\ wizard.tab = 1 /\ ~ wizard.fixed /\ ~ wizard.public /\ Idle
    /\ wizard' = IF o = Nil THEN [w EXCEPT !.boxes = Nil] ELSE w
    /\ tasks' = tasks \cup {IF o = Nil THEN Task("categories", "nothing", Public)
                            ELSE Task("lists", "categories", o)}
    /\ UNCHANGED <<contents, writes, orgsLoaded>>

(* onPublicToggle: taking the mark away asks for both lists at once and    *)
(* leaves targetOrgId empty.                                               *)
OnPublicToggle ==
    /\ wizard.visible /\ wizard.tab = 1 /\ wizard.mode = "create" /\ ~ wizard.fixed /\ Idle
    /\ IF ~ wizard.public
       THEN /\ wizard' = [Unticked(wizard) EXCEPT !.public = TRUE, !.searchOrg = Nil]
            /\ tasks' = tasks \cup {Task("categories", "nothing", Public)}
       ELSE IF wizard.org # Nil
       THEN /\ wizard' = [wizard EXCEPT !.public = FALSE]
            /\ tasks' = tasks \cup {Task("lists", "nothing", wizard.org),
                                    Task("categories", "nothing", wizard.org)}
       ELSE /\ wizard' = [wizard EXCEPT !.public = FALSE, !.boxes = Nil]
            /\ tasks' = tasks \cup {Task("categories", "nothing", Public)}
    /\ UNCHANGED <<contents, writes, orgsLoaded>>

(* runTargetUserSearch looks in the organisation of the moment.  Bound: a  *)
(* search that offers another organisation than what is there to tick.     *)
SearchUsers ==
    /\ wizard.visible /\ wizard.tab = 2 /\ wizard.section /\ Idle
    /\ wizard.searchOrg \notin {Nil, wizard.boxes, wizard.found}
    /\ tasks' = tasks \cup {Task("users", "nothing", wizard.searchOrg)}
    /\ UNCHANGED <<contents, wizard, writes, orgsLoaded>>

UsersArrive(t) ==
    /\ t \in tasks /\ t.at = "users" /\ UNCHANGED writes
    /\ EndTask([wizard EXCEPT !.found = t.owner], t)
    /\ UNCHANGED <<contents, orgsLoaded>>

Toggle(S, x) == IF x \in S THEN S \ {x} ELSE S \cup {x}

(* A box of a department or a position, a user found; the chip of a user   *)
(* takes away what is no longer drawn.                                     *)
ToggleTarget(o) ==
    /\ wizard.visible /\ wizard.tab = 2 /\ wizard.section /\ Idle
    /\ o \in {wizard.boxes, wizard.found} \cup wizard.targets
    /\ wizard' = [wizard EXCEPT !.targets = Toggle(@, o)]
    /\ UNCHANGED <<contents, tasks, writes, orgsLoaded>>

(* A category offered; the tag of one takes it away.                       *)
ToggleCategory(o) ==
    /\ wizard.visible /\ wizard.tab = 1 /\ wizard.offered # Nil /\ Idle
    /\ o \in {wizard.offered} \cup wizard.categories
    /\ wizard' = [wizard EXCEPT !.categories = Toggle(@, o)]
    /\ UNCHANGED <<contents, tasks, writes, orgsLoaded>>

----------------------------------------------------------------------------
(* content.js: the tabs and the buttons                                    *)

ClickTab(n) ==
    /\ wizard.visible /\ Idle /\ n <= wizard.reach
    /\ wizard' = SwitchTab(wizard, n)
    /\ UNCHANGED <<contents, tasks, writes, orgsLoaded>>

(* Back from the first tab, too.                                           *)
PrevTabUnchecked ==
    /\ wizard.visible /\ wizard.foot = "create"
    /\ wizard' = SwitchTab(wizard, wizard.tab - 1)
    /\ UNCHANGED <<contents, tasks, writes, orgsLoaded>>

PrevTab ==
    /\ wizard.visible /\ wizard.foot = "create" /\ wizard.tab > 1
    /\ wizard' = SwitchTab(wizard, wizard.tab - 1)
    /\ UNCHANGED <<contents, tasks, writes, orgsLoaded>>

(* A button sends the form and is disabled until the answer (the bound     *)
(* disables it a little longer); a new content takes an unused id.         *)
Press(button, kind, owner) ==
    /\ Idle
    /\ kind = "create" => Existing # ContentIds
    /\ writes' = writes \cup
         {[button |-> button, kind |-> kind, st |-> "sent", id |-> wizard.id, owner |-> owner,
           targets |-> IF kind = "create" THEN {} ELSE wizard.targets,
           categories |-> wizard.categories]}
    /\ UNCHANGED <<contents, wizard, tasks, orgsLoaded>>

(* nextTab                                                                 *)
NextOfBasic ==
    /\ wizard.visible /\ wizard.foot = "create" /\ wizard.tab = 1
    /\ wizard.public \/ wizard.org # Nil
    /\ Press("next", "create", IF wizard.public THEN Public ELSE wizard.org)

NextOfAccess ==
    /\ wizard.visible /\ wizard.foot = "create" /\ wizard.tab = 2
    /\ Press("next", "update", Nil)

SaveChanges ==
    /\ wizard.visible /\ wizard.foot = "edit"
    /\ Press("save", "update", Nil)

(* The answer to Next sets the form that is there by then.                 *)
Created(w) ==
    SwitchTab(setTabsUnlocked([wizard EXCEPT !.id = w.id, !.fixed = TRUE,
                                             !.section = w.owner # Public], 2), 2)

NextAnswered(w) ==
    /\ w \in writes /\ w.button = "next" /\ w.st \in {"ok", "failed"}
    /\ writes' = writes \ {w}
    /\ UNCHANGED <<contents, tasks, orgsLoaded>>
    /\ SetForm(IF w.st = "failed" THEN wizard
               ELSE IF w.kind = "create" THEN Created(w)
               ELSE SwitchTab(setTabsUnlocked(wizard, 3), 3))

SaveAnswered(w) ==
    /\ w \in writes /\ w.button = "save" /\ w.st \in {"ok", "failed"}
    /\ writes' = writes \ {w}
    /\ UNCHANGED <<contents, tasks, orgsLoaded>>
    /\ SetForm(wizard)

----------------------------------------------------------------------------
ContentInit ==
    /\ contents \in FirstRows
    /\ wizard = Blank /\ tasks = {} /\ writes = {} /\ orgsLoaded = FALSE

ContentNext ==
    \/ \E w \in writes : \/ CreateContent(w) \/ ReplaceTargets(w) \/ ReplaceCategories(w)
                         \/ NextAnswered(w) \/ SaveAnswered(w)
    \/ \E t \in tasks : \/ ContentArrives(t) \/ OrgsArrive(t) \/ ListsArrive(t)
                        \/ CategoriesArrive(t) \/ UsersArrive(t)
    \/ \E c \in ContentIds : OpenEdit(c)
    \/ \E o \in Firms : ToggleTarget(o) \/ ToggleCategory(o)
    \/ \E o \in Firms \cup {Nil} : OnOrgChange(o)
    \/ \E n \in Tabs3 : ClickTab(n)
    \/ OpenCreate \/ Close \/ OnPublicToggle \/ SearchUsers \/ PrevTab
    \/ NextOfBasic \/ NextOfAccess \/ SaveChanges

ContentSpec == ContentInit /\ [][ContentNext]_contentVars

----------------------------------------------------------------------------
(* The rows, the dialog and what is under way have their types.            *)
ContentTypeOK ==
    /\ contents \in [ContentIds -> Row \cup {Nil}]
    /\ wizard \in [visible : BOOLEAN, mode : {"none", "create", "edit"},
                   id : ContentIds \cup {Nil}, foot : {"none", "create", "edit"},
                   tab : Tabs3, unlocked : Tabs3, reach : Tabs3,
                   org : Firms \cup {Nil}, public : BOOLEAN, fixed : BOOLEAN,
                   section : BOOLEAN, searchOrg : Firms \cup {Nil},
                   targets : SUBSET Firms, categories : SUBSET Firms,
                   boxes : Firms \cup {Nil}, found : Firms \cup {Nil}, offered : Firms \cup {Nil}]
    /\ \A t \in tasks : t.owner \in Owners /\ (t.then = "edit" => t.row.owner = t.owner)
    /\ \A w \in writes : w.st \in {"sent", "targets", "ok", "failed"}
    /\ orgsLoaded \in BOOLEAN

(* content_service.py:268: the targets of a content, and its categories,   *)
(* are of its organisation, although the form mixes two organisations when *)
(* the answers it waits for cross: two clicks on "edit", an organisation   *)
(* changed before its lists have arrived.                                  *)
AudienceInOrg ==
    \A c \in Existing :
        contents[c].targets \cup contents[c].categories \subseteq {contents[c].owner}

=============================================================================
