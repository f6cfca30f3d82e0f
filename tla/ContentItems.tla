---------------------------- MODULE ContentItems ----------------------------
(***************************************************************************)
(* The items of the contents, as an admin edits them in the third tab of   *)
(* the form of assets/js/content.js, and services/content_service.py       *)
(* behind it.                                                              *)
(*                                                                         *)
(* Every content here has an organisation of its own: a file stored under  *)
(* the path of an organisation is one stored for its content.  The order   *)
(* of the items and the number of them that a content keeps are left out.  *)
(* A GET is answered when it is sent and its answer arrives any time       *)
(* later; a write is made when it is answered.  What is left of a handler  *)
(* that waits is a chore.                                                  *)
(***************************************************************************)
EXTENDS Naturals, FiniteSets

CONSTANTS Courses, NoCourse, \* contents; no content, no file
          ItemIds, Missing,  \* ids of items; no item
          MaxFiles,          \* bound: files added at a time
          MaxChores          \* bound: handlers that wait

ItemRow == [of : Courses, file : Courses \cup {NoCourse}]

ASSUME ContentItemsAssumption ==
    /\ NoCourse \notin Courses /\ Missing \notin ItemIds \cup ItemRow
    /\ MaxFiles \in Nat \ {0} /\ MaxChores \in Nat

VARIABLES items,     \* the rows: the content of an item and where its file is
          editor,    \* the dialog of the content
          itemForm,  \* the dialog of an item
          chores     \* handlers that wait

itemVars == <<items, editor, itemForm, chores>>

(* course, listed: state.contentId, state.activeItems; drawn: the list is  *)
(* on the page, not a notice in its place.                                 *)
NoList == [i \in ItemIds |-> Missing]
NoEditor == [visible |-> FALSE, course |-> NoCourse, listed |-> NoList, drawn |-> FALSE]

(* The fields i-id and i-media-url.                                        *)
NoItemForm == [shown |-> FALSE, id |-> Missing, file |-> NoCourse]

(* Those of content c, when the rows are there.                            *)
ItemsOf(there, c) ==
    [i \in ItemIds |-> IF there[i] # Missing /\ there[i].of = c THEN there[i] ELSE Missing]

Chore(kind) == [kind |-> kind, step |-> "sent", list |-> NoList, id |-> Missing,
                of |-> NoCourse, file |-> NoCourse, left |-> 0]

MayStart == Cardinality(chores) < MaxChores
Starts(k) == MayStart /\ chores' = chores \cup {k}
Goes(k, l) == chores' = (chores \ {k}) \cup {l}

----------------------------------------------------------------------------
(* content.js: the dialog of the content                                   *)

(* openEdit; its other fields are in ContentForm.                          *)
EditCourse(c) ==
    /\ ~ editor.visible
    /\ Starts([Chore("open") EXCEPT !.of = c, !.list = ItemsOf(items, c)])
    /\ UNCHANGED <<items, editor, itemForm>>

CourseArrives(k) ==
    /\ k.kind = "open" /\ k.step = "sent"
    /\ editor' = [editor EXCEPT !.course = k.of]
    /\ Goes(k, [k EXCEPT !.step = "lists"])
    /\ UNCHANGED <<items, itemForm>>

CourseShown(k) ==
    /\ k.kind = "open" /\ k.step = "lists"
    /\ editor' = [editor EXCEPT !.visible = TRUE, !.listed = k.list, !.drawn = TRUE]
    /\ chores' = chores \ {k}
    /\ UNCHANGED <<items, itemForm>>

CloseCourse ==
    /\ editor.visible /\ ~ itemForm.shown
    /\ editor' = [editor EXCEPT !.visible = FALSE]
    /\ UNCHANGED <<items, itemForm, chores>>

(* loadItems, which puts a notice in the place of the list; k is what is   *)
(* left of the handler that calls it, there the rows it has written.       *)
LoadsItems(k, there) ==
    /\ editor' = [editor EXCEPT !.drawn = FALSE]
    /\ Goes(k, [Chore("list") EXCEPT !.list = ItemsOf(there, editor.course)])

ListArrives(k) ==
    /\ k.kind = "list"
    /\ \/ editor' = [editor EXCEPT !.listed = k.list, !.drawn = TRUE]
       \/ UNCHANGED editor
    /\ chores' = chores \ {k}
    /\ UNCHANGED <<items, itemForm>>

(* The items a button is drawn for.                                        *)
Shown == IF editor.visible /\ editor.drawn /\ ~ itemForm.shown
         THEN {i \in ItemIds : editor.listed[i] # Missing} ELSE {}

(* swapOrder                                                               *)
MoveItem(i, j) ==
    /\ i \in Shown /\ j \in Shown \ {i}
    /\ Starts([Chore("move") EXCEPT !.list = [n \in ItemIds |-> IF n \in {i, j}
                                                THEN editor.listed[n] ELSE Missing]])
    /\ UNCHANGED <<items, editor, itemForm>>

MoveAnswered(k) ==
    /\ k.kind = "move"
    /\ IF \A i \in ItemIds : k.list[i] # Missing => items[i] # Missing
       THEN LoadsItems(k, items)
       ELSE chores' = chores \ {k} /\ UNCHANGED editor
    /\ UNCHANGED <<items, itemForm>>

(* Once confirmed.                                                         *)
removeItem(i) ==
    /\ i \in Shown
    /\ Starts([Chore("remove") EXCEPT !.id = i])
    /\ UNCHANGED <<items, editor, itemForm>>

ItemRemoved(k) ==
    /\ k.kind = "remove"
    /\ IF items[k.id] # Missing
       THEN items' = [items EXCEPT ![k.id] = Missing] /\ LoadsItems(k, items')
       ELSE chores' = chores \ {k} /\ UNCHANGED <<items, editor>>
    /\ UNCHANGED itemForm

----------------------------------------------------------------------------
(* content.js: the dialog of an item                                       *)

openCreateItem ==
    /\ editor.visible /\ ~ itemForm.shown
    /\ itemForm' = [shown |-> TRUE, id |-> Missing, file |-> NoCourse]
    /\ UNCHANGED <<items, editor, chores>>

openEditItem(i) ==
    /\ i \in Shown
    /\ itemForm' = [shown |-> TRUE, id |-> i, file |-> editor.listed[i].file]
    /\ UNCHANGED <<items, editor, chores>>

CloseItemForm ==
    /\ itemForm.shown
    /\ itemForm' = [itemForm EXCEPT !.shown = FALSE]
    /\ UNCHANGED <<items, editor, chores>>

(* By the content itself, not by the fields of its form.                   *)
getContentUploadParams == editor.course

uploadItemMedia ==
    /\ itemForm.shown
    /\ Starts([Chore("upload") EXCEPT !.file = getContentUploadParams])
    /\ UNCHANGED <<items, editor, itemForm>>

(* The file fills the form that is there by then.                          *)
MediaUploaded(k) ==
    /\ k.kind = "upload"
    /\ itemForm' = [itemForm EXCEPT !.file = k.file] \/ UNCHANGED itemForm
    /\ chores' = chores \ {k}
    /\ UNCHANGED <<items, editor>>

(* The button is disabled until the answer; a link is not a file.          *)
saveItem ==
    /\ itemForm.shown
    /\ \A k \in chores : k.kind # "save"
    /\ \E file \in {itemForm.file, NoCourse} :
          Starts([Chore("save") EXCEPT !.id = itemForm.id, !.file = file,
                    !.of = IF itemForm.id = Missing THEN editor.course ELSE NoCourse])
    /\ UNCHANGED <<items, editor, itemForm>>

(* add_item                                                                *)
AddsItem(c, file) ==
    \E i \in ItemIds : /\ items[i] = Missing
                       /\ items' = [items EXCEPT ![i] = [of |-> c, file |-> file]]

(* update_item                                                             *)
UpdatesItem(i, file) ==
    i # Missing /\ items[i] # Missing /\ items' = [items EXCEPT ![i].file = file]

ItemSaved(k) ==
    /\ k.kind = "save"
    /\ \/ /\ IF k.id = Missing THEN AddsItem(k.of, k.file) ELSE UpdatesItem(k.id, k.file)
          /\ itemForm' = [itemForm EXCEPT !.shown = FALSE]
          /\ LoadsItems(k, items')
       \/ /\ k.id # Missing => items[k.id] = Missing
          /\ chores' = chores \ {k}
          /\ UNCHANGED <<items, editor, itemForm>>

----------------------------------------------------------------------------
(* content.js: many files at a time                                        *)

(* Each file is uploaded, then posted to the content of that moment; after *)
(* a failure the next one follows.                                         *)
uploadBulkFiles ==
    /\ editor.visible /\ ~ itemForm.shown
    /\ \E n \in 1..MaxFiles :
          Starts([Chore("bulk") EXCEPT !.left = n, !.file = getContentUploadParams])
    /\ UNCHANGED <<items, editor, itemForm>>

NextFile(k, there) ==
    IF k.left > 1 THEN /\ Goes(k, [k EXCEPT !.step = "sent", !.left = @ - 1, !.of = NoCourse,
                                            !.file = getContentUploadParams])
                       /\ UNCHANGED editor
    ELSE LoadsItems(k, there)

FileUploaded(k) ==
    /\ k.kind = "bulk" /\ k.step = "sent"
    /\ \/ Goes(k, [k EXCEPT !.step = "posted", !.of = editor.course]) /\ UNCHANGED editor
       \/ NextFile(k, items)
    /\ UNCHANGED <<items, itemForm>>

FilePosted(k) ==
    /\ k.kind = "bulk" /\ k.step = "posted"
    /\ AddsItem(k.of, k.file) \/ UNCHANGED items
    /\ NextFile(k, items')
    /\ UNCHANGED itemForm

----------------------------------------------------------------------------
ItemsInit ==
    /\ items \in {[i \in ItemIds |-> IF i \in there THEN [of |-> c, file |-> c] ELSE Missing] :
                    there \in SUBSET ItemIds, c \in Courses}
    /\ editor = NoEditor /\ itemForm = NoItemForm /\ chores = {}

ItemsNext ==
    \/ \E k \in chores : \/ CourseArrives(k) \/ CourseShown(k) \/ ListArrives(k)
                         \/ MoveAnswered(k) \/ ItemRemoved(k) \/ MediaUploaded(k)
                         \/ ItemSaved(k) \/ FileUploaded(k) \/ FilePosted(k)
    \/ \E c \in Courses : EditCourse(c)
    \/ \E i \in ItemIds : removeItem(i) \/ openEditItem(i) \/ \E j \in ItemIds : MoveItem(i, j)
    \/ CloseCourse \/ openCreateItem \/ CloseItemForm
    \/ uploadItemMedia \/ saveItem \/ uploadBulkFiles

ItemsSpec == ItemsInit /\ [][ItemsNext]_itemVars

----------------------------------------------------------------------------
Lists == [ItemIds -> ItemRow \cup {Missing}]

(* The rows, the dialogs and the handlers have their types.                *)
ItemsTypeOK ==
    /\ items \in Lists
    /\ editor \in [visible : BOOLEAN, course : Courses \cup {NoCourse}, listed : Lists,
                   drawn : BOOLEAN]
    /\ itemForm \in [shown : BOOLEAN, id : ItemIds \cup {Missing},
                     file : Courses \cup {NoCourse}]
    /\ \A k \in chores : /\ k.list \in Lists /\ k.id \in ItemIds \cup {Missing}
                         /\ {k.of, k.file} \subseteq Courses \cup {NoCourse}
                         /\ k.left \in 0..MaxFiles

(* routers/content.py:318-323, content.js:704-706: the path of a file is   *)
(* exactly that of the organisation of the content whose item names it, or *)
(* its readers are refused the file.                                       *)
ItemFilesUnderOwner ==
    \A i \in ItemIds : items[i] # Missing => items[i].file \in {items[i].of, NoCourse}

=============================================================================
