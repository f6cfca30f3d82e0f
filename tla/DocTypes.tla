------------------------------ MODULE DocTypes ------------------------------
(***************************************************************************)
(* The catalogue of the documents that the employees of an organisation    *)
(* hand in, as a super_admin edits it in                                   *)
(* assets/js/employee_onboarding_admin.js, and                             *)
(* services/employee_onboarding_service.py behind it.                      *)
(*                                                                         *)
(* Of a type of document its organisation matters and under the path of    *)
(* which one its template is stored.  As in ContentItems, a GET is         *)
(* answered when it is sent, and a write is made when it is answered.      *)
(***************************************************************************)
EXTENDS Naturals, FiniteSets

CONSTANTS Companies, NoCompany, \* organisations; none, no template
          DocIds, NoDoc,        \* types of documents
          MaxDocCalls           \* bound: requests in flight

DocRow == [org : Companies, template : Companies \cup {NoCompany}]

ASSUME DocTypesAssumption ==
    /\ NoCompany \notin Companies /\ NoDoc \notin DocIds \cup DocRow
    /\ MaxDocCalls \in Nat

VARIABLES docTypes,   \* the rows
          catalogue,  \* the page: its organisation, state.docTypes, and whether they are drawn
          docForm,    \* the dialog of a type of document
          docCalls    \* requests in flight

docVars == <<docTypes, catalogue, docForm, docCalls>>

NoDocs == [d \in DocIds |-> NoDoc]
NoCatalogue == [org |-> NoCompany, listed |-> NoDocs, drawn |-> FALSE]

(* The fields eo-dt-id, eo-dt-input-type and eo-dt-template-url.           *)
NoDocForm == [shown |-> FALSE, id |-> NoDoc, isFile |-> TRUE, template |-> NoCompany]

(* Those of organisation o, when the rows are there.                       *)
DocsOf(there, o) ==
    [d \in DocIds |-> IF there[d] # NoDoc /\ there[d].org = o THEN there[d] ELSE NoDoc]

DocCall(kind) == [kind |-> kind, list |-> NoDocs, id |-> NoDoc,
                  org |-> NoCompany, template |-> NoCompany]

Posts(k) == Cardinality(docCalls) < MaxDocCalls /\ docCalls' = docCalls \cup {k}

----------------------------------------------------------------------------
(* The page of the catalogue                                               *)

ListOf(there, o) == [DocCall("list") EXCEPT !.list = DocsOf(there, o)]

(* onOrgChange; without an organisation a notice takes the place of the    *)
(* list.                                                                   *)
SelectCompany(o) ==
    /\ o # catalogue.org /\ ~ docForm.shown
    /\ catalogue' = [catalogue EXCEPT !.org = o, !.drawn = FALSE]
    /\ IF o = NoCompany THEN UNCHANGED docCalls ELSE Posts(ListOf(docTypes, o))
    /\ UNCHANGED <<docTypes, docForm>>

(* The last step of a write that went well: loadDocTypes.                  *)
loadDocTypes(k) ==
    /\ catalogue' = [catalogue EXCEPT !.drawn = FALSE]
    /\ docCalls' = (docCalls \ {k}) \cup {ListOf(docTypes', catalogue.org)}

DocsArrive(k) ==
    /\ k.kind = "list"
    /\ catalogue' = [catalogue EXCEPT !.listed = k.list, !.drawn = TRUE] \/ UNCHANGED catalogue
    /\ docCalls' = docCalls \ {k}
    /\ UNCHANGED <<docTypes, docForm>>

Listed == IF catalogue.drawn /\ ~ docForm.shown
          THEN {d \in DocIds : catalogue.listed[d] # NoDoc} ELSE {}

----------------------------------------------------------------------------
(* The dialog of a type of document                                        *)

openCreateDocType ==
    /\ ~ docForm.shown
    /\ docForm' = [NoDocForm EXCEPT !.shown = TRUE]
    /\ UNCHANGED <<docTypes, catalogue, docCalls>>

openEditDocType(d) ==
    /\ d \in Listed
    /\ \E isFile \in BOOLEAN :
          /\ catalogue.listed[d].template # NoCompany => isFile
          /\ docForm' = [shown |-> TRUE, id |-> d, isFile |-> isFile,
                         template |-> catalogue.listed[d].template]
    /\ UNCHANGED <<docTypes, catalogue, docCalls>>

onDocTypeInputTypeChange ==
    /\ docForm.shown
    /\ docForm' = [docForm EXCEPT !.isFile = ~ @]
    /\ UNCHANGED <<docTypes, catalogue, docCalls>>

CloseDocForm ==
    /\ docForm.shown
    /\ docForm' = [docForm EXCEPT !.shown = FALSE]
    /\ UNCHANGED <<docTypes, catalogue, docCalls>>

(* The template goes to the organisation of the page.                      *)
onTemplateFileSelected ==
    /\ docForm.shown /\ docForm.isFile
    /\ Posts([DocCall("upload") EXCEPT !.template = catalogue.org])
    /\ UNCHANGED <<docTypes, catalogue, docForm>>

(* It fills the form that is there by then.                                *)
TemplateUploaded(k) ==
    /\ k.kind = "upload"
    /\ \/ k.template # NoCompany /\ docForm' = [docForm EXCEPT !.template = k.template]
       \/ UNCHANGED docForm
    /\ docCalls' = docCalls \ {k}
    /\ UNCHANGED <<docTypes, catalogue>>

(* The button is disabled until the answer.                                *)
saveDocType ==
    /\ docForm.shown
    /\ \A k \in docCalls : k.kind # "save"
    /\ Posts([DocCall("save") EXCEPT !.id = docForm.id,
                !.org = IF docForm.id = NoDoc THEN catalogue.org ELSE NoCompany,
                !.template = IF docForm.isFile THEN docForm.template ELSE NoCompany])
    /\ UNCHANGED <<docTypes, catalogue, docForm>>

(* create_document_type, update_document_type                              *)
Stores(k) ==
    IF k.id = NoDoc
    THEN \E d \in DocIds : /\ docTypes[d] = NoDoc /\ k.org # NoCompany
                           /\ docTypes' = [docTypes EXCEPT ![d] = [org |-> k.org,
                                                                   template |-> k.template]]
    ELSE docTypes[k.id] # NoDoc /\ docTypes' = [docTypes EXCEPT ![k.id].template = k.template]

DocTypeSaved(k) ==
    /\ k.kind = "save"
    /\ \/ /\ Stores(k)
          /\ docForm' = [docForm EXCEPT !.shown = FALSE]
          /\ loadDocTypes(k)
       \/ /\ docCalls' = docCalls \ {k}
          /\ UNCHANGED <<docTypes, docForm, catalogue>>

(* Once confirmed; a type that employees have handed in is kept.           *)
removeDocType(d) ==
    /\ d \in Listed
    /\ Posts([DocCall("remove") EXCEPT !.id = d])
    /\ UNCHANGED <<docTypes, catalogue, docForm>>

DocTypeRemoved(k) ==
    /\ k.kind = "remove"
    /\ \/ /\ docTypes[k.id] # NoDoc
          /\ docTypes' = [docTypes EXCEPT ![k.id] = NoDoc]
          /\ loadDocTypes(k)
       \/ docCalls' = docCalls \ {k} /\ UNCHANGED <<docTypes, catalogue>>
    /\ UNCHANGED docForm

----------------------------------------------------------------------------
DocTypesInit ==
    /\ docTypes = NoDocs /\ catalogue = NoCatalogue /\ docForm = NoDocForm /\ docCalls = {}

DocTypesNext ==
    \/ \E k \in docCalls : \/ DocsArrive(k) \/ TemplateUploaded(k)
                           \/ DocTypeSaved(k) \/ DocTypeRemoved(k)
    \/ \E o \in Companies \cup {NoCompany} : SelectCompany(o)
    \/ \E d \in DocIds : openEditDocType(d) \/ removeDocType(d)
    \/ openCreateDocType \/ onDocTypeInputTypeChange \/ CloseDocForm
    \/ onTemplateFileSelected \/ saveDocType

DocTypesSpec == DocTypesInit /\ [][DocTypesNext]_docVars

----------------------------------------------------------------------------
Catalogues == [DocIds -> DocRow \cup {NoDoc}]

(* The rows, the page and the requests have their types.                   *)
DocTypesTypeOK ==
    /\ docTypes \in Catalogues
    /\ catalogue \in [org : Companies \cup {NoCompany}, listed : Catalogues, drawn : BOOLEAN]
    /\ docForm \in [shown : BOOLEAN, id : DocIds \cup {NoDoc}, isFile : BOOLEAN,
                    template : Companies \cup {NoCompany}]
    /\ docCalls \subseteq [kind : {"list", "upload", "save", "remove"}, list : Catalogues,
                           id : DocIds \cup {NoDoc}, org : Companies \cup {NoCompany},
                           template : Companies \cup {NoCompany}]

(* routers/files.py:19-20: the first segment of the path of a file is the  *)
(* organisation it belongs to: a template is stored under the organisation *)
(* of its type of document, whose employees could not read it otherwise.   *)
TemplatesUnderOwner ==
    \A d \in DocIds : docTypes[d] # NoDoc => docTypes[d].template \in {docTypes[d].org, NoCompany}

=============================================================================
