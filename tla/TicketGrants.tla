---------------------------- MODULE TicketGrants ----------------------------
(***************************************************************************)
(* Who else may read the tickets of an organisation: the dialog of the     *)
(* grants in assets/js/tickets_admin.js, as a super_admin uses it, and     *)
(* create_grant of services/ticket_service.py.  Meanwhile users are moved  *)
(* between organisations, as services/user_service.py does.                *)
(*                                                                         *)
(* A GET is answered when it is sent and its answer is drawn any time      *)
(* later.  A user who is removed, with his grants, is left out.            *)
(***************************************************************************)
EXTENDS Naturals, FiniteSets

CONSTANTS Tenants,        \* organisations
          Members,        \* users
          GrantIds,       \* ids of grants
          Unset,          \* no organisation, no user, no row
          AnyRole,        \* the one granted to: the users of a role
          MaxAdminCalls   \* bound: requests of a dialog in flight

Grant == [org : Tenants, to : Members \cup {AnyRole}]

ASSUME TicketGrantsAssumption ==
    /\ Unset \notin Tenants \cup Members \cup Grant
    /\ AnyRole \notin Members
    /\ MaxAdminCalls \in Nat

VARIABLES belongs,    \* belongs[m]: the organisation of a user
          grants,     \* grants[g]: its organisation and whom it is granted to
          access,     \* the dialog
          adminCalls  \* its requests

grantVars == <<belongs, grants, access, adminCalls>>

Granted == {g \in GrantIds : grants[g] # Unset}
Holding(grant) == {g \in GrantIds : grants[g] = grant}

(* org, byRole: the fields tkg-org-id and tkg-type; found: the results     *)
(* drawn; user: state.selectedGrantUser; rows: the grants shown.           *)
ClosedAccess == [visible |-> FALSE, org |-> Unset, byRole |-> TRUE,
                 found |-> {}, user |-> Unset, rows |-> {}]

----------------------------------------------------------------------------
(* ticket_service.py, user_service.py                                      *)

(* update_user with another organisation, or none; no grant is looked at.  *)
MoveMember(m, o) ==
    /\ belongs[m] # o
    /\ belongs' = [belongs EXCEPT ![m] = o]
    /\ UNCHANGED <<grants, access, adminCalls>>

GrantAllowed(grant) == grant.to # AnyRole => belongs[grant.to] = grant.org

Becoming(c, d) == adminCalls' = (adminCalls \ {c}) \cup {d}

(* create_grant looks for the user and for the grant, of which no          *)
(* constraint allows only one; more than one is an error.                  *)
CheckGrant(c) ==
    /\ c.kind = "add" /\ c.st = "sent"
    /\ \/ /\ GrantAllowed(c.grant) /\ Holding(c.grant) = {}
          /\ Becoming(c, [c EXCEPT !.st = "new"])
       \/ /\ GrantAllowed(c.grant) /\ Cardinality(Holding(c.grant)) = 1
          /\ Becoming(c, [c EXCEPT !.st = "ok"])
       \/ /\ ~ GrantAllowed(c.grant) \/ Cardinality(Holding(c.grant)) > 1
          /\ Becoming(c, [c EXCEPT !.st = "failed"])
    /\ UNCHANGED <<belongs, grants, access>>

InsertGrant(c) ==
    /\ c.kind = "add" /\ c.st = "new"
    /\ \E g \in GrantIds \ Granted : grants' = [grants EXCEPT ![g] = c.grant]
    /\ Becoming(c, [c EXCEPT !.st = "ok"])
    /\ UNCHANGED <<belongs, access>>

----------------------------------------------------------------------------
(* tickets_admin.js: the grants                                            *)

AdminFree == {n \in 1..MaxAdminCalls : \A c \in adminCalls : c.id # n}

AdminCall(kind) ==
    [id |-> CHOOSE n \in AdminFree : \A m \in AdminFree : n <= m,
     kind |-> kind, st |-> "sent", grant |-> Unset, rows |-> {}, found |-> {}]

Asks(c) == AdminFree # {} /\ adminCalls' = adminCalls \cup {c}

(* loadGrantsTable, with the grants there are now.                         *)
Loads(c, org) ==
    [c EXCEPT !.kind = "table", !.st = "sent", !.grant = Unset,
              !.rows = {g \in Granted : org = Unset \/ grants[g].org = org}]

openAccessGrants ==
    /\ ~ access.visible
    /\ access' = [access EXCEPT !.visible = TRUE, !.byRole = TRUE, !.found = {},
                                !.user = Unset]
    /\ Asks(Loads(AdminCall("table"), access.org))
    /\ UNCHANGED <<belongs, grants>>

onGrantOrgChange(org) ==
    /\ access.visible /\ org # access.org
    /\ access' = [access EXCEPT !.org = org, !.found = {}, !.user = Unset]
    /\ Asks(Loads(AdminCall("table"), org))
    /\ UNCHANGED <<belongs, grants>>

onGrantTypeChange ==
    /\ access.visible
    /\ access' = [access EXCEPT !.byRole = ~ @]
    /\ UNCHANGED <<belongs, grants, adminCalls>>

(* The search goes on while the organisation changes; it finds users of    *)
(* it, all of them here.                                                   *)
runGrantUserSearch ==
    /\ access.visible /\ ~ access.byRole /\ access.org # Unset
    /\ Asks([AdminCall("search") EXCEPT !.found = {m \in Members : belongs[m] = access.org}])
    /\ access' = [access EXCEPT !.found = {}]
    /\ UNCHANGED <<belongs, grants>>

selectGrantUser(m) ==
    /\ access.visible /\ ~ access.byRole /\ m \in access.found
    /\ access' = [access EXCEPT !.user = m]
    /\ UNCHANGED <<belongs, grants, adminCalls>>

(* The button stays enabled while the request is in flight.  Bound: ids.   *)
addGrant ==
    /\ access.visible /\ access.org # Unset
    /\ Cardinality(Granted) + Cardinality({c \in adminCalls : c.kind = "add"})
         < Cardinality(GrantIds)
    /\ access.byRole \/ access.user # Unset
    /\ Asks([AdminCall("add") EXCEPT !.grant =
              [org |-> access.org, to |-> IF access.byRole THEN AnyRole ELSE access.user]])
    /\ UNCHANGED <<belongs, grants, access>>

(* Once confirmed; a grant that is gone is not found.                      *)
removeGrant(g) ==
    /\ access.visible /\ g \in access.rows
    /\ \/ /\ g \in Granted
          /\ grants' = [grants EXCEPT ![g] = Unset]
          /\ Asks([AdminCall("remove") EXCEPT !.st = "ok"])
       \/ g \notin Granted /\ UNCHANGED <<grants, adminCalls>>
    /\ UNCHANGED <<belongs, access>>

(* What was added or removed leads to a new table.                         *)
AdminAnswered(c) ==
    /\ \/ /\ c.kind = "table"
          /\ access' = [access EXCEPT !.rows = c.rows]
          /\ adminCalls' = adminCalls \ {c}
       \/ /\ c.kind = "search"
          /\ access' = [access EXCEPT !.found = c.found]
          /\ adminCalls' = adminCalls \ {c}
       \/ /\ c.kind = "add" /\ c.st = "ok"
          /\ access' = [access EXCEPT !.found = {}, !.user = Unset]
          /\ Becoming(c, Loads(c, access.org))
       \/ /\ c.kind = "remove"
          /\ Becoming(c, Loads(c, access.org))
          /\ UNCHANGED access
       \/ /\ c.st = "failed"
          /\ adminCalls' = adminCalls \ {c}
          /\ UNCHANGED access
    /\ UNCHANGED <<belongs, grants>>

closeAccessGrants ==
    /\ access.visible
    /\ access' = [access EXCEPT !.visible = FALSE]
    /\ UNCHANGED <<belongs, grants, adminCalls>>

----------------------------------------------------------------------------
GrantsInit ==
    /\ belongs \in [Members -> Tenants \cup {Unset}]
    /\ grants = [g \in GrantIds |-> Unset]
    /\ access = ClosedAccess
    /\ adminCalls = {}

GrantsNext ==
    \/ \E c \in adminCalls : CheckGrant(c) \/ InsertGrant(c) \/ AdminAnswered(c)
    \/ \E org \in Tenants \cup {Unset} : \/ onGrantOrgChange(org)
                                         \/ \E m \in Members : MoveMember(m, org)
    \/ \E g \in GrantIds : removeGrant(g)
    \/ \E m \in Members : selectGrantUser(m)
    \/ openAccessGrants \/ onGrantTypeChange \/ runGrantUserSearch
    \/ addGrant \/ closeAccessGrants

GrantsSpec == GrantsInit /\ [][GrantsNext]_grantVars

----------------------------------------------------------------------------
(* The rows, the dialog and the requests have their types.                 *)
GrantsTypeOK ==
    /\ belongs \in [Members -> Tenants \cup {Unset}]
    /\ grants \in [GrantIds -> Grant \cup {Unset}]
    /\ access \in [visible : BOOLEAN, org : Tenants \cup {Unset}, byRole : BOOLEAN,
                    found : SUBSET Members, user : Members \cup {Unset},
                    rows : SUBSET GrantIds]
    /\ adminCalls \subseteq [id : 1..MaxAdminCalls, kind : {"table", "search", "add", "remove"},
                            st : {"sent", "new", "ok", "failed"}, grant : Grant \cup {Unset},
                            rows : SUBSET GrantIds, found : SUBSET Members]

(* ticket_service.py:170-171, models/ticket.py:12-13: a grant to a user is *)
(* one to a user of the organisation whose tickets it opens.               *)
GrantInOrg ==
    \A g \in Granted : grants[g].to # AnyRole => belongs[grants[g].to] = grants[g].org

=============================================================================
