--------------------------- MODULE MCOrgStructure ---------------------------
(* Instances of OrgStructure for TLC.                                      *)
EXTENDS OrgStructure

CONSTANTS a, b, x, o1, o2   \* departments and organisations

(* Two organisations; a and b are of the first, x of the second.           *)
MCDepts == {a, b, x}
MCOrgOf == [d \in MCDepts |-> IF d = x THEN o2 ELSE o1]

(* b can still be created.                                                 *)
MCTree == [d \in MCDepts |-> IF d = b THEN New ELSE Root]
=============================================================================
