---------------------------- MODULE MCAdminPages -----------------------------
(* Instances of AdminPages for TLC.                                        *)
EXTENDS AdminPages, TLC

(* At most one content exists, with targets and a category of its          *)
(* organisation; another one can be created.                               *)
MCFirstRows ==
    {[c \in ContentIds |-> Nil]} \cup
    {[c \in ContentIds |-> IF c = d THEN [owner |-> f, targets |-> {f}, categories |-> {f}]
                           ELSE Nil] : d \in ContentIds, f \in Firms}

(* The organisations stand for each other on every page, and so do the     *)
(* contents, which are named like the departments.                         *)
Alike == Permutations(Firms) \cup Permutations(ContentIds)

(* Bounds on the page of programs: a request about a step waits alone, and *)
(* one department stays.                                                   *)
FewChanges ==
    /\ (\E j \in jobs : j.kind \in StepKinds) => Cardinality(jobs) = 1
    /\ units # {}

(* The server handles a request about a program before anything else       *)
(* happens.  What others do until then they may as well do before it is    *)
(* sent; its answer arrives any time later.                                *)
HandledAtOnce == \A j \in jobs : j.at = "sent" => j \notin jobs'
=============================================================================
