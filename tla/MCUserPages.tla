----------------------------- MODULE MCUserPages -----------------------------
(* Instances of UserPages for TLC.                                         *)
EXTENDS UserPages, TLC

CONSTANTS text, video, test   \* items of the content

(* A text, then a video, then the quiz.                                    *)
MCItems == {text, video, test}
MCPosition == [i \in MCItems |-> CASE i = text -> 0 [] i = video -> 1 [] i = test -> 2]

(* The tickets and the ids of requests, which are named alike.             *)
Alike == Permutations(TicketIds)

(* Bound: what a page of a program before the one shown has requested is   *)
(* under way alone.                                                        *)
UnheardAlone == (\E a \in actions : ~ a.heard) => Cardinality(actions) = 1
=============================================================================
