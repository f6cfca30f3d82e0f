-------------------------- MODULE MCClientSession --------------------------
(* Instances of ClientSession for TLC.                                     *)
EXTENDS ClientSession

CONSTANTS t1, t2, c1, c2, c3   \* tabs and calls

MCTabs == {t1, t2}
MCCalls == {c1, c2, c3}

(* Two calls share the page of one tab, the third races them from the      *)
(* other; every function of api.js makes one of them.                      *)
MCTabOf == [c \in MCCalls |-> IF c = c3 THEN t2 ELSE t1]
MCKindOf == [c \in MCCalls |-> CASE c = c1 -> "fetch" [] c = c2 -> "upload"
                                 [] c = c3 -> "download"]
=============================================================================
