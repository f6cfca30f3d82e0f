-------------------------- MODULE MCWalletService --------------------------
(* Instances of WalletService for TLC.                                     *)
EXTENDS WalletService

CONSTANTS e1, m1   \* an event that may be delivered twice, a manual transaction

MCKeys == {e1, m1}
MCEvents == {e1}
MCManuals == {m1}

(* A loss and a gain: the balance tells every set of postings from another.*)
MCAmounts == {-1, 2}
=============================================================================
