---------------------------- MODULE PointLedger ----------------------------
(***************************************************************************)
(* What services/wallet_service.py promises about points (its docstring,   *)
(* lines 7-16, and the "golden rule" of models/points.py, lines 24-28),    *)
(* with no sessions, no locks and no copies of rows: a posting is a single *)
(* step, it starts from the balance of that very moment, it moves the      *)
(* balance and the ledger together, and it happens at most once per key    *)
(* (event_type, reference_id) of a user.                                   *)
(***************************************************************************)
EXTENDS Integers, Sequences

CONSTANTS Users,    \* the users who may own points
          Keys,     \* the (event_type, reference_id) pairs of ledger entries
          Amounts   \* the points one posting may carry

VARIABLES balance,  \* balance[u]: the points of user u
          book      \* book[u]: the ledger entries of u, oldest first

vars == <<balance, book>>

Entry == [key: Keys, points: Int, balance_before: Int, balance_after: Int]

KeysIn(entries) == {entries[i].key : i \in DOMAIN entries}

Init ==
    /\ balance = [u \in Users |-> 0]
    /\ book = [u \in Users |-> <<>>]

(* One posting of n points under key k.                                    *)
Post(u, k, n) ==
    /\ n # 0
    /\ k \notin KeysIn(book[u])
    /\ balance' = [balance EXCEPT ![u] = @ + n]
    /\ book' = [book EXCEPT ![u] = Append(@,
            [key |-> k, points |-> n, balance_before |-> balance[u],
             balance_after |-> balance[u] + n])]

Next == \E u \in Users, k \in Keys, n \in Amounts : Post(u, k, n)

Spec == Init /\ [][Next]_vars

----------------------------------------------------------------------------

(* The balance the first i entries of a ledger lead to.                    *)
BalanceAfter(entries, i) == IF i = 0 THEN 0 ELSE entries[i].balance_after

(* Every entry starts from the balance its predecessor left and adds its   *)
(* own points to it, so a ledger never skips or forgets a movement.        *)
Chained(entries) ==
    \A i \in DOMAIN entries :
        /\ entries[i].balance_before = BalanceAfter(entries, i - 1)
        /\ entries[i].balance_after = entries[i].balance_before + entries[i].points

(* No key is posted twice.                                                 *)
OncePerKey(entries) ==
    \A i, j \in DOMAIN entries : entries[i].key = entries[j].key => i = j
=============================================================================
