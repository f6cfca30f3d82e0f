--------------------------- MODULE WalletService ---------------------------
(***************************************************************************)
(* services/wallet_service.py and the two requests of points_service.py    *)
(* that post points (award_points, create_manual_transaction), executed by *)
(* concurrent database sessions (database.py).                             *)
(*                                                                         *)
(* A session is one request: its own transaction and its own identity map. *)
(* PostgreSQL runs it at READ COMMITTED, so a plain read sees what others  *)
(* have committed so far, SELECT ... FOR UPDATE and UPDATE wait for the    *)
(* row lock of another transaction, and nothing a session writes is seen   *)
(* before its commit.  The session factory sets autoflush=False and        *)
(* nothing in the services asks for populate_existing: a row whose ORM     *)
(* object is already in the session is returned as that object, with the   *)
(* values of the first read, even by SELECT ... FOR UPDATE.  A flush       *)
(* writes only the attributes that differ from the values read.            *)
(***************************************************************************)
EXTENDS Integers, Sequences

CONSTANTS Users,     \* users of the organisation
          Sessions,  \* requests that may run at the same time
          Keys,      \* (event_type, reference_id) pairs of ledger entries
          Events,    \* the keys of awarded events: they can come again
          Manuals,   \* the uuid4 reference ids of manual transactions
          Amounts,   \* the points a rule or an administrator may give
          None       \* no row, no object, no owner

Columns == {"current_balance", "total_earned", "total_spent",
            "pending_points", "redeemed_points"}

(* A row of point_wallets.  total_expired is left out: no caller passes    *)
(* transaction_type "expiration".                                          *)
Row == [Columns -> Int]

(* A row of points_ledger.                                                 *)
Entry == [key: Keys, points: Int, balance_before: Int, balance_after: Int]

(* An ORM object: the row as it was read and its attributes now.           *)
Object == [read: Row, now: Row]

ASSUME KeysAssumption ==
    /\ Events \subseteq Keys
    /\ Manuals \subseteq Keys
    /\ Events \cap Manuals = {}

ASSUME AmountsAssumption == Amounts \subseteq Int

ASSUME NoneAssumption == None \notin Sessions \cup Users \cup Row \cup Object \cup Entry

VARIABLES wallet,    \* wallet[u]: committed row of point_wallets, or None
          ledger,    \* ledger[u]: committed rows of points_ledger, in commit order
          locked_by, \* locked_by[u]: the session whose transaction locks u's wallet row
          pc,        \* pc[s]: what session s does next
          job,       \* job[s]: the request session s executes
          copy,      \* copy[s]: the PointWallet object in the identity map of s
          draft      \* draft[s]: the ledger row s inserted and has not committed

vars == <<wallet, ledger, locked_by, pc, job, copy, draft>>

----------------------------------------------------------------------------
(* Rows, objects and locks                                                 *)

ZeroRow == [c \in Columns |-> 0]

(* The row of user u a transaction that may insert it would see.           *)
RowOf(u) == IF wallet[u] = None THEN ZeroRow ELSE wallet[u]

AsRead(row) == [read |-> row, now |-> row]

(* The object a SELECT of u's wallet gives session s: the one it already   *)
(* holds, or a new one with the committed values.                          *)
Selected(s, u) == IF copy[s] = None THEN AsRead(RowOf(u)) ELSE copy[s]

(* UPDATE: the columns changed in Python replace those of the row.         *)
Written(row, object) ==
    [c \in DOMAIN row |-> IF object.now[c] # object.read[c] THEN object.now[c] ELSE row[c]]

(* Variant: no unique constraint on (user_id, event_type, reference_id).   *)
KeysOfUnconstrained(u) == {}

KeysOf(u) == {ledger[u][i].key : i \in DOMAIN ledger[u]}

(* The keys that are taken or about to be taken by a running request.      *)
KeysInUse == (UNION {KeysOf(u) : u \in Users}) \cup {job[s].key : s \in {t \in Sessions : pc[t] # "idle"}}

(* get_wallet: a read without a lock, None while the user has no wallet.   *)
get_wallet(s, u) == copy' = [copy EXCEPT ![s] = IF wallet[u] = None THEN @ ELSE Selected(s, u)]

(* Variant: a SELECT without FOR UPDATE.                                   *)
GetWalletUnlocked(s, u) == locked_by' = [locked_by EXCEPT ![u] = s]

(* _get_wallet_locked: wait until no other transaction locks the row (or   *)
(* is inserting it), then own the lock; the INSERT of a missing row and    *)
(* the second SELECT give the zero row.                                    *)
GetWalletLocked(s, u) ==
    /\ locked_by[u] \in {None, s}
    /\ locked_by' = [locked_by EXCEPT ![u] = s]

(* Variants: the wallet rebuilt from the three columns a posting computes, *)
(* a deduction that is added to total_spent with its sign, and one that is *)
(* taken out of total_earned.                                              *)
PostedAnew(row, n) ==
    [c \in {"current_balance", "total_earned", "total_spent"} |-> row[c] + n]

PostedWithSign(row, n) ==
    [row EXCEPT !["current_balance"] = @ + n,
                !["total_earned"] = IF n > 0 THEN @ + n ELSE @,
                !["total_spent"] = IF n > 0 THEN @ ELSE @ + n]

PostedToEarned(row, n) == [row EXCEPT !["current_balance"] = @ + n, !["total_earned"] = @ + n]

(* Lines 122-128 of apply_ledger_entry: the wallet after a posting.        *)
Posted(row, n) ==
    [row EXCEPT !["current_balance"] = @ + n,
                !["total_earned"] = IF n > 0 THEN @ + n ELSE @,
                !["total_spent"] = IF n > 0 THEN @ ELSE @ - n]

(* apply_ledger_entry, from the lock to the last flush: everything it      *)
(* reads or writes after the lock is private to the owner of the lock, so  *)
(* it is one step.  The INSERT does nothing when the key is already there. *)
apply_ledger_entry(s, u, k, n) ==
    LET object == Selected(s, u)
        row    == object.now
    IN  /\ GetWalletLocked(s, u)
        /\ IF k \in KeysOf(u)
             THEN /\ copy' = [copy EXCEPT ![s] = object]
                  /\ UNCHANGED draft
             ELSE /\ copy' = [copy EXCEPT ![s] = [object EXCEPT !.now = Posted(row, n)]]
                  /\ draft' = [draft EXCEPT ![s] =
                        [key |-> k, points |-> n, balance_before |-> row["current_balance"],
                         balance_after |-> row["current_balance"] + n]]

(* Variant: the connection goes back to the pool inside its transaction.   *)
EndSessionLocked(s) ==
    /\ pc' = [pc EXCEPT ![s] = "idle"]
    /\ job' = [job EXCEPT ![s] = None]
    /\ copy' = [copy EXCEPT ![s] = None]
    /\ draft' = [draft EXCEPT ![s] = None]
    /\ UNCHANGED locked_by

(* The end of a request: the session is closed and its locks are released. *)
EndSession(s) ==
    /\ pc' = [pc EXCEPT ![s] = "idle"]
    /\ job' = [job EXCEPT ![s] = None]
    /\ copy' = [copy EXCEPT ![s] = None]
    /\ draft' = [draft EXCEPT ![s] = None]
    /\ locked_by' = [u \in Users |-> IF locked_by[u] = s THEN None ELSE locked_by[u]]

(* Variant: the ledger row is left to another transaction.                 *)
CommitWalletOnly(s) ==
    /\ wallet' = IF copy[s] = None THEN wallet
                 ELSE [wallet EXCEPT ![job[s].user] = Written(RowOf(job[s].user), copy[s])]
    /\ UNCHANGED ledger
    /\ EndSession(s)

(* COMMIT: the wallet row and the ledger row appear together.              *)
CommitRows(s) ==
    /\ wallet' = IF copy[s] = None THEN wallet
                 ELSE [wallet EXCEPT ![job[s].user] = Written(RowOf(job[s].user), copy[s])]
    /\ ledger' = IF draft[s] = None THEN ledger
                 ELSE [ledger EXCEPT ![job[s].user] = Append(@, draft[s])]
    /\ EndSession(s)

----------------------------------------------------------------------------
(* Requests                                                                *)

(* create_manual_transaction, lines 284-292: the sign of the entry.        *)
SignedPoints(type, points) == IF type = "deduction" THEN -points ELSE points

Accepted(type, points) ==
    CASE type \in {"bonus", "deduction"} -> points > 0
      [] OTHER -> points # 0

(* Variant: the request shows the wallet before it posts.                  *)
StartWithWallet(s, u, k, n) ==
    /\ job' = [job EXCEPT ![s] = [op |-> "post", user |-> u, key |-> k, points |-> n]]
    /\ pc' = [pc EXCEPT ![s] = "post"]
    /\ get_wallet(s, u)
    /\ UNCHANGED <<wallet, ledger, locked_by, draft>>

Start(s, u, k, n) ==
    /\ job' = [job EXCEPT ![s] = [op |-> "post", user |-> u, key |-> k, points |-> n]]
    /\ pc' = [pc EXCEPT ![s] = "post"]
    /\ UNCHANGED <<wallet, ledger, locked_by, copy, draft>>

(* award_points: an event of user u is worth n points under the rules in   *)
(* force; nothing happens when that is not positive.                       *)
award_points(s, u, k, n) ==
    /\ pc[s] = "idle"
    /\ n > 0
    /\ Start(s, u, k, n)

(* create_manual_transaction: every request gets a reference id of its own.*)
create_manual_transaction(s, u, k, type, points) ==
    /\ pc[s] = "idle"
    /\ k \notin KeysInUse
    /\ Accepted(type, points)
    /\ Start(s, u, k, SignedPoints(type, points))

(* The session of such a request reaches the lock and posts.               *)
PostEntry(s) ==
    /\ pc[s] = "post" /\ job[s].op = "post"
    /\ apply_ledger_entry(s, job[s].user, job[s].key, job[s].points)
    /\ pc' = [pc EXCEPT ![s] = "commit"]
    /\ UNCHANGED <<wallet, ledger, job>>

Commit(s) ==
    /\ pc[s] = "commit"
    /\ CommitRows(s)

(* get_db rolls back when the handler raises, the client disconnects or    *)
(* the worker dies; PostgreSQL does so when the connection is lost.        *)
Rollback(s) ==
    /\ pc[s] # "idle"
    /\ EndSession(s)
    /\ UNCHANGED <<wallet, ledger>>

Request(s) ==
    \/ \E u \in Users, k \in Events, n \in Amounts : award_points(s, u, k, n)
    \/ \E u \in Users, k \in Manuals, n \in Amounts,
          type \in {"bonus", "manual_adjustment", "deduction", "correction"} :
          create_manual_transaction(s, u, k, type, n)

Init ==
    /\ wallet = [u \in Users |-> None]
    /\ ledger = [u \in Users |-> <<>>]
    /\ locked_by = [u \in Users |-> None]
    /\ pc = [s \in Sessions |-> "idle"]
    /\ job = [s \in Sessions |-> None]
    /\ copy = [s \in Sessions |-> None]
    /\ draft = [s \in Sessions |-> None]

Next == \E s \in Sessions : Request(s) \/ PostEntry(s) \/ Commit(s) \/ Rollback(s)

(* PostgreSQL queues the waiters of a row lock, so a session that waits    *)
(* for a lock which is released again and again gets it: strong fairness.  *)
(* A request is never obliged to come, nor a failure to happen.            *)
Fairness == \A s \in Sessions : SF_vars(PostEntry(s)) /\ WF_vars(Commit(s))

Spec == Init /\ [][Next]_vars /\ Fairness

----------------------------------------------------------------------------
(* Properties                                                              *)

Phases == {"idle", "post", "commit"}

Job == [op: {"post"}, user: Users, key: Keys, points: Int]

TypeOK ==
    /\ wallet \in [Users -> Row \cup {None}]
    /\ ledger \in [Users -> Seq(Entry)]
    /\ locked_by \in [Users -> Sessions \cup {None}]
    /\ pc \in [Sessions -> Phases]
    /\ job \in [Sessions -> Job \cup {None}]
    /\ copy \in [Sessions -> Object \cup {None}]
    /\ draft \in [Sessions -> Entry \cup {None}]

Balance == [u \in Users |-> RowOf(u)["current_balance"]]

PL == INSTANCE PointLedger WITH
        balance <- Balance,
        book    <- ledger,
        Amounts <- Amounts \cup {-n : n \in Amounts}

(* wallet_service.py:8-11: the balance a posting starts from is the one of *)
(* the row it has locked, never an older one: while a session owns the     *)
(* lock, what it read is still what is committed.                          *)
FreshUnderLock ==
    \A u \in Users, s \in Sessions :
        locked_by[u] = s => job[s].user = u /\ copy[s] # None /\ copy[s].read = RowOf(u)

(* models/points.py:24-28, the golden rule: every movement of a balance is *)
(* in the ledger.  Each committed entry starts where its predecessor ended *)
(* and the wallet stands where the last one ended, so no posting of        *)
(* another session is lost or counted twice.                               *)
LedgerChained ==
    \A u \in Users :
        /\ PL!Chained(ledger[u])
        /\ Balance[u] = PL!BalanceAfter(ledger[u], Len(ledger[u]))

(* wallet_service.py:12-14: however many sessions deliver the same event   *)
(* at the same time, it is credited to a user at most once.                *)
CreditedOnce == \A u \in Users : PL!OncePerKey(ledger[u])

(* The three columns one posting writes (lines 122-128) stay in step.      *)
BalanceIsEarnedMinusSpent ==
    \A u \in Users :
        RowOf(u)["current_balance"] = RowOf(u)["total_earned"] - RowOf(u)["total_spent"]

(* The sessions, their locks and copies implement atomic postings.         *)
ImplementsPointLedger == PL!Spec

(* Every request that is not cut off ends, so every lock it takes is       *)
(* released: no session waits for a wallet for ever.                       *)
EveryRequestEnds == \A s \in Sessions : pc[s] # "idle" ~> pc[s] = "idle"
=============================================================================
