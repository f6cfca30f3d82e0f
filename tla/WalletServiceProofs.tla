------------------------ MODULE WalletServiceProofs ------------------------
(***************************************************************************)
(* Proofs about WalletService for all users, sessions, keys and amounts:   *)
(* however many requests post at the same time, the row lock makes every   *)
(* posting start from the committed balance, and the sessions together     *)
(* implement the atomic postings of PointLedger.                           *)
(***************************************************************************)
EXTENDS WalletService, SequenceTheorems, TLAPS

(* The points a request may ask for, with the sign of a deduction.         *)
Movements == {n \in Amounts \cup {-m : m \in Amounts} : n # 0}

(* What a running session knows, phase by phase.  Before the lock it has   *)
(* read nothing; with the lock, its object still shows the committed row,  *)
(* and its draft entry continues exactly that row.                         *)
SessionInv(s) ==
    /\ pc[s] = "idle" => job[s] = None /\ copy[s] = None /\ draft[s] = None
    /\ pc[s] = "post" =>
         /\ job[s] \in Job /\ job[s].points \in Movements
         /\ copy[s] = None /\ draft[s] = None
    /\ pc[s] = "commit" =>
         /\ job[s] \in Job /\ job[s].points \in Movements
         /\ locked_by[job[s].user] = s
         /\ copy[s] \in Object
         /\ copy[s].read = RowOf(job[s].user)
         /\ draft[s] = None => copy[s].now = copy[s].read
         /\ draft[s] # None =>
              /\ draft[s].key \notin KeysOf(job[s].user)
              /\ draft[s].points = job[s].points
              /\ draft[s].balance_before = copy[s].read["current_balance"]
              /\ draft[s].balance_after = draft[s].balance_before + draft[s].points
              /\ copy[s].now = Posted(copy[s].read, draft[s].points)

(* A lock belongs to a session that is about to commit to that wallet.     *)
LockInv == \A u \in Users : locked_by[u] # None =>
              pc[locked_by[u]] = "commit" /\ job[locked_by[u]].user = u

IInv ==
    /\ TypeOK
    /\ \A s \in Sessions : SessionInv(s)
    /\ LockInv
    /\ LedgerChained
    /\ CreditedOnce
    /\ BalanceIsEarnedMinusSpent

----------------------------------------------------------------------------
(* Rows                                                                    *)

(* A row that is missing reads as zeros, so what a transaction sees of a   *)
(* wallet always has the type of a row.                                    *)
LEMMA RowOfType ==
    ASSUME TypeOK, NEW u \in Users
    PROVE  RowOf(u) \in Row
  BY DEF TypeOK, RowOf, ZeroRow, Row

(* UPDATE through an object that still shows the committed row leaves      *)
(* exactly the attributes of the object.                                   *)
LEMMA WrittenFresh ==
    ASSUME NEW object \in Object
    PROVE  Written(object.read, object) = object.now
  <1>1. object.read \in [Columns -> Int] /\ object.now \in [Columns -> Int]
    BY DEF Object, Row
  <1>2. DOMAIN object.read = Columns
    BY <1>1
  <1>3. \A c \in Columns : Written(object.read, object)[c] = object.now[c]
    BY <1>2 DEF Written
  <1>4. Written(object.read, object) = [c \in Columns |-> object.now[c]]
    BY <1>2, <1>3 DEF Written
  <1> QED
    BY <1>1, <1>4

(* A posting changes three columns, and moves the balance by as much as    *)
(* the difference of the other two.                                        *)
LEMMA PostedFacts ==
    ASSUME NEW row \in Row, NEW n \in Int
    PROVE  /\ Posted(row, n) \in Row
           /\ Posted(row, n)["current_balance"] = row["current_balance"] + n
           /\ Posted(row, n)["total_earned"] - Posted(row, n)["total_spent"]
                = row["total_earned"] - row["total_spent"] + n
  <1>1. /\ row["current_balance"] \in Int
        /\ row["total_earned"] \in Int
        /\ row["total_spent"] \in Int
    BY DEF Row, Columns
  <1>2. Posted(row, n) \in Row
    BY <1>1 DEF Posted, Row, Columns
  <1>3. Posted(row, n)["current_balance"] = row["current_balance"] + n
    BY <1>1 DEF Posted, Row, Columns
  <1>4. Posted(row, n)["total_earned"]
          = IF n > 0 THEN row["total_earned"] + n ELSE row["total_earned"]
    BY <1>1 DEF Posted, Row, Columns
  <1>5. Posted(row, n)["total_spent"]
          = IF n > 0 THEN row["total_spent"] ELSE row["total_spent"] - n
    BY <1>1 DEF Posted, Row, Columns
  <1> QED
    BY <1>1, <1>2, <1>3, <1>4, <1>5

----------------------------------------------------------------------------
(* Ledgers                                                                 *)

(* An entry that starts from the last balance extends a chained ledger.    *)
LEMMA AppendChained ==
    ASSUME NEW entries \in Seq(Entry), NEW e \in Entry,
           PL!Chained(entries),
           e.balance_before = PL!BalanceAfter(entries, Len(entries)),
           e.balance_after = e.balance_before + e.points
    PROVE  /\ PL!Chained(Append(entries, e))
           /\ PL!BalanceAfter(Append(entries, e), Len(Append(entries, e))) = e.balance_after
  <1> DEFINE longer == Append(entries, e)
  <1>1. /\ longer \in Seq(Entry)
        /\ Len(entries) \in Nat
        /\ Len(longer) = Len(entries) + 1
        /\ \A i \in 1 .. Len(entries) : longer[i] = entries[i]
        /\ longer[Len(entries) + 1] = e
    BY AppendProperties, LenProperties
  <1>2. DOMAIN entries = 1 .. Len(entries) /\ DOMAIN longer = 1 .. (Len(entries) + 1)
    BY <1>1, LenProperties
  <1> HIDE DEF longer
  <1>3. \A i \in 0 .. Len(entries) : PL!BalanceAfter(longer, i) = PL!BalanceAfter(entries, i)
    BY <1>1 DEF PL!BalanceAfter
  <1>4. ASSUME NEW i \in DOMAIN longer
        PROVE  /\ longer[i].balance_before = PL!BalanceAfter(longer, i - 1)
               /\ longer[i].balance_after = longer[i].balance_before + longer[i].points
    <2>1. CASE i \in 1 .. Len(entries)
      <3>1. i - 1 \in 0 .. Len(entries) /\ longer[i] = entries[i]
        BY <1>1, <2>1
      <3> QED
        BY <1>2, <1>3, <2>1, <3>1 DEF PL!Chained
    <2>2. CASE i = Len(entries) + 1
      <3>1. i - 1 = Len(entries) /\ Len(entries) \in 0 .. Len(entries) /\ longer[i] = e
        BY <1>1, <2>2
      <3> QED
        BY <1>3, <3>1
    <2> QED
      BY <1>1, <1>2, <2>1, <2>2
  <1>5. PL!BalanceAfter(longer, Len(longer)) = e.balance_after
    BY <1>1 DEF PL!BalanceAfter
  <1>6. PL!Chained(longer)
    BY <1>4 DEF PL!Chained
  <1> QED
    BY <1>5, <1>6 DEF longer

(* An entry with a new key keeps the keys of a ledger distinct.            *)
LEMMA AppendOncePerKey ==
    ASSUME NEW entries \in Seq(Entry), NEW e \in Entry,
           PL!OncePerKey(entries),
           e.key \notin {entries[i].key : i \in DOMAIN entries}
    PROVE  PL!OncePerKey(Append(entries, e))
  <1> DEFINE longer == Append(entries, e)
  <1>1. /\ Len(entries) \in Nat
        /\ Len(longer) = Len(entries) + 1
        /\ \A i \in 1 .. Len(entries) : longer[i] = entries[i]
        /\ longer[Len(entries) + 1] = e
    BY AppendProperties, LenProperties
  <1>2. DOMAIN entries = 1 .. Len(entries) /\ DOMAIN longer = 1 .. (Len(entries) + 1)
    BY <1>1, AppendProperties, LenProperties
  <1> HIDE DEF longer
  <1>3. ASSUME NEW i \in DOMAIN longer, NEW j \in DOMAIN longer,
               longer[i].key = longer[j].key
        PROVE  i = j
    <2>1. \A k \in 1 .. Len(entries) : entries[k].key # e.key
      BY <1>2
    <2>2. CASE i \in 1 .. Len(entries) /\ j \in 1 .. Len(entries)
      BY <1>1, <1>2, <1>3, <2>2 DEF PL!OncePerKey
    <2>3. CASE i = Len(entries) + 1 \/ j = Len(entries) + 1
      BY <1>1, <1>2, <1>3, <2>1, <2>3
    <2> QED
      BY <1>1, <1>2, <2>2, <2>3
  <1> QED
    BY <1>3 DEF PL!OncePerKey, longer

----------------------------------------------------------------------------
(* Steps that leave the committed rows alone                               *)

(* What is said of the committed rows stays true while they stay.          *)
LEMMA BooksStay ==
    ASSUME LedgerChained, CreditedOnce, BalanceIsEarnedMinusSpent, UNCHANGED <<wallet, ledger>>
    PROVE  /\ LedgerChained' /\ CreditedOnce' /\ BalanceIsEarnedMinusSpent'
           /\ \A u \in Users : RowOf(u)' = RowOf(u) /\ KeysOf(u)' = KeysOf(u)
  <1>1. \A u \in Users : RowOf(u)' = RowOf(u) /\ KeysOf(u)' = KeysOf(u)
    BY DEF RowOf, KeysOf
  <1>2. Balance' = Balance
    BY <1>1 DEF Balance
  <1>3. LedgerChained'
    BY <1>2 DEF LedgerChained
  <1>4. CreditedOnce'
    BY DEF CreditedOnce
  <1>5. BalanceIsEarnedMinusSpent'
    BY <1>1 DEF BalanceIsEarnedMinusSpent
  <1> QED
    BY <1>1, <1>3, <1>4, <1>5

(* At the start nobody has posted and nobody holds a lock.                 *)
LEMMA InitInv == Init => IInv
  <1> SUFFICES ASSUME Init PROVE IInv
    OBVIOUS
  <1>1. TypeOK
    <2>1. ledger \in [Users -> Seq(Entry)]
      BY EmptySeq DEF Init
    <2> QED
      BY <2>1 DEF Init, TypeOK, Phases
  <1>2. \A s \in Sessions : SessionInv(s)
    BY DEF Init, SessionInv
  <1>3. LockInv
    BY DEF Init, LockInv
  <1>4. \A u \in Users : ledger[u] = <<>> /\ RowOf(u) = ZeroRow
    BY DEF Init, RowOf
  <1>5. ZeroRow["current_balance"] = 0 /\ ZeroRow["total_earned"] = 0
          /\ ZeroRow["total_spent"] = 0
    BY DEF ZeroRow, Columns
  <1>6. Len(<<>>) = 0 /\ DOMAIN <<>> = {}
    OBVIOUS
  <1>7. LedgerChained
    BY <1>4, <1>5, <1>6 DEF LedgerChained, Balance, PL!Chained, PL!BalanceAfter
  <1>8. CreditedOnce
    BY <1>4, <1>6 DEF CreditedOnce, PL!OncePerKey
  <1>9. BalanceIsEarnedMinusSpent
    <2>1. ZeroRow["current_balance"] = ZeroRow["total_earned"] - ZeroRow["total_spent"]
      BY <1>5
    <2> QED
      BY <1>4, <2>1 DEF BalanceIsEarnedMinusSpent
  <1> QED
    BY <1>1, <1>2, <1>3, <1>7, <1>8, <1>9 DEF IInv

(* A request begins: its session remembers a movement and nothing else.    *)
LEMMA StartInv ==
    ASSUME IInv, NEW s \in Sessions, NEW u \in Users, NEW k \in Keys, NEW n \in Movements,
           pc[s] = "idle", Start(s, u, k, n)
    PROVE  IInv'
  <1> USE DEF IInv
  <1>1. n \in Int
    BY AmountsAssumption DEF Movements
  <1>2. UNCHANGED <<wallet, ledger, locked_by, copy, draft>>
    BY DEF Start
  <1>3. job'[s] = [op |-> "post", user |-> u, key |-> k, points |-> n]
    BY DEF Start, TypeOK
  <1>4. job'[s] \in Job
    BY <1>1, <1>3 DEF Job
  <1>5. TypeOK'
    BY <1>2, <1>4 DEF TypeOK, Start, Phases
  <1>6. LedgerChained' /\ CreditedOnce' /\ BalanceIsEarnedMinusSpent'
          /\ \A v \in Users : RowOf(v)' = RowOf(v) /\ KeysOf(v)' = KeysOf(v)
    BY <1>2, BooksStay
  <1>7. ASSUME NEW t \in Sessions PROVE SessionInv(t)'
    <2>1. CASE t = s
      <3>1. pc'[s] = "post" /\ copy'[s] = None /\ draft'[s] = None
        BY <1>2 DEF Start, TypeOK, SessionInv
      <3> QED
        BY <1>3, <1>4, <2>1, <3>1 DEF SessionInv
    <2>2. CASE t # s
      <3>1. pc'[t] = pc[t] /\ job'[t] = job[t] /\ copy'[t] = copy[t] /\ draft'[t] = draft[t]
        BY <1>2, <2>2 DEF Start, TypeOK
      <3>2. SessionInv(t)
        OBVIOUS
      <3> QED
        BY <1>2, <3>1, <3>2 DEF SessionInv, RowOf, KeysOf
    <2> QED
      BY <2>1, <2>2
  <1>8. LockInv'
    BY <1>2, NoneAssumption DEF LockInv, Start, TypeOK
  <1> QED
    BY <1>5, <1>6, <1>7, <1>8

(* The session reaches the lock and posts: what it reads is the committed  *)
(* row, because nobody may change it and the session has not read it       *)
(* before.                                                                 *)
LEMMA PostEntryInv ==
    ASSUME IInv, NEW s \in Sessions, PostEntry(s)
    PROVE  IInv'
  <1> USE DEF IInv
  <1> DEFINE u == job[s].user
             k == job[s].key
             n == job[s].points
             row == RowOf(u)
             fresh == AsRead(row)
             entry == [key |-> k, points |-> n, balance_before |-> row["current_balance"],
                       balance_after |-> row["current_balance"] + n]
  <1>1. /\ pc[s] = "post" /\ job[s] \in Job /\ n \in Movements
        /\ copy[s] = None /\ draft[s] = None
    BY DEF PostEntry, SessionInv
  <1>2. u \in Users /\ k \in Keys /\ n \in Int
    BY <1>1 DEF Job
  <1>3. row \in Row /\ row["current_balance"] \in Int
    BY <1>2, RowOfType DEF Row, Columns
  <1>4. Selected(s, u) = fresh /\ fresh \in Object /\ fresh.read = row /\ fresh.now = row
    BY <1>1, <1>3 DEF Selected, AsRead, Object
  <1>5. Posted(row, n) \in Row
    BY <1>2, <1>3, PostedFacts
  <1>6. entry \in Entry
    BY <1>2, <1>3 DEF Entry
  <1>7. /\ locked_by[u] \in {None, s}
        /\ locked_by' = [locked_by EXCEPT ![u] = s]
        /\ UNCHANGED <<wallet, ledger, job>>
        /\ pc' = [pc EXCEPT ![s] = "commit"]
    BY DEF PostEntry, apply_ledger_entry, GetWalletLocked
  <1>8. \/ /\ copy' = [copy EXCEPT ![s] = fresh]
           /\ draft' = draft
        \/ /\ k \notin KeysOf(u)
           /\ copy' = [copy EXCEPT ![s] = [fresh EXCEPT !.now = Posted(row, n)]]
           /\ draft' = [draft EXCEPT ![s] = entry]
    BY <1>4 DEF PostEntry, apply_ledger_entry
  <1>9. [fresh EXCEPT !.now = Posted(row, n)] = [read |-> row, now |-> Posted(row, n)]
    BY DEF AsRead
  <1>10. [read |-> row, now |-> Posted(row, n)] \in Object
    BY <1>3, <1>5 DEF Object
  <1>11. TypeOK'
    <2>1. copy' \in [Sessions -> Object \cup {None}]
      <3>1. \E object \in Object : copy' = [copy EXCEPT ![s] = object]
        BY <1>4, <1>8, <1>9, <1>10
      <3> QED
        BY <3>1 DEF TypeOK
    <2>2. draft' \in [Sessions -> Entry \cup {None}]
      <3> HIDE DEF entry
      <3> QED
        BY <1>6, <1>8 DEF TypeOK
    <2>3. locked_by' \in [Users -> Sessions \cup {None}]
      BY <1>7 DEF TypeOK
    <2>4. pc' \in [Sessions -> Phases]
      BY <1>7 DEF TypeOK, Phases
    <2> QED
      BY <1>7, <2>1, <2>2, <2>3, <2>4 DEF TypeOK
  <1>12. LedgerChained' /\ CreditedOnce' /\ BalanceIsEarnedMinusSpent'
    BY <1>7, BooksStay
  <1>13. RowOf(u)' = row /\ KeysOf(u)' = KeysOf(u)
    BY <1>7 DEF RowOf, KeysOf
  <1>14. SessionInv(s)'
    <2>1. pc'[s] = "commit" /\ job'[s] = job[s] /\ locked_by'[u] = s
      BY <1>2, <1>7 DEF TypeOK
    <2>2. /\ copy'[s] \in Object /\ copy'[s].read = row
          /\ draft'[s] = None => copy'[s].now = row
          /\ draft'[s] # None => /\ draft'[s] = entry
                                /\ k \notin KeysOf(u)
                                /\ copy'[s].now = Posted(row, n)
      <3>1. CASE copy' = [copy EXCEPT ![s] = fresh] /\ draft' = draft
        BY <1>1, <1>4, <3>1 DEF TypeOK
      <3>2. CASE /\ k \notin KeysOf(u)
                 /\ copy' = [copy EXCEPT ![s] = [fresh EXCEPT !.now = Posted(row, n)]]
                 /\ draft' = [draft EXCEPT ![s] = entry]
        <4>1. copy'[s] = [read |-> row, now |-> Posted(row, n)] /\ draft'[s] = entry
          BY <1>9, <3>2 DEF TypeOK
        <4>2. entry # None
          BY <1>6, NoneAssumption
        <4> QED
          BY <1>10, <3>2, <4>1, <4>2
      <3> QED
        BY <1>8, <3>1, <3>2
    <2>3. /\ entry.key = k /\ entry.points = n
          /\ entry.balance_before = row["current_balance"]
          /\ entry.balance_after = entry.balance_before + entry.points
      OBVIOUS
    <2>4. draft'[s] # None =>
             /\ draft'[s].key \notin KeysOf(u)
             /\ draft'[s].points = n
             /\ draft'[s].balance_before = copy'[s].read["current_balance"]
             /\ draft'[s].balance_after = draft'[s].balance_before + draft'[s].points
             /\ copy'[s].now = Posted(copy'[s].read, draft'[s].points)
      BY <2>2, <2>3
    <2> HIDE DEF IInv, fresh, entry
    <2> QED
      BY <1>1, <1>7, <2>1, <2>2, <2>4 DEF SessionInv, RowOf, KeysOf
  <1>15. ASSUME NEW t \in Sessions, t # s PROVE SessionInv(t)'
    <2>1. pc'[t] = pc[t] /\ job'[t] = job[t] /\ copy'[t] = copy[t] /\ draft'[t] = draft[t]
      BY <1>7, <1>8, <1>15 DEF TypeOK
    <2>2. SessionInv(t)
      OBVIOUS
    <2>3. pc[t] = "commit" => locked_by'[job[t].user] = t
      BY <1>7, <1>15, <2>2, NoneAssumption DEF SessionInv, Job, TypeOK
    <2> QED
      BY <1>7, <2>1, <2>2, <2>3 DEF SessionInv, RowOf, KeysOf
  <1>16. LockInv'
    <2>1. ASSUME NEW v \in Users, locked_by'[v] # None
          PROVE  pc'[locked_by'[v]] = "commit" /\ job'[locked_by'[v]].user = v
      <3>1. CASE v = u
        BY <1>2, <1>7, <3>1 DEF TypeOK
      <3>2. CASE v # u
        <4>1. locked_by'[v] = locked_by[v] /\ locked_by[v] \in Sessions
          BY <1>7, <2>1, <3>2 DEF TypeOK
        <4>2. pc[locked_by[v]] = "commit" /\ job[locked_by[v]].user = v
          BY <2>1, <4>1 DEF LockInv
        <4> QED
          BY <1>1, <1>7, <4>1, <4>2 DEF TypeOK
      <3> QED
        BY <3>1, <3>2
    <2> QED
      BY <2>1 DEF LockInv
  <1> QED
    BY <1>11, <1>12, <1>14, <1>15, <1>16

----------------------------------------------------------------------------
(* The end of a request                                                    *)

(* When a session ends, the others keep what they know, provided the rows  *)
(* they have locked stay as they are.                                      *)
LEMMA EndSessionInv ==
    ASSUME IInv, NEW s \in Sessions, EndSession(s),
           \A t \in Sessions : t # s /\ pc[t] = "commit" =>
                /\ wallet'[job[t].user] = wallet[job[t].user]
                /\ ledger'[job[t].user] = ledger[job[t].user]
    PROVE  /\ \A t \in Sessions : SessionInv(t)'
           /\ LockInv'
           /\ locked_by' \in [Users -> Sessions \cup {None}]
           /\ pc' \in [Sessions -> Phases]
           /\ job' \in [Sessions -> Job \cup {None}]
           /\ copy' \in [Sessions -> Object \cup {None}]
           /\ draft' \in [Sessions -> Entry \cup {None}]
  <1> USE DEF IInv
  <1>1. /\ pc' \in [Sessions -> Phases]
        /\ job' \in [Sessions -> Job \cup {None}]
        /\ copy' \in [Sessions -> Object \cup {None}]
        /\ draft' \in [Sessions -> Entry \cup {None}]
    BY DEF EndSession, TypeOK, Phases
  <1>2. locked_by' \in [Users -> Sessions \cup {None}]
    BY DEF EndSession, TypeOK
  <1>3. \A u \in Users : locked_by'[u] = IF locked_by[u] = s THEN None ELSE locked_by[u]
    BY DEF EndSession
  <1>4. ASSUME NEW t \in Sessions PROVE SessionInv(t)'
    <2>1. CASE t = s
      <3>1. pc'[s] = "idle" /\ job'[s] = None /\ copy'[s] = None /\ draft'[s] = None
        BY DEF EndSession, TypeOK
      <3> QED
        BY <2>1, <3>1 DEF SessionInv
    <2>2. CASE t # s
      <3>1. pc'[t] = pc[t] /\ job'[t] = job[t] /\ copy'[t] = copy[t] /\ draft'[t] = draft[t]
        BY <2>2 DEF EndSession, TypeOK
      <3>2. SessionInv(t)
        OBVIOUS
      <3>3. pc[t] = "commit" => /\ locked_by'[job[t].user] = t
                               /\ wallet'[job[t].user] = wallet[job[t].user]
                               /\ ledger'[job[t].user] = ledger[job[t].user]
        BY <1>3, <2>2, <3>2 DEF SessionInv, Job
      <3> QED
        BY <3>1, <3>2, <3>3 DEF SessionInv, RowOf, KeysOf
    <2> QED
      BY <2>1, <2>2
  <1>5. ASSUME NEW u \in Users, locked_by'[u] # None
        PROVE  pc'[locked_by'[u]] = "commit" /\ job'[locked_by'[u]].user = u
    <2>1. locked_by'[u] = locked_by[u] /\ locked_by[u] # s /\ locked_by[u] # None
      BY <1>3, <1>5
    <2>2. locked_by[u] \in Sessions /\ pc[locked_by[u]] = "commit" /\ job[locked_by[u]].user = u
      BY <2>1 DEF LockInv, TypeOK
    <2> QED
      BY <2>1, <2>2 DEF EndSession, TypeOK
  <1>6. LockInv'
    BY <1>5 DEF LockInv
  <1> QED
    BY <1>1, <1>2, <1>4, <1>6

(* A rollback leaves the committed rows as they are.                       *)
LEMMA RollbackInv ==
    ASSUME IInv, NEW s \in Sessions, Rollback(s)
    PROVE  IInv'
  <1>1. EndSession(s) /\ UNCHANGED <<wallet, ledger>>
    BY DEF Rollback
  <1>2. LedgerChained' /\ CreditedOnce' /\ BalanceIsEarnedMinusSpent'
    BY <1>1, BooksStay DEF IInv
  <1> QED
    BY <1>1, <1>2, EndSessionInv DEF IInv, TypeOK

(* A commit either changes nothing, or moves the wallet and the ledger of  *)
(* one user by the same posting of a new key.                              *)
LEMMA CommitFacts ==
    ASSUME IInv, NEW s \in Sessions, Commit(s)
    PROVE  LET u == job[s].user  e == draft[s]
           IN  /\ u \in Users /\ locked_by[u] = s
               /\ copy[s].now \in Row
               /\ wallet' = [wallet EXCEPT ![u] = copy[s].now]
               /\ \/ ledger' = ledger /\ copy[s].now = RowOf(u)
                  \/ /\ ledger' = [ledger EXCEPT ![u] = Append(@, e)]
                     /\ copy[s].now = Posted(RowOf(u), e.points)
                     /\ e \in Entry /\ e.points \in Movements /\ e.key \notin KeysOf(u)
                     /\ e.balance_before = RowOf(u)["current_balance"]
                     /\ e.balance_after = e.balance_before + e.points
  <1> DEFINE u == job[s].user
             e == draft[s]
  <1>1. SessionInv(s) /\ pc[s] = "commit" /\ CommitRows(s)
    BY DEF IInv, Commit
  <1>2. /\ job[s] \in Job /\ job[s].points \in Movements
        /\ locked_by[u] = s
        /\ copy[s] \in Object /\ copy[s].read = RowOf(u)
    BY <1>1 DEF SessionInv
  <1>3. u \in Users /\ copy[s].now \in Row
    BY <1>2 DEF Job, Object
  <1>4. copy[s] # None
    BY <1>2, NoneAssumption
  <1>5. Written(RowOf(u), copy[s]) = copy[s].now
    BY <1>2, WrittenFresh
  <1>6. wallet' = [wallet EXCEPT ![u] = copy[s].now]
    BY <1>1, <1>4, <1>5 DEF CommitRows
  <1>7. CASE e = None
    <2>1. ledger' = ledger /\ copy[s].now = RowOf(u)
      BY <1>1, <1>2, <1>7 DEF CommitRows, SessionInv
    <2> QED
      BY <1>2, <1>3, <1>6, <2>1
  <1>8. CASE e # None
    <2>1. ledger' = [ledger EXCEPT ![u] = Append(@, e)] /\ e \in Entry
      BY <1>1, <1>8 DEF CommitRows, IInv, TypeOK
    <2>2. /\ e.key \notin KeysOf(u) /\ e.points \in Movements
          /\ e.balance_before = RowOf(u)["current_balance"]
          /\ e.balance_after = e.balance_before + e.points
          /\ copy[s].now = Posted(RowOf(u), e.points)
      BY <1>1, <1>2, <1>8 DEF SessionInv
    <2> QED
      BY <1>2, <1>3, <1>6, <2>1, <2>2
  <1> QED
    BY <1>7, <1>8

(* The rows after a commit: those of other users stay, those of u are      *)
(* either the same or one posting further.                                 *)
LEMMA CommitInv ==
    ASSUME IInv, NEW s \in Sessions, Commit(s)
    PROVE  IInv'
  <1> USE DEF IInv
  <1> DEFINE u == job[s].user
             e == draft[s]
             row == RowOf(u)
             new == copy[s].now
  <1>1. /\ u \in Users /\ locked_by[u] = s
        /\ new \in Row
        /\ wallet' = [wallet EXCEPT ![u] = new]
    BY CommitFacts
  <1>2. \/ ledger' = ledger /\ new = row
        \/ /\ ledger' = [ledger EXCEPT ![u] = Append(@, e)]
           /\ new = Posted(row, e.points)
           /\ e \in Entry /\ e.points \in Movements /\ e.key \notin KeysOf(u)
           /\ e.balance_before = row["current_balance"]
           /\ e.balance_after = e.balance_before + e.points
    BY CommitFacts
  <1>3. /\ row \in Row
        /\ row["current_balance"] = row["total_earned"] - row["total_spent"]
        /\ PL!Chained(ledger[u]) /\ PL!OncePerKey(ledger[u])
        /\ ledger[u] \in Seq(Entry)
        /\ row["current_balance"] = PL!BalanceAfter(ledger[u], Len(ledger[u]))
    BY <1>1, RowOfType
       DEF TypeOK, LedgerChained, CreditedOnce, BalanceIsEarnedMinusSpent, Balance
  <1>4. \A v \in Users : v # u => wallet'[v] = wallet[v] /\ ledger'[v] = ledger[v]
    BY <1>1, <1>2 DEF TypeOK
  <1>5. wallet'[u] = new /\ new # None
    BY <1>1, NoneAssumption DEF TypeOK
  <1>6. /\ ledger'[u] \in Seq(Entry)
        /\ PL!Chained(ledger'[u]) /\ PL!OncePerKey(ledger'[u])
        /\ new["current_balance"] = PL!BalanceAfter(ledger'[u], Len(ledger'[u]))
        /\ new["current_balance"] = new["total_earned"] - new["total_spent"]
    <2>1. CASE ledger' = ledger /\ new = row
      BY <1>3, <2>1
    <2>2. CASE /\ ledger' = [ledger EXCEPT ![u] = Append(@, e)]
               /\ new = Posted(row, e.points)
               /\ e \in Entry /\ e.points \in Movements /\ e.key \notin KeysOf(u)
               /\ e.balance_before = row["current_balance"]
               /\ e.balance_after = e.balance_before + e.points
      <3>1. ledger'[u] = Append(ledger[u], e)
        BY <1>1, <2>2 DEF TypeOK
      <3>2. e.points \in Int
        BY <2>2 DEF Entry
      <3>3. PL!Chained(ledger'[u])
              /\ PL!BalanceAfter(ledger'[u], Len(ledger'[u])) = e.balance_after
        BY <1>3, <2>2, <3>1, AppendChained
      <3>4. PL!OncePerKey(ledger'[u])
        BY <1>3, <2>2, <3>1, AppendOncePerKey DEF KeysOf
      <3>5. ledger'[u] \in Seq(Entry)
        BY <1>3, <2>2, <3>1, AppendProperties
      <3>6. /\ new["current_balance"] = row["current_balance"] + e.points
            /\ new["total_earned"] - new["total_spent"]
                 = row["total_earned"] - row["total_spent"] + e.points
        BY <1>3, <2>2, <3>2, PostedFacts
      <3> QED
        BY <1>3, <2>2, <3>3, <3>4, <3>5, <3>6
    <2> QED
      BY <1>2, <2>1, <2>2
  <1>7. \A t \in Sessions : t # s /\ pc[t] = "commit" =>
            job[t].user # u /\ job[t].user \in Users
    BY <1>1 DEF SessionInv, Job
  <1>8. EndSession(s)
    BY DEF Commit, CommitRows
  <1>9. /\ \A t \in Sessions : SessionInv(t)'
        /\ LockInv'
        /\ locked_by' \in [Users -> Sessions \cup {None}]
        /\ pc' \in [Sessions -> Phases]
        /\ job' \in [Sessions -> Job \cup {None}]
        /\ copy' \in [Sessions -> Object \cup {None}]
        /\ draft' \in [Sessions -> Entry \cup {None}]
    BY <1>4, <1>7, <1>8, EndSessionInv
  <1>10. TypeOK'
    <2>1. wallet' \in [Users -> Row \cup {None}]
      BY <1>1 DEF TypeOK
    <2>2. ledger' \in [Users -> Seq(Entry)]
      <3>1. \A v \in Users : ledger'[v] \in Seq(Entry)
        BY <1>4, <1>6 DEF TypeOK
      <3>2. ledger' = [v \in Users |-> ledger'[v]]
        BY <1>2 DEF TypeOK
      <3> QED
        BY <3>1, <3>2
    <2> QED
      BY <1>9, <2>1, <2>2 DEF TypeOK
  <1>11. ASSUME NEW v \in Users
         PROVE  /\ PL!Chained(ledger[v])' /\ PL!OncePerKey(ledger[v])'
                /\ Balance[v]' = PL!BalanceAfter(ledger'[v], Len(ledger'[v]))
                /\ (RowOf(v)["current_balance"]
                      = RowOf(v)["total_earned"] - RowOf(v)["total_spent"])'
    <2>1. CASE v = u
      BY <1>5, <1>6, <2>1 DEF Balance, RowOf
    <2>2. CASE v # u
      <3>1. wallet'[v] = wallet[v] /\ ledger'[v] = ledger[v]
        BY <1>4, <2>2
      <3> QED
        BY <3>1 DEF Balance, RowOf, LedgerChained, CreditedOnce, BalanceIsEarnedMinusSpent
    <2> QED
      BY <2>1, <2>2
  <1>12. LedgerChained' /\ CreditedOnce' /\ BalanceIsEarnedMinusSpent'
    BY <1>11 DEF LedgerChained, CreditedOnce, BalanceIsEarnedMinusSpent
  <1> QED
    BY <1>9, <1>10, <1>12

----------------------------------------------------------------------------
(* The invariant                                                           *)

(* A request that is accepted asks for a movement that is not zero.        *)
LEMMA RequestInv ==
    ASSUME IInv, NEW s \in Sessions, Request(s)
    PROVE  IInv'
  <1>1. ASSUME NEW u \in Users, NEW k \in Events, NEW n \in Amounts, award_points(s, u, k, n)
        PROVE  IInv'
    <2>1. pc[s] = "idle" /\ n > 0 /\ Start(s, u, k, n)
      BY <1>1 DEF award_points
    <2>2. k \in Keys /\ n \in Movements
      BY <2>1, KeysAssumption, AmountsAssumption DEF Movements
    <2> QED
      BY <2>1, <2>2, StartInv
  <1>2. ASSUME NEW u \in Users, NEW k \in Manuals, NEW n \in Amounts,
               NEW type \in {"bonus", "manual_adjustment", "deduction", "correction"},
               create_manual_transaction(s, u, k, type, n)
        PROVE  IInv'
    <2>1. pc[s] = "idle" /\ Accepted(type, n) /\ Start(s, u, k, SignedPoints(type, n))
      BY <1>2 DEF create_manual_transaction
    <2>2. n \in Int /\ n # 0
      BY <2>1, AmountsAssumption DEF Accepted
    <2>3. SignedPoints(type, n) \in Movements
      BY <2>2, AmountsAssumption DEF SignedPoints, Movements
    <2>4. k \in Keys
      BY KeysAssumption
    <2> QED
      BY <2>1, <2>3, <2>4, StartInv
  <1> QED
    BY <1>1, <1>2 DEF Request

(* Every step of every session preserves the invariant.                    *)
LEMMA NextInv == IInv /\ [Next]_vars => IInv'
  <1> SUFFICES ASSUME IInv, [Next]_vars PROVE IInv'
    OBVIOUS
  <1>1. ASSUME NEW s \in Sessions, Request(s) PROVE IInv'
    BY <1>1, RequestInv
  <1>2. ASSUME NEW s \in Sessions, PostEntry(s) PROVE IInv'
    BY <1>2, PostEntryInv
  <1>3. ASSUME NEW s \in Sessions, Commit(s) PROVE IInv'
    BY <1>3, CommitInv
  <1>4. ASSUME NEW s \in Sessions, Rollback(s) PROVE IInv'
    BY <1>4, RollbackInv
  <1>5. CASE UNCHANGED vars
    BY <1>5 DEF vars, IInv, TypeOK, SessionInv, LockInv, LedgerChained, CreditedOnce,
                BalanceIsEarnedMinusSpent, Balance, RowOf, KeysOf
  <1> QED
    BY <1>1, <1>2, <1>3, <1>4, <1>5 DEF Next

(* The strengthened invariant holds in every reachable state, whatever the *)
(* number of users, sessions and requests.                                 *)
THEOREM Invariance == Spec => []IInv
  BY InitInv, NextInv, PTL DEF Spec

(* Every variable keeps its type: balances and entries are integers, a     *)
(* lock has one owner.                                                     *)
THEOREM TypeCorrect == Spec => []TypeOK
  <1>1. IInv => TypeOK
    BY DEF IInv
  <1> QED
    BY <1>1, Invariance, PTL

(* wallet_service.py:8-11, for these requests: a session that owns the     *)
(* lock of a wallet works on the committed row, never on an older copy.    *)
THEOREM LockedCopyIsFresh == Spec => []FreshUnderLock
  <1>1. IInv => FreshUnderLock
    <2> SUFFICES ASSUME IInv, NEW u \in Users, NEW s \in Sessions, locked_by[u] = s
                 PROVE  job[s].user = u /\ copy[s] # None /\ copy[s].read = RowOf(u)
      BY DEF FreshUnderLock
    <2>1. pc[s] = "commit" /\ job[s].user = u
      BY NoneAssumption DEF IInv, LockInv
    <2>2. copy[s] \in Object /\ copy[s].read = RowOf(u)
      BY <2>1 DEF IInv, SessionInv
    <2> QED
      BY <2>1, <2>2, NoneAssumption
  <1> QED
    BY <1>1, Invariance, PTL

(* models/points.py:24-28: the ledger of every user is a chain that ends   *)
(* at the balance of the wallet, so concurrent postings are never lost.    *)
THEOREM NoLostPosting == Spec => []LedgerChained
  <1>1. IInv => LedgerChained
    BY DEF IInv
  <1> QED
    BY <1>1, Invariance, PTL

(* wallet_service.py:12-14: an event is credited to a user at most once,   *)
(* however many sessions deliver it at the same time.                      *)
THEOREM NoDoubleCredit == Spec => []CreditedOnce
  <1>1. IInv => CreditedOnce
    BY DEF IInv
  <1> QED
    BY <1>1, Invariance, PTL

(* The balance of a wallet is what its user won less what was spent.       *)
THEOREM ColumnsAgree == Spec => []BalanceIsEarnedMinusSpent
  <1>1. IInv => BalanceIsEarnedMinusSpent
    BY DEF IInv
  <1> QED
    BY <1>1, Invariance, PTL

----------------------------------------------------------------------------
(* The refinement                                                          *)

(* At the start every wallet is missing, so every balance reads as zero.   *)
LEMMA InitRefines == Init => PL!Init
  <1> SUFFICES ASSUME Init PROVE PL!Init
    OBVIOUS
  <1>1. \A u \in Users : RowOf(u)["current_balance"] = 0
    BY DEF Init, RowOf, ZeroRow, Columns
  <1>2. Balance = [u \in Users |-> 0]
    BY <1>1 DEF Balance
  <1>3. ledger = [u \in Users |-> <<>>]
    BY DEF Init
  <1> QED
    BY <1>2, <1>3 DEF PL!Init

(* A step that leaves wallets and ledgers alone is a stutter of the        *)
(* abstract ledger.                                                        *)
LEMMA StutterRefines ==
    ASSUME UNCHANGED <<wallet, ledger>>
    PROVE  UNCHANGED PL!vars
  <1>1. \A u \in Users : RowOf(u)' = RowOf(u)
    BY DEF RowOf
  <1> QED
    BY <1>1 DEF PL!vars, Balance

(* A commit is one atomic posting of the abstract ledger, or a stutter     *)
(* when the event had been credited before.                                *)
LEMMA CommitRefines ==
    ASSUME IInv, NEW s \in Sessions, Commit(s)
    PROVE  [PL!Next]_(PL!vars)
  <1> DEFINE u == job[s].user
             e == draft[s]
             row == RowOf(u)
             new == copy[s].now
  <1>1. /\ u \in Users /\ new \in Row
        /\ wallet' = [wallet EXCEPT ![u] = new]
    BY CommitFacts
  <1>2. wallet \in [Users -> Row \cup {None}] /\ row \in Row /\ new # None
    BY <1>1, RowOfType, NoneAssumption DEF IInv, TypeOK
  <1>3. Balance' = [Balance EXCEPT ![u] = new["current_balance"]]
    <2>1. \A v \in Users : wallet'[v] = IF v = u THEN new ELSE wallet[v]
      BY <1>1, <1>2
    <2>2. \A v \in Users : Balance'[v] = IF v = u THEN new["current_balance"] ELSE Balance[v]
      BY <1>2, <2>1 DEF Balance, RowOf
    <2> QED
      BY <2>2 DEF Balance
  <1>4. CASE ledger' = ledger /\ new = row
    <2>1. Balance' = Balance
      BY <1>1, <1>3, <1>4 DEF Balance
    <2> QED
      BY <1>4, <2>1 DEF PL!vars
  <1>5. CASE /\ ledger' = [ledger EXCEPT ![u] = Append(@, e)]
             /\ new = Posted(row, e.points)
             /\ e \in Entry /\ e.points \in Movements /\ e.key \notin KeysOf(u)
             /\ e.balance_before = row["current_balance"]
             /\ e.balance_after = e.balance_before + e.points
    <2>1. e.points \in Int /\ e.points # 0 /\ e.key \in Keys
      BY <1>5 DEF Entry, Movements
    <2>2. Balance[u] = row["current_balance"]
            /\ new["current_balance"] = row["current_balance"] + e.points
      BY <1>1, <1>2, <1>5, <2>1, PostedFacts DEF Balance
    <2>3. Balance' = [Balance EXCEPT ![u] = @ + e.points]
      BY <1>3, <2>2
    <2>4. e = [key |-> e.key, points |-> e.points, balance_before |-> Balance[u],
               balance_after |-> Balance[u] + e.points]
      BY <1>5, <2>2 DEF Entry
    <2>5. e.key \notin PL!KeysIn(ledger[u])
      BY <1>5 DEF KeysOf, PL!KeysIn
    <2>6. PL!Post(u, e.key, e.points)
      <3>1. ledger' = [ledger EXCEPT ![u] = Append(@,
                [key |-> e.key, points |-> e.points, balance_before |-> Balance[u],
                 balance_after |-> Balance[u] + e.points])]
        BY <1>5, <2>4
      <3> QED
        BY <2>1, <2>3, <2>5, <3>1 DEF PL!Post
    <2>7. e.points \in Amounts \cup {-n : n \in Amounts}
      BY <1>5 DEF Movements
    <2> QED
      BY <1>1, <2>1, <2>6, <2>7 DEF PL!Next
  <1> QED
    BY <1>4, <1>5, CommitFacts

(* Every step of a session is a posting or a stutter.                      *)
LEMMA NextRefines == IInv /\ [Next]_vars => [PL!Next]_(PL!vars)
  <1> SUFFICES ASSUME IInv, [Next]_vars PROVE [PL!Next]_(PL!vars)
    OBVIOUS
  <1>1. ASSUME NEW s \in Sessions, Request(s) PROVE UNCHANGED <<wallet, ledger>>
    BY <1>1 DEF Request, award_points, create_manual_transaction, Start
  <1>2. ASSUME NEW s \in Sessions, PostEntry(s) PROVE UNCHANGED <<wallet, ledger>>
    BY <1>2 DEF PostEntry
  <1>3. ASSUME NEW s \in Sessions, Commit(s) PROVE [PL!Next]_(PL!vars)
    BY <1>3, CommitRefines
  <1>4. ASSUME NEW s \in Sessions, Rollback(s) PROVE UNCHANGED <<wallet, ledger>>
    BY <1>4 DEF Rollback
  <1>5. CASE UNCHANGED vars
    BY <1>5, StutterRefines DEF vars
  <1> QED
    BY <1>1, <1>2, <1>3, <1>4, <1>5, StutterRefines DEF Next

(* Concurrent sessions with their locks, copies and commits implement a    *)
(* ledger whose postings are single steps.                                 *)
THEOREM Refinement == Spec => ImplementsPointLedger
  BY InitRefines, NextRefines, Invariance, PTL DEF Spec, ImplementsPointLedger, PL!Spec
=============================================================================
