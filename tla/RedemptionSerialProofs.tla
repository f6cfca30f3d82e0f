------------------------ MODULE RedemptionSerialProofs ------------------------
(***************************************************************************)
(* What holds of redemptions when no two requests are handled at a time:   *)
(* the pending and redeemed points of a wallet are exactly those of the    *)
(* requests of its user, no stock exceeds its total or loses an item,      *)
(* every change of a status is allowed, and every ledger is a chain of     *)
(* atomic postings.  The theorems assume that there is one session at most *)
(* and are for any number of users, rewards and requests, one after the    *)
(* other.                                                                  *)
(*                                                                         *)
(* The argument: what the session has read is still what is committed, so  *)
(* what it has computed from it is what has to be written.                 *)
(***************************************************************************)
EXTENDS RedemptionBooksProofs

OneAtATime == \A s, t \in Sessions : s = t

----------------------------------------------------------------------------
(* The invariant                                                           *)

(* The handler has executed adjust_pending.                                *)
Moved(s) ==
    CASE job[s].op = "create"  -> pc[s] = "commit" /\ seen[s].status = "submitted"
      [] job[s].op = "submit"  -> pc[s] \in {"redemption_row", "commit"}
      [] job[s].op = "approve" -> pc[s] \in {"reward_row", "redemption_row", "commit"}
      [] job[s].op \in {"cancel", "reject"} ->
           pc[s] \in {"redemption_row", "commit"} /\ seen[s].status \in Pending
      [] OTHER -> FALSE

(* By how much.                                                            *)
Delta(s) == IF job[s].op \in {"create", "submit"} THEN job[s].points ELSE -job[s].points

(* What the session has read is what is committed.                         *)
ReadsStand(s) ==
    /\ copy[s] # None => copy[s].read = RowOf(job[s].user)
    /\ offer[s] # None => offer[s].read = reward[offer[s].id]
    /\ seen[s] # None /\ job[s].op # "create" =>
         seen[s] = redemption[job[s].key] /\ TransitionAllowed(seen[s], job[s].op)

(* The pending points of its wallet object follow its request.             *)
PendingStands(s) ==
    seen[s] # None =>
        IF Moved(s)
          THEN /\ copy[s] # None
               /\ copy[s].now["pending_points"] = copy[s].read["pending_points"] + Delta(s)
          ELSE copy[s] # None => Same(copy[s], "pending_points")

(* The stock of its reward object follows its request or its payload.      *)
StockStands(s) ==
    LET old == offer[s].read  new == offer[s].now
    IN  /\ seen[s] # None /\ job[s].op = "approve" /\ pc[s] \in Paid =>
             /\ InStock(old, seen[s].quantity)
             /\ new.inventory_total = old.inventory_total
             /\ new.inventory_remaining = IF old.inventory_remaining = None THEN None
                                          ELSE old.inventory_remaining - seen[s].quantity
        /\ offer[s] # None /\ job[s].op = "edit" =>
             new.inventory_remaining = Restocked(old, new.inventory_total)

Fresh(s) ==
    /\ ReadsStand(s)
    /\ PendingStands(s)
    /\ StockStands(s)
    /\ pc[s] # "idle" /\ job[s].op = "post" => job[s].points \in Movements

SerialInv ==
    /\ \A u \in Users : PL!Chained(ledger[u])
    /\ PendingIsExact
    /\ RedeemedIsExact
    /\ StockIsHonest
    /\ \A w \in Rewards : reward[w] # None =>
          (reward[w].inventory_total = None <=> reward[w].inventory_remaining = None)
    /\ \A s \in Sessions : Fresh(s)

----------------------------------------------------------------------------

(* Steps that commit nothing                                               *)

LEMMA NothingCommitted ==
    ASSUME BooksInv, SerialInv, UNCHANGED <<wallet, ledger, reward, redemption>>,
           \A s \in Sessions : Fresh(s)'
    PROVE  SerialInv'
<1>1. (\A u \in Users : PL!Chained(ledger[u]))'
  BY DEF SerialInv
<1>2. PendingIsExact' /\ RedeemedIsExact'
  BY DEF SerialInv, PendingIsExact, RedeemedIsExact, RowOf, TotalCost, Of, InStatus, Existing, Cost
<1>3. StockIsHonest'
  BY DEF SerialInv, StockIsHonest, Sold, SalesOf, InStatus, Existing
<1>4. (\A w \in Rewards : reward[w] # None =>
          (reward[w].inventory_total = None <=> reward[w].inventory_remaining = None))'
  BY DEF SerialInv
<1>. QED
  BY <1>1, <1>2, <1>3, <1>4 DEF SerialInv

(* A session without objects has nothing that could be old.                *)
LEMMA NothingRead ==
    ASSUME NEW s \in Sessions, pc'[s] = "idle", copy'[s] = None, offer'[s] = None, seen'[s] = None
    PROVE  Fresh(s)'
BY DEF Fresh, ReadsStand, PendingStands, StockStands

LEMMA EndSerial ==
    ASSUME TypeOKAll, NEW s \in Sessions, EndSession(s), Close(s)
    PROVE  Fresh(s)'
BY NothingRead DEF EndSession, Close, TypeOKAll

LEMMA RefuseSerial ==
    ASSUME OneAtATime, BooksInv, SerialInv, NEW s \in Sessions, Refuse(s)
    PROVE  SerialInv'
<1>1. Fresh(s)'
  BY EndSerial DEF Refuse, BooksInv
<1>. QED
  BY <1>1, NothingCommitted DEF Refuse, OneAtATime

(* From which status each operation is allowed.                            *)
LEMMA AllowedFrom ==
    ASSUME NEW op \in DOMAIN Target, NEW row \in RedemptionRow, TransitionAllowed(row, op)
    PROVE  /\ op = "submit" => row.status = "draft"
           /\ op = "review" => row.status = "submitted"
           /\ op \in {"approve", "reject"} => row.status \in Pending
           /\ op = "cancel" => row.status \in {"draft"} \cup Pending
           /\ op = "deliver" => row.status = "approved"
<1>1. row.status \in DOMAIN REDEMPTION_TRANSITIONS
  BY DEF RedemptionRow, RedemptionStatuses
<1>2. row.status \in {"draft", "submitted", "under_review", "approved", "rejected", "delivered",
                      "cancelled"}
  BY <1>1 DEF REDEMPTION_TRANSITIONS
<1>3. Target[op] \in REDEMPTION_TRANSITIONS[row.status]
  BY DEF TransitionAllowed
<1>. QED
  BY <1>2, <1>3 DEF Target, REDEMPTION_TRANSITIONS, Pending

(* A request begins with what it reads.                                    *)
LEMMA BeginSerial ==
    ASSUME OneAtATime, BooksInv, SerialInv, NEW s \in Sessions, RequestAll(s)
    PROVE  SerialInv'
<1>. USE DEF BooksInv
<1>1. ASSUME pc[s] = "idle" PROVE copy[s] = None /\ draft[s] = None /\ offer[s] = None /\ seen[s] = None
  BY <1>1 DEF SessionBooks
<1>2. ASSUME Fresh(s)', UNCHANGED <<wallet, ledger, reward, redemption>> PROVE SerialInv'
  BY <1>2, NothingCommitted DEF OneAtATime
<1>3. CASE Request(s) /\ UNCHANGED <<rowVars, objectVars>>
  <2>1. /\ pc[s] = "idle" /\ pc'[s] = "post" /\ job'[s].op = "post" /\ job'[s].points \in Movements
        /\ UNCHANGED <<wallet, ledger, locked_by, copy, draft>>
    <3>1. ASSUME NEW u \in Users, NEW k \in Keys, NEW n \in Movements, Start(s, u, k, n)
          PROVE  /\ pc'[s] = "post" /\ job'[s].op = "post" /\ job'[s].points \in Movements
                 /\ UNCHANGED <<wallet, ledger, locked_by, copy, draft>>
      BY <3>1 DEF Start, TypeOKAll
    <3>2. ASSUME NEW u \in Users, NEW k \in Events, NEW n \in Amounts, award_points(s, u, k, n)
          PROVE  n \in Movements /\ pc[s] = "idle" /\ Start(s, u, k, n) /\ k \in Keys
      BY <3>2, AmountsAssumption, KeysAssumption DEF award_points, Movements
    <3>3. ASSUME NEW u \in Users, NEW k \in Manuals, NEW n \in Amounts,
                 NEW type \in {"bonus", "manual_adjustment", "deduction", "correction"},
                 create_manual_transaction(s, u, k, type, n)
          PROVE  /\ SignedPoints(type, n) \in Movements /\ pc[s] = "idle" /\ k \in Keys
                 /\ Start(s, u, k, SignedPoints(type, n))
      BY <3>3, AmountsAssumption, KeysAssumption
         DEF create_manual_transaction, Accepted, SignedPoints, Movements
    <3>. QED
      BY <1>3, <3>1, <3>2, <3>3 DEF Request
  <2>2. copy'[s] = None /\ offer'[s] = None /\ seen'[s] = None
    BY <1>1, <1>3, <2>1 DEF objectVars
  <2>3. Fresh(s)'
    BY <2>1, <2>2 DEF Fresh, ReadsStand, PendingStands, StockStands
  <2>. QED
    BY <1>2, <1>3, <2>1, <2>3 DEF rowVars
<1>4. ASSUME NEW u \in Users, NEW w \in Rewards, NEW q \in Quantities, NEW submit \in BOOLEAN,
             NEW r \in Redemptions, create_redemption(s, u, w, q, submit, r)
      PROVE  SerialInv'
  <2>. DEFINE status == IF submit THEN "submitted" ELSE "draft"
              p == Statements("create", status)[1]
  <2>1. /\ pc[s] = "idle" /\ pc' = [pc EXCEPT ![s] = p] /\ job'[s].op = "create"
        /\ UNCHANGED <<wallet, ledger, locked_by, copy, draft, rowVars, offer>>
    BY <1>4 DEF create_redemption, Begin, TypeOKAll
  <2>2. p = "balance"
    BY FirstOfPlan DEF Handlers
  <2>3. copy'[s] = None /\ offer'[s] = None /\ pc'[s] = "balance"
    BY <1>1, <2>1, <2>2 DEF TypeOKAll
  <2>4. Fresh(s)'
    BY <2>1, <2>3 DEF Fresh, ReadsStand, PendingStands, StockStands, Moved
  <2>. QED
    BY <1>2, <2>1, <2>4 DEF rowVars
<1>5. ASSUME NEW op \in DOMAIN Target, NEW r \in Redemptions, load_redemption(s, op, r)
      PROVE  SerialInv'
  <2>. DEFINE row == redemption[r]
              p == Statements(op, row.status)[1]
  <2>1. /\ pc[s] = "idle" /\ row # None /\ TransitionAllowed(row, op)
        /\ pc' = [pc EXCEPT ![s] = p] /\ seen'[s] = row
        /\ job'[s].op = op /\ job'[s].key = r
        /\ UNCHANGED <<wallet, ledger, locked_by, copy, draft, rowVars, offer>>
    BY <1>5 DEF load_redemption, Begin, TypeOKAll
  <2>2. op \in {"submit", "cancel", "review", "approve", "reject", "deliver"}
    BY DEF Target
  <2>3. /\ op \in {"submit", "approve"} => p = "reward"
        /\ op \in {"cancel", "reject"} => p = IF row.status \in Pending THEN "pending" ELSE "redemption_row"
    BY <2>2, FirstOfPlan DEF Handlers
  <2>4. copy'[s] = None /\ offer'[s] = None /\ pc'[s] = p
    BY <1>1, <2>1 DEF TypeOKAll
  <2>5. ReadsStand(s)'
    BY <2>1, <2>4 DEF ReadsStand, rowVars, TransitionAllowed
  <2>. HIDE DEF p, row
  <2>6. ~Moved(s)'
    BY <2>1, <2>2, <2>3, <2>4 DEF Moved
  <2>7. Fresh(s)'
    BY <2>1, <2>2, <2>3, <2>4, <2>5, <2>6 DEF Fresh, PendingStands, StockStands, Paid
  <2>. QED
    BY <1>2, <2>1, <2>7 DEF rowVars
<1>6. ASSUME NEW w \in Rewards, NEW status \in RewardStatuses, NEW cost \in Costs, NEW total \in Totals,
             update_reward(s, w, status, cost, total)
      PROVE  SerialInv'
  <2>. DEFINE row == reward[w]
              new == [status |-> status, cost_points |-> cost, inventory_total |-> total,
                      inventory_remaining |-> Restocked(row, total)]
  <2>1. /\ pc[s] = "idle" /\ job'[s].op = "edit"
        /\ offer'[s] = [id |-> w, read |-> row, now |-> new]
        /\ UNCHANGED <<wallet, ledger, locked_by, copy, draft, rowVars, seen>>
    BY <1>6 DEF update_reward, TypeOKAll
  <2>2. copy'[s] = None /\ seen'[s] = None
    BY <1>1, <2>1
  <2>3. /\ offer'[s].id = w /\ offer'[s].read = row
        /\ offer'[s].now.inventory_total = total
        /\ offer'[s].now.inventory_remaining = Restocked(row, total)
    BY <2>1
  <2>4. Fresh(s)'
    BY <2>1, <2>2, <2>3 DEF Fresh, ReadsStand, PendingStands, StockStands, rowVars
  <2>. QED
    BY <1>2, <2>1, <2>4 DEF rowVars
<1>. QED
  BY <1>3, <1>4, <1>5, <1>6 DEF RequestAll

(* A new reward is nobody's offer and has not been sold.                   *)
LEMMA CreateRewardSerial ==
    ASSUME BooksInv, SerialInv, NEW w \in Rewards, NEW status \in RewardStatuses, NEW cost \in Costs,
           NEW total \in Totals, create_reward(w, status, cost, total)
    PROVE  SerialInv'
<1>. USE DEF BooksInv
<1>. DEFINE row == [status |-> status, cost_points |-> cost,
                    inventory_total |-> total, inventory_remaining |-> total]
<1>1. /\ reward[w] = None /\ reward' = [reward EXCEPT ![w] = row]
      /\ UNCHANGED <<vars, redemption, reward_locked_by, redemption_locked_by, objectVars>>
  BY DEF create_reward
<1>2. /\ reward'[w] = row /\ \A v \in Rewards : v # w => reward'[v] = reward[v]
  BY <1>1 DEF TypeOKAll
<1>3. \A v \in Rewards : Sold(v)' = Sold(v)
  BY <1>1 DEF Sold, SalesOf, InStatus, Existing
<1>4. Sold(w) \in Nat
  <2>. DEFINE f == [r \in SalesOf(w) |-> redemption[r].quantity]
  <2>1. IsFiniteSet(SalesOf(w))
    <3>1. SalesOf(w) \subseteq Existing
      BY DEF SalesOf, InStatus
    <3>. QED
      BY <3>1, FS_Subset DEF Books
  <2>2. DOMAIN f = SalesOf(w) /\ \A r \in SalesOf(w) : f[r] \in Nat
    BY NumbersAssumption DEF SalesOf, InStatus, Existing, TypeOKAll, RedemptionRow
  <2>3. Sold(w) = SumFunction(f)
    BY DEF Sold
  <2>. HIDE DEF f
  <2>4. SumFunction(f) = SumFunctionOnSet(f, SalesOf(w))
    BY <2>2 DEF SumFunction
  <2>. QED
    BY <2>1, <2>2, <2>3, <2>4, SumOfNaturals
<1>5. total \in Nat \cup {None}
  BY NumbersAssumption
<1>6. StockIsHonest'
  <2>. SUFFICES ASSUME NEW v \in Rewards, reward'[v] # None, reward'[v].inventory_total # None
                PROVE  /\ reward'[v].inventory_remaining >= 0
                       /\ reward'[v].inventory_total - Sold(v)' <= reward'[v].inventory_remaining
                       /\ reward'[v].inventory_remaining <= reward'[v].inventory_total
    BY DEF StockIsHonest
  <2>1. CASE v = w
    BY <1>2, <1>3, <1>4, <1>5, <2>1
  <2>2. CASE v # w
    BY <1>2, <1>3, <2>2 DEF SerialInv, StockIsHonest
  <2>. QED
    BY <2>1, <2>2
<1>7. (\A v \in Rewards : reward[v] # None =>
          (reward[v].inventory_total = None <=> reward[v].inventory_remaining = None))'
  BY <1>2 DEF SerialInv
<1>8. ASSUME NEW s \in Sessions PROVE Fresh(s)'
  <2>1. offer[s] # None => offer[s].id # w
    <3>. SUFFICES ASSUME offer[s] # None PROVE offer[s].id # w
      OBVIOUS
    <3>1. EditingBooks(s) \/ HandlingBooks(s)
      BY DEF SessionBooks, PostingBooks
    <3>. QED
      BY <1>1, <3>1 DEF EditingBooks, HandlingBooks, ApproveBooks
  <2>2. offer[s] # None => offer[s].id \in Rewards
    BY DEF TypeOKAll, RewardObject
  <2>3. ReadsStand(s)'
    BY <1>1, <1>2, <2>1, <2>2 DEF SerialInv, Fresh, ReadsStand, vars, objectVars, RowOf
  <2>4. PendingStands(s)' /\ StockStands(s)'
    BY <1>1 DEF SerialInv, Fresh, PendingStands, StockStands, Moved, Delta, Same, vars, objectVars
  <2>5. pc'[s] # "idle" /\ job'[s].op = "post" => job'[s].points \in Movements
    BY <1>1 DEF SerialInv, Fresh, vars
  <2>. QED
    BY <2>3, <2>4, <2>5 DEF Fresh
<1>9. PendingIsExact' /\ RedeemedIsExact'
  BY <1>1 DEF SerialInv, PendingIsExact, RedeemedIsExact, RowOf, TotalCost, Of, InStatus, Existing,
              Cost, vars
<1>10. (\A u \in Users : PL!Chained(ledger[u]))'
  BY <1>1 DEF SerialInv, vars
<1>. QED
  BY <1>6, <1>7, <1>8, <1>9, <1>10 DEF SerialInv

----------------------------------------------------------------------------
(* The statements of a handler                                             *)

(* adjust_pending is what moves the pending points, and nothing else.      *)
LEMMA MovedByPending ==
    ASSUME TypeOKAll, NEW s \in Sessions, HandlingBooks(s), pc[s] \notin {"idle", "commit"},
           Advance(s), UNCHANGED <<job, seen>>
    PROVE  /\ pc'[s] = NextOf(job[s].op, seen[s].status, pc[s])
           /\ Moved(s)' <=> Moved(s) \/ pc[s] = "pending"
           /\ pc[s] = "pending" => ~Moved(s)
<1>1. job[s].op \in Handlers /\ seen[s] # None /\ pc[s] \in Plan(job[s].op, seen[s].status)
  BY DEF HandlingBooks
<1>2. pc'[s] = NextOf(job[s].op, seen[s].status, pc[s])
  BY <1>1, AdvancePlan DEF TypeOKAll
<1>3. job[s].op = "create" => seen[s].status \in {"draft", "submitted"}
  BY DEF HandlingBooks
<1>. DEFINE op == job[s].op  status == seen[s].status  here == pc[s]
<1>4. job'[s].op = op /\ seen'[s].status = status
  OBVIOUS
<1>5. CASE op = "create"
  <2>1. here \in {"balance", "pending"} /\ (here = "pending" => status = "submitted")
    BY <1>1, <1>3, <1>5, PlanStatements
  <2>. QED
    BY <1>2, <1>3, <1>4, <1>5, <2>1 DEF Moved, NextOf
<1>6. CASE op = "submit"
  <2>1. here \in {"reward", "pending", "redemption_row"}
    BY <1>1, <1>6, PlanStatements
  <2>. QED
    BY <1>2, <1>4, <1>6, <2>1 DEF Moved, NextOf
<1>7. CASE op = "approve"
  <2>1. here \in {"reward", "balance", "post", "pending", "reward_row", "redemption_row"}
    BY <1>1, <1>7, PlanStatements
  <2>. QED
    BY <1>2, <1>4, <1>7, <2>1 DEF Moved, NextOf
<1>8. CASE op \in {"cancel", "reject"}
  <2>1. here \in {"pending", "redemption_row"} /\ (here = "pending" => status \in Pending)
    BY <1>1, <1>8, PlanStatements
  <2>. QED
    BY <1>2, <1>4, <1>8, <2>1 DEF Moved, NextOf
<1>9. CASE op \in {"review", "deliver"}
  <2>1. here \in {"redeemed", "redemption_row"}
    BY <1>1, <1>9, PlanStatements
  <2>. QED
    BY <1>2, <1>4, <1>9, <2>1 DEF Moved
<1>. QED
  BY <1>1, <1>2, <1>5, <1>6, <1>7, <1>8, <1>9 DEF Handlers

(* The pending points of the object after a statement.                     *)
PendingFollows(s) ==
    IF pc[s] = "pending"
      THEN /\ copy'[s] # None
           /\ copy'[s].now["pending_points"] = copy'[s].read["pending_points"] + Delta(s)
      ELSE /\ copy[s] # None =>
                /\ copy'[s] # None /\ copy'[s].read = copy[s].read
                /\ copy'[s].now["pending_points"] = copy[s].now["pending_points"]
           /\ copy[s] = None /\ copy'[s] # None =>
                copy'[s].now["pending_points"] = copy'[s].read["pending_points"]

(* A statement of a handler that keeps to what it has read.                *)
LEMMA HandlerSerial ==
    ASSUME OneAtATime, BooksInv, SerialInv, NEW s \in Sessions, HandlingBooks(s),
           pc[s] \notin {"idle", "commit"}, Advance(s),
           UNCHANGED <<wallet, ledger, job, reward, redemption, seen>>,
           copy'[s] # None => copy'[s].read = RowOf(job[s].user),
           PendingFollows(s),
           offer'[s] # None => offer'[s].read = reward[offer'[s].id],
           job[s].op = "approve" /\ pc[s] = "post" => StockStands(s)',
           pc[s] # "post" => offer'[s] = offer[s] \/ pc[s] = "reward"
    PROVE  SerialInv'
<1>. USE DEF BooksInv
<1>1. Fresh(s)
  BY DEF SerialInv
<1>2. /\ pc'[s] = NextOf(job[s].op, seen[s].status, pc[s])
      /\ Moved(s)' <=> Moved(s) \/ pc[s] = "pending"
      /\ pc[s] = "pending" => ~Moved(s)
  BY MovedByPending
<1>3. seen'[s] # None /\ job[s].op \in Handlers
  BY DEF HandlingBooks
<1>4. ReadsStand(s)'
  <2>1. RowOf(job[s].user)' = RowOf(job[s].user)
    BY DEF RowOf
  <2>2. (copy[s] # None => copy[s].read = RowOf(job[s].user))'
    BY <2>1
  <2>3. (seen[s] # None /\ job[s].op # "create" =>
            seen[s] = redemption[job[s].key] /\ TransitionAllowed(seen[s], job[s].op))'
    BY <1>1 DEF Fresh, ReadsStand, TransitionAllowed
  <2>. QED
    BY <2>2, <2>3 DEF ReadsStand
<1>5. PendingStands(s)'
  <2>1. Delta(s)' = Delta(s)
    BY DEF Delta
  <2>2. CASE pc[s] = "pending"
    BY <1>2, <2>1, <2>2 DEF PendingStands, PendingFollows
  <2>3. CASE pc[s] # "pending"
    BY <1>1, <1>2, <1>3, <2>1, <2>3 DEF Fresh, PendingStands, PendingFollows, Same
  <2>. QED
    BY <2>2, <2>3
<1>6. StockStands(s)'
  <2>1. CASE job[s].op = "approve" /\ pc[s] = "post"
    BY <2>1
  <2>2. CASE job[s].op = "approve" /\ pc[s] # "post"
    <3>1. pc[s] \in {"reward", "balance", "pending", "reward_row", "redemption_row"}
      BY <2>2, PlanStatements DEF HandlingBooks
    <3>2. CASE pc[s] \in {"reward", "balance"}
      BY <1>2, <2>2, <3>2 DEF StockStands, NextOf, Paid
    <3>3. CASE pc[s] \in {"pending", "reward_row", "redemption_row"}
      BY <1>1, <1>3, <2>2, <3>3 DEF Fresh, StockStands, Paid
    <3>. QED
      BY <3>1, <3>2, <3>3
  <2>3. CASE job[s].op # "approve"
    BY <1>3, <2>3 DEF StockStands, Handlers
  <2>. QED
    BY <2>1, <2>2, <2>3
<1>7. (pc[s] # "idle" /\ job[s].op = "post" => job[s].points \in Movements)'
  BY <1>3 DEF Handlers
<1>8. Fresh(s)'
  BY <1>4, <1>5, <1>6, <1>7 DEF Fresh
<1>. QED
  BY <1>8, NothingCommitted DEF OneAtATime

(* A statement that leaves the objects of the session alone.               *)
LEMMA ObjectsStand ==
    ASSUME OneAtATime, BooksInv, SerialInv, NEW s \in Sessions, HandlingBooks(s),
           pc[s] \notin {"idle", "commit", "post", "pending"}, Advance(s),
           UNCHANGED <<wallet, ledger, job, copy, reward, redemption, offer, seen>>
    PROVE  SerialInv'
<1>1. ReadsStand(s)
  BY DEF SerialInv, Fresh
<1>2. PendingFollows(s)
  BY DEF PendingFollows
<1>. QED
  BY <1>1, <1>2, HandlerSerial DEF ReadsStand

(* The columns of a wallet object the session selects.                     *)
LEMMA SelectedStands ==
    ASSUME BooksInv, SerialInv, NEW s \in Sessions, HandlingBooks(s)
    PROVE  LET object == Selected(s, job[s].user)
           IN  /\ object \in Object /\ object.read = RowOf(job[s].user)
               /\ copy[s] # None => object = copy[s]
               /\ copy[s] = None => object.now = object.read
<1>1. job[s].user \in Users
  BY HandledTypes DEF BooksInv
<1>2. ReadsStand(s)
  BY DEF SerialInv, Fresh
<1>. QED
  BY <1>1, <1>2, SelectedIs DEF BooksInv, ReadsStand

LEMMA PostEntrySerial ==
    ASSUME OneAtATime, BooksInv, SerialInv, NEW s \in Sessions,
           PostEntry(s), UNCHANGED <<rowVars, objectVars>>
    PROVE  SerialInv'
<1>. USE DEF BooksInv
<1>1. /\ pc[s] = "post" /\ job[s].op = "post" /\ UNCHANGED <<wallet, ledger, job>>
      /\ apply_ledger_entry(s, job[s].user, job[s].key, job[s].points)
  BY DEF PostEntry
<1>2. PostingBooks(s)
  BY <1>1, WhoIsThere
<1>3. copy[s] = None /\ offer[s] = None /\ seen[s] = None /\ job[s].user \in Users
  BY <1>1, <1>2 DEF PostingBooks
<1>4. PICK row : copy'[s] = [read |-> RowOf(job[s].user), now |-> row]
  <2>. DEFINE object == Selected(s, job[s].user)
              posted == [object EXCEPT !.now = Posted(object.now, job[s].points)]
  <2>1. object \in Object /\ object.read = RowOf(job[s].user)
    BY <1>3, SelectedIs
  <2>. HIDE DEF object
  <2>2. object = [read |-> RowOf(job[s].user), now |-> object.now]
    BY <2>1 DEF Object
  <2>3. posted = [read |-> RowOf(job[s].user), now |-> Posted(object.now, job[s].points)]
    BY <2>2
  <2>4. copy'[s] = object \/ copy'[s] = posted
    BY <1>1 DEF apply_ledger_entry, TypeOKAll, object
  <2>. QED
    BY <2>2, <2>3, <2>4
<1>5. offer'[s] = None /\ seen'[s] = None
  BY <1>3 DEF objectVars
<1>6. (copy[s].read = RowOf(job[s].user))'
  BY <1>1, <1>4 DEF RowOf
<1>7. job'[s].op = "post" /\ job'[s].points \in Movements
  BY <1>1 DEF SerialInv, Fresh
<1>8. Fresh(s)'
  BY <1>5, <1>6, <1>7 DEF Fresh, ReadsStand, PendingStands, StockStands
<1>. QED
  BY <1>1, <1>8, NothingCommitted DEF OneAtATime, rowVars

LEMMA SubmitSerial ==
    ASSUME OneAtATime, BooksInv, SerialInv, NEW s \in Sessions, submit_redemption(s)
    PROVE  SerialInv'
<1>1. CASE Refuse(s)
  BY <1>1, RefuseSerial
<1>2. CASE ~Refuse(s)
  <2>1. pc[s] = "reward" /\ Advance(s)
        /\ UNCHANGED <<wallet, ledger, locked_by, job, copy, draft, rowVars, objectVars>>
    BY <1>2 DEF submit_redemption
  <2>2. HandlingBooks(s)
    BY <2>1, WhoIsThere DEF BooksInv
  <2>. QED
    BY <2>1, <2>2, ObjectsStand DEF rowVars, objectVars
<1>. QED
  BY <1>1, <1>2

LEMMA ApproveReadsSerial ==
    ASSUME OneAtATime, BooksInv, SerialInv, NEW s \in Sessions, ApproveReadsReward(s)
    PROVE  SerialInv'
<1>1. CASE Refuse(s)
  BY <1>1, RefuseSerial
<1>2. CASE ~Refuse(s)
  <2>. DEFINE w == seen[s].reward
  <2>1. /\ pc[s] = "reward" /\ Advance(s)
        /\ offer' = [offer EXCEPT ![s] = [id |-> w, read |-> reward[w], now |-> reward[w]]]
        /\ UNCHANGED <<wallet, ledger, locked_by, job, copy, draft, rowVars, seen>>
    BY <1>2 DEF ApproveReadsReward
  <2>2. HandlingBooks(s)
    BY <2>1, WhoIsThere DEF BooksInv
  <2>3. offer'[s] = [id |-> w, read |-> reward[w], now |-> reward[w]]
    BY <2>1 DEF BooksInv, TypeOKAll
  <2>4. offer'[s].read = reward[offer'[s].id]
    BY <2>3
  <2>5. ReadsStand(s)
    BY DEF SerialInv, Fresh
  <2>6. PendingFollows(s)
    BY <2>1 DEF PendingFollows
  <2>. QED
    BY <2>1, <2>2, <2>4, <2>5, <2>6, HandlerSerial DEF ReadsStand, rowVars
<1>. QED
  BY <1>1, <1>2

LEMMA CheckBalanceSerial ==
    ASSUME OneAtATime, BooksInv, SerialInv, NEW s \in Sessions, CheckBalance(s)
    PROVE  SerialInv'
<1>1. CASE Refuse(s)
  BY <1>1, RefuseSerial
<1>2. CASE ~Refuse(s)
  <2>. DEFINE u == job[s].user
  <2>1. /\ pc[s] = "balance" /\ get_wallet(s, u) /\ Advance(s)
        /\ UNCHANGED <<wallet, ledger, locked_by, job, draft, rowVars, objectVars>>
    BY <1>2 DEF CheckBalance
  <2>2. HandlingBooks(s)
    BY <2>1, WhoIsThere DEF BooksInv
  <2>3. copy'[s] = copy[s] \/ copy'[s] = Selected(s, u)
    BY <2>1 DEF get_wallet, BooksInv, TypeOKAll
  <2>4. /\ Selected(s, u) \in Object /\ Selected(s, u).read = RowOf(u)
        /\ copy[s] # None => Selected(s, u) = copy[s]
        /\ copy[s] = None => Selected(s, u).now = Selected(s, u).read
    BY <2>2, SelectedStands
  <2>5. ReadsStand(s)
    BY DEF SerialInv, Fresh
  <2>6. PendingFollows(s)
    BY <2>1, <2>3, <2>4 DEF PendingFollows
  <2>7. copy'[s] # None => copy'[s].read = RowOf(job[s].user)
    BY <2>3, <2>4, <2>5 DEF ReadsStand
  <2>. QED
    BY <2>1, <2>2, <2>5, <2>6, <2>7, HandlerSerial DEF ReadsStand, rowVars, objectVars
<1>. QED
  BY <1>1, <1>2

LEMMA ApprovePostsSerial ==
    ASSUME OneAtATime, BooksInv, SerialInv, NEW s \in Sessions, ApprovePosts(s)
    PROVE  SerialInv'
<1>1. CASE Refuse(s)
  BY <1>1, RefuseSerial
<1>2. CASE ~Refuse(s)
  <2>. DEFINE u == job[s].user  r == job[s].key  n == -job[s].points
              old == copy[s]
              new == [old EXCEPT !.now = Posted(old.now, n)]
              o == Deducted(offer[s], seen[s].quantity)
  <2>1. /\ pc[s] = "post" /\ job[s].op = "approve" /\ r \notin KeysOf(u)
        /\ apply_ledger_entry(s, u, r, n) /\ offer' = [offer EXCEPT ![s] = o]
        /\ Advance(s) /\ UNCHANGED <<wallet, ledger, job, rowVars, seen>>
    BY <1>2 DEF ApprovePosts, Op
  <2>2. HandlingBooks(s) /\ ReadsStand(s)
    BY <2>1, WhoIsThere DEF BooksInv, Handlers, SerialInv, Fresh
  <2>3. /\ old # None /\ offer[s] # None /\ offer[s].now = offer[s].read
        /\ InStock(offer[s].now, seen[s].quantity)
    BY <2>1, <2>2 DEF HandlingBooks, ApproveBooks, Paid
  <2>4. old \in Object /\ old.now \in Row /\ offer[s] \in RewardObject
    BY <2>3 DEF BooksInv, TypeOKAll, Object
  <2>5. Selected(s, u) = old
    BY <2>3 DEF Selected
  <2>6. copy' = [copy EXCEPT ![s] = new]
    BY <2>1, <2>5 DEF apply_ledger_entry
  <2>7. copy'[s] = new /\ offer'[s] = o
    BY <2>1, <2>6 DEF BooksInv, TypeOKAll
  <2>8. /\ new.read = old.read /\ new.now = Posted(old.now, n)
        /\ Posted(old.now, n)["pending_points"] = old.now["pending_points"]
    BY <2>4 DEF Object, Posted, Row, Columns
  <2>9. n \in Int /\ Posted(old.now, n) \in Row
    <3>1. n \in Int
      BY <2>2, HandledTypes DEF BooksInv
    <3>. HIDE DEF n
    <3>. QED
      BY <2>4, <3>1, PostedFacts
  <2>10. new \in Object
    BY <2>4, <2>9 DEF Object
  <2>11. new # None
    <3>. HIDE DEF new
    <3>. QED
      BY <2>10, NoneAssumption
  <2>12. /\ o.id = offer[s].id /\ o.read = offer[s].read /\ InStock(o.read, seen[s].quantity)
         /\ o.now.inventory_total = o.read.inventory_total
         /\ o.now.inventory_remaining = IF o.read.inventory_remaining = None THEN None
                                        ELSE o.read.inventory_remaining - seen[s].quantity
    BY <2>3, <2>4 DEF Deducted, RewardObject, RewardRow
  <2>. HIDE DEF new, o
  <2>13. PendingFollows(s)
    BY <2>1, <2>3, <2>7, <2>8, <2>11 DEF PendingFollows
  <2>14. copy'[s].read = RowOf(job[s].user)
    BY <2>2, <2>3, <2>7, <2>8 DEF ReadsStand
  <2>15. offer'[s].read = reward[offer'[s].id]
    BY <2>2, <2>3, <2>7, <2>12 DEF ReadsStand
  <2>16. StockStands(s)'
    BY <2>1, <2>7, <2>12 DEF StockStands
  <2>. QED
    BY <2>1, <2>2, <2>13, <2>14, <2>15, <2>16, HandlerSerial DEF rowVars
<1>. QED
  BY <1>1, <1>2

(* The points of some requests are at least those of one of them.          *)
LEMMA TotalCovers ==
    ASSUME BooksInv, NEW rs \in SUBSET Existing
    PROVE  /\ TotalCost(rs) \in Nat
           /\ \A r \in rs : Cost(r) \in Nat /\ TotalCost(rs) >= Cost(r)
<1>. DEFINE f == [r \in rs |-> Cost(r)]
<1>1. IsFiniteSet(rs)
  BY FS_Subset DEF BooksInv, Books
<1>2. DOMAIN f = rs /\ \A r \in rs : f[r] = Cost(r) /\ f[r] \in Nat
  BY DEF Existing, Cost, BooksInv, TypeOKAll, RedemptionRow
<1>3. TotalCost(rs) = SumFunction(f)
  BY DEF TotalCost
<1>. HIDE DEF f
<1>4. TotalCost(rs) = SumFunctionOnSet(f, rs)
  BY <1>2, <1>3 DEF SumFunction
<1>5. TotalCost(rs) \in Nat
  BY <1>1, <1>2, <1>4, SumOfNaturals
<1>6. ASSUME NEW r \in rs PROVE Cost(r) \in Nat /\ TotalCost(rs) >= Cost(r)
  <2>1. SumFunctionOnSet(f, rs) = f[r] + SumFunctionOnSet(f, rs \ {r})
    BY <1>1, <1>2, SumRemove
  <2>2. IsFiniteSet(rs \ {r})
    BY <1>1, FS_Subset
  <2>3. SumFunctionOnSet(f, rs \ {r}) \in Nat
    BY <1>2, <2>2, SumOfNaturals
  <2>. QED
    BY <1>2, <1>4, <2>1, <2>3
<1>. QED
  BY <1>5, <1>6

LEMMA AdjustPendingSerial ==
    ASSUME OneAtATime, BooksInv, SerialInv, NEW s \in Sessions, adjust_pending(s)
    PROVE  SerialInv'
<1>. DEFINE u == job[s].user
            delta == IF Op(s) \in {"create", "submit"} THEN job[s].points ELSE -job[s].points
            old == Selected(s, u)
            amount == AtLeastZero(old.now["pending_points"] + delta)
            new == [old EXCEPT !.now["pending_points"] = amount]
<1>1. /\ pc[s] = "pending" /\ Advance(s)
      /\ copy' = [copy EXCEPT ![s] = new]
      /\ UNCHANGED <<wallet, ledger, job, draft, rowVars, objectVars>>
  BY DEF adjust_pending
<1>2. HandlingBooks(s) /\ ReadsStand(s) /\ PendingStands(s)
  BY <1>1, WhoIsThere DEF BooksInv, SerialInv, Fresh
<1>3. u \in Users /\ job[s].points \in Nat /\ job[s].key \in Redemptions
  BY <1>2, HandledTypes DEF BooksInv
<1>4. /\ old \in Object /\ old.read = RowOf(u)
      /\ copy[s] # None => old = copy[s]
      /\ copy[s] = None => old.now = old.read
  BY <1>2, SelectedStands
<1>5. old.now["pending_points"] = old.read["pending_points"]
  <2>1. ~Moved(s)
    BY <1>1, <1>2, MovedByPending DEF BooksInv, rowVars, objectVars
  <2>. QED
    BY <1>2, <1>4, <2>1 DEF PendingStands, HandlingBooks, Same
<1>6. delta = Delta(s)
  BY DEF Delta, Op
<1>7. PICK rs : rs = Of(u) \cap InStatus(Pending)
  OBVIOUS
<1>8. rs \in SUBSET Existing
  BY <1>7 DEF Of, InStatus
<1>9. old.read["pending_points"] = TotalCost(rs)
  BY <1>3, <1>4, <1>7 DEF SerialInv, PendingIsExact
<1>10. TotalCost(rs) + delta >= 0
  <2>1. CASE job[s].op \in {"create", "submit"}
    BY <1>3, <1>8, <2>1, TotalCovers DEF Op
  <2>2. CASE job[s].op \notin {"create", "submit"}
    <3>1. job[s].op \in {"approve", "cancel", "reject"}
      BY <1>1, <1>2, <2>2, WhoIsThere DEF BooksInv
    <3>2. /\ redemption[job[s].key] # None /\ redemption[job[s].key].user = u
          /\ Cost(job[s].key) = job[s].points
          /\ seen[s] # None /\ seen[s] \in RedemptionRow
          /\ pc[s] \in Plan(job[s].op, seen[s].status)
      BY <1>2, <3>1, HandledTypes DEF HandlingBooks, BooksInv
    <3>3. seen[s] = redemption[job[s].key] /\ TransitionAllowed(seen[s], job[s].op)
      BY <1>2, <3>1, <3>2 DEF ReadsStand
    <3>4. seen[s].status \in Pending
      <4>1. CASE job[s].op = "approve"
        BY <3>2, <3>3, <4>1, AllowedFrom DEF Target
      <4>2. CASE job[s].op \in {"cancel", "reject"}
        BY <1>1, <3>2, <4>2, PlanStatements
      <4>. QED
        BY <3>1, <4>1, <4>2
    <3>5. job[s].key \in rs
      BY <1>3, <1>7, <3>2, <3>3, <3>4 DEF Of, InStatus, Existing
    <3>6. TotalCost(rs) >= job[s].points /\ TotalCost(rs) \in Nat
      BY <1>8, <3>2, <3>5, TotalCovers
    <3>. QED
      BY <1>3, <2>2, <3>6 DEF Op
  <2>. QED
    BY <2>1, <2>2
<1>11. amount = old.read["pending_points"] + Delta(s) /\ amount \in Int
  <2>1. TotalCost(rs) + delta \in Int
    BY <1>3, <1>8, TotalCovers
  <2>2. amount = AtLeastZero(TotalCost(rs) + delta)
    BY <1>5, <1>9
  <2>. HIDE DEF delta
  <2>3. amount = TotalCost(rs) + delta
    BY <1>10, <2>1, <2>2 DEF AtLeastZero
  <2>. QED
    BY <1>6, <1>9, <2>1, <2>3
<1>. HIDE DEF amount, old
<1>12. new \in Object /\ new.read = old.read /\ new.now["pending_points"] = amount
  <2>1. old.now \in Row
    BY <1>4 DEF Object
  <2>2. /\ [old.now EXCEPT !["pending_points"] = amount] \in Row
        /\ [old.now EXCEPT !["pending_points"] = amount]["pending_points"] = amount
    BY <1>11, <2>1 DEF Row, Columns
  <2>3. new = [old EXCEPT !.now = [old.now EXCEPT !["pending_points"] = amount]]
    BY <1>4 DEF Object
  <2>. QED
    BY <1>4, <2>2, <2>3 DEF Object
<1>. HIDE DEF new
<1>13. copy'[s] = new /\ new # None
  BY <1>1, <1>12, NoneAssumption DEF BooksInv, TypeOKAll
<1>14. PendingFollows(s)
  BY <1>1, <1>11, <1>12, <1>13 DEF PendingFollows
<1>15. copy'[s].read = RowOf(job[s].user)
  BY <1>4, <1>12, <1>13
<1>. QED
  BY <1>1, <1>2, <1>14, <1>15, HandlerSerial DEF ReadsStand, rowVars, objectVars

LEMMA RedeemedSerial ==
    ASSUME OneAtATime, BooksInv, SerialInv, NEW s \in Sessions, mark_redeemed(s)
    PROVE  SerialInv'
<1>. DEFINE u == job[s].user
            old == Selected(s, u)
            amount == old.now["redeemed_points"] + job[s].points
            new == [old EXCEPT !.now["redeemed_points"] = amount]
<1>1. /\ pc[s] = "redeemed" /\ Advance(s)
      /\ copy' = [copy EXCEPT ![s] = new]
      /\ UNCHANGED <<wallet, ledger, job, draft, rowVars, objectVars>>
  BY DEF mark_redeemed
<1>2. HandlingBooks(s) /\ ReadsStand(s) /\ job[s].op = "deliver"
  BY <1>1, WhoIsThere DEF BooksInv, SerialInv, Fresh
<1>3. u \in Users /\ job[s].points \in Nat
  BY <1>2, HandledTypes DEF BooksInv
<1>4. copy[s] = None
  BY <1>1, <1>2 DEF HandlingBooks, DeliverBooks
<1>5. old \in Object /\ old.read = RowOf(u) /\ old.now = old.read
  BY <1>2, <1>4, SelectedStands
<1>. HIDE DEF old
<1>6. old.now \in Row /\ amount \in Int
  BY <1>3, <1>5 DEF Object, Row, Columns
<1>. HIDE DEF amount
<1>7. new \in Object /\ new.read = old.read
      /\ new.now["pending_points"] = old.now["pending_points"]
  <2>1. /\ [old.now EXCEPT !["redeemed_points"] = amount] \in Row
        /\ [old.now EXCEPT !["redeemed_points"] = amount]["pending_points"] = old.now["pending_points"]
    BY <1>6 DEF Row, Columns
  <2>2. new = [old EXCEPT !.now = [old.now EXCEPT !["redeemed_points"] = amount]]
    BY <1>5 DEF Object
  <2>. QED
    BY <1>5, <2>1, <2>2 DEF Object
<1>. HIDE DEF new
<1>8. copy'[s] = new /\ new # None
  BY <1>1, <1>7, NoneAssumption DEF BooksInv, TypeOKAll
<1>9. PendingFollows(s)
  BY <1>1, <1>4, <1>5, <1>7, <1>8 DEF PendingFollows
<1>10. copy'[s].read = RowOf(job[s].user)
  BY <1>5, <1>7, <1>8
<1>. QED
  BY <1>1, <1>2, <1>9, <1>10, HandlerSerial DEF ReadsStand, rowVars, objectVars

LEMMA FlushRewardSerial ==
    ASSUME OneAtATime, BooksInv, SerialInv, NEW s \in Sessions, FlushReward(s)
    PROVE  SerialInv'
<1>1. /\ pc[s] = "reward_row" /\ Advance(s)
      /\ UNCHANGED <<wallet, ledger, locked_by, job, copy, draft, reward, redemption, objectVars>>
  BY DEF FlushReward
<1>2. EditingBooks(s) \/ HandlingBooks(s)
  BY <1>1 DEF BooksInv, SessionBooks, PostingBooks
<1>3. CASE EditingBooks(s)
  <2>1. Fresh(s) /\ job[s].op = "edit" /\ seen[s] = None /\ copy[s] = None
    BY <1>3 DEF SerialInv, EditingBooks
  <2>2. ReadsStand(s)' /\ PendingStands(s)' /\ StockStands(s)'
    BY <1>1, <2>1 DEF Fresh, ReadsStand, PendingStands, StockStands, objectVars
  <2>3. Fresh(s)'
    BY <1>1, <2>1, <2>2 DEF Fresh
  <2>. QED
    BY <1>1, <2>3, NothingCommitted DEF OneAtATime
<1>4. CASE HandlingBooks(s)
  BY <1>1, <1>4, ObjectsStand DEF objectVars
<1>. QED
  BY <1>2, <1>3, <1>4

LEMMA FlushRedemptionSerial ==
    ASSUME OneAtATime, BooksInv, SerialInv, NEW s \in Sessions, FlushRedemption(s)
    PROVE  SerialInv'
<1>1. /\ pc[s] = "redemption_row" /\ Advance(s)
      /\ UNCHANGED <<wallet, ledger, locked_by, job, copy, draft, reward, redemption, objectVars>>
  BY DEF FlushRedemption
<1>2. HandlingBooks(s)
  BY <1>1, WhoIsThere DEF BooksInv
<1>. QED
  BY <1>1, <1>2, ObjectsStand DEF objectVars

----------------------------------------------------------------------------
(* A commit                                                                *)

(* A new entry continues the chain of its ledger.                          *)
LEMMA NewEntry ==
    ASSUME BooksInv, SerialInv, NEW s \in Sessions, CommitAll(s), draft[s] # None
    PROVE  LET u == job[s].user  e == draft[s]
           IN  /\ u \in Users /\ e \in Entry /\ e.key \notin KeysOf(u)
               /\ e.points \in AllAmounts /\ e.points # 0
               /\ e.balance_before = RowOf(u)["current_balance"]
               /\ e.balance_after = e.balance_before + e.points
<1>. DEFINE u == job[s].user  e == draft[s]
<1>1. pc[s] = "commit" /\ TypeOKAll /\ SessionBooks(s) /\ Fresh(s)
  BY DEF CommitAll, BooksInv, SerialInv
<1>2. u \in Users /\ e \in Entry /\ e.key \notin KeysOf(u)
  BY CommittedPayment
<1>3. CASE PostingBooks(s)
  <2>1. /\ copy[s] # None /\ copy[s].read = RowOf(u)
        /\ e.points = job[s].points /\ e.points # 0
        /\ e.balance_before = copy[s].read["current_balance"]
        /\ e.balance_after = e.balance_before + e.points
    BY <1>1, <1>3 DEF PostingBooks
  <2>2. job[s].points \in Movements
    BY <1>1, <1>3 DEF Fresh, PostingBooks
  <2>3. e.points \in AllAmounts
    BY <2>1, <2>2 DEF Movements, AllAmounts
  <2>. QED
    BY <1>2, <2>1, <2>3
<1>4. CASE HandlingBooks(s)
  <2>1. job[s].op = "approve"
    BY <1>4 DEF HandlingBooks
  <2>2. /\ copy[s] # None /\ e.points = -job[s].points
        /\ e.balance_before = copy[s].read["current_balance"]
        /\ e.balance_after = e.balance_before + e.points
    BY <1>1, <1>4, <2>1 DEF HandlingBooks, ApproveBooks, Paid
  <2>3. copy[s].read = RowOf(u)
    BY <1>1, <2>2 DEF Fresh, ReadsStand
  <2>4. job[s].points \in Nat /\ job[s].points > 0 /\ job[s].points \in Prices
    BY <1>1, <1>4, HandledTypes DEF HandlingBooks
  <2>5. e.points \in AllAmounts
    BY <2>2, <2>4 DEF Prices, AllAmounts
  <2>. QED
    BY <1>2, <2>2, <2>3, <2>4, <2>5
<1>. QED
  BY <1>1, <1>3, <1>4 DEF SessionBooks, EditingBooks

LEMMA ChainGrows ==
    ASSUME BooksInv, SerialInv, NEW s \in Sessions, CommitAll(s), NEW v \in Users
    PROVE  PL!Chained(ledger'[v])
<1>1. ledger'[v] = IF draft[s] # None /\ v = job[s].user THEN Append(ledger[v], draft[s]) ELSE ledger[v]
  BY CommittedWallet
<1>2. PL!Chained(ledger[v]) /\ ledger[v] \in Seq(Entry)
  BY DEF SerialInv, BooksInv, TypeOKAll
<1>3. RowOf(v)["current_balance"] = PL!BalanceAfter(ledger[v], Len(ledger[v]))
  BY DEF BooksInv, Books, BalanceIsLastEntry, Balance
<1>4. CASE draft[s] # None /\ v = job[s].user
  BY <1>1, <1>2, <1>3, <1>4, NewEntry, AppendChained
<1>. QED
  BY <1>1, <1>2, <1>4

(* What the handler of a request writes to it.                             *)
NewStatus(s) == IF job[s].op = "create" THEN seen[s].status ELSE Target[job[s].op]

LEMMA RequestWritten ==
    ASSUME BooksInv, SerialInv, NEW s \in Sessions, CommitAll(s), HandlingBooks(s),
           NEW r, r = job[s].key
    PROVE  /\ r \in Redemptions /\ seen[s] \in RedemptionRow
           /\ redemption'[r] # None /\ redemption'[r].status = NewStatus(s)
           /\ redemption'[r].user = job[s].user /\ seen[s].user = job[s].user
           /\ redemption'[r].reward = seen[s].reward
           /\ redemption'[r].quantity = seen[s].quantity
           /\ redemption'[r].cost_points_snapshot = job[s].points
           /\ job[s].op = "create" => redemption[r] = None
           /\ job[s].op # "create" => /\ redemption[r] = seen[s] /\ redemption[r] # None
                                      /\ redemption[r].cost_points_snapshot = job[s].points
                                      /\ job[s].op \in DOMAIN Target
                                      /\ TransitionAllowed(seen[s], job[s].op)
<1>. DEFINE row == IF job[s].op = "create" THEN seen[s]
                   ELSE [redemption[r] EXCEPT !.status = Target[job[s].op]]
<1>1. /\ r \in Redemptions /\ seen[s] \in RedemptionRow /\ seen[s] # None /\ seen[s].user = job[s].user
      /\ job[s].points = seen[s].cost_points_snapshot /\ ReadsStand(s)
  BY HandledTypes DEF BooksInv, HandlingBooks, SerialInv, Fresh
<1>2. redemption' = [redemption EXCEPT ![r] = row]
  BY <1>1 DEF CommitAll, Op
<1>3. redemption'[r] = row
  BY <1>1, <1>2 DEF BooksInv, TypeOKAll
<1>4. redemption'[r] # None
  BY CommittedRequests
<1>5. CASE job[s].op = "create"
  BY <1>1, <1>3, <1>4, <1>5 DEF HandlingBooks, NewStatus
<1>6. CASE job[s].op # "create"
  <2>1. redemption[r] = seen[s] /\ TransitionAllowed(seen[s], job[s].op)
    BY <1>1, <1>6 DEF ReadsStand
  <2>2. row = [seen[s] EXCEPT !.status = Target[job[s].op]]
    BY <1>6, <2>1
  <2>3. /\ row.status = Target[job[s].op] /\ row.user = seen[s].user /\ row.reward = seen[s].reward
        /\ row.quantity = seen[s].quantity /\ row.cost_points_snapshot = seen[s].cost_points_snapshot
    BY <1>1, <2>2 DEF RedemptionRow
  <2>4. job[s].op \in DOMAIN Target
    BY <1>6 DEF HandlingBooks, Handlers, Target
  <2>. HIDE DEF row
  <2>. QED
    BY <1>1, <1>3, <1>4, <1>6, <2>1, <2>3, <2>4 DEF NewStatus
<1>. QED
  BY <1>5, <1>6

(* The points of the requests of a user in some statuses after a commit.   *)
LEMMA TotalMoves ==
    ASSUME BooksInv, SerialInv, NEW s \in Sessions, CommitAll(s), NEW v \in Users, NEW statuses
    PROVE  LET rs == Of(v) \cap InStatus(statuses)
               n == job[s].points
           IN  /\ TotalCost(rs) \in Nat
               /\ HandlingBooks(s) /\ v = job[s].user =>
                    TotalCost(rs)' = TotalCost(rs)
                       + (IF NewStatus(s) \in statuses THEN n ELSE 0)
                       - (IF job[s].op # "create" /\ seen[s].status \in statuses THEN n ELSE 0)
               /\ ~(HandlingBooks(s) /\ v = job[s].user) => TotalCost(rs)' = TotalCost(rs)
<1>. DEFINE rs == Of(v) \cap InStatus(statuses)  n == job[s].points
            before == TotalCost(rs)  after == TotalCost(rs)'
<1>1. PICK r : r = job[s].key
  OBVIOUS
<1>2. /\ before \in Nat /\ after \in Nat
      /\ r \in rs => Cost(r) \in Nat
      /\ r \in rs' => Cost(r)' \in Nat
      /\ after + (IF r \in rs THEN Cost(r) ELSE 0) = before + (IF r \in rs' THEN Cost(r)' ELSE 0)
  BY <1>1, TotalAfter
<1>. HIDE DEF before, after
<1>3. CASE HandlingBooks(s) /\ v = job[s].user
  <2>1. n \in Nat
    BY <1>3, HandledTypes DEF BooksInv
  <2>2. r \in rs' <=> NewStatus(s) \in statuses
    BY <1>1, <1>3, RequestWritten DEF Of, InStatus, Existing
  <2>3. r \in rs <=> job[s].op # "create" /\ seen[s].status \in statuses
    BY <1>1, <1>3, RequestWritten DEF Of, InStatus, Existing
  <2>4. Cost(r)' = n /\ (r \in rs => Cost(r) = n)
    BY <1>1, <1>3, <2>3, RequestWritten DEF Cost
  <2>. HIDE DEF rs, n
  <2>5. after = before + (IF NewStatus(s) \in statuses THEN n ELSE 0)
                 - (IF job[s].op # "create" /\ seen[s].status \in statuses THEN n ELSE 0)
    BY <1>2, <2>1, <2>2, <2>3, <2>4
  <2>. QED
    BY <1>2, <1>3, <2>5 DEF before, after, n, rs
<1>4. CASE ~(HandlingBooks(s) /\ v = job[s].user)
  <2>1. CASE HandlingBooks(s)
    <3>1. r \notin rs'
      BY <1>1, <1>4, <2>1, RequestWritten DEF Of
    <3>2. r \notin rs
      BY <1>1, <1>4, <2>1, RequestWritten DEF Of, Existing
    <3>. QED
      BY <1>2, <1>4, <3>1, <3>2 DEF before, after
  <2>2. CASE ~HandlingBooks(s)
    <3>1. \A q \in Redemptions : redemption'[q] = redemption[q]
      BY <2>2, CommittedRequests
    <3>2. (r \in rs <=> r \in rs') /\ (r \in rs => Cost(r)' = Cost(r))
      BY <3>1 DEF Of, InStatus, Existing, Cost
    <3>3. after = before
      BY <1>2, <3>2
    <3>. QED
      BY <1>2, <1>4, <3>3 DEF before, after
  <2>. QED
    BY <2>1, <2>2
<1>. QED
  BY <1>3, <1>4

(* A commit writes the pending points its session has computed.            *)
LEMMA PendingColumn ==
    ASSUME BooksInv, SerialInv, NEW s \in Sessions, CommitAll(s), NEW v \in Users
    PROVE  RowOf(v)'["pending_points"]
             = RowOf(v)["pending_points"]
               + (IF HandlingBooks(s) /\ v = job[s].user /\ Moved(s) THEN Delta(s) ELSE 0)
<1>. DEFINE object == copy[s]  old == RowOf(v)  new == Written(old, object)
<1>1. pc[s] = "commit" /\ TypeOKAll /\ SessionBooks(s) /\ Fresh(s)
  BY DEF CommitAll, BooksInv, SerialInv
<1>2. RowOf(v)' = IF object # None /\ v = job[s].user THEN new ELSE old
  BY CommittedWallet
<1>3. old \in Row /\ old["pending_points"] \in Int
  BY <1>1, RowIs DEF Row, Columns
<1>4. CASE object = None \/ v # job[s].user
  <2>1. RowOf(v)' = old
    BY <1>2, <1>4
  <2>2. ~(HandlingBooks(s) /\ v = job[s].user /\ Moved(s))
    BY <1>1, <1>4 DEF Fresh, PendingStands, HandlingBooks
  <2>. QED
    BY <1>3, <2>1, <2>2
<1>5. CASE object # None /\ v = job[s].user
  <2>1. object \in Object /\ object.read = old
    BY <1>1, <1>5 DEF TypeOKAll, Fresh, ReadsStand
  <2>2. new["pending_points"] = object.now["pending_points"]
    BY <1>3, <2>1, WrittenColumns DEF Columns
  <2>3. CASE PostingBooks(s)
    <3>1. object.now["pending_points"] = object.read["pending_points"]
      BY <1>1, <2>1, <2>3 DEF PostingBooks, Posted, Object, Row, Columns
    <3>2. ~HandlingBooks(s)
      BY <2>3 DEF PostingBooks, HandlingBooks
    <3>. QED
      BY <1>2, <1>3, <1>5, <2>1, <2>2, <3>1, <3>2
  <2>4. CASE HandlingBooks(s)
    <3>1. object.now["pending_points"]
            = IF Moved(s) THEN object.read["pending_points"] + Delta(s)
              ELSE object.read["pending_points"]
      BY <1>1, <1>5, <2>4 DEF Fresh, PendingStands, HandlingBooks, Same
    <3>. QED
      BY <1>2, <1>3, <1>5, <2>1, <2>2, <2>4, <3>1
  <2>. QED
    BY <1>1, <1>5, <2>3, <2>4 DEF SessionBooks, EditingBooks
<1>. QED
  BY <1>4, <1>5

(* From which status to which a handler takes its request, and whether     *)
(* adjust_pending was part of it.                                          *)
LEMMA HandlerMoves ==
    ASSUME BooksInv, SerialInv, NEW s \in Sessions, CommitAll(s), HandlingBooks(s)
    PROVE  LET op == job[s].op  old == seen[s].status
           IN  /\ op = "create"  => NewStatus(s) \in {"draft", "submitted"}
                                    /\ (Moved(s) <=> NewStatus(s) = "submitted")
               /\ op = "submit"  => old = "draft" /\ NewStatus(s) = "submitted" /\ Moved(s)
               /\ op = "review"  => old \in Pending /\ NewStatus(s) = "under_review" /\ ~Moved(s)
               /\ op = "approve" => old \in Pending /\ NewStatus(s) = "approved" /\ Moved(s)
               /\ op = "deliver" => old = "approved" /\ NewStatus(s) = "delivered" /\ ~Moved(s)
               /\ op \in {"cancel", "reject"} =>
                    /\ old \notin {"approved", "delivered"} /\ (Moved(s) <=> old \in Pending)
                    /\ NewStatus(s) \in {"cancelled", "rejected"}
<1>1. pc[s] = "commit" /\ job[s].op \in Handlers
  BY DEF CommitAll, HandlingBooks
<1>2. job[s].op # "create" => /\ job[s].op \in DOMAIN Target /\ seen[s] \in RedemptionRow
                              /\ TransitionAllowed(seen[s], job[s].op)
  BY RequestWritten
<1>3. CASE job[s].op = "create"
  BY <1>1, <1>3 DEF HandlingBooks, NewStatus, Moved
<1>4. CASE job[s].op = "submit"
  BY <1>1, <1>2, <1>4, AllowedFrom DEF NewStatus, Moved, Target
<1>5. CASE job[s].op = "review"
  BY <1>1, <1>2, <1>5, AllowedFrom DEF NewStatus, Moved, Target, Pending
<1>6. CASE job[s].op = "approve"
  BY <1>1, <1>2, <1>6, AllowedFrom DEF NewStatus, Moved, Target
<1>7. CASE job[s].op = "deliver"
  BY <1>1, <1>2, <1>7, AllowedFrom DEF NewStatus, Moved, Target
<1>8. CASE job[s].op \in {"cancel", "reject"}
  BY <1>1, <1>2, <1>8, AllowedFrom DEF NewStatus, Moved, Target, Pending
<1>. QED
  BY <1>1, <1>3, <1>4, <1>5, <1>6, <1>7, <1>8 DEF Handlers

LEMMA PendingAfter ==
    ASSUME BooksInv, SerialInv, NEW s \in Sessions, CommitAll(s)
    PROVE  PendingIsExact'
<1>. SUFFICES ASSUME NEW v \in Users
              PROVE  RowOf(v)'["pending_points"] = TotalCost(Of(v) \cap InStatus(Pending))'
  BY DEF PendingIsExact
<1>. DEFINE before == TotalCost(Of(v) \cap InStatus(Pending))
            after == TotalCost(Of(v) \cap InStatus(Pending))'
            n == job[s].points
<1>1. RowOf(v)["pending_points"] = before
  BY DEF SerialInv, PendingIsExact
<1>2. /\ before \in Nat
      /\ HandlingBooks(s) /\ v = job[s].user =>
           after = before + (IF NewStatus(s) \in Pending THEN n ELSE 0)
                          - (IF job[s].op # "create" /\ seen[s].status \in Pending THEN n ELSE 0)
      /\ ~(HandlingBooks(s) /\ v = job[s].user) => after = before
  BY TotalMoves
<1>3. RowOf(v)'["pending_points"]
        = before + (IF HandlingBooks(s) /\ v = job[s].user /\ Moved(s) THEN Delta(s) ELSE 0)
  BY <1>1, PendingColumn
<1>. HIDE DEF before, after
<1>4. CASE ~(HandlingBooks(s) /\ v = job[s].user)
  <2>1. after = before /\ RowOf(v)'["pending_points"] = before + 0
    BY <1>2, <1>3, <1>4
  <2>. QED
    BY <1>2, <2>1 DEF after
<1>5. CASE HandlingBooks(s) /\ v = job[s].user
  <2>1. n \in Nat /\ job[s].op \in Handlers
    BY <1>5, HandledTypes DEF BooksInv, HandlingBooks
  <2>2. (IF Moved(s) THEN Delta(s) ELSE 0)
          = (IF NewStatus(s) \in Pending THEN n ELSE 0)
            - (IF job[s].op # "create" /\ seen[s].status \in Pending THEN n ELSE 0)
    <3>. HIDE DEF n
    <3>1. CASE job[s].op = "create"
      BY <1>5, <2>1, <3>1, HandlerMoves DEF Delta, Pending, n
    <3>2. CASE job[s].op = "submit"
      BY <1>5, <2>1, <3>2, HandlerMoves DEF Delta, Pending, n
    <3>3. CASE job[s].op \in {"review", "deliver"}
      BY <1>5, <2>1, <3>3, HandlerMoves DEF Pending
    <3>4. CASE job[s].op = "approve"
      BY <1>5, <2>1, <3>4, HandlerMoves DEF Delta, Pending, n
    <3>5. CASE job[s].op \in {"cancel", "reject"}
      BY <1>5, <2>1, <3>5, HandlerMoves DEF Delta, Pending, n
    <3>. QED
      BY <2>1, <3>1, <3>2, <3>3, <3>4, <3>5 DEF Handlers
  <2>. HIDE DEF n
  <2>3. RowOf(v)'["pending_points"] = after
    BY <1>2, <1>3, <1>5, <2>1, <2>2
  <2>. QED
    BY <2>3 DEF after
<1>. QED
  BY <1>4, <1>5

LEMMA RedeemedAfter ==
    ASSUME BooksInv, SerialInv, NEW s \in Sessions, CommitAll(s)
    PROVE  RedeemedIsExact'
<1>. SUFFICES ASSUME NEW v \in Users
              PROVE  RowOf(v)'["redeemed_points"] = TotalCost(Of(v) \cap InStatus({"delivered"}))'
  BY DEF RedeemedIsExact
<1>. DEFINE before == TotalCost(Of(v) \cap InStatus({"delivered"}))
            after == TotalCost(Of(v) \cap InStatus({"delivered"}))'
            n == job[s].points
<1>1. RowOf(v)["redeemed_points"] = before
  BY DEF SerialInv, RedeemedIsExact
<1>2. /\ before \in Nat
      /\ HandlingBooks(s) /\ v = job[s].user =>
           after = before + (IF NewStatus(s) \in {"delivered"} THEN n ELSE 0)
                     - (IF job[s].op # "create" /\ seen[s].status \in {"delivered"} THEN n ELSE 0)
      /\ ~(HandlingBooks(s) /\ v = job[s].user) => after = before
  BY TotalMoves
<1>. HIDE DEF before, after
<1>3. CASE ~(HandlingBooks(s) /\ v = job[s].user)
  <2>1. RowOf(v)'["redeemed_points"] = before
    <3>1. CASE copy[s] # None /\ v = job[s].user
      <4>1. job[s].op # "deliver"
        BY <1>3, <3>1, WhoIsThere DEF BooksInv, CommitAll, Handlers
      <4>. QED
        BY <1>1, <1>2, <3>1, <4>1, CommittedWallet, CommittedColumns
    <3>2. CASE ~(copy[s] # None /\ v = job[s].user)
      BY <1>1, <3>2, CommittedWallet
    <3>. QED
      BY <3>1, <3>2
  <2>. QED
    BY <1>2, <1>3, <2>1 DEF after
<1>4. CASE HandlingBooks(s) /\ v = job[s].user
  <2>1. n \in Nat /\ job[s].op \in Handlers
    BY <1>4, HandledTypes DEF BooksInv, HandlingBooks
  <2>2. after = before + (IF job[s].op = "deliver" THEN n ELSE 0)
    <3>1. NewStatus(s) = "delivered" <=> job[s].op = "deliver"
      BY <1>4, <2>1, HandlerMoves DEF Handlers
    <3>2. job[s].op # "create" => seen[s].status # "delivered"
      BY <1>4, <2>1, HandlerMoves DEF Handlers, Pending
    <3>. HIDE DEF n
    <3>. QED
      BY <1>2, <1>4, <2>1, <3>1, <3>2
  <2>3. copy[s] = None => job[s].op # "deliver"
    BY <1>4 DEF HandlingBooks, DeliverBooks, CommitAll
  <2>4. RowOf(v)'["redeemed_points"] = before + (IF job[s].op = "deliver" THEN n ELSE 0)
    BY <1>1, <1>2, <1>4, <2>3, CommittedWallet, CommittedColumns
  <2>. QED
    BY <2>2, <2>4 DEF after
<1>. QED
  BY <1>3, <1>4

(* A reward that is as it was read becomes what its object shows.          *)
LEMMA WrittenAsShown ==
    ASSUME NEW object \in RewardObject
    PROVE  Written(object.read, object) = object.now
<1>1. object.read \in RewardRow /\ object.now \in RewardRow
  BY DEF RewardObject
<1>2. \A c \in DOMAIN object.read :
         (IF object.now[c] # object.read[c] THEN object.now[c] ELSE object.read[c]) = object.now[c]
  OBVIOUS
<1>3. Written(object.read, object) = [c \in DOMAIN object.read |-> object.now[c]]
  BY <1>2 DEF Written
<1>4. DOMAIN object.read = DOMAIN object.now
  BY <1>1 DEF RewardRow
<1>5. object.now = [c \in DOMAIN object.now |-> object.now[c]]
  BY <1>1 DEF RewardRow
<1>. QED
  BY <1>3, <1>4, <1>5

LEMMA RewardsAfter ==
    ASSUME BooksInv, SerialInv, NEW s \in Sessions, CommitAll(s), NEW w \in Rewards
    PROVE  reward'[w] = IF offer[s] # None /\ w = offer[s].id THEN offer[s].now ELSE reward[w]
<1>1. CASE offer[s] = None
  BY <1>1 DEF CommitAll
<1>2. CASE offer[s] # None
  <2>1. offer[s] \in RewardObject /\ offer[s].read = reward[offer[s].id] /\ offer[s].id \in Rewards
    BY <1>2 DEF BooksInv, TypeOKAll, RewardObject, SerialInv, Fresh, ReadsStand
  <2>2. reward' = [reward EXCEPT ![offer[s].id] = Written(reward[offer[s].id], offer[s])]
    BY <1>2 DEF CommitAll
  <2>3. reward' = [reward EXCEPT ![offer[s].id] = offer[s].now]
    BY <2>1, <2>2, WrittenAsShown
  <2>. QED
    BY <1>2, <2>1, <2>3 DEF BooksInv, TypeOKAll
<1>. QED
  BY <1>1, <1>2

(* An approval sells the quantity of its request, no other commit sells.   *)
LEMMA SoldMoves ==
    ASSUME BooksInv, SerialInv, NEW s \in Sessions, CommitAll(s), NEW w \in Rewards
    PROVE  /\ Sold(w) \in Nat
           /\ Sold(w)' = Sold(w) + (IF HandlingBooks(s) /\ job[s].op = "approve" /\ w = seen[s].reward
                                    THEN seen[s].quantity ELSE 0)
<1>. DEFINE rs == SalesOf(w)
            f == [q \in rs |-> redemption[q].quantity]
            g == [q \in rs' |-> redemption'[q].quantity]
<1>1. Sold(w) = SumFunction(f) /\ Sold(w)' = SumFunction(g)
  BY DEF Sold
<1>2. rs \subseteq Existing /\ rs' \subseteq Existing'
  BY DEF SalesOf, InStatus
<1>3. IsFiniteSet(rs) /\ IsFiniteSet(rs')
  BY <1>2, ExistingAfter, FS_Subset
<1>4. redemption' \in [Redemptions -> RedemptionRow \cup {None}]
  BY CommittedRequests
<1>5. /\ \A q \in rs : f[q] = redemption[q].quantity /\ f[q] \in Nat
      /\ \A q \in rs' : g[q] = redemption'[q].quantity /\ g[q] \in Nat
      /\ DOMAIN f = rs /\ DOMAIN g = rs'
  BY <1>2, <1>4, NumbersAssumption DEF Existing, BooksInv, TypeOKAll, RedemptionRow
<1>6. PICK r : r = job[s].key
  OBVIOUS
<1>7. \A q \in Redemptions : q # r => redemption'[q] = redemption[q]
  BY <1>6, CommittedRequests
<1>8. rs \ {r} = rs' \ {r}
  BY <1>7 DEF SalesOf, InStatus, Existing
<1>9. \A q \in rs : q # r => g[q] = f[q]
  BY <1>2, <1>5, <1>7, <1>8 DEF Existing
<1>. HIDE DEF f, g
<1>10. /\ SumFunction(f) \in Nat /\ SumFunction(g) \in Nat
       /\ SumFunction(g) + (IF r \in DOMAIN f THEN f[r] ELSE 0)
            = SumFunction(f) + (IF r \in DOMAIN g THEN g[r] ELSE 0)
  <2>1. IsFiniteSet(DOMAIN f) /\ IsFiniteSet(DOMAIN g) /\ (DOMAIN f) \ {r} = (DOMAIN g) \ {r}
    BY <1>3, <1>5, <1>8
  <2>2. \A q \in DOMAIN f : q # r => g[q] = f[q]
    BY <1>5, <1>9
  <2>3. (\A q \in DOMAIN f : f[q] \in Nat) /\ \A q \in DOMAIN g : g[q] \in Nat
    BY <1>5
  <2>. QED
    BY <2>1, <2>2, <2>3, SumMoves
<1>11. CASE HandlingBooks(s) /\ job[s].op = "approve" /\ w = seen[s].reward
  <2>1. r \in rs' /\ redemption'[r].quantity = seen[s].quantity
    BY <1>6, <1>11, RequestWritten, HandlerMoves DEF SalesOf, InStatus, Existing
  <2>2. r \notin rs
    BY <1>6, <1>11, RequestWritten, HandlerMoves DEF SalesOf, InStatus, Existing, Pending
  <2>3. SumFunction(g) = SumFunction(f) + seen[s].quantity
    BY <1>5, <1>10, <2>1, <2>2
  <2>. QED
    BY <1>1, <1>10, <1>11, <2>3
<1>12. CASE HandlingBooks(s) /\ ~(job[s].op = "approve" /\ w = seen[s].reward)
  <2>1. job[s].op \in Handlers
    BY <1>12 DEF HandlingBooks
  <2>2. r \in rs <=> job[s].op = "deliver" /\ w = seen[s].reward
    <3>1. CASE job[s].op = "create"
      BY <1>6, <1>12, <3>1, RequestWritten DEF SalesOf, InStatus, Existing
    <3>2. CASE job[s].op # "create"
      <4>1. redemption[r] = seen[s] /\ redemption[r] # None /\ r \in Redemptions
        BY <1>6, <1>12, <3>2, RequestWritten
      <4>2. seen[s].status \in {"approved", "delivered"} <=> job[s].op = "deliver"
        BY <1>12, <2>1, <3>2, HandlerMoves DEF Handlers, Pending
      <4>. QED
        BY <4>1, <4>2 DEF SalesOf, InStatus, Existing
    <3>. QED
      BY <3>1, <3>2
  <2>3. r \in rs' <=> job[s].op = "deliver" /\ w = seen[s].reward
    <3>1. NewStatus(s) \in {"approved", "delivered"} <=> job[s].op \in {"approve", "deliver"}
      BY <1>12, <2>1, HandlerMoves DEF Handlers
    <3>2. /\ r \in Redemptions /\ redemption'[r] # None /\ redemption'[r].status = NewStatus(s)
          /\ redemption'[r].reward = seen[s].reward
      BY <1>6, <1>12, RequestWritten
    <3>. QED
      BY <1>12, <3>1, <3>2 DEF SalesOf, InStatus, Existing
  <2>4. r \in rs => g[r] = f[r]
    BY <1>5, <1>6, <1>12, <2>2, <2>3, RequestWritten
  <2>5. SumFunction(g) = SumFunction(f)
    BY <1>5, <1>10, <2>2, <2>3, <2>4
  <2>. QED
    BY <1>1, <1>10, <1>12, <2>5
<1>13. CASE ~HandlingBooks(s)
  <2>1. \A q \in Redemptions : redemption'[q] = redemption[q]
    BY <1>13, CommittedRequests
  <2>2. (r \in rs <=> r \in rs') /\ (r \in rs => redemption'[r] = redemption[r])
    BY <1>2, <2>1 DEF SalesOf, InStatus, Existing
  <2>3. r \in rs => g[r] = f[r]
    BY <1>5, <2>2
  <2>4. SumFunction(g) = SumFunction(f)
    BY <1>5, <1>10, <2>2, <2>3
  <2>. QED
    BY <1>1, <1>10, <1>13, <2>4
<1>. QED
  BY <1>11, <1>12, <1>13

(* The stock of a reward is what its object has computed.                  *)
Unlimited(row) == row.inventory_total = None

HonestStock(row, sold) ==
    /\ Unlimited(row) <=> row.inventory_remaining = None
    /\ ~Unlimited(row) =>
          /\ row.inventory_remaining >= 0
          /\ row.inventory_total - sold <= row.inventory_remaining
          /\ row.inventory_remaining <= row.inventory_total

LEMMA RestockedHonest ==
    ASSUME NEW old \in RewardRow, NEW new \in RewardRow, NEW sold \in Nat, HonestStock(old, sold),
           new.inventory_remaining = Restocked(old, new.inventory_total)
    PROVE  HonestStock(new, sold)
<1>. DEFINE before == old.inventory_total  after == new.inventory_total
            left == old.inventory_remaining
<1>1. before \in Nat \cup {None} /\ after \in Nat \cup {None} /\ left \in Nat \cup {None}
  BY NumbersAssumption DEF RewardRow
<1>2. None \notin Nat
  BY NoRowAssumption
<1>3. CASE after = before
  BY <1>1, <1>2, <1>3 DEF HonestStock, Unlimited, Restocked
<1>4. CASE after # before /\ after = None
  BY <1>4 DEF HonestStock, Unlimited, Restocked
<1>5. CASE after # before /\ after # None
  <2>1. new.inventory_remaining = AtLeastZero(OrZero(left) + after - OrZero(before))
    BY <1>5 DEF Restocked, OrZero
  <2>2. CASE before = None
    <3>1. OrZero(left) = 0 /\ OrZero(before) = 0
      BY <2>2 DEF HonestStock, Unlimited, OrZero
    <3>2. new.inventory_remaining = after
      BY <1>1, <1>5, <2>1, <3>1 DEF AtLeastZero
    <3>. QED
      BY <1>1, <1>2, <1>5, <3>2 DEF HonestStock, Unlimited
  <2>3. CASE before # None
    <3>1. /\ left \in Nat /\ before \in Nat /\ after \in Nat
          /\ before - sold <= left /\ left <= before
          /\ OrZero(left) = left /\ OrZero(before) = before
      BY <1>1, <1>2, <1>5, <2>3 DEF HonestStock, Unlimited, OrZero
    <3>2. new.inventory_remaining
            = IF left + after - before < 0 THEN 0 ELSE left + after - before
      BY <2>1, <3>1 DEF AtLeastZero
    <3>3. new.inventory_remaining \in Nat
      BY <3>1, <3>2
    <3>. QED
      BY <1>2, <1>5, <3>1, <3>2, <3>3 DEF HonestStock, Unlimited
  <2>. QED
    BY <2>2, <2>3
<1>. QED
  BY <1>3, <1>4, <1>5

LEMMA StockAfter ==
    ASSUME BooksInv, SerialInv, NEW s \in Sessions, CommitAll(s), NEW w \in Rewards,
           reward'[w] # None
    PROVE  HonestStock(reward'[w], Sold(w)')
<1>1. pc[s] = "commit" /\ TypeOKAll /\ SessionBooks(s) /\ Fresh(s)
  BY DEF CommitAll, BooksInv, SerialInv
<1>2. reward[w] # None => HonestStock(reward[w], Sold(w))
  BY DEF SerialInv, StockIsHonest, HonestStock, Unlimited
<1>3. reward'[w] = IF offer[s] # None /\ w = offer[s].id THEN offer[s].now ELSE reward[w]
  BY RewardsAfter
<1>4. /\ Sold(w) \in Nat
      /\ Sold(w)' = Sold(w) + (IF HandlingBooks(s) /\ job[s].op = "approve" /\ w = seen[s].reward
                               THEN seen[s].quantity ELSE 0)
  BY SoldMoves
<1>5. HandlingBooks(s) /\ job[s].op = "approve" => offer[s] # None /\ offer[s].id = seen[s].reward
  BY <1>1 DEF HandlingBooks, ApproveBooks
<1>6. reward'[w] \in RewardRow
  BY CommittedRequests
<1>7. CASE offer[s] = None \/ w # offer[s].id
  <2>1. Sold(w)' = Sold(w)
    BY <1>4, <1>5, <1>7
  <2>2. reward'[w] = reward[w]
    BY <1>3, <1>7
  <2>. QED
    BY <1>2, <2>1, <2>2
<1>8. CASE offer[s] # None /\ w = offer[s].id
  <2>1. /\ offer[s].read = reward[w] /\ reward'[w] = offer[s].now
        /\ reward[w] # None /\ reward[w] \in RewardRow
    <3>1. offer[s] \in RewardObject /\ offer[s].read = reward[w]
      BY <1>1, <1>8 DEF TypeOKAll, Fresh, ReadsStand
    <3>2. reward[w] \in RewardRow
      BY <3>1 DEF RewardObject
    <3>3. reward[w] # None
      BY <3>2, NoRowAssumption
    <3>. QED
      BY <1>3, <1>8, <3>1, <3>2, <3>3
  <2>2. CASE EditingBooks(s)
    <3>1. offer[s].now.inventory_remaining = Restocked(offer[s].read, offer[s].now.inventory_total)
      BY <1>1, <1>8, <2>2 DEF Fresh, StockStands, EditingBooks
    <3>2. Sold(w)' = Sold(w)
      BY <1>4, <2>2 DEF EditingBooks
    <3>. QED
      BY <1>2, <1>4, <1>6, <2>1, <3>1, <3>2, RestockedHonest
  <2>3. CASE HandlingBooks(s)
    <3>. DEFINE old == reward[w]  new == reward'[w]  q == seen[s].quantity
    <3>1. job[s].op = "approve"
      BY <1>8, <2>3 DEF HandlingBooks
    <3>2. seen[s] # None /\ q \in Nat
      BY <1>1, <2>3, HandledTypes DEF HandlingBooks
    <3>3. /\ InStock(old, q)
          /\ new.inventory_total = old.inventory_total
          /\ new.inventory_remaining = IF old.inventory_remaining = None THEN None
                                       ELSE old.inventory_remaining - q
      BY <1>1, <2>1, <3>1, <3>2 DEF Fresh, StockStands, Paid
    <3>4. Sold(w)' = Sold(w) + q
      BY <1>4, <1>5, <1>8, <2>3, <3>1
    <3>5. /\ old.inventory_remaining \in Nat \cup {None} /\ new.inventory_remaining \in Nat \cup {None}
          /\ old.inventory_total \in Nat \cup {None} /\ None \notin Nat
      BY <1>6, <2>1, NumbersAssumption, NoRowAssumption DEF RewardRow
    <3>6. HonestStock(old, Sold(w))
      BY <1>2, <2>1
    <3>. HIDE DEF old, new, q
    <3>7. HonestStock(new, Sold(w) + q)
      <4>1. CASE old.inventory_total = None
        BY <3>3, <3>6, <4>1 DEF HonestStock, Unlimited
      <4>2. CASE old.inventory_total # None
        <5>1. /\ old.inventory_remaining \in Nat /\ old.inventory_total \in Nat
              /\ old.inventory_total - Sold(w) <= old.inventory_remaining
              /\ old.inventory_remaining <= old.inventory_total
              /\ old.inventory_remaining # None
          BY <3>5, <3>6, <4>2 DEF HonestStock, Unlimited
        <5>. QED
          <6>1. new.inventory_remaining = old.inventory_remaining - q
            BY <3>3, <5>1
          <6>2. q <= old.inventory_remaining
            BY <3>3, <5>1 DEF InStock
          <6>3. new.inventory_remaining \in Nat
            BY <3>2, <5>1, <6>1, <6>2
          <6>. QED
            BY <1>4, <3>2, <3>3, <3>5, <4>2, <5>1, <6>1, <6>3 DEF HonestStock, Unlimited
      <4>. QED
        BY <4>1, <4>2
    <3>. QED
      BY <3>4, <3>7 DEF new
  <2>. QED
    BY <1>1, <1>8, <2>2, <2>3 DEF SessionBooks, PostingBooks
<1>. QED
  BY <1>7, <1>8

LEMMA CommitSerial ==
    ASSUME OneAtATime, BooksInv, SerialInv, NEW s \in Sessions, CommitAll(s)
    PROVE  SerialInv'
<1>1. (\A v \in Users : PL!Chained(ledger[v]))'
  BY ChainGrows
<1>2. PendingIsExact' /\ RedeemedIsExact'
  BY PendingAfter, RedeemedAfter
<1>3. \A w \in Rewards : reward'[w] # None => HonestStock(reward'[w], Sold(w)')
  BY StockAfter
<1>4. StockIsHonest'
  <2>. SUFFICES ASSUME NEW w \in Rewards, reward'[w] # None, reward'[w].inventory_total # None
                PROVE  /\ reward'[w].inventory_remaining >= 0
                       /\ reward'[w].inventory_total - Sold(w)' <= reward'[w].inventory_remaining
                       /\ reward'[w].inventory_remaining <= reward'[w].inventory_total
    BY DEF StockIsHonest
  <2>. QED
    BY <1>3 DEF HonestStock, Unlimited
<1>5. (\A w \in Rewards : reward[w] # None =>
          (reward[w].inventory_total = None <=> reward[w].inventory_remaining = None))'
  BY <1>3 DEF HonestStock, Unlimited
<1>6. Fresh(s)'
  BY EndSerial DEF BooksInv, CommitAll, CommitRows
<1>. QED
  BY <1>1, <1>2, <1>4, <1>5, <1>6 DEF SerialInv, OneAtATime

----------------------------------------------------------------------------
(* The invariant                                                           *)

LEMMA InitSerial == InitAll => SerialInv
<1>. SUFFICES ASSUME InitAll PROVE SerialInv
  OBVIOUS
<1>. USE DEF InitAll, Init
<1>1. Existing = {}
  BY DEF Existing
<1>2. \A u \in Users : \A c \in Columns : RowOf(u)[c] = 0
  BY DEF RowOf, ZeroRow
<1>3. \A u \in Users : PL!Chained(ledger[u])
  <2>1. DOMAIN <<>> = {}
    OBVIOUS
  <2>. QED
    BY <2>1 DEF PL!Chained
<1>4. ASSUME NEW u \in Users, NEW statuses PROVE TotalCost(Of(u) \cap InStatus(statuses)) = 0
  <2>. DEFINE f == [r \in Of(u) \cap InStatus(statuses) |-> Cost(r)]
  <2>1. DOMAIN f = {}
    BY <1>1 DEF Of
  <2>. HIDE DEF f
  <2>2. SumFunction(f) = 0
    BY <2>1, EmptySum
  <2>. QED
    BY <2>2 DEF f, TotalCost
<1>5. PendingIsExact /\ RedeemedIsExact
  BY <1>2, <1>4 DEF PendingIsExact, RedeemedIsExact, Columns
<1>6. StockIsHonest
  BY DEF StockIsHonest
<1>7. \A s \in Sessions : Fresh(s)
  BY DEF Fresh, ReadsStand, PendingStands, StockStands
<1>. QED
  BY <1>3, <1>5, <1>6, <1>7 DEF SerialInv

LEMMA StepSerial ==
    ASSUME OneAtATime, BooksInv, SerialInv, NEW s \in Sessions, Step(s)
    PROVE  SerialInv'
<1>1. CASE PostEntry(s) /\ UNCHANGED <<rowVars, objectVars>>
  BY <1>1, PostEntrySerial
<1>2. CASE submit_redemption(s)
  BY <1>2, SubmitSerial
<1>3. CASE ApproveReadsReward(s)
  BY <1>3, ApproveReadsSerial
<1>4. CASE CheckBalance(s)
  BY <1>4, CheckBalanceSerial
<1>5. CASE ApprovePosts(s)
  BY <1>5, ApprovePostsSerial
<1>6. CASE adjust_pending(s)
  BY <1>6, AdjustPendingSerial
<1>7. CASE mark_redeemed(s)
  BY <1>7, RedeemedSerial
<1>8. CASE FlushReward(s)
  BY <1>8, FlushRewardSerial
<1>9. CASE FlushRedemption(s)
  BY <1>9, FlushRedemptionSerial
<1>10. CASE CommitAll(s)
  BY <1>10, CommitSerial
<1>. QED
  BY <1>1, <1>2, <1>3, <1>4, <1>5, <1>6, <1>7, <1>8, <1>9, <1>10 DEF Step

LEMMA NextSerial ==
    ASSUME OneAtATime
    PROVE  BooksInv /\ SerialInv /\ [NextAll]_allVars => SerialInv'
<1>. SUFFICES ASSUME BooksInv, SerialInv, [NextAll]_allVars PROVE SerialInv'
  OBVIOUS
<1>1. ASSUME NEW w \in Rewards, NEW status \in RewardStatuses, NEW cost \in Costs,
             NEW total \in Totals, create_reward(w, status, cost, total)
      PROVE  SerialInv'
  BY <1>1, CreateRewardSerial
<1>2. ASSUME NEW s \in Sessions, RequestAll(s) PROVE SerialInv'
  BY <1>2, BeginSerial
<1>3. ASSUME NEW s \in Sessions, Step(s) PROVE SerialInv'
  BY <1>3, StepSerial
<1>4. ASSUME NEW s \in Sessions, RollbackAll(s) PROVE SerialInv'
  BY <1>4, RefuseSerial DEF RollbackAll
<1>5. CASE UNCHANGED allVars
  <2>1. ASSUME NEW s \in Sessions PROVE Fresh(s)'
    <3>1. Fresh(s)
      BY DEF SerialInv
    <3>2. ReadsStand(s)'
      BY <1>5, <3>1 DEF Fresh, ReadsStand, RowOf, TransitionAllowed, allVars, vars, rowVars, objectVars
    <3>3. PendingStands(s)' /\ StockStands(s)'
      BY <1>5, <3>1 DEF Fresh, PendingStands, StockStands, Moved, Delta, Same,
                        allVars, vars, rowVars, objectVars
    <3>. QED
      BY <1>5, <3>1, <3>2, <3>3 DEF Fresh, allVars, vars
  <2>. QED
    BY <1>5, <2>1, NothingCommitted DEF allVars, vars, rowVars
<1>. QED
  BY <1>1, <1>2, <1>3, <1>4, <1>5 DEF NextAll

(* With one request at a time, what a session has read is what it changes, *)
(* in every reachable state.                                               *)
THEOREM SerialInvariance ==
    ASSUME OneAtATime
    PROVE  SpecAll => []SerialInv
<1>1. BooksInv /\ SerialInv /\ [NextAll]_allVars => SerialInv'
  BY NextSerial
<1>. QED
  BY <1>1, InitSerial, BooksInvariance, PTL DEF SpecAll

(* models/points.py:235: pending_points is the sum of the points of the    *)
(* requests that wait for a decision, after any sequence of requests.      *)
THEOREM PendingPointsAreExact ==
    ASSUME OneAtATime
    PROVE  SpecAll => []PendingIsExact
<1>1. SerialInv => PendingIsExact
  BY DEF SerialInv
<1>. QED
  BY <1>1, SerialInvariance, PTL

(* models/points.py:238: redeemed_points is the sum of the points of the   *)
(* requests that have been delivered.                                      *)
THEOREM RedeemedPointsAreExact ==
    ASSUME OneAtATime
    PROVE  SpecAll => []RedeemedIsExact
<1>1. SerialInv => RedeemedIsExact
  BY DEF SerialInv
<1>. QED
  BY <1>1, SerialInvariance, PTL

(* reward_service.py:155-159: through any sequence of sales and changes of *)
(* its total, a stock covers what is left of the total and never exceeds   *)
(* the total itself.                                                       *)
THEOREM StockStaysHonest ==
    ASSUME OneAtATime
    PROVE  SpecAll => []StockIsHonest
<1>1. SerialInv => StockIsHonest
  BY DEF SerialInv
<1>. QED
  BY <1>1, SerialInvariance, PTL

----------------------------------------------------------------------------
(* Steps                                                                   *)

(* redemption_service.py:14: a request changes its status along            *)
(* REDEMPTION_TRANSITIONS only.                                            *)
THEOREM StatusesFollowTheTransitions ==
    ASSUME OneAtATime
    PROVE  SpecAll => TransitionsEnforced
<1>. DEFINE Allowed ==
              \A r \in Existing :
                 redemption'[r].status # redemption[r].status
                   => redemption'[r].status \in REDEMPTION_TRANSITIONS[redemption[r].status]
<1>1. ASSUME BooksInv, SerialInv, [NextAll]_allVars PROVE Allowed \/ UNCHANGED allVars
  <2>1. CASE UNCHANGED redemption
    BY <2>1
  <2>2. ASSUME NEW s \in Sessions, CommitAll(s) PROVE Allowed
    <3>. SUFFICES ASSUME NEW q \in Existing, redemption'[q].status # redemption[q].status
                  PROVE  redemption'[q].status \in REDEMPTION_TRANSITIONS[redemption[q].status]
      OBVIOUS
    <3>1. HandlingBooks(s) /\ q = job[s].key
      BY <1>1, <2>2, CommittedRequests DEF Existing
    <3>2. redemption[q] # None
      BY DEF Existing
    <3>3. /\ redemption'[q].status = NewStatus(s)
          /\ job[s].op # "create" => /\ redemption[q] = seen[s]
                                     /\ TransitionAllowed(seen[s], job[s].op)
          /\ job[s].op = "create" => redemption[q] = None
      BY <1>1, <2>2, <3>1, RequestWritten
    <3>. QED
      BY <3>2, <3>3 DEF NewStatus, TransitionAllowed
  <2>3. ASSUME NEW s \in Sessions, RequestAll(s) \/ RollbackAll(s) PROVE UNCHANGED redemption
    BY <2>3 DEF RequestAll, RollbackAll, Refuse, create_redemption, load_redemption, update_reward, rowVars
  <2>4. ASSUME NEW s \in Sessions, Step(s), ~CommitAll(s) PROVE UNCHANGED redemption
    BY <2>4 DEF Step, submit_redemption, ApproveReadsReward, CheckBalance, ApprovePosts, adjust_pending,
                mark_redeemed, FlushReward, FlushRedemption, Refuse, rowVars
  <2>5. ASSUME NEW w \in Rewards, NEW status \in RewardStatuses, NEW cost \in Costs,
               NEW total \in Totals, create_reward(w, status, cost, total)
        PROVE  UNCHANGED redemption
    BY <2>5 DEF create_reward
  <2>. QED
    BY <1>1, <2>1, <2>2, <2>3, <2>4, <2>5 DEF NextAll
<1>2. BooksInv /\ SerialInv /\ [NextAll]_allVars => [Allowed]_allVars
  BY <1>1
<1>. QED
  BY <1>2, SerialInvariance, BooksInvariance, PTL DEF SpecAll, TransitionsEnforced

LEMMA InitRefinesLedger == InitAll => PLAll!Init
BY InitRefines DEF InitAll, PL!Init, PLAll!Init

LEMMA NothingPosted ==
    ASSUME UNCHANGED <<wallet, ledger>>
    PROVE  UNCHANGED PLAll!vars
<1>1. \A u \in Users : RowOf(u)' = RowOf(u)
  BY DEF RowOf
<1>. QED
  BY <1>1 DEF PLAll!vars, Balance

(* A commit is one posting, or moves no balance.                           *)
LEMMA CommitPosts ==
    ASSUME BooksInv, SerialInv, NEW s \in Sessions, CommitAll(s)
    PROVE  [PLAll!Next]_(PLAll!vars)
<1>. DEFINE u == job[s].user  e == draft[s]
<1>1. TypeOKAll
  BY DEF BooksInv
<1>2. \A v \in Users :
        /\ RowOf(v)' = IF copy[s] # None /\ v = u THEN Written(RowOf(v), copy[s]) ELSE RowOf(v)
        /\ ledger'[v] = IF e # None /\ v = u THEN Append(ledger[v], e) ELSE ledger[v]
  BY CommittedWallet
<1>3. copy[s] # None => Written(RowOf(u), copy[s])["current_balance"]
                          = IF e = None THEN RowOf(u)["current_balance"] ELSE e.balance_after
  BY CommittedColumns
<1>4. e # None => copy[s] # None
  BY CommittedWallet
<1>5. \A v \in Users :
         Balance'[v] = IF e # None /\ v = u THEN e.balance_after ELSE Balance[v]
  BY <1>2, <1>3, <1>4 DEF Balance
<1>6. /\ Balance = [v \in Users |-> Balance[v]] /\ Balance' = [v \in Users |-> Balance'[v]]
      /\ ledger = [v \in Users |-> ledger[v]] /\ ledger' = [v \in Users |-> ledger'[v]]
  BY <1>1, CommittedWallet DEF Balance, TypeOKAll
<1>7. CASE e = None
  <2>1. \A v \in Users : Balance'[v] = Balance[v] /\ ledger'[v] = ledger[v]
    BY <1>2, <1>5, <1>7
  <2>2. Balance' = Balance /\ ledger' = ledger
    BY <1>6, <2>1
  <2>. QED
    BY <2>2 DEF PLAll!vars
<1>8. CASE e # None
  <2>1. /\ u \in Users /\ e \in Entry /\ e.key \notin KeysOf(u)
        /\ e.points \in AllAmounts /\ e.points # 0
        /\ e.balance_before = Balance[u]
        /\ e.balance_after = Balance[u] + e.points
    BY <1>8, NewEntry DEF Balance
  <2>2. e = [key |-> e.key, points |-> e.points, balance_before |-> Balance[u],
             balance_after |-> Balance[u] + e.points]
    BY <2>1 DEF Entry
  <2>3. Balance' = [Balance EXCEPT ![u] = @ + e.points]
    BY <1>5, <1>6, <1>8, <2>1
  <2>4. ledger' = [ledger EXCEPT ![u] = Append(@, e)]
    BY <1>2, <1>6, <1>8, <2>1
  <2>5. e.key \in Keys /\ e.key \notin PLAll!KeysIn(ledger[u])
    BY <2>1 DEF Entry, KeysOf, PLAll!KeysIn
  <2>6. ledger' = [ledger EXCEPT ![u] = Append(@,
            [key |-> e.key, points |-> e.points, balance_before |-> Balance[u],
             balance_after |-> Balance[u] + e.points])]
    BY <2>2, <2>4
  <2>7. PLAll!Post(u, e.key, e.points)
    BY <2>1, <2>3, <2>5, <2>6 DEF PLAll!Post
  <2>. QED
    BY <2>1, <2>5, <2>7 DEF PLAll!Next
<1>. QED
  BY <1>7, <1>8

LEMMA NextRefinesLedger ==
    BooksInv /\ SerialInv /\ [NextAll]_allVars => [PLAll!Next]_(PLAll!vars)
<1>. SUFFICES ASSUME BooksInv, SerialInv, [NextAll]_allVars PROVE [PLAll!Next]_(PLAll!vars)
  OBVIOUS
<1>1. ASSUME NEW s \in Sessions, RequestAll(s) PROVE UNCHANGED <<wallet, ledger>>
  BY <1>1 DEF RequestAll, Request, award_points, create_manual_transaction, Start,
              create_redemption, load_redemption, update_reward
<1>2. ASSUME NEW s \in Sessions, Step(s), ~CommitAll(s) PROVE UNCHANGED <<wallet, ledger>>
  BY <1>2 DEF Step, PostEntry, submit_redemption, ApproveReadsReward, CheckBalance, ApprovePosts,
              adjust_pending, mark_redeemed, FlushReward, FlushRedemption, Refuse
<1>3. ASSUME NEW s \in Sessions, CommitAll(s) PROVE [PLAll!Next]_(PLAll!vars)
  BY <1>3, CommitPosts
<1>4. ASSUME NEW s \in Sessions, RollbackAll(s) PROVE UNCHANGED <<wallet, ledger>>
  BY <1>4 DEF RollbackAll, Refuse
<1>5. ASSUME NEW w \in Rewards, NEW status \in RewardStatuses, NEW cost \in Costs,
             NEW total \in Totals, create_reward(w, status, cost, total)
      PROVE  UNCHANGED <<wallet, ledger>>
  BY <1>5 DEF create_reward, vars
<1>6. CASE UNCHANGED allVars
  BY <1>6, NothingPosted DEF allVars, vars
<1>. QED
  BY <1>1, <1>2, <1>3, <1>4, <1>5, <1>6, NothingPosted DEF NextAll

(* Awards, manual transactions and the deductions of approvals together    *)
(* implement a ledger whose postings are single steps.                     *)
THEOREM RedemptionsRefineLedger ==
    ASSUME OneAtATime
    PROVE  SpecAll => RedemptionsImplementPointLedger
BY InitRefinesLedger, NextRefinesLedger, BooksInvariance, SerialInvariance, PTL
   DEF SpecAll, RedemptionsImplementPointLedger, PLAll!Spec

=============================================================================
