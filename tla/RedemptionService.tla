------------------------- MODULE RedemptionService -------------------------
(***************************************************************************)
(* services/redemption_service.py and services/reward_service.py on top of *)
(* WalletService: the life of a redemption request                         *)
(*   draft -> submitted -> under_review -> approved | rejected -> delivered*)
(* and the stock of rewards, executed by concurrent sessions.  One action  *)
(* is one database statement of a handler with the Python code up to the   *)
(* next one; the requests of WalletService run beside these.               *)
(*                                                                         *)
(* Left out: roles, organisations and the date window of a reward (a       *)
(* request they refuse changes nothing, as one that Rollback ends), notes, *)
(* time stamps and the rows of gamification_audit_logs.                    *)
(***************************************************************************)
EXTENDS WalletService, Functions, FiniteSets

CONSTANTS Redemptions,  \* uuids of redemption requests, also the keys of their entries
          Rewards,      \* uuids of rewards
          Costs,        \* cost_points an administrator may set
          Totals,       \* inventory_total an administrator may set; None: unlimited
          Quantities    \* quantities a user may ask for

ASSUME RedemptionsAssumption == Redemptions \subseteq Keys \ (Events \cup Manuals)

ASSUME NumbersAssumption ==
    /\ Costs \subseteq Nat \ {0}
    /\ Totals \subseteq Nat \cup {None}
    /\ Quantities \subseteq Nat \ {0}

VARIABLES reward,               \* reward[w]: committed row of rewards, or None
          redemption,           \* redemption[r]: committed row of reward_redemptions, or None
          reward_locked_by,     \* row locks of rewards, owned from UPDATE to COMMIT
          redemption_locked_by, \* row locks of reward_redemptions
          offer,                \* offer[s]: the Reward object of session s and its id
          seen                  \* seen[s]: the RewardRedemption object of s, as it was read

rowVars == <<reward, redemption, reward_locked_by, redemption_locked_by>>
objectVars == <<offer, seen>>
allVars == <<vars, rowVars, objectVars>>

----------------------------------------------------------------------------
(* Statuses (models/reward.py)                                             *)

REDEMPTION_TRANSITIONS ==
    [draft        |-> {"submitted", "cancelled"},
     submitted    |-> {"under_review", "approved", "rejected", "cancelled"},
     under_review |-> {"approved", "rejected", "cancelled"},
     approved     |-> {"delivered"},
     rejected     |-> {},
     delivered    |-> {},
     cancelled    |-> {}]

(* The status each handler on an existing request asks for.                *)
Target == [submit |-> "submitted", cancel |-> "cancelled", review |-> "under_review",
           approve |-> "approved", reject |-> "rejected", deliver |-> "delivered"]

Pending == {"submitted", "under_review"}

(* Variant: any request that is not in the wanted status will do.          *)
TransitionUnchecked(row, op) == Target[op] # row.status

(* _assert_transition: it looks at the object, not at the row.             *)
TransitionAllowed(row, op) == Target[op] \in REDEMPTION_TRANSITIONS[row.status]

(* Only "active" is told apart: "archived" stands for draft and inactive.  *)
RewardStatuses == {"active", "archived"}

RedemptionStatuses == DOMAIN REDEMPTION_TRANSITIONS

(* A row of reward_redemptions.                                            *)
RedemptionRow ==
    [status: RedemptionStatuses, user: Users, reward: Rewards,
     quantity: Quantities, cost_points_snapshot: Nat]

(* A row of rewards, and its ORM object with the id it is written under.   *)
RewardRow ==
    [status: RewardStatuses, cost_points: Costs,
     inventory_total: Totals, inventory_remaining: Nat \cup {None}]

RewardObject == [id: Rewards, read: RewardRow, now: RewardRow]

ASSUME NoRowAssumption == None \notin Nat \cup RedemptionRow \cup RewardRow \cup RewardObject

(* Variant: approve does not look at the stock again.                      *)
InStockAlways(row, quantity) == TRUE

InStock(row, quantity) == row.inventory_remaining # None => quantity <= row.inventory_remaining

is_available(row) ==
    /\ row.status = "active"
    /\ row.inventory_remaining # None => row.inventory_remaining > 0

----------------------------------------------------------------------------
(* Sessions                                                                *)

Op(s) == job[s].op

(* Variants: autoflush sends the UPDATE of the request before the wallet   *)
(* is locked; was_pending is computed after the new status is set.         *)
WithdrawalAutoflush(status) ==
    IF status \in Pending THEN <<"redemption_row", "pending", "commit">>
    ELSE <<"redemption_row", "commit">>

WithdrawalForgetful(status) == <<"redemption_row", "commit">>

(* cancel_redemption and reject_redemption: only a request that was        *)
(* pending has points to take out of the pending ones.                     *)
Withdrawal(status) ==
    IF status \in Pending THEN <<"pending", "redemption_row", "commit">>
    ELSE <<"redemption_row", "commit">>

(* The statements each handler executes, in order, when the status it has  *)
(* read is this one.  autoflush is off: the UPDATE of the redemption is    *)
(* sent by the flush that follows the change of the wallet.                *)
Statements(op, status) ==
    CASE op = "create"  -> IF status = "draft" THEN <<"balance", "commit">>
                           ELSE <<"balance", "pending", "commit">>
      [] op = "submit"  -> <<"reward", "pending", "redemption_row", "commit">>
      [] op = "review"  -> <<"redemption_row", "commit">>
      [] op = "approve" -> <<"reward", "balance", "post", "pending", "reward_row",
                             "redemption_row", "commit">>
      [] op = "deliver" -> <<"redeemed", "redemption_row", "commit">>
      [] op = "edit"    -> <<"reward_row", "commit">>
      [] op \in {"cancel", "reject"} -> Withdrawal(status)

Begin(s, op, status) == pc' = [pc EXCEPT ![s] = Statements(op, status)[1]]

Advance(s) ==
    LET plan == Statements(Op(s), IF seen[s] = None THEN None ELSE seen[s].status)
    IN  \E i \in DOMAIN plan : plan[i] = pc[s] /\ pc' = [pc EXCEPT ![s] = plan[i + 1]]

(* The session is closed, its objects and row locks are gone.              *)
Close(s) ==
    /\ offer' = [offer EXCEPT ![s] = None]
    /\ seen' = [seen EXCEPT ![s] = None]
    /\ reward_locked_by' =
         [w \in Rewards |-> IF reward_locked_by[w] = s THEN None ELSE reward_locked_by[w]]
    /\ redemption_locked_by' =
         [r \in Redemptions |-> IF redemption_locked_by[r] = s THEN None
                                ELSE redemption_locked_by[r]]

(* raise HTTPException: get_db rolls the transaction back.                 *)
Refuse(s) ==
    /\ EndSession(s)
    /\ Close(s)
    /\ UNCHANGED <<wallet, ledger, reward, redemption>>

----------------------------------------------------------------------------
(* Rewards                                                                 *)

(* create_reward: one INSERT.                                              *)
create_reward(w, status, cost, total) ==
    /\ reward[w] = None
    /\ reward' = [reward EXCEPT ![w] =
            [status |-> status, cost_points |-> cost,
             inventory_total |-> total, inventory_remaining |-> total]]
    /\ UNCHANGED <<vars, redemption, reward_locked_by, redemption_locked_by, objectVars>>

OrZero(n) == IF n = None THEN 0 ELSE n

AtLeastZero(n) == IF n < 0 THEN 0 ELSE n

(* Variant: the new total is added to the stock, not the difference.       *)
RestockedTwice(row, total) ==
    IF total = row.inventory_total THEN row.inventory_remaining
    ELSE IF total = None THEN None
    ELSE OrZero(row.inventory_remaining) + total

(* update_reward, lines 155-159: the stock follows the change of the total *)
(* that the object shows.                                                  *)
Restocked(row, total) ==
    IF total = row.inventory_total THEN row.inventory_remaining
    ELSE IF total = None THEN None
    ELSE AtLeastZero(OrZero(row.inventory_remaining) + OrZero(total) - OrZero(row.inventory_total))

(* update_reward and archive_reward: the router reads the reward, the      *)
(* payload replaces its attributes; only what changed will be written.     *)
update_reward(s, w, status, cost, total) ==
    LET row == reward[w]
        new == [status |-> status, cost_points |-> cost, inventory_total |-> total,
                inventory_remaining |-> Restocked(row, total)]
    IN  /\ pc[s] = "idle"
        /\ row # None
        /\ new # row
        /\ offer' = [offer EXCEPT ![s] = [id |-> w, read |-> row, now |-> new]]
        /\ job' = [job EXCEPT ![s] = [op |-> "edit", user |-> None, key |-> None, points |-> 0]]
        /\ Begin(s, "edit", None)
        /\ UNCHANGED <<wallet, ledger, locked_by, copy, draft, rowVars, seen>>

(* UPDATE rewards: the row is locked until the transaction ends.  The      *)
(* stock of an unlimited reward does not change, so it is not updated.     *)
FlushReward(s) ==
    /\ pc[s] = "reward_row"
    /\ IF offer[s].now = offer[s].read THEN UNCHANGED reward_locked_by
       ELSE /\ reward_locked_by[offer[s].id] = None
            /\ reward_locked_by' = [reward_locked_by EXCEPT ![offer[s].id] = s]
    /\ Advance(s)
    /\ UNCHANGED <<wallet, ledger, locked_by, job, copy, draft, reward, redemption,
                   redemption_locked_by, objectVars>>

----------------------------------------------------------------------------
(* Redemption requests                                                     *)

(* create_redemption, lines 55-61: the reward is read and checked.         *)
create_redemption(s, u, w, q, submit, r) ==
    /\ pc[s] = "idle"
    /\ redemption[r] = None /\ r \notin KeysInUse
    /\ reward[w] # None
    /\ is_available(reward[w]) /\ InStock(reward[w], q)
    /\ LET cost == reward[w].cost_points * q
       IN  /\ seen' = [seen EXCEPT ![s] =
                [status |-> IF submit THEN "submitted" ELSE "draft", user |-> u, reward |-> w,
                 quantity |-> q, cost_points_snapshot |-> cost]]
           /\ job' = [job EXCEPT ![s] =
                [op |-> "create", user |-> u, key |-> r, points |-> cost]]
    /\ Begin(s, "create", IF submit THEN "submitted" ELSE "draft")
    /\ UNCHANGED <<wallet, ledger, locked_by, copy, draft, rowVars, offer>>

(* The first read of every other handler: the router gets the redemption   *)
(* and _assert_transition accepts its status.                              *)
load_redemption(s, op, r) ==
    /\ pc[s] = "idle"
    /\ redemption[r] # None
    /\ TransitionAllowed(redemption[r], op)
    /\ seen' = [seen EXCEPT ![s] = redemption[r]]
    /\ job' = [job EXCEPT ![s] = [op |-> op, user |-> redemption[r].user, key |-> r,
                                  points |-> redemption[r].cost_points_snapshot]]
    /\ Begin(s, op, redemption[r].status)
    /\ UNCHANGED <<wallet, ledger, locked_by, copy, draft, rowVars, offer>>

(* submit_redemption, lines 95-97: the reward must still be available.     *)
submit_redemption(s) ==
    /\ pc[s] = "reward" /\ Op(s) = "submit"
    /\ IF is_available(reward[seen[s].reward])
         THEN /\ Advance(s)
              /\ UNCHANGED <<wallet, ledger, locked_by, job, copy, draft, rowVars, objectVars>>
         ELSE Refuse(s)

(* approve_redemption, lines 160-164: the stock is checked on this read.   *)
ApproveReadsReward(s) ==
    /\ pc[s] = "reward" /\ Op(s) = "approve"
    /\ LET w == seen[s].reward
       IN  IF InStock(reward[w], seen[s].quantity)
             THEN /\ offer' = [offer EXCEPT ![s] =
                        [id |-> w, read |-> reward[w], now |-> reward[w]]]
                  /\ Advance(s)
                  /\ UNCHANGED <<wallet, ledger, locked_by, job, copy, draft, rowVars, seen>>
             ELSE Refuse(s)

(* Variant: approve trusts the balance check made when the request came.   *)
CheckBalanceOnce(s) ==
    /\ pc[s] = "balance"
    /\ get_wallet(s, job[s].user)
    /\ Op(s) = "create" => job[s].points <= RowOf(job[s].user)["current_balance"]
    /\ Advance(s)
    /\ UNCHANGED <<wallet, ledger, locked_by, job, draft, rowVars, objectVars>>

(* create_redemption, lines 63-67, and approve_redemption, lines 166-168:  *)
(* the balance is checked on an unlocked read, whose object the session    *)
(* keeps.                                                                  *)
CheckBalance(s) ==
    /\ pc[s] = "balance"
    /\ IF job[s].points <= RowOf(job[s].user)["current_balance"]
         THEN /\ get_wallet(s, job[s].user)
              /\ Advance(s)
              /\ UNCHANGED <<wallet, ledger, locked_by, job, draft, rowVars, objectVars>>
         ELSE Refuse(s)

(* approve_redemption, lines 170-179: the deduction, refused when it was   *)
(* already made, and the stock of the object.                              *)
Deducted(object, quantity) ==
    IF object.now.inventory_remaining = None THEN object
    ELSE [object EXCEPT !.now.inventory_remaining = @ - quantity]

ApprovePosts(s) ==
    /\ pc[s] = "post" /\ Op(s) = "approve"
    /\ LET u == job[s].user  r == job[s].key
       IN  IF r \in KeysOf(u)
             THEN locked_by[u] \in {None, s} /\ Refuse(s)
             ELSE /\ apply_ledger_entry(s, u, r, -job[s].points)
                  /\ offer' = [offer EXCEPT ![s] = Deducted(@, seen[s].quantity)]
                  /\ Advance(s)
                  /\ UNCHANGED <<wallet, ledger, job, rowVars, seen>>

(* adjust_pending: the pending points of the wallet follow the request in  *)
(* and out of the pending statuses.                                        *)
adjust_pending(s) ==
    LET u      == job[s].user
        delta  == IF Op(s) \in {"create", "submit"} THEN job[s].points ELSE -job[s].points
        object == Selected(s, u)
    IN  /\ pc[s] = "pending"
        /\ GetWalletLocked(s, u)
        /\ copy' = [copy EXCEPT ![s] =
                [object EXCEPT !.now["pending_points"] = AtLeastZero(@ + delta)]]
        /\ Advance(s)
        /\ UNCHANGED <<wallet, ledger, job, draft, rowVars, objectVars>>

(* Variant: one is added for each item, not its points.                    *)
mark_redeemed_items(s) ==
    LET u      == job[s].user
        object == Selected(s, u)
    IN  /\ pc[s] = "redeemed"
        /\ GetWalletLocked(s, u)
        /\ copy' = [copy EXCEPT ![s] =
                [object EXCEPT !.now["redeemed_points"] = @ + seen[s].quantity]]
        /\ Advance(s)
        /\ UNCHANGED <<wallet, ledger, job, draft, rowVars, objectVars>>

(* mark_redeemed, called by deliver_redemption.                            *)
mark_redeemed(s) ==
    LET u      == job[s].user
        object == Selected(s, u)
    IN  /\ pc[s] = "redeemed"
        /\ GetWalletLocked(s, u)
        /\ copy' = [copy EXCEPT ![s] =
                [object EXCEPT !.now["redeemed_points"] = @ + job[s].points]]
        /\ Advance(s)
        /\ UNCHANGED <<wallet, ledger, job, draft, rowVars, objectVars>>

(* UPDATE reward_redemptions: the row is locked until the transaction ends.*)
FlushRedemption(s) ==
    /\ pc[s] = "redemption_row"
    /\ redemption_locked_by[job[s].key] = None
    /\ redemption_locked_by' = [redemption_locked_by EXCEPT ![job[s].key] = s]
    /\ Advance(s)
    /\ UNCHANGED <<wallet, ledger, locked_by, job, copy, draft, reward, redemption,
                   reward_locked_by, objectVars>>

(* COMMIT: all rows of the transaction appear together.                    *)
CommitAll(s) ==
    /\ pc[s] = "commit"
    /\ CommitRows(s)
    /\ reward' = IF offer[s] = None THEN reward
                 ELSE [reward EXCEPT ![offer[s].id] = Written(@, offer[s])]
    /\ redemption' = IF seen[s] = None THEN redemption
                     ELSE [redemption EXCEPT ![job[s].key] =
                             IF Op(s) = "create" THEN seen[s]
                             ELSE [@ EXCEPT !.status = Target[Op(s)]]]
    /\ Close(s)

(* get_db after an exception, a disconnected client or a dead worker.      *)
RollbackAll(s) == pc[s] # "idle" /\ Refuse(s)

----------------------------------------------------------------------------

RequestAll(s) ==
    \/ Request(s) /\ UNCHANGED <<rowVars, objectVars>>
    \/ \E u \in Users, w \in Rewards, q \in Quantities, submit \in BOOLEAN, r \in Redemptions :
         create_redemption(s, u, w, q, submit, r)
    \/ \E op \in DOMAIN Target, r \in Redemptions : load_redemption(s, op, r)
    \/ \E w \in Rewards, status \in RewardStatuses, cost \in Costs, total \in Totals :
         update_reward(s, w, status, cost, total)

(* What a session does once it has begun.                                  *)
Step(s) ==
    \/ PostEntry(s) /\ UNCHANGED <<rowVars, objectVars>>
    \/ submit_redemption(s)
    \/ ApproveReadsReward(s)
    \/ CheckBalance(s)
    \/ ApprovePosts(s)
    \/ adjust_pending(s)
    \/ mark_redeemed(s)
    \/ FlushReward(s)
    \/ FlushRedemption(s)
    \/ CommitAll(s)

InitAll ==
    /\ Init
    /\ reward = [w \in Rewards |-> None]
    /\ redemption = [r \in Redemptions |-> None]
    /\ reward_locked_by = [w \in Rewards |-> None]
    /\ redemption_locked_by = [r \in Redemptions |-> None]
    /\ offer = [s \in Sessions |-> None]
    /\ seen = [s \in Sessions |-> None]

NextAll ==
    \/ \E w \in Rewards, status \in RewardStatuses, cost \in Costs, total \in Totals :
         create_reward(w, status, cost, total)
    \/ \E s \in Sessions : RequestAll(s) \/ Step(s) \/ RollbackAll(s)

(* As in WalletService: waiters of a row lock are served in turn.          *)
SpecAll == InitAll /\ [][NextAll]_allVars /\ \A s \in Sessions : SF_allVars(Step(s))

----------------------------------------------------------------------------
(* Properties of every interleaving                                        *)

PhasesAll == {"idle", "reward", "balance", "post", "pending", "redeemed", "reward_row",
              "redemption_row", "commit"}

JobAll == [op: {"post", "edit", "create"} \cup DOMAIN Target, user: Users \cup {None},
           key: Keys \cup {None}, points: Int]

TypeOKAll ==
    /\ wallet \in [Users -> Row \cup {None}]
    /\ ledger \in [Users -> Seq(Entry)]
    /\ locked_by \in [Users -> Sessions \cup {None}]
    /\ reward \in [Rewards -> RewardRow \cup {None}]
    /\ redemption \in [Redemptions -> RedemptionRow \cup {None}]
    /\ reward_locked_by \in [Rewards -> Sessions \cup {None}]
    /\ redemption_locked_by \in [Redemptions -> Sessions \cup {None}]
    /\ pc \in [Sessions -> PhasesAll]
    /\ job \in [Sessions -> JobAll \cup {None}]
    /\ copy \in [Sessions -> Object \cup {None}]
    /\ draft \in [Sessions -> Entry \cup {None}]
    /\ offer \in [Sessions -> RewardObject \cup {None}]
    /\ seen \in [Sessions -> RedemptionRow \cup {None}]

Existing == {r \in Redemptions : redemption[r] # None}

InStatus(statuses) == {r \in Existing : redemption[r].status \in statuses}

Of(u) == {r \in Existing : redemption[r].user = u}

Cost(r) == redemption[r].cost_points_snapshot

TotalCost(rs) == SumFunction([r \in rs |-> Cost(r)])

(* The deductions made for request r.                                      *)
Charges(r) ==
    {p \in UNION {{u} \X DOMAIN ledger[u] : u \in Users} : ledger[p[1]][p[2]].key = r}

(* redemption_service.py:10 and models/reward.py:113-116: an approved or   *)
(* delivered request has been paid, and, however many approvals of it      *)
(* race, no request is ever paid twice.                                    *)
ApprovedIsChargedOnce ==
    /\ \A r \in Redemptions : Cardinality(Charges(r)) <= 1
    /\ \A r \in InStatus({"approved", "delivered"}) :
         \E p \in Charges(r) :
            /\ p[1] = redemption[r].user
            /\ ledger[p[1]][p[2]].points = -Cost(r)

(* The balance shown is the one the newest ledger entry ends with, also    *)
(* when that entry was computed from an old copy of the wallet.            *)
BalanceIsLastEntry ==
    \A u \in Users : Balance[u] = PL!BalanceAfter(ledger[u], Len(ledger[u]))

(* Points won are never lost from total_earned: only posters with a fresh  *)
(* copy change that column, and a stale approval does not write it.        *)
EarnedMatchesLedger ==
    \A u \in Users :
        RowOf(u)["total_earned"]
          = SumFunction([i \in DOMAIN ledger[u] |-> AtLeastZero(ledger[u][i].points)])

(* approve_redemption checks and deducts on one and the same copy: no      *)
(* deduction records a negative balance, and the stock never falls below   *)
(* zero, whatever is posted or edited in between.                          *)
NothingBelowZero ==
    /\ \A r \in Redemptions : \A p \in Charges(r) : ledger[p[1]][p[2]].balance_after >= 0
    /\ \A w \in Rewards : reward[w] # None /\ reward[w].inventory_remaining # None
                            => reward[w].inventory_remaining >= 0

(* models/points.py:238: redeemed_points covers every delivered request,   *)
(* since mark_redeemed always adds to the row it has locked.               *)
RedeemedCoversDelivered ==
    \A u \in Users :
        RowOf(u)["redeemed_points"] >= TotalCost(Of(u) \cap InStatus({"delivered"}))

(* Session s waits for a row lock of session t.                            *)
WaitsFor(s, t) ==
    /\ s # t
    /\ \/ pc[s] \in {"post", "pending", "redeemed"} /\ locked_by[job[s].user] = t
       \/ pc[s] = "reward_row" /\ offer[s].now # offer[s].read
                              /\ reward_locked_by[offer[s].id] = t
       \/ pc[s] = "redemption_row" /\ redemption_locked_by[job[s].key] = t

(* No deadlock: the handlers lock wallet, reward and redemption in an      *)
(* order that leaves a session which waits for none of the others.         *)
NoWaitCycle ==
    \A waiting \in SUBSET Sessions :
        waiting # {} => \E s \in waiting : \A t \in waiting : ~WaitsFor(s, t)

----------------------------------------------------------------------------
(* Properties of requests that come one after the other; with several      *)
(* sessions they fail where the README says.                               *)

(* redemption_service.py:14, models/reward.py:35: every change of a status *)
(* is one of REDEMPTION_TRANSITIONS.                                       *)
TransitionsEnforced ==
    [][\A r \in Existing :
        redemption'[r].status # redemption[r].status
          => redemption'[r].status \in REDEMPTION_TRANSITIONS[redemption[r].status]]_allVars

(* models/points.py:235: pending_points is the sum of the points of the    *)
(* requests in submitted and under_review.                                 *)
PendingIsExact ==
    \A u \in Users : RowOf(u)["pending_points"] = TotalCost(Of(u) \cap InStatus(Pending))

(* models/points.py:238: redeemed_points is the sum of the delivered ones. *)
RedeemedIsExact ==
    \A u \in Users :
        RowOf(u)["redeemed_points"] = TotalCost(Of(u) \cap InStatus({"delivered"}))

SalesOf(w) == {r \in InStatus({"approved", "delivered"}) : redemption[r].reward = w}

Sold(w) == SumFunction([r \in SalesOf(w) |-> redemption[r].quantity])

(* The stock of a limited reward stays between what is left of its total   *)
(* and the total itself, through any sequence of sales and restockings.    *)
StockIsHonest ==
    \A w \in Rewards :
        reward[w] # None /\ reward[w].inventory_total # None =>
            /\ reward[w].inventory_remaining >= 0
            /\ reward[w].inventory_total - Sold(w) <= reward[w].inventory_remaining
            /\ reward[w].inventory_remaining <= reward[w].inventory_total

(* redemption_service.py:10-12: approve checks balance and stock with      *)
(* authority, so without restocking no more items are approved than exist. *)
NoOversell ==
    \A w \in Rewards :
        reward[w] # None /\ reward[w].inventory_total # None
          => Sold(w) <= reward[w].inventory_total

AllAmounts ==
    Amounts \cup {-n : n \in Amounts} \cup {-(c * q) : c \in Costs, q \in Quantities}

PLAll == INSTANCE PointLedger WITH balance <- Balance, book <- ledger, Amounts <- AllAmounts

(* Deductions of approvals are postings of the ledger like all others.     *)
RedemptionsImplementPointLedger == PLAll!Spec
=============================================================================
