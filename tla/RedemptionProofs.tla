-------------------------- MODULE RedemptionProofs --------------------------
(***************************************************************************)
(* Sessions that handle redemptions, rewards and points never wait for     *)
(* each other in a circle, for any number of sessions, users, rewards and  *)
(* requests.                                                               *)
(*                                                                         *)
(* The argument is the order of the locks.  Every handler locks the wallet *)
(* of one user first, then a row of rewards, then a row of redemptions:    *)
(* a session that owns a row of redemptions has only its COMMIT to do, one *)
(* that owns a row of rewards can wait for a row of redemptions alone, and *)
(* one that owns a wallet asks for no other wallet.                        *)
(***************************************************************************)
EXTENDS RedemptionService, TLAPS

Handlers == {"create", "submit", "cancel", "review", "approve", "reject", "deliver"}

(* What a session can be about to do.                                      *)
Statement == {"reward", "balance", "post", "pending", "redeemed", "reward_row",
              "redemption_row", "commit"}

IsRedemption(row) ==
    /\ row = [status |-> row.status, user |-> row.user, reward |-> row.reward,
              quantity |-> row.quantity, cost_points_snapshot |-> row.cost_points_snapshot]
    /\ row.user \in Users /\ row.reward \in Rewards

IsOffer(object) ==
    /\ object = [id |-> object.id, read |-> object.read, now |-> object.now]
    /\ object.id \in Rewards

(* Which rows a session names, by the request it executes.                 *)
Posting(s) ==
    job[s].op = "post" /\ pc[s] \in {"post", "commit"} /\ job[s].user \in Users /\ seen[s] = None

Editing(s) ==
    job[s].op = "edit" /\ pc[s] \in {"reward_row", "commit"} /\ IsOffer(offer[s]) /\ seen[s] = None

Handling(s) ==
    /\ job[s].op \in Handlers /\ pc[s] \in Statement
    /\ job[s].user \in Users /\ job[s].key \in Redemptions
    /\ IsRedemption(seen[s])
    /\ job[s].op # "create" => IsRedemption(redemption[job[s].key])
    /\ pc[s] = "reward_row" => job[s].op = "approve"
    /\ job[s].op = "approve" /\ pc[s] # "reward" => IsOffer(offer[s])

SessionOrder(s) ==
    \/ pc[s] = "idle" /\ seen[s] = None
    \/ pc[s] # "idle" /\ (Posting(s) \/ Editing(s) \/ Handling(s))

(* What the owner of a lock still has to do.                               *)
LockOrder ==
    /\ \A u \in Users, t \in Sessions :
          locked_by[u] = t => pc[t] # "idle" /\ job[t].user = u
    /\ \A w \in Rewards, t \in Sessions :
          reward_locked_by[w] = t => pc[t] \in {"redemption_row", "commit"}
    /\ \A r \in Redemptions, t \in Sessions :
          redemption_locked_by[r] = t => pc[t] = "commit"

Rows ==
    /\ pc = [s \in Sessions |-> pc[s]] /\ job = [s \in Sessions |-> job[s]]
    /\ offer = [s \in Sessions |-> offer[s]] /\ seen = [s \in Sessions |-> seen[s]]
    /\ locked_by = [u \in Users |-> locked_by[u]]
    /\ reward_locked_by = [w \in Rewards |-> reward_locked_by[w]]
    /\ redemption_locked_by = [r \in Redemptions |-> redemption_locked_by[r]]
    /\ redemption = [r \in Redemptions |-> redemption[r]]

OrderInv ==
    /\ Rows
    /\ \A r \in Redemptions : redemption[r] = None \/ IsRedemption(redemption[r])
    /\ \A s \in Sessions : SessionOrder(s)
    /\ LockOrder

----------------------------------------------------------------------------
(* The plans of the handlers.                                              *)

LEMMA FirstStatement ==
    ASSUME NEW op \in Handlers, NEW status
    PROVE  /\ Statements(op, status)[1] \in Statement
           /\ Statements(op, status)[1] # "reward_row"
           /\ op = "approve" => Statements(op, status)[1] = "reward"
BY DEF Handlers, Statements, Withdrawal, Statement, Pending

(* No statement comes after the commit, and after a row of redemptions has *)
(* been locked nothing else does.                                          *)
LEMMA FollowingStatement ==
    ASSUME NEW op \in Handlers \cup {"edit"}, NEW status,
           NEW i \in DOMAIN Statements(op, status), Statements(op, status)[i] # "commit"
    PROVE  /\ Statements(op, status)[i + 1] \in Statement \ {"reward"}
           /\ Statements(op, status)[i] = "redemption_row"
                => Statements(op, status)[i + 1] = "commit"
           /\ Statements(op, status)[i] = "reward_row"
                => Statements(op, status)[i + 1] \in {"redemption_row", "commit"}
           /\ Statements(op, status)[i + 1] = "reward_row" => op = "approve"
           /\ op = "edit" => Statements(op, status)[i + 1] = "commit"
<1>. DEFINE Good(p) == \A k \in DOMAIN p : p[k] # "commit" =>
                /\ p[k + 1] \in Statement \ {"reward"}
                /\ p[k] = "redemption_row" => p[k + 1] = "commit"
                /\ p[k] = "reward_row" => p[k + 1] \in {"redemption_row", "commit"}
                /\ p[k + 1] = "reward_row" => op = "approve"
                /\ op = "edit" => p[k + 1] = "commit"
<1>1. Good(<<"balance", "commit">>) \/ op = "edit"
  BY DEF Statement
<1>2. Good(<<"balance", "pending", "commit">>) \/ op = "edit"
  BY DEF Statement
<1>3. Good(<<"reward", "pending", "redemption_row", "commit">>) \/ op = "edit"
  BY DEF Statement
<1>4. Good(<<"redemption_row", "commit">>)
  BY DEF Statement
<1>5. Good(<<"reward", "balance", "post", "pending", "reward_row", "redemption_row", "commit">>)
      \/ op # "approve"
  BY DEF Statement
<1>6. Good(<<"redeemed", "redemption_row", "commit">>) \/ op = "edit"
  BY DEF Statement
<1>7. Good(<<"reward_row", "commit">>)
  BY DEF Statement
<1>8. Good(<<"pending", "redemption_row", "commit">>) \/ op = "edit"
  BY DEF Statement
<1>9. Good(Statements(op, status))
  <2>. HIDE DEF Good
  <2>. QED
    BY <1>1, <1>2, <1>3, <1>4, <1>5, <1>6, <1>7, <1>8 DEF Handlers, Statements, Withdrawal
<1>. QED
  BY <1>9

LEMMA NextStatement ==
    ASSUME NEW s \in Sessions, job[s].op \in Handlers \cup {"edit"}, pc[s] # "commit", Advance(s)
    PROVE  \E n \in Statement \ {"reward"} :
              /\ pc' = [pc EXCEPT ![s] = n]
              /\ pc[s] = "redemption_row" => n = "commit"
              /\ pc[s] = "reward_row" => n \in {"redemption_row", "commit"}
              /\ n = "reward_row" => job[s].op = "approve"
              /\ job[s].op = "edit" => n = "commit"
<1>1. PICK status : \E i \in DOMAIN Statements(job[s].op, status) :
         /\ Statements(job[s].op, status)[i] = pc[s]
         /\ pc' = [pc EXCEPT ![s] = Statements(job[s].op, status)[i + 1]]
  BY DEF Advance, Op
<1>2. PICK i \in DOMAIN Statements(job[s].op, status) :
         /\ Statements(job[s].op, status)[i] = pc[s]
         /\ pc' = [pc EXCEPT ![s] = Statements(job[s].op, status)[i + 1]]
  BY <1>1
<1>. QED
  BY <1>2, FollowingStatement

----------------------------------------------------------------------------
(* A step of session s changes what s has in memory, and locks.            *)

Only(s) ==
    /\ pc' = [pc EXCEPT ![s] = pc'[s]] /\ job' = [job EXCEPT ![s] = job'[s]]
    /\ offer' = [offer EXCEPT ![s] = offer'[s]] /\ seen' = [seen EXCEPT ![s] = seen'[s]]

LEMMA StepOfOne ==
    ASSUME OrderInv, NEW s \in Sessions, Only(s), UNCHANGED redemption,
           locked_by' = [u \in Users |-> locked_by'[u]],
           reward_locked_by' = [w \in Rewards |-> reward_locked_by'[w]],
           redemption_locked_by' = [r \in Redemptions |-> redemption_locked_by'[r]],
           SessionOrder(s)', LockOrder'
    PROVE  OrderInv'
<1>1. Rows'
  BY DEF OrderInv, Rows, Only
<1>2. \A t \in Sessions \ {s} :
         pc'[t] = pc[t] /\ job'[t] = job[t] /\ offer'[t] = offer[t] /\ seen'[t] = seen[t]
  BY DEF OrderInv, Rows, Only
<1>3. \A t \in Sessions \ {s} : SessionOrder(t)'
  BY <1>2 DEF OrderInv, SessionOrder, Posting, Editing, Handling
<1>. QED
  BY <1>1, <1>3 DEF OrderInv

(* Before it owns a row of rewards or redemptions, a session may lock the  *)
(* wallet of its user.                                                     *)
LEMMA WalletLocks ==
    ASSUME OrderInv, NEW s \in Sessions, Only(s),
           pc[s] \notin {"redemption_row", "commit"},
           pc[s] = "idle" \/ (pc'[s] # "idle" /\ job'[s] = job[s]),
           UNCHANGED <<reward_locked_by, redemption_locked_by>>,
           \A u \in Users : \/ locked_by'[u] = locked_by[u]
                            \/ locked_by'[u] = s /\ pc'[s] # "idle" /\ job'[s].user = u
    PROVE  LockOrder'
<1>1. \A t \in Sessions \ {s} : pc'[t] = pc[t] /\ job'[t] = job[t]
  BY DEF OrderInv, Rows, Only
<1>2. \A u \in Users, t \in Sessions :
         locked_by'[u] = t => pc'[t] # "idle" /\ job'[t].user = u
  BY <1>1 DEF OrderInv, LockOrder
<1>. QED
  BY <1>1, <1>2 DEF OrderInv, LockOrder

(* The end of a session releases what it owns.                             *)
LEMMA LocksReleased ==
    ASSUME OrderInv, NEW s \in Sessions, EndSession(s), Close(s)
    PROVE  Only(s) /\ SessionOrder(s)' /\ LockOrder'
           /\ locked_by' = [u \in Users |-> locked_by'[u]]
           /\ reward_locked_by' = [w \in Rewards |-> reward_locked_by'[w]]
           /\ redemption_locked_by' = [r \in Redemptions |-> redemption_locked_by'[r]]
<1>1. Only(s)
  BY DEF EndSession, Close, OrderInv, Rows, Only
<1>2. SessionOrder(s)'
  BY DEF EndSession, Close, OrderInv, Rows, SessionOrder
<1>3. \A t \in Sessions \ {s} : pc'[t] = pc[t] /\ job'[t] = job[t]
  BY <1>1 DEF OrderInv, Rows, Only
<1>4. None \notin Sessions
  BY NoneAssumption
<1>5. /\ \A u \in Users, t \in Sessions : locked_by'[u] = t => t # s /\ locked_by[u] = t
      /\ \A w \in Rewards, t \in Sessions :
            reward_locked_by'[w] = t => t # s /\ reward_locked_by[w] = t
      /\ \A r \in Redemptions, t \in Sessions :
            redemption_locked_by'[r] = t => t # s /\ redemption_locked_by[r] = t
  BY <1>4 DEF EndSession, Close
<1>6. LockOrder'
  BY <1>3, <1>5 DEF OrderInv, LockOrder
<1>. QED
  BY <1>1, <1>2, <1>6 DEF EndSession, Close

LEMMA RefuseStep ==
    ASSUME OrderInv, NEW s \in Sessions, Refuse(s)
    PROVE  OrderInv'
BY LocksReleased, StepOfOne DEF Refuse

----------------------------------------------------------------------------
(* The beginning of a request.                                             *)

LEMMA RequestStep ==
    ASSUME OrderInv, NEW s \in Sessions, RequestAll(s)
    PROVE  OrderInv'
<1>1. pc[s] = "idle" /\ seen[s] = None
  <2>1. pc[s] = "idle"
    BY DEF RequestAll, Request, award_points, create_manual_transaction, create_redemption,
           load_redemption, update_reward
  <2>. QED
    BY <2>1 DEF OrderInv, SessionOrder
<1>2. UNCHANGED <<locked_by, reward_locked_by, redemption_locked_by, redemption>>
  BY DEF RequestAll, Request, award_points, create_manual_transaction, Start, create_redemption,
         load_redemption, update_reward, rowVars
<1>3. ASSUME Only(s), SessionOrder(s)' PROVE OrderInv'
  <2>1. LockOrder'
    BY <1>1, <1>2, <1>3, WalletLocks
  <2>. QED
    BY <1>2, <1>3, <2>1, StepOfOne DEF OrderInv, Rows
<1>4. CASE Request(s) /\ UNCHANGED <<rowVars, objectVars>>
  <2>1. PICK u, k, n :
           /\ u \in Users
           /\ job' = [job EXCEPT ![s] = [op |-> "post", user |-> u, key |-> k, points |-> n]]
           /\ pc' = [pc EXCEPT ![s] = "post"]
    BY <1>4 DEF Request, award_points, create_manual_transaction, Start
  <2>2. Only(s)
    BY <1>4, <2>1 DEF Only, OrderInv, Rows, objectVars
  <2>3. job'[s].op = "post" /\ job'[s].user \in Users /\ pc'[s] = "post" /\ seen'[s] = None
    BY <1>1, <1>4, <2>1 DEF OrderInv, Rows, objectVars
  <2>4. SessionOrder(s)'
    BY <2>3 DEF SessionOrder, Posting
  <2>. QED
    BY <1>3, <2>2, <2>4
<1>5. ASSUME NEW u \in Users, NEW w \in Rewards, NEW q \in Quantities, NEW submit \in BOOLEAN,
             NEW r \in Redemptions, create_redemption(s, u, w, q, submit, r)
      PROVE  OrderInv'
  <2>1. PICK status, n : /\ pc' = [pc EXCEPT ![s] = Statements("create", status)[1]]
                         /\ job' = [job EXCEPT ![s] = [op |-> "create", user |-> u, key |-> r,
                                                       points |-> n]]
                         /\ seen' = [seen EXCEPT ![s] =
                              [status |-> status, user |-> u, reward |-> w, quantity |-> q,
                               cost_points_snapshot |-> n]]
    BY <1>5 DEF create_redemption, Begin
  <2>2. Statements("create", status)[1] \in Statement \ {"reward_row"}
    BY FirstStatement DEF Handlers
  <2>3. Only(s)
    BY <1>5, <2>1 DEF Only, OrderInv, Rows, create_redemption
  <2>4. /\ job'[s].op = "create" /\ job'[s].user = u /\ job'[s].key = r
        /\ pc'[s] \in Statement \ {"reward_row"}
        /\ seen'[s] = [status |-> status, user |-> u, reward |-> w, quantity |-> q,
                       cost_points_snapshot |-> n]
    BY <2>1, <2>2 DEF OrderInv, Rows
  <2>5. IsRedemption(seen'[s])
    BY <2>4 DEF IsRedemption
  <2>6. SessionOrder(s)'
    BY <2>4, <2>5 DEF SessionOrder, Handling, Handlers, Statement, IsRedemption
  <2>. QED
    BY <1>3, <2>3, <2>6
<1>6. ASSUME NEW op \in DOMAIN Target, NEW r \in Redemptions, load_redemption(s, op, r)
      PROVE  OrderInv'
  <2>1. op \in Handlers \ {"create"}
    BY DEF Target, Handlers
  <2>2. PICK n : /\ pc' = [pc EXCEPT ![s] = Statements(op, redemption[r].status)[1]]
                 /\ job' = [job EXCEPT ![s] = [op |-> op, user |-> redemption[r].user,
                                               key |-> r, points |-> n]]
                 /\ seen' = [seen EXCEPT ![s] = redemption[r]]
    BY <1>6 DEF load_redemption, Begin
  <2>3. IsRedemption(redemption[r])
    BY <1>6 DEF load_redemption, OrderInv
  <2>4. Only(s)
    BY <1>6, <2>2 DEF Only, OrderInv, Rows, load_redemption
  <2>5. /\ job'[s].op = op /\ job'[s].user = redemption[r].user /\ job'[s].key = r
        /\ pc'[s] \in Statement \ {"reward_row"} /\ (op = "approve" => pc'[s] = "reward")
        /\ seen'[s] = redemption[r]
    BY <2>1, <2>2, FirstStatement DEF OrderInv, Rows
  <2>6. SessionOrder(s)'
    BY <1>2, <2>1, <2>3, <2>5 DEF SessionOrder, Handling, Statement, IsRedemption
  <2>. QED
    BY <1>3, <2>4, <2>6
<1>7. ASSUME NEW w \in Rewards, NEW status, NEW cost, NEW total,
             update_reward(s, w, status, cost, total)
      PROVE  OrderInv'
  <2>1. PICK old, new :
          /\ offer' = [offer EXCEPT ![s] = [id |-> w, read |-> old, now |-> new]]
          /\ job' = [job EXCEPT ![s] = [op |-> "edit", user |-> None, key |-> None, points |-> 0]]
          /\ pc' = [pc EXCEPT ![s] = "reward_row"]
    BY <1>7 DEF update_reward, Begin, Statements
  <2>2. Only(s)
    BY <1>7, <2>1 DEF Only, OrderInv, Rows, update_reward
  <2>3. /\ job'[s].op = "edit" /\ pc'[s] = "reward_row" /\ seen'[s] = None
        /\ offer'[s] = [id |-> w, read |-> old, now |-> new]
    BY <1>1, <1>7, <2>1 DEF OrderInv, Rows, update_reward
  <2>4. IsOffer(offer'[s])
    BY <2>3 DEF IsOffer
  <2>5. SessionOrder(s)'
    BY <2>3, <2>4 DEF SessionOrder, Editing, IsOffer
  <2>. QED
    BY <1>3, <2>2, <2>5
<1>. QED
  BY <1>4, <1>5, <1>6, <1>7 DEF RequestAll

----------------------------------------------------------------------------
(* The statements of a handler.                                            *)

(* A handler goes on to its next statement; it may lock its wallet and     *)
(* read its reward.                                                        *)
LEMMA GoesOn ==
    ASSUME OrderInv, NEW s \in Sessions, Advance(s), job[s].op \in Handlers,
           pc[s] \in {"reward", "balance", "post", "pending", "redeemed"},
           UNCHANGED <<job, seen, redemption, reward_locked_by, redemption_locked_by>>,
           offer' = [offer EXCEPT ![s] = offer'[s]],
           IsOffer(offer[s]) \/ (pc[s] = "reward" /\ job[s].op = "approve") => IsOffer(offer'[s]),
           UNCHANGED locked_by \/ GetWalletLocked(s, job[s].user)
    PROVE  OrderInv'
<1>1. pc[s] # "commit" /\ pc[s] # "idle" /\ Handling(s)
  BY DEF OrderInv, SessionOrder, Posting, Editing, Handlers
<1>2. PICK n \in Statement \ {"reward"} :
         pc' = [pc EXCEPT ![s] = n] /\ (n = "reward_row" => job[s].op = "approve")
  BY <1>1, NextStatement
<1>3. pc'[s] = n
  BY <1>2 DEF OrderInv, Rows
<1>4. Only(s)
  BY <1>2, <1>3 DEF Only, OrderInv, Rows
<1>5. n # "idle"
  BY DEF Statement
<1>6. job[s].op = "approve" => IsOffer(offer'[s])
  BY <1>1 DEF Handling
<1>7. SessionOrder(s)'
  BY <1>1, <1>2, <1>3, <1>5, <1>6 DEF SessionOrder, Handling, IsRedemption, IsOffer
<1>8. /\ locked_by' = [u \in Users |-> locked_by'[u]]
      /\ \A u \in Users : locked_by'[u] = locked_by[u] \/ (locked_by'[u] = s /\ job'[s].user = u)
  BY DEF GetWalletLocked, OrderInv, Rows
<1>9. LockOrder'
  BY <1>3, <1>4, <1>5, <1>8, WalletLocks
<1>. QED
  BY <1>4, <1>7, <1>8, <1>9, StepOfOne DEF OrderInv, Rows

LEMMA HandlerStep ==
    ASSUME OrderInv, NEW s \in Sessions, Step(s)
    PROVE  OrderInv'
<1>1. CASE PostEntry(s) /\ UNCHANGED <<rowVars, objectVars>>
  <2>1. Posting(s)
    BY <1>1 DEF PostEntry, OrderInv, SessionOrder, Editing, Handling, Handlers
  <2>2. pc' = [pc EXCEPT ![s] = "commit"] /\ pc'[s] = "commit" /\ Only(s)
    BY <1>1 DEF PostEntry, OrderInv, Rows, Only, objectVars
  <2>3. SessionOrder(s)'
    BY <1>1, <2>1, <2>2 DEF PostEntry, SessionOrder, Posting, objectVars
  <2>4. /\ locked_by' = [u \in Users |-> locked_by'[u]]
        /\ \A u \in Users : locked_by'[u] = locked_by[u] \/ (locked_by'[u] = s /\ job'[s].user = u)
    BY <1>1 DEF PostEntry, apply_ledger_entry, GetWalletLocked, OrderInv, Rows
  <2>5. LockOrder'
    BY <1>1, <2>2, <2>4, WalletLocks DEF PostEntry, rowVars
  <2>. QED
    BY <1>1, <2>2, <2>3, <2>4, <2>5, StepOfOne DEF OrderInv, Rows, rowVars
<1>2. ASSUME pc[s] \in {"reward", "balance", "pending", "redeemed"} \/ Op(s) = "approve",
             pc[s] # "idle"
      PROVE  job[s].op \in Handlers
  BY <1>2 DEF OrderInv, SessionOrder, Posting, Editing, Handling, Op
<1>3. CASE submit_redemption(s)
  <2>1. CASE Refuse(s)
    BY <2>1, RefuseStep
  <2>2. CASE Advance(s) /\ UNCHANGED <<wallet, ledger, locked_by, job, copy, draft, rowVars, objectVars>>
    <3>1. pc[s] = "reward" /\ job[s].op = "submit" /\ job[s].op \in Handlers
      BY <1>2, <1>3 DEF submit_redemption, Op
    <3>2. offer' = [offer EXCEPT ![s] = offer'[s]] /\ offer'[s] = offer[s]
      BY <2>2 DEF objectVars, OrderInv, Rows
    <3>. QED
      BY <2>2, <3>1, <3>2, GoesOn DEF objectVars, rowVars
  <2>. QED
    BY <1>3, <2>1, <2>2 DEF submit_redemption
<1>4. CASE ApproveReadsReward(s)
  <2>1. CASE Refuse(s)
    BY <2>1, RefuseStep
  <2>2. CASE ~ Refuse(s)
    <3>1. pc[s] = "reward" /\ job[s].op \in Handlers
      BY <1>2, <1>4 DEF ApproveReadsReward
    <3>2. IsRedemption(seen[s])
      BY <3>1 DEF OrderInv, SessionOrder, Posting, Editing, Handling
    <3>3. PICK object : /\ object = [id |-> seen[s].reward, read |-> reward[seen[s].reward],
                                     now |-> reward[seen[s].reward]]
                        /\ offer' = [offer EXCEPT ![s] = object]
      BY <1>4, <2>2 DEF ApproveReadsReward
    <3>4. /\ Advance(s)
          /\ UNCHANGED <<wallet, ledger, locked_by, job, copy, draft, rowVars, seen>>
      BY <1>4, <2>2 DEF ApproveReadsReward
    <3>5. offer'[s] = object /\ IsOffer(object)
      BY <3>2, <3>3 DEF OrderInv, Rows, IsRedemption, IsOffer
    <3>. QED
      BY <3>1, <3>3, <3>4, <3>5, GoesOn DEF rowVars
  <2>. QED
    BY <2>1, <2>2
<1>5. CASE CheckBalance(s)
  <2>1. CASE Refuse(s)
    BY <2>1, RefuseStep
  <2>2. CASE ~ Refuse(s)
    <3>1. pc[s] = "balance" /\ job[s].op \in Handlers
      BY <1>2, <1>5 DEF CheckBalance
    <3>2. Advance(s) /\ UNCHANGED <<wallet, ledger, locked_by, job, draft, rowVars, objectVars>>
      BY <1>5, <2>2 DEF CheckBalance
    <3>3. offer' = [offer EXCEPT ![s] = offer'[s]] /\ offer'[s] = offer[s]
      BY <3>2 DEF objectVars, OrderInv, Rows
    <3>. QED
      BY <3>1, <3>2, <3>3, GoesOn DEF objectVars, rowVars
  <2>. QED
    BY <2>1, <2>2
<1>6. CASE ApprovePosts(s)
  <2>1. CASE Refuse(s)
    BY <2>1, RefuseStep
  <2>2. CASE ~ Refuse(s)
    <3>1. pc[s] = "post" /\ job[s].op \in Handlers /\ job[s].op = "approve"
      BY <1>2, <1>6 DEF ApprovePosts, Op
    <3>2. IsOffer(offer[s])
      BY <3>1 DEF OrderInv, SessionOrder, Posting, Editing, Handling
    <3>3. /\ GetWalletLocked(s, job[s].user) /\ Advance(s)
          /\ offer' = [offer EXCEPT ![s] = Deducted(offer[s], seen[s].quantity)]
          /\ UNCHANGED <<wallet, ledger, job, rowVars, seen>>
      BY <1>6, <2>2 DEF ApprovePosts, apply_ledger_entry
    <3>4. IsOffer(Deducted(offer[s], seen[s].quantity))
      BY <3>2 DEF IsOffer, Deducted
    <3>5. offer'[s] = Deducted(offer[s], seen[s].quantity)
      BY <3>3 DEF OrderInv, Rows
    <3>. QED
      BY <3>1, <3>3, <3>4, <3>5, GoesOn DEF rowVars
  <2>. QED
    BY <2>1, <2>2
<1>7. CASE adjust_pending(s) \/ mark_redeemed(s)
  <2>1. /\ pc[s] \in {"pending", "redeemed"} /\ job[s].op \in Handlers
        /\ GetWalletLocked(s, job[s].user) /\ Advance(s)
        /\ UNCHANGED <<wallet, ledger, job, draft, rowVars, objectVars>>
    BY <1>2, <1>7 DEF adjust_pending, mark_redeemed
  <2>2. offer' = [offer EXCEPT ![s] = offer'[s]] /\ offer'[s] = offer[s]
    BY <2>1 DEF objectVars, OrderInv, Rows
  <2>. QED
    BY <2>1, <2>2, GoesOn DEF objectVars, rowVars
<1>8. CASE FlushReward(s)
  <2>1. pc[s] = "reward_row" /\ Advance(s)
        /\ UNCHANGED <<locked_by, job, redemption, redemption_locked_by, offer, seen>>
    BY <1>8 DEF FlushReward, objectVars
  <2>2. job[s].op \in Handlers \cup {"edit"}
    BY <2>1 DEF OrderInv, SessionOrder, Posting, Editing, Handling
  <2>3. PICK n \in Statement \ {"reward"} :
           /\ pc' = [pc EXCEPT ![s] = n] /\ n \in {"redemption_row", "commit"}
           /\ job[s].op = "edit" => n = "commit"
    BY <2>1, <2>2, NextStatement
  <2>4. pc'[s] = n /\ Only(s)
    BY <2>1, <2>3 DEF OrderInv, Rows, Only
  <2>5. SessionOrder(s)'
    BY <2>1, <2>3, <2>4 DEF OrderInv, SessionOrder, Posting, Editing, Handling
  <2>6. /\ reward_locked_by' = [w \in Rewards |-> reward_locked_by'[w]]
        /\ \A w \in Rewards : reward_locked_by'[w] = reward_locked_by[w] \/ reward_locked_by'[w] = s
    BY <1>8 DEF FlushReward, OrderInv, Rows
  <2>7. \A t \in Sessions \ {s} : pc'[t] = pc[t] /\ job'[t] = job[t]
    BY <2>4 DEF OrderInv, Rows, Only
  <2>8. LockOrder'
    <3>1. \A u \in Users, t \in Sessions : locked_by'[u] = t => pc'[t] # "idle" /\ job'[t].user = u
      BY <2>1, <2>3, <2>4, <2>7 DEF OrderInv, LockOrder
    <3>2. \A w \in Rewards, t \in Sessions :
             reward_locked_by'[w] = t => pc'[t] \in {"redemption_row", "commit"}
      BY <2>3, <2>4, <2>6, <2>7 DEF OrderInv, LockOrder
    <3>3. \A r \in Redemptions, t \in Sessions : redemption_locked_by'[r] = t => pc'[t] = "commit"
      BY <2>1, <2>7 DEF OrderInv, LockOrder
    <3>. QED
      BY <3>1, <3>2, <3>3 DEF LockOrder
  <2>. QED
    BY <2>1, <2>4, <2>5, <2>6, <2>8, StepOfOne DEF OrderInv, Rows
<1>9. CASE FlushRedemption(s)
  <2>1. pc[s] = "redemption_row" /\ Advance(s)
        /\ UNCHANGED <<locked_by, job, redemption, reward_locked_by, offer, seen>>
    BY <1>9 DEF FlushRedemption, objectVars
  <2>2. Handling(s)
    BY <2>1 DEF OrderInv, SessionOrder, Posting, Editing
  <2>3. pc' = [pc EXCEPT ![s] = "commit"]
    BY <2>1, <2>2, NextStatement DEF Handling
  <2>4. pc'[s] = "commit" /\ Only(s)
    BY <2>1, <2>3 DEF OrderInv, Rows, Only
  <2>5. SessionOrder(s)'
    BY <2>1, <2>2, <2>4 DEF SessionOrder, Handling, Statement
  <2>6. /\ redemption_locked_by' = [r \in Redemptions |-> redemption_locked_by'[r]]
        /\ \A r \in Redemptions :
              redemption_locked_by'[r] = redemption_locked_by[r] \/ redemption_locked_by'[r] = s
    BY <1>9 DEF FlushRedemption, OrderInv, Rows
  <2>7. \A t \in Sessions \ {s} : pc'[t] = pc[t] /\ job'[t] = job[t]
    BY <2>4 DEF OrderInv, Rows, Only
  <2>8. LockOrder'
    <3>1. \A u \in Users, t \in Sessions : locked_by'[u] = t => pc'[t] # "idle" /\ job'[t].user = u
      BY <2>1, <2>4, <2>7 DEF OrderInv, LockOrder
    <3>2. \A w \in Rewards, t \in Sessions :
             reward_locked_by'[w] = t => pc'[t] \in {"redemption_row", "commit"}
      BY <2>1, <2>4, <2>7 DEF OrderInv, LockOrder
    <3>3. \A r \in Redemptions, t \in Sessions : redemption_locked_by'[r] = t => pc'[t] = "commit"
      BY <2>4, <2>6, <2>7 DEF OrderInv, LockOrder
    <3>. QED
      BY <3>1, <3>2, <3>3 DEF LockOrder
  <2>. QED
    BY <2>1, <2>4, <2>5, <2>6, <2>8, StepOfOne DEF OrderInv, Rows
<1>10. CASE CommitAll(s)
  <2>1. Only(s) /\ SessionOrder(s)' /\ LockOrder'
        /\ locked_by' = [u \in Users |-> locked_by'[u]]
        /\ reward_locked_by' = [w \in Rewards |-> reward_locked_by'[w]]
        /\ redemption_locked_by' = [r \in Redemptions |-> redemption_locked_by'[r]]
    BY <1>10, LocksReleased DEF CommitAll, CommitRows
  <2>2. CASE redemption' = redemption
    BY <2>1, <2>2, StepOfOne
  <2>3. CASE redemption' # redemption
    <3>1. seen[s] # None /\ pc[s] = "commit"
      BY <1>10, <2>3 DEF CommitAll
    <3>2. Handling(s)
      BY <3>1 DEF OrderInv, SessionOrder, Posting, Editing
    <3>3. PICK row : redemption' = [redemption EXCEPT ![job[s].key] = row] /\ IsRedemption(row)
      <4>1. PICK row : row = IF Op(s) = "create" THEN seen[s]
                             ELSE [redemption[job[s].key] EXCEPT !.status = Target[Op(s)]]
        OBVIOUS
      <4>2. redemption' = [redemption EXCEPT ![job[s].key] = row]
        BY <1>10, <3>1, <4>1 DEF CommitAll
      <4>3. CASE Op(s) = "create"
        BY <3>2, <4>1, <4>2, <4>3 DEF Handling
      <4>4. CASE Op(s) # "create"
        <5>1. IsRedemption(redemption[job[s].key])
          BY <3>2, <4>4 DEF Handling, Op
        <5>2. IsRedemption(row)
          BY <4>1, <4>4, <5>1 DEF IsRedemption
        <5>. QED
          BY <4>2, <5>2
      <4>. QED
        BY <4>3, <4>4
    <3>4. /\ redemption' = [r \in Redemptions |-> redemption'[r]]
          /\ \A r \in Redemptions : redemption'[r] = redemption[r] \/ IsRedemption(redemption'[r])
      BY <3>3 DEF OrderInv, Rows
    <3>5. Rows'
      BY <2>1, <3>4 DEF OrderInv, Rows, Only
    <3>6. \A r \in Redemptions : redemption'[r] = None \/ IsRedemption(redemption'[r])
      BY <3>4 DEF OrderInv
    <3>7. \A t \in Sessions \ {s} :
             pc'[t] = pc[t] /\ job'[t] = job[t] /\ offer'[t] = offer[t] /\ seen'[t] = seen[t]
      BY <2>1 DEF OrderInv, Rows, Only
    <3>8. \A t \in Sessions \ {s} : SessionOrder(t)'
      <4>. SUFFICES ASSUME NEW t \in Sessions \ {s} PROVE SessionOrder(t)'
        OBVIOUS
      <4>1. Handling(t) => Handling(t)'
        BY <3>4, <3>7 DEF Handling, IsRedemption, IsOffer
      <4>2. SessionOrder(t)
        BY DEF OrderInv
      <4>. QED
        BY <3>7, <4>1, <4>2 DEF SessionOrder, Posting, Editing, IsOffer
    <3>. QED
      BY <2>1, <3>5, <3>6, <3>8 DEF OrderInv, IsRedemption
  <2>. QED
    BY <2>2, <2>3
<1>. QED
  BY <1>1, <1>3, <1>4, <1>5, <1>6, <1>7, <1>8, <1>9, <1>10 DEF Step

----------------------------------------------------------------------------
(* The order of the locks is kept by every step of every session.          *)
THEOREM LocksInOrder == SpecAll => []OrderInv
<1>1. InitAll => OrderInv
  <2>. SUFFICES ASSUME InitAll PROVE OrderInv
    OBVIOUS
  <2>1. None \notin Sessions
    BY NoneAssumption
  <2>. QED
    BY <2>1 DEF InitAll, Init, OrderInv, Rows, SessionOrder, LockOrder
<1>2. OrderInv /\ [NextAll]_allVars => OrderInv'
  <2>. SUFFICES ASSUME OrderInv, [NextAll]_allVars PROVE OrderInv'
    OBVIOUS
  <2>1. ASSUME UNCHANGED <<pc, job, offer, seen, locked_by, redemption, reward_locked_by,
                           redemption_locked_by>>
        PROVE  OrderInv'
    BY <2>1 DEF OrderInv, Rows, SessionOrder, Posting, Editing, Handling, LockOrder,
                IsRedemption, IsOffer
  <2>2. ASSUME NEW w \in Rewards, NEW status, NEW cost, NEW total,
               create_reward(w, status, cost, total)
        PROVE  OrderInv'
    BY <2>1, <2>2 DEF create_reward, vars, objectVars
  <2>3. ASSUME NEW s \in Sessions, RequestAll(s) \/ Step(s) \/ RollbackAll(s)
        PROVE  OrderInv'
    BY <2>3, RequestStep, HandlerStep, RefuseStep DEF RollbackAll
  <2>4. CASE UNCHANGED allVars
    BY <2>1, <2>4 DEF allVars, vars, rowVars, objectVars
  <2>. QED
    BY <2>2, <2>3, <2>4 DEF NextAll
<1>. QED
  BY <1>1, <1>2, PTL DEF SpecAll

(* redemption_service.py, reward_service.py: no deadlock among any number  *)
(* of sessions.  Of sessions that wait in a circle, the one that is        *)
(* farthest in the order of the locks waits for none of the others.        *)
THEOREM NoDeadlock == SpecAll => []NoWaitCycle
<1>1. OrderInv => NoWaitCycle
  <2>. SUFFICES ASSUME OrderInv, NEW waiting \in SUBSET Sessions, waiting # {}
                PROVE  \E s \in waiting : \A t \in waiting : ~WaitsFor(s, t)
    BY DEF NoWaitCycle
  <2>0. \A s \in waiting : SessionOrder(s)
    BY DEF OrderInv
  (* Who is about to commit waits for nobody. *)
  <2>1. ASSUME NEW s \in waiting, pc[s] = "commit" PROVE \A t \in waiting : ~WaitsFor(s, t)
    BY <2>1 DEF WaitsFor
  <2>2. ASSUME NEW s \in waiting, pc[s] = "redemption_row", NEW t \in waiting, WaitsFor(s, t)
        PROVE  pc[t] = "commit"
    <3>1. job[s].key \in Redemptions
      BY <2>0, <2>2 DEF SessionOrder, Posting, Editing, Handling
    <3>. QED
      BY <2>2, <3>1 DEF WaitsFor, OrderInv, LockOrder
  <2>3. ASSUME NEW s \in waiting, pc[s] = "reward_row", NEW t \in waiting, WaitsFor(s, t)
        PROVE  pc[t] \in {"redemption_row", "commit"}
    <3>1. offer[s].id \in Rewards
      BY <2>0, <2>3 DEF SessionOrder, Posting, Editing, Handling, IsOffer
    <3>. QED
      BY <2>3, <3>1 DEF WaitsFor, OrderInv, LockOrder
  (* Who waits for a wallet waits for one that does not. *)
  <2>4. ASSUME NEW s \in waiting, pc[s] \in {"post", "pending", "redeemed"},
               NEW t \in waiting, WaitsFor(s, t),
               NEW r \in waiting, WaitsFor(t, r)
        PROVE  pc[t] \in {"reward_row", "redemption_row"}
    <3>1. job[s].user \in Users
      BY <2>0, <2>4 DEF SessionOrder, Posting, Editing, Handling
    <3>2. locked_by[job[s].user] = t /\ job[t].user = job[s].user
      BY <2>4, <3>1 DEF WaitsFor, OrderInv, LockOrder
    <3>. QED
      BY <2>4, <3>2 DEF WaitsFor
  <2>5. CASE \E s \in waiting : pc[s] = "redemption_row"
    BY <2>1, <2>2, <2>5
  <2>6. CASE /\ ~ \E s \in waiting : pc[s] = "redemption_row"
             /\ \E s \in waiting : pc[s] = "reward_row"
    BY <2>1, <2>3, <2>6
  <2>7. CASE ~ \E s \in waiting : pc[s] \in {"redemption_row", "reward_row"}
    <3>1. PICK s \in waiting : TRUE
      OBVIOUS
    <3>2. CASE pc[s] \in {"post", "pending", "redeemed"}
      BY <2>4, <2>7, <3>2
    <3>3. CASE pc[s] \notin {"post", "pending", "redeemed"}
      BY <2>7, <3>3 DEF WaitsFor
    <3>. QED
      BY <3>2, <3>3
  <2>. QED
    BY <2>5, <2>6, <2>7
<1>. QED
  BY <1>1, LocksInOrder, PTL

=============================================================================
