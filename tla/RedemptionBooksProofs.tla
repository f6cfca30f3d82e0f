------------------------ MODULE RedemptionBooksProofs ------------------------
(***************************************************************************)
(* The books of concurrent sessions that handle redemptions, rewards and   *)
(* points, for any number of them, of users, rewards and requests: what    *)
(* stays true of balances, ledgers, charges, deliveries and stocks however *)
(* the sessions interleave, although some of them work on old copies.      *)
(*                                                                         *)
(* The argument has three parts.  Sums over requests and ledgers can be    *)
(* taken apart element by element (Sums).  A session that is between two   *)
(* statements of its handler knows enough about its own objects, and       *)
(* relies on no more of the committed rows than what other sessions leave  *)
(* alone (SessionBooks).  So a COMMIT moves the books from one consistent  *)
(* state to the next (Books).                                              *)
(***************************************************************************)
EXTENDS RedemptionProofs, WalletServiceProofs, FiniteSetTheorems

----------------------------------------------------------------------------
(* Sums over finite sets                                                   *)

(* The order in which a fold takes the elements of a set.                  *)
Chosen(s) == CHOOSE x \in s : TRUE

(* The recursive function a sum over S is an application of.               *)
IsSum(g, f, S) ==
    g = [s \in SUBSET S |-> IF s = {} THEN 0 ELSE f[Chosen(s)] + g[s \ {Chosen(s)}]]

LEMMA SumDef ==
    ASSUME NEW f, NEW S
    PROVE  SumFunctionOnSet(f, S) = (CHOOSE g : IsSum(g, f, S))[S]
BY DEF SumFunctionOnSet, FoldFunctionOnSet, MapThenFoldSet, IsSum, Chosen

(* Induction over the subsets of a finite set: of those that are bad, one  *)
(* has no bad subset but itself.                                           *)
LEMMA SmallestSet ==
    ASSUME NEW S, IsFiniteSet(S), NEW Bad \in SUBSET SUBSET S, Bad # {}
    PROVE  \E s \in Bad : \A t \in SUBSET s : t # s => t \notin Bad
<1>1. FiniteSubsetsOf(S) = SUBSET S
  BY FS_FiniteSubsetsOfFinite
<1>2. PICK s \in Bad : \A t \in Bad : <<t, s>> \notin StrictSubsetOrdering(S)
  BY <1>1, FS_StrictSubsetOrderingWellFounded, WFMin
<1>3. ASSUME NEW t \in SUBSET s, t # s, t \in Bad PROVE FALSE
  BY <1>2, <1>3 DEF StrictSubsetOrdering
<1>. QED
  BY <1>3

LEMMA ChosenIn == ASSUME NEW s, s # {} PROVE Chosen(s) \in s
BY DEF Chosen

(* Two such functions agree where both are defined, for values that agree. *)
LEMMA SumsAgree ==
    ASSUME NEW S, IsFiniteSet(S), NEW T, S \subseteq T, NEW f, NEW e,
           \A x \in S : f[x] = e[x],
           NEW g, IsSum(g, f, S), NEW h, IsSum(h, e, T)
    PROVE  \A s \in SUBSET S : g[s] = h[s]
<1>. DEFINE Bad == {s \in SUBSET S : g[s] # h[s]}
<1>. SUFFICES ASSUME Bad # {} PROVE FALSE
  OBVIOUS
<1>1. PICK s \in Bad : \A t \in SUBSET s : t # s => t \notin Bad
  <2>. HIDE DEF Bad
  <2>1. Bad \in SUBSET SUBSET S
    BY DEF Bad
  <2>. QED
    BY <2>1, SmallestSet
<1>2. /\ g[s] = IF s = {} THEN 0 ELSE f[Chosen(s)] + g[s \ {Chosen(s)}]
      /\ h[s] = IF s = {} THEN 0 ELSE e[Chosen(s)] + h[s \ {Chosen(s)}]
  BY DEF IsSum
<1>3. CASE s = {}
  BY <1>2, <1>3
<1>4. CASE s # {}
  <2>1. Chosen(s) \in s
    BY <1>4, ChosenIn
  <2>2. g[s \ {Chosen(s)}] = h[s \ {Chosen(s)}]
    <3>. DEFINE t == s \ {Chosen(s)}
    <3>1. t \in SUBSET s /\ t # s /\ t \in SUBSET S
      BY <2>1
    <3>2. t \notin Bad
      BY <1>1, <3>1
    <3>. QED
      BY <3>1, <3>2
  <2>. QED
    BY <1>2, <1>4, <2>1, <2>2
<1>. QED
  BY <1>3, <1>4

(* There is such a function for every finite set.                          *)
LEMMA SumExists ==
    ASSUME NEW S, IsFiniteSet(S), NEW f
    PROVE  \E g : IsSum(g, f, S)
<1>. DEFINE Bad == {s \in SUBSET S : ~ \E g : IsSum(g, f, s)}
<1>. SUFFICES ASSUME Bad # {} PROVE FALSE
  OBVIOUS
<1>1. PICK s \in Bad : \A t \in SUBSET s : t # s => t \notin Bad
  <2>1. Bad \in SUBSET SUBSET S
    OBVIOUS
  <2>. HIDE DEF Bad
  <2>. QED
    BY <2>1, SmallestSet
<1>. DEFINE SumOf(t) == CHOOSE g : IsSum(g, f, t)
            Value(t) == IF t = {} THEN 0
                        ELSE f[Chosen(t)] + SumOf(t \ {Chosen(t)})[t \ {Chosen(t)}]
            h == [t \in SUBSET s |-> Value(t)]
<1>2. \A t \in SUBSET s : t # s => IsSum(SumOf(t), f, t)
  BY <1>1
<1>. HIDE DEF SumOf
<1>3. ASSUME NEW t \in SUBSET s, t # s PROVE SumOf(t)[t] = Value(t)
  <2>0. IsSum(SumOf(t), f, t)
    BY <1>2, <1>3
  <2>1. SumOf(t)[t] = IF t = {} THEN 0 ELSE f[Chosen(t)] + SumOf(t)[t \ {Chosen(t)}]
    BY <2>0 DEF IsSum
  <2>2. CASE t # {}
    <3>. DEFINE r == t \ {Chosen(t)}
    <3>1. Chosen(t) \in t
      BY <2>2, ChosenIn
    <3>2. r \in SUBSET s /\ r # s /\ r \subseteq t
      BY <3>1
    <3>3. IsFiniteSet(r)
      BY <3>2, FS_Subset
    <3>4. IsSum(SumOf(r), f, r)
      BY <1>2, <3>2
    <3>5. SumOf(r)[r] = SumOf(t)[r]
      <4>. HIDE DEF r
      <4>. QED
        BY <2>0, <3>2, <3>3, <3>4, SumsAgree
    <3>. QED
      BY <2>1, <2>2, <3>5
  <2>. QED
    BY <2>1, <2>2
<1>4. IsSum(h, f, s)
  <2>1. ASSUME NEW t \in SUBSET s
        PROVE  h[t] = IF t = {} THEN 0 ELSE f[Chosen(t)] + h[t \ {Chosen(t)}]
    <3>1. CASE t # {}
      <4>. DEFINE r == t \ {Chosen(t)}
      <4>1. Chosen(t) \in t
        BY <3>1, ChosenIn
      <4>2. r \in SUBSET s /\ r # s
        BY <4>1
      <4>3. SumOf(r)[r] = Value(r)
        <5>. HIDE DEF r, Value
        <5>. QED
          BY <1>3, <4>2
      <4>4. h[r] = Value(r) /\ h[t] = Value(t)
        <5>. HIDE DEF r, Value
        <5>. QED
          BY <4>2
      <4>. HIDE DEF h, Value
      <4>5. Value(t) = f[Chosen(t)] + SumOf(r)[r]
        BY <3>1 DEF Value
      <4>. QED
        BY <3>1, <4>3, <4>4, <4>5
    <3>2. CASE t = {}
      BY <3>2
    <3>. QED
      BY <3>1, <3>2
  <2>2. h = [t \in SUBSET s |-> h[t]]
    OBVIOUS
  <2>. HIDE DEF h
  <2>. QED
    BY <2>1, <2>2 DEF IsSum
<1>. QED
  BY <1>1, <1>4

LEMMA SumIs ==
    ASSUME NEW S, IsFiniteSet(S), NEW f, NEW T, S \subseteq T, NEW g, IsSum(g, f, T)
    PROVE  SumFunctionOnSet(f, S) = g[S]
<1>. DEFINE h == CHOOSE h : IsSum(h, f, S)
<1>1. IsSum(h, f, S)
  BY SumExists
<1>2. SumFunctionOnSet(f, S) = h[S]
  BY SumDef
<1>. HIDE DEF h
<1>3. h[S] = g[S]
  BY <1>1, SumsAgree
<1>. QED
  BY <1>2, <1>3

(* The equation of the sum, in the order of Chosen.                        *)
LEMMA SumStep ==
    ASSUME NEW S, IsFiniteSet(S), NEW f
    PROVE  SumFunctionOnSet(f, S)
             = IF S = {} THEN 0 ELSE f[Chosen(S)] + SumFunctionOnSet(f, S \ {Chosen(S)})
<1>1. PICK g : IsSum(g, f, S)
  BY SumExists
<1>2. SumFunctionOnSet(f, S) = g[S]
  BY <1>1, SumIs
<1>3. SumFunctionOnSet(f, S \ {Chosen(S)}) = g[S \ {Chosen(S)}]
  BY <1>1, SumIs, FS_RemoveElement
<1>. QED
  BY <1>1, <1>2, <1>3 DEF IsSum

(* A sum of integers is one, and a sum of naturals is not negative.        *)
LEMMA SumType ==
    ASSUME NEW S, IsFiniteSet(S), NEW N \in {Nat, Int}, NEW f, \A x \in S : f[x] \in N
    PROVE  SumFunctionOnSet(f, S) \in N
<1>. DEFINE Bad == {s \in SUBSET S : SumFunctionOnSet(f, s) \notin N}
<1>. SUFFICES ASSUME Bad # {} PROVE FALSE
  OBVIOUS
<1>1. PICK s \in Bad : \A t \in SUBSET s : t # s => t \notin Bad
  <2>1. Bad \in SUBSET SUBSET S
    OBVIOUS
  <2>. HIDE DEF Bad
  <2>. QED
    BY <2>1, SmallestSet
<1>2. IsFiniteSet(s)
  BY FS_Subset
<1>3. SumFunctionOnSet(f, s)
        = IF s = {} THEN 0 ELSE f[Chosen(s)] + SumFunctionOnSet(f, s \ {Chosen(s)})
  BY <1>2, SumStep
<1>4. CASE s # {}
  <2>1. Chosen(s) \in s
    BY <1>4, ChosenIn
  <2>2. SumFunctionOnSet(f, s \ {Chosen(s)}) \in N
    BY <1>1, <2>1
  <2>. QED
    BY <1>3, <1>4, <2>1, <2>2
<1>. QED
  BY <1>3, <1>4

(* Any element of a set may be taken out of a sum first.                   *)
LEMMA SumRemove ==
    ASSUME NEW S, IsFiniteSet(S), NEW f, \A x \in S : f[x] \in Int, NEW a \in S
    PROVE  SumFunctionOnSet(f, S) = f[a] + SumFunctionOnSet(f, S \ {a})
<1>. DEFINE Total(s) == SumFunctionOnSet(f, s)
            Bad == {s \in SUBSET S : \E x \in s : Total(s) # f[x] + Total(s \ {x})}
<1>. SUFFICES ASSUME Bad # {} PROVE FALSE
  OBVIOUS
<1>1. PICK s \in Bad : \A t \in SUBSET s : t # s => t \notin Bad
  <2>1. Bad \in SUBSET SUBSET S
    OBVIOUS
  <2>. HIDE DEF Bad
  <2>. QED
    BY <2>1, SmallestSet
<1>2. PICK x \in s : Total(s) # f[x] + Total(s \ {x})
  OBVIOUS
<1>3. \A t \in SUBSET s : t # s => \A y \in t : Total(t) = f[y] + Total(t \ {y})
  <2>. HIDE DEF Total
  <2>. QED
    BY <1>1
<1>. DEFINE c == Chosen(s)
<1>4. c \in s /\ IsFiniteSet(s) /\ s \in SUBSET S
  BY ChosenIn, FS_Subset
<1>5. Total(s) = f[c] + Total(s \ {c})
  BY <1>4, SumStep
<1>6. \A t \in SUBSET s : Total(t) \in Int
  <2>. SUFFICES ASSUME NEW t \in SUBSET s PROVE Total(t) \in Int
    OBVIOUS
  <2>1. IsFiniteSet(t) /\ \A y \in t : f[y] \in Int
    BY <1>4, FS_Subset
  <2>. QED
    BY <2>1, SumType
<1>. HIDE DEF Total, c, Bad
<1>7. c # x
  BY <1>2, <1>5
<1>8. Total(s \ {c}) = f[x] + Total((s \ {c}) \ {x})
  BY <1>3, <1>4, <1>7
<1>9. Total(s \ {x}) = f[c] + Total((s \ {x}) \ {c})
  BY <1>3, <1>4, <1>7
<1>10. (s \ {c}) \ {x} = (s \ {x}) \ {c}
  OBVIOUS
<1>11. Total((s \ {x}) \ {c}) \in Int /\ f[x] \in Int /\ f[c] \in Int
  BY <1>4, <1>6
<1>12. Total(s) = f[c] + (f[x] + Total((s \ {x}) \ {c}))
  BY <1>5, <1>8, <1>10
<1>. QED
  BY <1>2, <1>9, <1>11, <1>12

(* A sum looks at the values on its set only.                              *)
LEMMA SumCongruence ==
    ASSUME NEW S, IsFiniteSet(S), NEW f, NEW e, \A x \in S : f[x] = e[x]
    PROVE  SumFunctionOnSet(f, S) = SumFunctionOnSet(e, S)
<1>1. PICK g : IsSum(g, f, S)
  BY SumExists
<1>2. PICK h : IsSum(h, e, S)
  BY SumExists
<1>3. SumFunctionOnSet(f, S) = g[S] /\ SumFunctionOnSet(e, S) = h[S]
  BY <1>1, <1>2, SumIs
<1>4. g[S] = h[S]
  BY <1>1, <1>2, SumsAgree
<1>. QED
  BY <1>3, <1>4

LEMMA SumOfNaturals ==
    ASSUME NEW S, IsFiniteSet(S), NEW f, \A x \in S : f[x] \in Nat
    PROVE  SumFunctionOnSet(f, S) \in Nat
BY SumType

LEMMA SumOfIntegers ==
    ASSUME NEW S, IsFiniteSet(S), NEW f, \A x \in S : f[x] \in Int
    PROVE  SumFunctionOnSet(f, S) \in Int
BY SumType

----------------------------------------------------------------------------
(* The plans of the handlers, statement by statement                       *)

Plan(op, status) == {Statements(op, status)[i] : i \in DOMAIN Statements(op, status)}

(* What a handler does after the statement here.                           *)
NextOf(op, status, here) ==
    CASE here = "reward"         -> IF op = "submit" THEN "pending" ELSE "balance"
      [] here = "balance"        -> IF op = "approve" THEN "post"
                                    ELSE IF status = "draft" THEN "commit" ELSE "pending"
      [] here = "post"           -> "pending"
      [] here = "pending"        -> IF op = "create" THEN "commit"
                                    ELSE IF op = "approve" THEN "reward_row"
                                    ELSE "redemption_row"
      [] here = "redeemed"       -> "redemption_row"
      [] here = "reward_row"     -> IF op = "edit" THEN "commit" ELSE "redemption_row"
      [] here = "redemption_row" -> "commit"

LEMMA PlanStatements ==
    ASSUME NEW op, NEW status
    PROVE  /\ op = "create" => Plan(op, status) = IF status = "draft" THEN {"balance", "commit"}
                                                  ELSE {"balance", "pending", "commit"}
           /\ op = "submit" => Plan(op, status) = {"reward", "pending", "redemption_row", "commit"}
           /\ op = "review" => Plan(op, status) = {"redemption_row", "commit"}
           /\ op = "approve" => Plan(op, status) = {"reward", "balance", "post", "pending",
                                                    "reward_row", "redemption_row", "commit"}
           /\ op = "deliver" => Plan(op, status) = {"redeemed", "redemption_row", "commit"}
           /\ op \in {"cancel", "reject"} =>
                Plan(op, status) = IF status \in Pending THEN {"pending", "redemption_row", "commit"}
                                   ELSE {"redemption_row", "commit"}
           /\ op = "edit" => Plan(op, status) = {"reward_row", "commit"}
<1>. DEFINE Values(p) == {p[i] : i \in DOMAIN p}
<1>1. Values(<<"balance", "commit">>) = {"balance", "commit"}
  OBVIOUS
<1>2. Values(<<"balance", "pending", "commit">>) = {"balance", "pending", "commit"}
  OBVIOUS
<1>3. Values(<<"reward", "pending", "redemption_row", "commit">>)
        = {"reward", "pending", "redemption_row", "commit"}
  OBVIOUS
<1>4. Values(<<"redemption_row", "commit">>) = {"redemption_row", "commit"}
  OBVIOUS
<1>5. Values(<<"reward", "balance", "post", "pending", "reward_row", "redemption_row", "commit">>)
        = {"reward", "balance", "post", "pending", "reward_row", "redemption_row", "commit"}
  OBVIOUS
<1>6. Values(<<"redeemed", "redemption_row", "commit">>) = {"redeemed", "redemption_row", "commit"}
  OBVIOUS
<1>7. Values(<<"reward_row", "commit">>) = {"reward_row", "commit"}
  OBVIOUS
<1>8. Values(<<"pending", "redemption_row", "commit">>) = {"pending", "redemption_row", "commit"}
  OBVIOUS
<1>9. Plan(op, status) = Values(Statements(op, status))
  BY DEF Plan
<1>. HIDE DEF Values
<1>. QED
  BY <1>1, <1>2, <1>3, <1>4, <1>5, <1>6, <1>7, <1>8, <1>9 DEF Statements, Withdrawal

LEMMA PlanNext ==
    ASSUME NEW op \in Handlers \cup {"edit"}, NEW status,
           NEW i \in DOMAIN Statements(op, status), Statements(op, status)[i] # "commit"
    PROVE  /\ Statements(op, status)[i + 1] = NextOf(op, status, Statements(op, status)[i])
           /\ Statements(op, status)[i + 1] \in Plan(op, status)
<1>. DEFINE Good(p) == \A k \in DOMAIN p : p[k] # "commit" =>
                p[k + 1] = NextOf(op, status, p[k]) /\ k + 1 \in DOMAIN p
<1>1. op = "create" /\ status = "draft" => Good(<<"balance", "commit">>)
  BY DEF NextOf
<1>2. op = "create" /\ status # "draft" => Good(<<"balance", "pending", "commit">>)
  BY DEF NextOf
<1>3. op = "submit" => Good(<<"reward", "pending", "redemption_row", "commit">>)
  BY DEF NextOf
<1>4. Good(<<"redemption_row", "commit">>)
  BY DEF NextOf
<1>5. op = "approve" =>
      Good(<<"reward", "balance", "post", "pending", "reward_row", "redemption_row", "commit">>)
  BY DEF NextOf
<1>6. op = "deliver" => Good(<<"redeemed", "redemption_row", "commit">>)
  BY DEF NextOf
<1>7. op = "edit" => Good(<<"reward_row", "commit">>)
  BY DEF NextOf
<1>8. op \in {"cancel", "reject"} => Good(<<"pending", "redemption_row", "commit">>)
  BY DEF NextOf
<1>9. Good(Statements(op, status))
  <2>. HIDE DEF Good
  <2>. QED
    BY <1>1, <1>2, <1>3, <1>4, <1>5, <1>6, <1>7, <1>8 DEF Handlers, Statements, Withdrawal
<1>. QED
  BY <1>9 DEF Plan

LEMMA FirstOfPlan ==
    ASSUME NEW op \in Handlers, NEW status
    PROVE  /\ Statements(op, status)[1] \in Plan(op, status)
           /\ Statements(op, status)[1] # "commit"
           /\ op = "create" => Statements(op, status)[1] = "balance"
           /\ op \in {"submit", "approve"} => Statements(op, status)[1] = "reward"
           /\ op = "deliver" => Statements(op, status)[1] = "redeemed"
           /\ op \in {"cancel", "reject"} =>
                Statements(op, status)[1] = IF status \in Pending THEN "pending" ELSE "redemption_row"
BY PlanStatements DEF Handlers, Statements, Withdrawal

(* A handler that goes on takes the next statement of its plan.            *)
LEMMA AdvancePlan ==
    ASSUME NEW s \in Sessions, job[s].op \in Handlers, seen[s] # None, pc[s] # "commit", Advance(s)
    PROVE  /\ pc' = [pc EXCEPT ![s] = NextOf(job[s].op, seen[s].status, pc[s])]
           /\ NextOf(job[s].op, seen[s].status, pc[s]) \in Plan(job[s].op, seen[s].status)
<1>. DEFINE plan == Statements(job[s].op, seen[s].status)
<1>1. PICK i \in DOMAIN plan : plan[i] = pc[s] /\ pc' = [pc EXCEPT ![s] = plan[i + 1]]
  BY DEF Advance, Op
<1>2. /\ plan[i + 1] = NextOf(job[s].op, seen[s].status, plan[i])
      /\ plan[i + 1] \in Plan(job[s].op, seen[s].status)
  BY <1>1, PlanNext
<1>. QED
  BY <1>1, <1>2

----------------------------------------------------------------------------
(* The invariant                                                           *)

(* The points a request may cost.                                          *)
Prices == {n \in Nat : \E c \in Costs, q \in Quantities : n = c * q}

Same(object, c) == object.now[c] = object.read[c]

(* An entry that pays for a request.                                       *)
IsPayment(u, e) ==
    /\ redemption[e.key] # None /\ redemption[e.key].user = u
    /\ e.points = -Cost(e.key)
    /\ e.balance_after >= 0

Books ==
    /\ \A u \in Users : PL!OncePerKey(ledger[u])
    /\ BalanceIsLastEntry
    /\ EarnedMatchesLedger
    /\ IsFiniteSet(Existing)
    /\ RedeemedCoversDelivered
    /\ \A r \in Existing : reward[redemption[r].reward] # None /\ Cost(r) \in Prices
    /\ \A u \in Users : \A i \in DOMAIN ledger[u] :
          ledger[u][i].key \in Redemptions => IsPayment(u, ledger[u][i])
    /\ \A r \in InStatus({"approved", "delivered"}) : r \in KeysOf(redemption[r].user)

(* An award or a manual transaction holds what it will write.              *)
PostingBooks(s) ==
    LET u == job[s].user  object == copy[s]  e == draft[s]
    IN  /\ job[s].op = "post" /\ u \in Users /\ job[s].key \in Keys \ Redemptions
        /\ job[s].points # 0
        /\ seen[s] = None /\ offer[s] = None
        /\ \/ pc[s] = "post" /\ object = None /\ e = None
           \/ /\ pc[s] = "commit" /\ locked_by[u] = s
              /\ object # None /\ object.read = RowOf(u)
              /\ IF e = None THEN object.now = object.read
                 ELSE /\ e.key = job[s].key /\ e.key \notin KeysOf(u)
                      /\ e.points = job[s].points
                      /\ e.balance_before = object.read["current_balance"]
                      /\ e.balance_after = e.balance_before + e.points
                      /\ object.now = Posted(object.read, e.points)

EditingBooks(s) ==
    /\ job[s].op = "edit" /\ pc[s] \in {"reward_row", "commit"}
    /\ copy[s] = None /\ draft[s] = None /\ seen[s] = None
    /\ offer[s] # None /\ reward[offer[s].id] # None

Paid == {"pending", "reward_row", "redemption_row", "commit"}

ApproveBooks(s) ==
    LET u == job[s].user  object == copy[s]  e == draft[s]
    IN  /\ pc[s] = "reward" => offer[s] = None
        /\ pc[s] # "reward" => offer[s] # None /\ offer[s].id = seen[s].reward
        /\ pc[s] \in {"balance", "post"} => 
              offer[s].now = offer[s].read /\ InStock(offer[s].now, seen[s].quantity)
        /\ pc[s] \in {"reward", "balance"} => object = None
        /\ pc[s] = "post" => object # None /\ object.now["current_balance"] >= job[s].points
        /\ pc[s] \notin Paid => e = None
        /\ pc[s] \in Paid =>
              /\ object # None /\ e # None /\ locked_by[u] = s
              /\ e.key = job[s].key /\ e.key \notin KeysOf(u)
              /\ e.points = -job[s].points
              /\ e.balance_before = object.read["current_balance"]
              /\ e.balance_after = e.balance_before + e.points
              /\ e.balance_after = object.now["current_balance"] /\ e.balance_after >= 0

DeliverBooks(s) ==
    LET u == job[s].user  object == copy[s]
    IN  /\ job[s].key \in KeysOf(u)
        /\ pc[s] = "redeemed" => object = None
        /\ pc[s] # "redeemed" =>
              /\ object # None /\ locked_by[u] = s /\ object.read = RowOf(u)
              /\ object.now["redeemed_points"] = object.read["redeemed_points"] + job[s].points

(* What the columns of the wallet object may differ in from what was read. *)
CopyBooks(s) ==
    copy[s] # None =>
        /\ draft[s] = None => Same(copy[s], "current_balance")
        /\ Same(copy[s], "total_earned")
        /\ job[s].op # "deliver" => Same(copy[s], "redeemed_points")
        /\ locked_by[job[s].user] = s \/ copy[s].now = copy[s].read

HandlingBooks(s) ==
    LET op == job[s].op  r == job[s].key
    IN  /\ op \in Handlers /\ r \in Redemptions /\ seen[s] # None
        /\ pc[s] \in Plan(op, seen[s].status)
        /\ job[s].user = seen[s].user
        /\ job[s].points = seen[s].cost_points_snapshot /\ job[s].points \in Prices
        /\ reward[seen[s].reward] # None
        /\ op = "create" => redemption[r] = None /\ seen[s].status \in {"draft", "submitted"}
        /\ op # "create" => /\ redemption[r] # None /\ redemption[r].user = job[s].user
                            /\ Cost(r) = job[s].points
        /\ op # "approve" => draft[s] = None /\ offer[s] = None
        /\ CopyBooks(s)
        /\ op = "approve" => ApproveBooks(s)
        /\ op = "deliver" => DeliverBooks(s)

SessionBooks(s) ==
    \/ /\ pc[s] = "idle" /\ job[s] = None /\ copy[s] = None /\ draft[s] = None
       /\ offer[s] = None /\ seen[s] = None
    \/ /\ pc[s] # "idle" /\ job[s] \in JobAll
       /\ PostingBooks(s) \/ EditingBooks(s) \/ HandlingBooks(s)

(* A request that is being created is known to one session.                *)
CreatedByOne ==
    \A s, t \in Sessions :
        pc[s] # "idle" /\ pc[t] # "idle" /\ job[s].op = "create" /\ job[t].op = "create"
        /\ job[s].key = job[t].key => s = t

BooksInv ==
    /\ TypeOKAll
    /\ Books
    /\ \A s \in Sessions : SessionBooks(s)
    /\ CreatedByOne


----------------------------------------------------------------------------
(* What the other sessions leave alone                                     *)

SessionTypes(s) ==
    /\ pc[s] \in PhasesAll /\ job[s] \in JobAll \cup {None}
    /\ copy[s] \in Object \cup {None} /\ draft[s] \in Entry \cup {None}
    /\ offer[s] \in RewardObject \cup {None} /\ seen[s] \in RedemptionRow \cup {None}

(* What session t relies on stays as it is.                                *)
Undisturbed(t) ==
    /\ pc'[t] = pc[t] /\ job'[t] = job[t] /\ copy'[t] = copy[t] /\ draft'[t] = draft[t]
    /\ offer'[t] = offer[t] /\ seen'[t] = seen[t]
    /\ \A u \in Users : locked_by[u] = t =>
          locked_by'[u] = t /\ RowOf(u)' = RowOf(u) /\ KeysOf(u)' = KeysOf(u)
    /\ \A u \in Users : KeysOf(u) \subseteq KeysOf(u)'
    /\ \A w \in Rewards : reward[w] # None => reward'[w] # None
    /\ \A r \in Existing : /\ redemption'[r] # None /\ redemption'[r].user = redemption[r].user
                            /\ Cost(r)' = Cost(r)
    /\ pc[t] # "idle" /\ job[t].op = "create" =>
         redemption'[job[t].key] = redemption[job[t].key]

LEMMA SessionStays ==
    ASSUME NEW t \in Sessions, SessionTypes(t), SessionBooks(t), Undisturbed(t)
    PROVE  SessionBooks(t)'
<1>1. CASE pc[t] = "idle"
  BY <1>1 DEF SessionBooks, Undisturbed
<1>2. CASE pc[t] # "idle" /\ PostingBooks(t)
  <2>1. PostingBooks(t)'
    BY <1>2 DEF PostingBooks, Undisturbed
  <2>. QED
    BY <1>2, <2>1 DEF SessionBooks, Undisturbed
<1>3. CASE pc[t] # "idle" /\ EditingBooks(t)
  <2>1. offer[t].id \in Rewards
    BY <1>3 DEF EditingBooks, SessionTypes, RewardObject
  <2>2. EditingBooks(t)'
    BY <1>3, <2>1 DEF EditingBooks, Undisturbed
  <2>. QED
    BY <1>3, <2>2 DEF SessionBooks, Undisturbed
<1>4. CASE pc[t] # "idle" /\ HandlingBooks(t)
  <2>1. /\ seen[t].reward \in Rewards /\ seen[t].user \in Users /\ job[t].user = seen[t].user
        /\ job[t].key \in Redemptions
    BY <1>4 DEF HandlingBooks, SessionTypes, RedemptionRow
  <2>2. job[t].op = "approve" => ApproveBooks(t)'
    BY <1>4, <2>1 DEF HandlingBooks, ApproveBooks, Undisturbed
  <2>3. job[t].op = "deliver" => DeliverBooks(t)'
    BY <1>4, <2>1 DEF HandlingBooks, DeliverBooks, Undisturbed
  <2>4. job[t].op # "create" =>
          /\ redemption'[job[t].key] # None /\ redemption'[job[t].key].user = job[t].user
          /\ Cost(job[t].key)' = job[t].points
    BY <1>4, <2>1 DEF HandlingBooks, Existing, Undisturbed
  <2>5. job[t].op = "create" => redemption'[job[t].key] = None
    BY <1>4 DEF HandlingBooks, Undisturbed
  <2>6. /\ pc'[t] = pc[t] /\ job'[t] = job[t] /\ copy'[t] = copy[t] /\ draft'[t] = draft[t]
        /\ offer'[t] = offer[t] /\ seen'[t] = seen[t]
        /\ locked_by[job[t].user] = t => locked_by'[job[t].user] = t
        /\ reward'[seen[t].reward] # None
    BY <1>4, <2>1 DEF HandlingBooks, Undisturbed
  <2>7. HandlingBooks(t)'
    BY <1>4, <2>2, <2>3, <2>4, <2>5, <2>6 DEF HandlingBooks, CopyBooks, Same
  <2>. QED
    BY <1>4, <2>7, <2>6 DEF SessionBooks
<1>. QED
  BY <1>1, <1>2, <1>3, <1>4 DEF SessionBooks


(* A step of session s changes what s has in memory, and may lock rows     *)
(* nobody else has locked.                                                 *)
StepOf(s) ==
    /\ pc' = [pc EXCEPT ![s] = pc'[s]] /\ job' = [job EXCEPT ![s] = job'[s]]
    /\ copy' = [copy EXCEPT ![s] = copy'[s]] /\ draft' = [draft EXCEPT ![s] = draft'[s]]
    /\ offer' = [offer EXCEPT ![s] = offer'[s]] /\ seen' = [seen EXCEPT ![s] = seen'[s]]
    /\ locked_by' \in [Users -> Sessions \cup {None}]
    /\ reward_locked_by' \in [Rewards -> Sessions \cup {None}]
    /\ redemption_locked_by' \in [Redemptions -> Sessions \cup {None}]
    /\ \A u \in Users, t \in Sessions \ {s} : locked_by[u] = t => locked_by'[u] = t

(* A key that s begins to create belongs to no other session.              *)
OwnKey(s) ==
    pc'[s] # "idle" /\ job'[s].op = "create" =>
        \/ pc[s] # "idle" /\ job'[s] = job[s]
        \/ \A t \in Sessions : pc[t] # "idle" => job[t].key # job'[s].key

LEMMA TypesOfSessions ==
    TypeOKAll <=>
        /\ wallet \in [Users -> Row \cup {None}] /\ ledger \in [Users -> Seq(Entry)]
        /\ locked_by \in [Users -> Sessions \cup {None}]
        /\ reward \in [Rewards -> RewardRow \cup {None}]
        /\ redemption \in [Redemptions -> RedemptionRow \cup {None}]
        /\ reward_locked_by \in [Rewards -> Sessions \cup {None}]
        /\ redemption_locked_by \in [Redemptions -> Sessions \cup {None}]
        /\ pc = [s \in Sessions |-> pc[s]] /\ job = [s \in Sessions |-> job[s]]
        /\ copy = [s \in Sessions |-> copy[s]] /\ draft = [s \in Sessions |-> draft[s]]
        /\ offer = [s \in Sessions |-> offer[s]] /\ seen = [s \in Sessions |-> seen[s]]
        /\ \A s \in Sessions : SessionTypes(s)
<1>1. ASSUME NEW f, NEW S
      PROVE  f \in [Sessions -> S] <=> f = [s \in Sessions |-> f[s]] /\ \A s \in Sessions : f[s] \in S
  OBVIOUS
<1>. QED
  BY <1>1 DEF TypeOKAll, SessionTypes

LEMMA OthersAsTheyWere ==
    ASSUME TypeOKAll, NEW s \in Sessions, StepOf(s)
    PROVE  /\ \A t \in Sessions \ {s} :
                 /\ pc'[t] = pc[t] /\ job'[t] = job[t] /\ copy'[t] = copy[t]
                 /\ draft'[t] = draft[t] /\ offer'[t] = offer[t] /\ seen'[t] = seen[t]
           /\ pc' = [t \in Sessions |-> pc'[t]] /\ job' = [t \in Sessions |-> job'[t]]
           /\ copy' = [t \in Sessions |-> copy'[t]] /\ draft' = [t \in Sessions |-> draft'[t]]
           /\ offer' = [t \in Sessions |-> offer'[t]] /\ seen' = [t \in Sessions |-> seen'[t]]
BY DEF TypeOKAll, StepOf

(* The types and the keys in creation after such a step.                   *)
LEMMA TypesAfter ==
    ASSUME TypeOKAll, NEW s \in Sessions, StepOf(s), SessionTypes(s)',
           wallet' \in [Users -> Row \cup {None}], ledger' \in [Users -> Seq(Entry)],
           reward' \in [Rewards -> RewardRow \cup {None}],
           redemption' \in [Redemptions -> RedemptionRow \cup {None}]
    PROVE  TypeOKAll'
<1>1. /\ \A t \in Sessions \ {s} :
                 /\ pc'[t] = pc[t] /\ job'[t] = job[t] /\ copy'[t] = copy[t]
                 /\ draft'[t] = draft[t] /\ offer'[t] = offer[t] /\ seen'[t] = seen[t]
      /\ pc' = [t \in Sessions |-> pc'[t]] /\ job' = [t \in Sessions |-> job'[t]]
      /\ copy' = [t \in Sessions |-> copy'[t]] /\ draft' = [t \in Sessions |-> draft'[t]]
      /\ offer' = [t \in Sessions |-> offer'[t]] /\ seen' = [t \in Sessions |-> seen'[t]]
  BY OthersAsTheyWere
<1>2. \A t \in Sessions : SessionTypes(t)
  BY TypesOfSessions
<1>3. \A t \in Sessions : SessionTypes(t)'
  BY <1>1, <1>2 DEF SessionTypes
<1>. QED
  BY <1>1, <1>3 DEF StepOf, SessionTypes, TypeOKAll

LEMMA CreatorsAfter ==
    ASSUME TypeOKAll, CreatedByOne, NEW s \in Sessions, StepOf(s), OwnKey(s)
    PROVE  CreatedByOne'
<1>1. \A t \in Sessions \ {s} : pc'[t] = pc[t] /\ job'[t] = job[t]
  BY OthersAsTheyWere
<1>. QED
  BY <1>1 DEF CreatedByOne, OwnKey

LEMMA BooksStandStill ==
    ASSUME TypeOKAll, Books, UNCHANGED <<wallet, ledger, redemption>>,
           \A w \in Rewards : reward[w] # None => reward'[w] # None
    PROVE  /\ Books'
           /\ \A u \in Users : RowOf(u)' = RowOf(u) /\ KeysOf(u)' = KeysOf(u)
<1>1. \A u \in Users : RowOf(u)' = RowOf(u) /\ KeysOf(u)' = KeysOf(u)
  BY DEF RowOf, KeysOf
<1>2. Balance' = Balance
  BY <1>1 DEF Balance
<1>3. Existing' = Existing
  BY DEF Existing
<1>4. ASSUME NEW statuses PROVE InStatus(statuses)' = InStatus(statuses)
  BY <1>3 DEF InStatus
<1>5. ASSUME NEW u PROVE TotalCost(Of(u) \cap InStatus({"delivered"}))'
                           = TotalCost(Of(u) \cap InStatus({"delivered"}))
  BY <1>3, <1>4 DEF TotalCost, Of, Cost
<1>6. EarnedMatchesLedger'
  BY <1>1 DEF Books, EarnedMatchesLedger
<1>7. BalanceIsLastEntry'
  BY <1>2 DEF Books, BalanceIsLastEntry
<1>8. RedeemedCoversDelivered'
  BY <1>1, <1>5 DEF Books, RedeemedCoversDelivered
<1>9. ASSUME NEW u, NEW e PROVE IsPayment(u, e)' <=> IsPayment(u, e)
  BY DEF IsPayment, Cost
<1>10. \A u \in Users : PL!OncePerKey(ledger[u])'
  BY DEF Books
<1>11. \A r \in Existing' : (reward[redemption[r].reward] # None)' /\ Cost(r)' \in Prices
  <2>1. \A r \in Existing : redemption[r].reward \in Rewards
    BY DEF Existing, TypeOKAll, RedemptionRow
  <2>. QED
    BY <1>3, <2>1 DEF Books, Cost
<1>12. \A u \in Users : \A i \in DOMAIN ledger'[u] :
          ledger'[u][i].key \in Redemptions => IsPayment(u, ledger[u][i])'
  BY <1>9 DEF Books
<1>13. \A r \in InStatus({"approved", "delivered"})' : (r \in KeysOf(redemption[r].user))'
  <2>1. ASSUME NEW u PROVE KeysOf(u)' = KeysOf(u)
    BY DEF KeysOf
  <2>. QED
    BY <1>4, <2>1 DEF Books
<1>14. IsFiniteSet(Existing')
  BY <1>3 DEF Books
<1>. QED
  BY <1>1, <1>6, <1>7, <1>8, <1>10, <1>11, <1>12, <1>13, <1>14 DEF Books

(* A step that commits nothing.                                            *)
LEMMA QuietStep ==
    ASSUME BooksInv, NEW s \in Sessions, StepOf(s), OwnKey(s),
           UNCHANGED <<wallet, ledger, reward, redemption>>,
           SessionTypes(s)', SessionBooks(s)'
    PROVE  BooksInv'
<1>. USE DEF BooksInv
<1>1. TypeOKAll'
  BY TypesAfter DEF TypeOKAll
<1>2. Books' /\ \A u \in Users : RowOf(u)' = RowOf(u) /\ KeysOf(u)' = KeysOf(u)
  BY BooksStandStill
<1>3. ASSUME NEW t \in Sessions \ {s} PROVE SessionBooks(t)'
  <2>1. Undisturbed(t)
    BY <1>2, OthersAsTheyWere DEF Undisturbed, StepOf, Existing, Cost
  <2>2. SessionTypes(t)
    BY TypesOfSessions
  <2>. QED
    BY <2>1, <2>2, SessionStays
<1>. QED
  BY <1>1, <1>2, <1>3, CreatorsAfter

----------------------------------------------------------------------------
(* Requests begin, and end without a commit                                *)

(* The end of a session leaves it with nothing.                            *)
LEMMA SessionEnds ==
    ASSUME TypeOKAll, NEW s \in Sessions, EndSession(s), Close(s)
    PROVE  StepOf(s) /\ OwnKey(s) /\ SessionTypes(s)' /\ SessionBooks(s)'
<1>1. /\ pc'[s] = "idle" /\ job'[s] = None /\ copy'[s] = None /\ draft'[s] = None
      /\ offer'[s] = None /\ seen'[s] = None
  BY DEF TypeOKAll, EndSession, Close
<1>2. /\ pc' = [pc EXCEPT ![s] = "idle"] /\ job' = [job EXCEPT ![s] = None]
      /\ copy' = [copy EXCEPT ![s] = None] /\ draft' = [draft EXCEPT ![s] = None]
      /\ offer' = [offer EXCEPT ![s] = None] /\ seen' = [seen EXCEPT ![s] = None]
  BY DEF EndSession, Close
<1>3. /\ locked_by' \in [Users -> Sessions \cup {None}]
      /\ reward_locked_by' \in [Rewards -> Sessions \cup {None}]
      /\ redemption_locked_by' \in [Redemptions -> Sessions \cup {None}]
      /\ \A u \in Users, t \in Sessions \ {s} : locked_by[u] = t => locked_by'[u] = t
  BY DEF TypeOKAll, EndSession, Close
<1>. QED
  BY <1>1, <1>2, <1>3 DEF StepOf, OwnKey, SessionTypes, SessionBooks, PhasesAll

LEMMA RefuseBooks ==
    ASSUME BooksInv, NEW s \in Sessions, Refuse(s)
    PROVE  BooksInv'
<1>1. TypeOKAll /\ EndSession(s) /\ Close(s)
  BY DEF BooksInv, Refuse
<1>2. UNCHANGED <<wallet, ledger, reward, redemption>>
  BY DEF Refuse
<1>. QED
  BY <1>1, <1>2, SessionEnds, QuietStep

(* A request that begins changes pc, job and one object of its session.    *)
LEMMA RequestBooks ==
    ASSUME BooksInv, NEW s \in Sessions, pc[s] = "idle",
           pc' = [pc EXCEPT ![s] = pc'[s]], job' = [job EXCEPT ![s] = job'[s]],
           offer' = [offer EXCEPT ![s] = offer'[s]], seen' = [seen EXCEPT ![s] = seen'[s]],
           UNCHANGED <<wallet, ledger, locked_by, copy, draft, rowVars>>,
           pc'[s] \in PhasesAll \ {"idle"}, job'[s] \in JobAll,
           offer'[s] \in RewardObject \cup {None}, seen'[s] \in RedemptionRow \cup {None},
           job'[s].op = "create" => \A t \in Sessions : pc[t] # "idle" => job[t].key # job'[s].key,
           copy'[s] = None /\ draft'[s] = None =>
              PostingBooks(s)' \/ EditingBooks(s)' \/ HandlingBooks(s)'
    PROVE  BooksInv'
<1>. USE DEF BooksInv
<1>2. copy'[s] = None /\ draft'[s] = None
  BY DEF SessionBooks
<1>3. SessionBooks(s)'
  BY <1>2 DEF SessionBooks
<1>4. StepOf(s)
  BY <1>2 DEF StepOf, TypeOKAll, rowVars
<1>5. OwnKey(s)
  BY DEF OwnKey
<1>6. SessionTypes(s)'
  BY <1>2 DEF SessionTypes
<1>. QED
  BY <1>3, <1>4, <1>5, <1>6, QuietStep DEF rowVars

LEMMA RestockedType ==
    ASSUME NEW row \in RewardRow, NEW total \in Totals
    PROVE  Restocked(row, total) \in Nat \cup {None}
<1>1. None \notin Nat
  BY NoRowAssumption
<1>2. row.inventory_remaining \in Nat \cup {None} /\ row.inventory_total \in Nat \cup {None}
      /\ total \in Nat \cup {None}
  BY NumbersAssumption DEF RewardRow
<1>3. OrZero(row.inventory_remaining) \in Nat /\ OrZero(total) \in Nat
      /\ OrZero(row.inventory_total) \in Nat
  BY <1>1, <1>2 DEF OrZero
<1>. QED
  BY <1>2, <1>3 DEF Restocked, AtLeastZero

LEMMA BeginBooks ==
    ASSUME BooksInv, NEW s \in Sessions, RequestAll(s)
    PROVE  BooksInv'
<1>. USE DEF BooksInv
<1>1. ASSUME pc[s] = "idle" PROVE copy[s] = None /\ draft[s] = None /\ offer[s] = None /\ seen[s] = None
  BY <1>1 DEF SessionBooks
<1>2. CASE Request(s) /\ UNCHANGED <<rowVars, objectVars>>
  <2>1. PICK u \in Users, k \in Events \cup Manuals, n \in Int :
           /\ n # 0 /\ pc[s] = "idle"
           /\ job' = [job EXCEPT ![s] = [op |-> "post", user |-> u, key |-> k, points |-> n]]
           /\ pc' = [pc EXCEPT ![s] = "post"]
           /\ UNCHANGED <<wallet, ledger, locked_by, copy, draft>>
    <3>1. ASSUME NEW u \in Users, NEW k \in Events, NEW n \in Amounts, award_points(s, u, k, n)
          PROVE  /\ n \in Int /\ n # 0 /\ pc[s] = "idle" /\ Start(s, u, k, n)
      BY <3>1, AmountsAssumption DEF award_points
    <3>2. ASSUME NEW u \in Users, NEW k \in Manuals, NEW n \in Amounts,
                 NEW type \in {"bonus", "manual_adjustment", "deduction", "correction"},
                 create_manual_transaction(s, u, k, type, n)
          PROVE  /\ SignedPoints(type, n) \in Int /\ SignedPoints(type, n) # 0 /\ pc[s] = "idle"
                 /\ Start(s, u, k, SignedPoints(type, n))
      BY <3>2, AmountsAssumption DEF create_manual_transaction, Accepted, SignedPoints
    <3>. QED
      BY <1>2, <3>1, <3>2 DEF Request, Start
  <2>. DEFINE j == [op |-> "post", user |-> u, key |-> k, points |-> n]
  <2>2. k \in Keys \ Redemptions
    BY KeysAssumption, RedemptionsAssumption
  <2>3. j \in JobAll
    BY <2>2 DEF JobAll
  <2>4. pc'[s] = "post" /\ job'[s] = j /\ offer'[s] = None /\ seen'[s] = None
    BY <1>1, <1>2, <2>1 DEF TypeOKAll, objectVars
  <2>5. ASSUME copy'[s] = None, draft'[s] = None PROVE PostingBooks(s)'
    <3>1. job'[s].op = "post" /\ job'[s].user = u /\ job'[s].key = k /\ job'[s].points = n
      BY <2>4
    <3>. QED
      BY <2>1, <2>2, <2>4, <2>5, <3>1 DEF PostingBooks
  <2>6. /\ pc' = [pc EXCEPT ![s] = pc'[s]] /\ job' = [job EXCEPT ![s] = job'[s]]
        /\ offer' = [offer EXCEPT ![s] = offer'[s]] /\ seen' = [seen EXCEPT ![s] = seen'[s]]
    BY <1>2, <2>1, <2>4 DEF TypeOKAll, objectVars
  <2>7. pc'[s] \in PhasesAll \ {"idle"} /\ job'[s].op # "create"
    BY <2>4 DEF PhasesAll
  <2>. QED
    BY <1>2, <2>1, <2>3, <2>4, <2>5, <2>6, <2>7, RequestBooks
<1>3. ASSUME NEW u \in Users, NEW w \in Rewards, NEW q \in Quantities, NEW submit \in BOOLEAN,
             NEW r \in Redemptions, create_redemption(s, u, w, q, submit, r)
      PROVE  BooksInv'
  <2>. DEFINE status == IF submit THEN "submitted" ELSE "draft"
              cost == reward[w].cost_points * q
              row == [status |-> status, user |-> u, reward |-> w, quantity |-> q,
                      cost_points_snapshot |-> cost]
              j == [op |-> "create", user |-> u, key |-> r, points |-> cost]
              p == Statements("create", status)[1]
  <2>1. /\ pc[s] = "idle" /\ redemption[r] = None /\ r \notin KeysInUse /\ reward[w] # None
        /\ pc' = [pc EXCEPT ![s] = p] /\ job' = [job EXCEPT ![s] = j]
        /\ seen' = [seen EXCEPT ![s] = row]
        /\ UNCHANGED <<wallet, ledger, locked_by, copy, draft, rowVars, offer>>
    BY <1>3 DEF create_redemption, Begin
  <2>2. cost \in Prices /\ cost \in Nat
    <3>1. reward[w] \in RewardRow
      BY <2>1 DEF TypeOKAll
    <3>2. reward[w].cost_points \in Costs
      BY <3>1 DEF RewardRow
    <3>3. ASSUME NEW c \in Costs PROVE c * q \in Prices /\ c * q \in Nat
      <4>1. c \in Nat /\ q \in Nat
        BY NumbersAssumption
      <4>2. c * q \in Nat
        BY <4>1
      <4>. QED
        BY <4>2 DEF Prices
    <3>. QED
      BY <3>2, <3>3
  <2>. HIDE DEF cost
  <2>3. row \in RedemptionRow
    BY <2>2 DEF RedemptionRow, RedemptionStatuses, REDEMPTION_TRANSITIONS
  <2>4. j \in JobAll
    BY <2>2, RedemptionsAssumption DEF JobAll
  <2>5. p \in Plan("create", status) /\ p = "balance"
    BY FirstOfPlan DEF Handlers
  <2>6. pc'[s] = p /\ job'[s] = j /\ seen'[s] = row /\ offer'[s] = None
    BY <1>1, <2>1 DEF TypeOKAll
  <2>7. /\ job'[s].op = "create" /\ job'[s].user = u /\ job'[s].key = r /\ job'[s].points = cost
        /\ seen'[s].status = status /\ seen'[s].user = u /\ seen'[s].reward = w
        /\ seen'[s].cost_points_snapshot = cost /\ seen'[s] # None
    BY <2>3, <2>6, NoRowAssumption
  <2>8. ASSUME copy'[s] = None, draft'[s] = None PROVE HandlingBooks(s)'
    BY <2>1, <2>2, <2>5, <2>6, <2>7, <2>8 DEF HandlingBooks, CopyBooks, Handlers, rowVars
  <2>9. \A t \in Sessions : pc[t] # "idle" => job[t].key # r
    BY <2>1 DEF KeysInUse
  <2>10. /\ pc' = [pc EXCEPT ![s] = pc'[s]] /\ job' = [job EXCEPT ![s] = job'[s]]
         /\ offer' = [offer EXCEPT ![s] = offer'[s]] /\ seen' = [seen EXCEPT ![s] = seen'[s]]
    BY <2>1, <2>6 DEF TypeOKAll
  <2>11. pc'[s] \in PhasesAll \ {"idle"}
    BY <2>5, <2>6 DEF PhasesAll
  <2>. HIDE DEF row, j, p
  <2>12. pc[s] = "idle" /\ UNCHANGED <<wallet, ledger, locked_by, copy, draft, rowVars>>
    BY <2>1
  <2>13. /\ job'[s] \in JobAll /\ job'[s].key = r
         /\ offer'[s] \in RewardObject \cup {None} /\ seen'[s] \in RedemptionRow \cup {None}
    BY <2>3, <2>4, <2>6, <2>7
  <2>. HIDE DEF BooksInv
  <2>. QED
    BY <2>8, <2>9, <2>10, <2>11, <2>12, <2>13, RequestBooks
<1>4. ASSUME NEW op \in DOMAIN Target, NEW r \in Redemptions, load_redemption(s, op, r)
      PROVE  BooksInv'
  <2>. DEFINE row == redemption[r]
              j == [op |-> op, user |-> row.user, key |-> r, points |-> row.cost_points_snapshot]
              p == Statements(op, row.status)[1]
  <2>1. /\ pc[s] = "idle" /\ row # None /\ TransitionAllowed(row, op)
        /\ pc' = [pc EXCEPT ![s] = p] /\ job' = [job EXCEPT ![s] = j]
        /\ seen' = [seen EXCEPT ![s] = row]
        /\ UNCHANGED <<wallet, ledger, locked_by, copy, draft, rowVars, offer>>
    BY <1>4 DEF load_redemption, Begin
  <2>2. row \in RedemptionRow
    BY <2>1 DEF TypeOKAll
  <2>3. op \in Handlers \ {"create"}
    BY DEF Target, Handlers
  <2>4. j \in JobAll
    BY <2>2, RedemptionsAssumption DEF JobAll, RedemptionRow
  <2>5. p \in Plan(op, row.status) /\ (op = "approve" => p = "reward") /\ (op = "deliver" => p = "redeemed")
    BY <2>3, FirstOfPlan
  <2>6. p \in PhasesAll \ {"idle"}
    BY <2>3, FirstStatement DEF PhasesAll, Statement
  <2>. HIDE DEF p
  <2>7. pc'[s] = p /\ job'[s] = j /\ seen'[s] = row /\ offer'[s] = None
    BY <1>1, <2>1 DEF TypeOKAll
  <2>8. /\ job'[s].op = op /\ job'[s].user = row.user /\ job'[s].key = r
        /\ job'[s].points = row.cost_points_snapshot
    BY <2>7
  <2>9. r \in Existing /\ reward[row.reward] # None /\ Cost(r) = row.cost_points_snapshot
        /\ Cost(r) \in Prices
    BY <2>1 DEF Books, Existing, Cost
  <2>10. op = "deliver" => r \in KeysOf(row.user)
    <3>1. row.status \in RedemptionStatuses
      BY <2>2 DEF RedemptionRow
    <3>2. op = "deliver" => row.status = "approved"
      BY <2>1, <3>1 DEF TransitionAllowed, Target, REDEMPTION_TRANSITIONS, RedemptionStatuses
    <3>. QED
      BY <2>9, <3>2 DEF Books, InStatus
  <2>11. KeysOf(row.user)' = KeysOf(row.user) /\ Cost(r)' = Cost(r)
    BY <2>1 DEF KeysOf, Cost, rowVars
  <2>12. ASSUME copy'[s] = None, draft'[s] = None PROVE HandlingBooks(s)'
    <3>1. op = "approve" => ApproveBooks(s)'
      BY <2>5, <2>7, <2>12 DEF ApproveBooks, Paid
    <3>2. op = "deliver" => DeliverBooks(s)'
      <4>1. op = "deliver" => (job[s].key \in KeysOf(job[s].user))'
        BY <2>1, <2>8, <2>10 DEF KeysOf
      <4>. QED
        BY <2>5, <2>7, <2>12, <4>1 DEF DeliverBooks
    <3>. QED
      BY <2>1, <2>3, <2>5, <2>7, <2>8, <2>9, <2>11, <2>12, <3>1, <3>2
         DEF HandlingBooks, CopyBooks, rowVars
  <2>13. /\ pc' = [pc EXCEPT ![s] = pc'[s]] /\ job' = [job EXCEPT ![s] = job'[s]]
         /\ offer' = [offer EXCEPT ![s] = offer'[s]] /\ seen' = [seen EXCEPT ![s] = seen'[s]]
    BY <2>1, <2>7 DEF TypeOKAll
  <2>. HIDE DEF row, j
  <2>14. pc[s] = "idle" /\ UNCHANGED <<wallet, ledger, locked_by, copy, draft, rowVars>>
    BY <2>1
  <2>15. /\ pc'[s] \in PhasesAll \ {"idle"} /\ job'[s] \in JobAll
         /\ offer'[s] \in RewardObject \cup {None} /\ seen'[s] \in RedemptionRow \cup {None}
    BY <2>2, <2>4, <2>6, <2>7
  <2>16. job'[s].op # "create"
    BY <2>3, <2>8
  <2>. HIDE DEF BooksInv
  <2>. QED
    BY <2>12, <2>13, <2>14, <2>15, <2>16, RequestBooks
<1>5. ASSUME NEW w \in Rewards, NEW status \in RewardStatuses, NEW cost \in Costs, NEW total \in Totals,
             update_reward(s, w, status, cost, total)
      PROVE  BooksInv'
  <2>. DEFINE row == reward[w]
              new == [status |-> status, cost_points |-> cost, inventory_total |-> total,
                      inventory_remaining |-> Restocked(row, total)]
              o == [id |-> w, read |-> row, now |-> new]
              j == [op |-> "edit", user |-> None, key |-> None, points |-> 0]
  <2>1. /\ pc[s] = "idle" /\ row # None
        /\ pc' = [pc EXCEPT ![s] = "reward_row"] /\ job' = [job EXCEPT ![s] = j]
        /\ offer' = [offer EXCEPT ![s] = o]
        /\ UNCHANGED <<wallet, ledger, locked_by, copy, draft, rowVars, seen>>
    BY <1>5 DEF update_reward, Begin, Statements
  <2>2. row \in RewardRow
    BY <2>1 DEF TypeOKAll
  <2>3. Restocked(row, total) \in Nat \cup {None}
    BY <2>2, RestockedType
  <2>4. new \in RewardRow
    BY <2>3 DEF RewardRow
  <2>5. o \in RewardObject
    <3>. HIDE DEF new, row
    <3>. QED
      BY <2>2, <2>4 DEF RewardObject
  <2>6. j \in JobAll
    BY DEF JobAll
  <2>7. pc'[s] = "reward_row" /\ job'[s] = j /\ offer'[s] = o /\ seen'[s] = None
    BY <1>1, <2>1 DEF TypeOKAll
  <2>8. ASSUME copy'[s] = None, draft'[s] = None PROVE EditingBooks(s)'
    <3>1. o # None
      <4>. HIDE DEF o
      <4>. QED
        BY <2>5, NoRowAssumption
    <3>2. offer'[s].id = w /\ job'[s].op = "edit"
      BY <2>7
    <3>. QED
      BY <2>1, <2>7, <2>8, <3>1, <3>2 DEF EditingBooks, rowVars
  <2>9. /\ pc' = [pc EXCEPT ![s] = pc'[s]] /\ job' = [job EXCEPT ![s] = job'[s]]
        /\ offer' = [offer EXCEPT ![s] = offer'[s]] /\ seen' = [seen EXCEPT ![s] = seen'[s]]
    BY <2>1, <2>7 DEF TypeOKAll
  <2>10. pc'[s] \in PhasesAll \ {"idle"} /\ job'[s].op # "create"
    BY <2>7 DEF PhasesAll
  <2>. HIDE DEF row, o, j
  <2>. QED
    BY <2>1, <2>5, <2>6, <2>7, <2>8, <2>9, <2>10, RequestBooks
<1>. QED
  BY <1>2, <1>3, <1>4, <1>5 DEF RequestAll

(* A new reward changes nothing a session relies on.                       *)
LEMMA CreateRewardBooks ==
    ASSUME BooksInv, NEW w \in Rewards, NEW status \in RewardStatuses, NEW cost \in Costs,
           NEW total \in Totals, create_reward(w, status, cost, total)
    PROVE  BooksInv'
<1>. USE DEF BooksInv
<1>. DEFINE row == [status |-> status, cost_points |-> cost,
                    inventory_total |-> total, inventory_remaining |-> total]
<1>1. /\ reward' = [reward EXCEPT ![w] = row]
      /\ UNCHANGED <<vars, redemption, reward_locked_by, redemption_locked_by, objectVars>>
  BY DEF create_reward
<1>2. row \in RewardRow
  BY NumbersAssumption DEF RewardRow
<1>3. row # None
  <2>. HIDE DEF row
  <2>. QED
    BY <1>2, NoRowAssumption
<1>4. \A x \in Rewards : reward[x] # None => reward'[x] # None
  <2>. HIDE DEF row
  <2>. QED
    BY <1>1, <1>3 DEF TypeOKAll
<1>5. TypeOKAll'
  <2>. HIDE DEF row
  <2>. QED
    BY <1>1, <1>2 DEF TypeOKAll, vars, objectVars
<1>6. /\ \A u \in Users : RowOf(u)' = RowOf(u) /\ KeysOf(u)' = KeysOf(u)
      /\ \A r \in Redemptions : Cost(r)' = Cost(r)
  BY <1>1 DEF vars, RowOf, KeysOf, Cost
<1>7. ASSUME NEW t \in Sessions PROVE SessionBooks(t)'
  <2>1. Undisturbed(t)
    BY <1>1, <1>4, <1>6 DEF Undisturbed, vars, objectVars, Existing
  <2>2. SessionTypes(t)
    BY TypesOfSessions
  <2>. QED
    BY <2>1, <2>2, SessionStays
<1>8. CreatedByOne'
  BY <1>1 DEF CreatedByOne, vars
<1>9. Books'
  BY <1>1, <1>4, BooksStandStill DEF vars
<1>. QED
  BY <1>5, <1>7, <1>8, <1>9


----------------------------------------------------------------------------
(* The statements of the handlers                                          *)

LEMMA RowIs ==
    ASSUME TypeOKAll, NEW u \in Users
    PROVE  RowOf(u) \in Row /\ AsRead(RowOf(u)) \in Object
BY DEF TypeOKAll, RowOf, ZeroRow, Row, AsRead, Object

LEMMA SelectedIs ==
    ASSUME TypeOKAll, NEW s \in Sessions, NEW u \in Users
    PROVE  /\ Selected(s, u) \in Object
           /\ copy[s] # None => Selected(s, u) = copy[s]
           /\ copy[s] = None => /\ Selected(s, u).read = RowOf(u)
                                /\ Selected(s, u).now = RowOf(u)
<1>1. AsRead(RowOf(u)) \in Object
  BY RowIs
<1>2. AsRead(RowOf(u)).read = RowOf(u) /\ AsRead(RowOf(u)).now = RowOf(u)
  BY DEF AsRead
<1>3. copy[s] \in Object \cup {None}
  BY DEF TypeOKAll
<1>. QED
  BY <1>1, <1>2, <1>3 DEF Selected

LEMMA PricesArePositive == \A n \in Prices : n \in Nat /\ n > 0
<1>. SUFFICES ASSUME NEW c \in Costs, NEW q \in Quantities PROVE c * q > 0
  BY DEF Prices
<1>. QED
  BY NumbersAssumption

(* What a session at a statement is doing.                                 *)
LEMMA WhoIsThere ==
    ASSUME NEW s \in Sessions, SessionBooks(s), pc[s] # "idle"
    PROVE  /\ job[s].op = "post" <=> PostingBooks(s)
           /\ job[s].op = "edit" <=> EditingBooks(s)
           /\ job[s].op \in Handlers <=> HandlingBooks(s)
           /\ pc[s] \in {"reward", "balance", "pending", "redeemed", "redemption_row"}
                => HandlingBooks(s)
           /\ HandlingBooks(s) =>
                /\ pc[s] = "reward" => job[s].op \in {"submit", "approve"}
                /\ pc[s] = "balance" => job[s].op \in {"create", "approve"}
                /\ pc[s] = "post" => job[s].op = "approve"
                /\ pc[s] = "pending" => job[s].op \in {"create", "submit", "cancel", "reject", "approve"}
                /\ pc[s] = "redeemed" => job[s].op = "deliver"
                /\ pc[s] = "reward_row" => job[s].op = "approve"
                /\ pc[s] = "redemption_row" => job[s].op # "create"
<1>1. PostingBooks(s) \/ EditingBooks(s) \/ HandlingBooks(s)
  BY DEF SessionBooks
<1>2. PostingBooks(s) => job[s].op = "post" /\ pc[s] \in {"post", "commit"}
  BY DEF PostingBooks
<1>3. EditingBooks(s) => job[s].op = "edit" /\ pc[s] \in {"reward_row", "commit"}
  BY DEF EditingBooks
<1>4. HandlingBooks(s) => job[s].op \in Handlers /\ pc[s] \in Plan(job[s].op, seen[s].status)
  BY DEF HandlingBooks
<1>5. "post" \notin Handlers /\ "edit" \notin Handlers
  BY DEF Handlers
<1>6. ASSUME HandlingBooks(s)
      PROVE  /\ pc[s] = "reward" => job[s].op \in {"submit", "approve"}
             /\ pc[s] = "balance" => job[s].op \in {"create", "approve"}
             /\ pc[s] = "post" => job[s].op = "approve"
             /\ pc[s] = "pending" => job[s].op \in {"create", "submit", "cancel", "reject", "approve"}
             /\ pc[s] = "redeemed" => job[s].op = "deliver"
             /\ pc[s] = "reward_row" => job[s].op = "approve"
             /\ pc[s] = "redemption_row" => job[s].op # "create"
  BY <1>4, <1>6, PlanStatements DEF Handlers
<1>. QED
  BY <1>1, <1>2, <1>3, <1>4, <1>5, <1>6

(* A statement changes what its session has in memory and what it locks.   *)
LEMMA StatementBooks ==
    ASSUME BooksInv, NEW s \in Sessions, pc[s] # "idle",
           NEW p, pc' = [pc EXCEPT ![s] = p], p \in PhasesAll \ {"idle"},
           copy' = [copy EXCEPT ![s] = copy'[s]], copy'[s] \in Object \cup {None},
           draft' = [draft EXCEPT ![s] = draft'[s]], draft'[s] \in Entry \cup {None},
           offer' = [offer EXCEPT ![s] = offer'[s]], offer'[s] \in RewardObject \cup {None},
           UNCHANGED <<wallet, ledger, job, reward, redemption, seen>>,
           UNCHANGED locked_by \/ (job[s].user \in Users /\ GetWalletLocked(s, job[s].user)),
           reward_locked_by' \in [Rewards -> Sessions \cup {None}],
           redemption_locked_by' \in [Redemptions -> Sessions \cup {None}],
           PostingBooks(s)' \/ EditingBooks(s)' \/ HandlingBooks(s)'
    PROVE  BooksInv'
<1>. USE DEF BooksInv
<1>1. pc'[s] = p
  BY DEF TypeOKAll
<1>2. job[s] \in JobAll /\ seen[s] \in RedemptionRow \cup {None}
  BY DEF SessionBooks, TypeOKAll
<1>3. SessionBooks(s)' /\ SessionTypes(s)'
  BY <1>1, <1>2 DEF SessionBooks, SessionTypes
<1>4. OwnKey(s)
  BY DEF OwnKey
<1>5. \A u \in Users, t \in Sessions \ {s} : locked_by[u] = t => locked_by'[u] = t
  BY NoneAssumption DEF GetWalletLocked, TypeOKAll
<1>6. locked_by' \in [Users -> Sessions \cup {None}]
  BY DEF GetWalletLocked, TypeOKAll
<1>7. job' = [job EXCEPT ![s] = job'[s]] /\ seen' = [seen EXCEPT ![s] = seen'[s]]
  BY DEF TypeOKAll
<1>8. StepOf(s)
  BY <1>1, <1>5, <1>6, <1>7 DEF StepOf
<1>. QED
  BY <1>3, <1>4, <1>8, QuietStep

(* A handler that goes on, of whose objects the rest has been shown.       *)
LEMMA HandlerGoesOn ==
    ASSUME TypeOKAll, NEW s \in Sessions, HandlingBooks(s), pc[s] # "commit", Advance(s),
           UNCHANGED <<job, reward, redemption, seen>>,
           job[s].op # "approve" => draft'[s] = None /\ offer'[s] = None,
           CopyBooks(s)',
           job[s].op = "approve" /\ pc'[s] = NextOf("approve", seen[s].status, pc[s]) => ApproveBooks(s)',
           job[s].op = "deliver" /\ pc'[s] = NextOf("deliver", seen[s].status, pc[s]) => DeliverBooks(s)'
    PROVE  /\ pc' = [pc EXCEPT ![s] = NextOf(job[s].op, seen[s].status, pc[s])]
           /\ NextOf(job[s].op, seen[s].status, pc[s]) \in PhasesAll \ {"idle"}
           /\ HandlingBooks(s)'
<1>1. job[s].op \in Handlers /\ seen[s] # None
  BY DEF HandlingBooks
<1>2. /\ pc' = [pc EXCEPT ![s] = NextOf(job[s].op, seen[s].status, pc[s])]
      /\ NextOf(job[s].op, seen[s].status, pc[s]) \in Plan(job[s].op, seen[s].status)
  BY <1>1, AdvancePlan
<1>3. pc'[s] = NextOf(job[s].op, seen[s].status, pc[s])
  BY <1>2 DEF TypeOKAll
<1>4. NextOf(job[s].op, seen[s].status, pc[s]) \in PhasesAll \ {"idle"}
  BY <1>1, <1>2, PlanStatements DEF Handlers, PhasesAll
<1>5. HandlingBooks(s)'
  BY <1>2, <1>3 DEF HandlingBooks, Cost
<1>. QED
  BY <1>2, <1>4, <1>5

LEMMA PostEntryBooks ==
    ASSUME BooksInv, NEW s \in Sessions, PostEntry(s), UNCHANGED <<rowVars, objectVars>>
    PROVE  BooksInv'
<1>. USE DEF BooksInv
<1>. DEFINE u == job[s].user  k == job[s].key  n == job[s].points
            object == Selected(s, u)
            entry == [key |-> k, points |-> n, balance_before |-> object.now["current_balance"],
                      balance_after |-> object.now["current_balance"] + n]
            posted == [object EXCEPT !.now = Posted(object.now, n)]
<1>1. PostingBooks(s) /\ pc[s] = "post" /\ job[s] \in JobAll
  BY WhoIsThere DEF PostEntry, SessionBooks
<1>2. /\ u \in Users /\ k \in Keys \ Redemptions /\ n \in Int /\ n # 0
      /\ copy[s] = None /\ draft[s] = None /\ seen[s] = None /\ offer[s] = None
  BY <1>1 DEF PostingBooks, JobAll
<1>3. object \in Object /\ object.read = RowOf(u) /\ object.now = RowOf(u) /\ RowOf(u) \in Row
  BY <1>2, SelectedIs, RowIs
<1>. HIDE DEF object
<1>4. /\ UNCHANGED <<wallet, ledger, job>> /\ pc' = [pc EXCEPT ![s] = "commit"]
      /\ GetWalletLocked(s, u)
      /\ IF k \in KeysOf(u) THEN copy' = [copy EXCEPT ![s] = object] /\ draft' = draft
         ELSE copy' = [copy EXCEPT ![s] = posted] /\ draft' = [draft EXCEPT ![s] = entry]
  BY DEF PostEntry, apply_ledger_entry, object
<1>5. Posted(object.now, n) \in Row /\ object.now["current_balance"] \in Int
  BY <1>2, <1>3, PostedFacts DEF Row, Columns
<1>6. /\ posted \in Object /\ entry \in Entry
      /\ posted.read = RowOf(u) /\ posted.now = Posted(RowOf(u), n)
  BY <1>2, <1>3, <1>5 DEF Object, Entry
<1>7. pc'[s] = "commit" /\ locked_by'[u] = s /\ RowOf(u)' = RowOf(u) /\ KeysOf(u)' = KeysOf(u)
  BY <1>2, <1>4 DEF TypeOKAll, GetWalletLocked, RowOf, KeysOf
<1>8. /\ entry.key = k /\ entry.points = n /\ entry.balance_before = RowOf(u)["current_balance"]
      /\ entry.balance_after = entry.balance_before + n
  BY <1>3
<1>. HIDE DEF posted, entry
<1>9. /\ copy'[s] = IF k \in KeysOf(u) THEN object ELSE posted
      /\ draft'[s] = IF k \in KeysOf(u) THEN None ELSE entry
  BY <1>2, <1>4 DEF TypeOKAll
<1>10. object # None /\ posted # None /\ entry # None
  BY <1>3, <1>6, NoneAssumption
<1>11. PostingBooks(s)'
  <2>1. offer'[s] = None /\ seen'[s] = None
    BY <1>2 DEF objectVars
  <2>. QED
    BY <1>1, <1>2, <1>3, <1>4, <1>6, <1>7, <1>8, <1>9, <1>10, <2>1 DEF PostingBooks
<1>12. /\ copy' = [copy EXCEPT ![s] = copy'[s]] /\ copy'[s] \in Object \cup {None}
       /\ draft' = [draft EXCEPT ![s] = draft'[s]] /\ draft'[s] \in Entry \cup {None}
  BY <1>3, <1>4, <1>6, <1>9 DEF TypeOKAll
<1>13. /\ offer' = [offer EXCEPT ![s] = offer'[s]] /\ offer'[s] \in RewardObject \cup {None}
       /\ reward_locked_by' \in [Rewards -> Sessions \cup {None}]
       /\ redemption_locked_by' \in [Redemptions -> Sessions \cup {None}]
       /\ UNCHANGED <<reward, redemption, seen>>
  BY DEF TypeOKAll, rowVars, objectVars
<1>. QED
  BY <1>1, <1>2, <1>4, <1>11, <1>12, <1>13, StatementBooks DEF PhasesAll

(* A handler goes on and has changed no object but that of the reward.     *)
LEMMA ReadingBooks ==
    ASSUME BooksInv, NEW s \in Sessions, HandlingBooks(s), pc[s] \notin {"idle", "commit"}, Advance(s),
           UNCHANGED <<wallet, ledger, locked_by, job, copy, draft, reward, redemption, seen>>,
           offer' = [offer EXCEPT ![s] = offer'[s]], offer'[s] \in RewardObject \cup {None},
           offer'[s] = offer[s] \/ job[s].op = "approve",
           reward_locked_by' \in [Rewards -> Sessions \cup {None}],
           redemption_locked_by' \in [Redemptions -> Sessions \cup {None}],
           job[s].op = "approve" /\ pc'[s] = NextOf("approve", seen[s].status, pc[s]) => ApproveBooks(s)',
           job[s].op = "deliver" /\ pc'[s] = NextOf("deliver", seen[s].status, pc[s]) => DeliverBooks(s)'
    PROVE  BooksInv'
<1>1. job[s].op # "approve" => draft'[s] = None /\ offer'[s] = None
  BY DEF HandlingBooks
<1>2. CopyBooks(s)'
  BY DEF HandlingBooks, CopyBooks, Same
<1>3. /\ pc' = [pc EXCEPT ![s] = NextOf(job[s].op, seen[s].status, pc[s])]
      /\ NextOf(job[s].op, seen[s].status, pc[s]) \in PhasesAll \ {"idle"}
      /\ HandlingBooks(s)'
  BY <1>1, <1>2, HandlerGoesOn DEF BooksInv
<1>4. /\ copy' = [copy EXCEPT ![s] = copy'[s]] /\ copy'[s] \in Object \cup {None}
      /\ draft' = [draft EXCEPT ![s] = draft'[s]] /\ draft'[s] \in Entry \cup {None}
  BY DEF BooksInv, TypeOKAll
<1>. QED
  BY <1>3, <1>4, StatementBooks

LEMMA SubmitBooks ==
    ASSUME BooksInv, NEW s \in Sessions, submit_redemption(s)
    PROVE  BooksInv'
<1>1. CASE Refuse(s)
  BY <1>1, RefuseBooks
<1>2. CASE ~Refuse(s)
  <2>1. /\ pc[s] = "reward" /\ job[s].op = "submit" /\ Advance(s)
        /\ UNCHANGED <<wallet, ledger, locked_by, job, copy, draft, rowVars, objectVars>>
    BY <1>2 DEF submit_redemption, Op
  <2>2. HandlingBooks(s)
    BY <2>1, WhoIsThere DEF BooksInv
  <2>3. /\ offer' = [offer EXCEPT ![s] = offer'[s]] /\ offer'[s] \in RewardObject \cup {None}
        /\ offer'[s] = offer[s] /\ UNCHANGED <<reward, redemption, seen>>
        /\ reward_locked_by' \in [Rewards -> Sessions \cup {None}]
        /\ redemption_locked_by' \in [Redemptions -> Sessions \cup {None}]
    BY <2>1 DEF BooksInv, TypeOKAll, objectVars, rowVars
  <2>. QED
    BY <2>1, <2>2, <2>3, ReadingBooks
<1>. QED
  BY <1>1, <1>2

LEMMA ApproveReadsBooks ==
    ASSUME BooksInv, NEW s \in Sessions, ApproveReadsReward(s)
    PROVE  BooksInv'
<1>1. CASE Refuse(s)
  BY <1>1, RefuseBooks
<1>2. CASE ~Refuse(s)
  <2>. DEFINE w == seen[s].reward
              o == [id |-> w, read |-> reward[w], now |-> reward[w]]
  <2>1. /\ pc[s] = "reward" /\ job[s].op = "approve" /\ Advance(s)
        /\ InStock(reward[w], seen[s].quantity) /\ offer' = [offer EXCEPT ![s] = o]
        /\ UNCHANGED <<wallet, ledger, locked_by, job, copy, draft, rowVars, seen>>
    BY <1>2 DEF ApproveReadsReward, Op
  <2>2. HandlingBooks(s)
    BY <2>1, WhoIsThere DEF BooksInv
  <2>3. w \in Rewards /\ reward[w] # None
    BY <2>2 DEF HandlingBooks, BooksInv, TypeOKAll, RedemptionRow
  <2>4. o \in RewardObject
    BY <2>3 DEF BooksInv, TypeOKAll, RewardObject
  <2>5. offer'[s] = o
    BY <2>1 DEF BooksInv, TypeOKAll
  <2>6. o # None /\ o.id = w /\ o.read = reward[w] /\ o.now = reward[w]
    <3>1. o # None
      <4>. HIDE DEF o
      <4>. QED
        BY <2>4, NoRowAssumption
    <3>. QED
      BY <3>1
  <2>7. ASSUME pc'[s] = NextOf("approve", seen[s].status, pc[s]) PROVE ApproveBooks(s)'
    <3>1. pc'[s] = "balance"
      BY <2>1, <2>7 DEF NextOf
    <3>2. copy[s] = None /\ draft[s] = None
      BY <2>1, <2>2 DEF HandlingBooks, ApproveBooks, Paid
    <3>. QED
      BY <2>1, <2>5, <2>6, <3>1, <3>2 DEF ApproveBooks, Paid
  <2>8. /\ UNCHANGED <<reward, redemption>>
        /\ reward_locked_by' \in [Rewards -> Sessions \cup {None}]
        /\ redemption_locked_by' \in [Redemptions -> Sessions \cup {None}]
    BY <2>1 DEF BooksInv, TypeOKAll, rowVars
  <2>. HIDE DEF o
  <2>. QED
    BY <2>1, <2>2, <2>4, <2>5, <2>7, <2>8, ReadingBooks
<1>. QED
  BY <1>1, <1>2

(* A handler goes on and has changed the object of its wallet.             *)
LEMMA WritingBooks ==
    ASSUME BooksInv, NEW s \in Sessions, HandlingBooks(s), pc[s] \notin {"idle", "commit"}, Advance(s),
           UNCHANGED <<wallet, ledger, job, rowVars, seen>>,
           UNCHANGED locked_by \/ GetWalletLocked(s, job[s].user),
           copy' = [copy EXCEPT ![s] = copy'[s]], copy'[s] \in Object \cup {None},
           draft' = [draft EXCEPT ![s] = draft'[s]], draft'[s] \in Entry \cup {None},
           offer' = [offer EXCEPT ![s] = offer'[s]], offer'[s] \in RewardObject \cup {None},
           job[s].op # "approve" => draft'[s] = None /\ offer'[s] = None,
           CopyBooks(s)',
           job[s].op = "approve" /\ pc'[s] = NextOf("approve", seen[s].status, pc[s]) => ApproveBooks(s)',
           job[s].op = "deliver" /\ pc'[s] = NextOf("deliver", seen[s].status, pc[s]) => DeliverBooks(s)'
    PROVE  BooksInv'
<1>. USE DEF BooksInv
<1>1. /\ pc' = [pc EXCEPT ![s] = NextOf(job[s].op, seen[s].status, pc[s])]
      /\ NextOf(job[s].op, seen[s].status, pc[s]) \in PhasesAll \ {"idle"}
      /\ HandlingBooks(s)'
  BY HandlerGoesOn DEF rowVars
<1>2. job[s].user \in Users
  BY DEF HandlingBooks, TypeOKAll, RedemptionRow
<1>3. /\ reward_locked_by' \in [Rewards -> Sessions \cup {None}]
      /\ redemption_locked_by' \in [Redemptions -> Sessions \cup {None}]
      /\ UNCHANGED <<reward, redemption>>
  BY DEF TypeOKAll, rowVars
<1>. QED
  BY <1>1, <1>2, <1>3, StatementBooks

LEMMA HandledTypes ==
    ASSUME TypeOKAll, NEW s \in Sessions, HandlingBooks(s)
    PROVE  /\ job[s].user \in Users /\ job[s].key \in Redemptions /\ job[s].key \in Keys
           /\ job[s].points \in Nat /\ job[s].points > 0
           /\ seen[s] \in RedemptionRow /\ seen[s].quantity \in Nat /\ seen[s].quantity > 0
           /\ seen[s].reward \in Rewards
<1>1. seen[s] \in RedemptionRow
  BY DEF HandlingBooks, TypeOKAll
<1>2. job[s].points \in Nat /\ job[s].points > 0
  BY PricesArePositive DEF HandlingBooks
<1>3. seen[s].quantity \in Nat /\ seen[s].quantity > 0
  <2>1. seen[s].quantity \in Quantities
    BY <1>1 DEF RedemptionRow
  <2>2. \A q \in Quantities : q \in Nat /\ q > 0
    BY NumbersAssumption
  <2>. QED
    BY <2>1, <2>2
<1>4. seen[s].user \in Users /\ seen[s].reward \in Rewards
  BY <1>1 DEF RedemptionRow
<1>5. job[s].user = seen[s].user /\ job[s].key \in Redemptions
  BY DEF HandlingBooks
<1>6. job[s].key \in Keys
  BY <1>5, RedemptionsAssumption
<1>. QED
  BY <1>1, <1>2, <1>3, <1>4, <1>5, <1>6

LEMMA CheckBalanceBooks ==
    ASSUME BooksInv, NEW s \in Sessions, CheckBalance(s)
    PROVE  BooksInv'
<1>1. CASE Refuse(s)
  BY <1>1, RefuseBooks
<1>2. CASE ~Refuse(s)
  <2>. DEFINE u == job[s].user
              object == IF wallet[u] = None THEN copy[s] ELSE Selected(s, u)
  <2>1. /\ pc[s] = "balance" /\ job[s].points <= RowOf(u)["current_balance"]
        /\ get_wallet(s, u) /\ Advance(s)
        /\ UNCHANGED <<wallet, ledger, locked_by, job, draft, rowVars, objectVars>>
    BY <1>2 DEF CheckBalance
  <2>2. HandlingBooks(s) /\ job[s].op \in {"create", "approve"}
    BY <2>1, WhoIsThere DEF BooksInv
  <2>3. u \in Users /\ job[s].points \in Nat /\ job[s].points > 0
    BY <2>2, HandledTypes DEF BooksInv
  <2>4. /\ object \in Object \cup {None}
        /\ copy[s] # None => object = copy[s]
        /\ copy[s] = None => \/ object = None
                             \/ wallet[u] # None /\ object.read = RowOf(u) /\ object.now = RowOf(u)
    BY <2>3, SelectedIs DEF BooksInv, TypeOKAll
  <2>5. copy' = [copy EXCEPT ![s] = object]
    BY <2>1 DEF get_wallet
  <2>6. copy'[s] = object
    BY <2>5 DEF BooksInv, TypeOKAll
  <2>10. CopyBooks(s)'
    <3>. HIDE DEF object
    <3>. QED
      BY <2>1, <2>2, <2>4, <2>6 DEF HandlingBooks, CopyBooks, Same
  <2>7. ASSUME job[s].op = "approve", pc'[s] = NextOf("approve", seen[s].status, pc[s])
        PROVE  ApproveBooks(s)'
    <3>1. pc'[s] = "post"
      BY <2>1, <2>7 DEF NextOf
    <3>2. /\ copy[s] = None /\ draft[s] = None /\ offer[s] # None /\ offer[s].id = seen[s].reward
          /\ offer[s].now = offer[s].read /\ InStock(offer[s].now, seen[s].quantity)
      BY <2>1, <2>2, <2>7 DEF HandlingBooks, ApproveBooks, Paid
    <3>3. wallet[u] # None
      <4>1. ZeroRow["current_balance"] = 0
        BY DEF ZeroRow, Columns
      <4>. QED
        BY <2>1, <2>3, <4>1 DEF RowOf
    <3>4. object # None /\ object.now = RowOf(u)
      <4>1. object = Selected(s, u)
        BY <3>3
      <4>. QED
        BY <2>3, <3>2, <4>1, SelectedIs, NoneAssumption DEF BooksInv
    <3>. HIDE DEF object
    <3>. QED
      BY <2>1, <2>6, <2>7, <3>1, <3>2, <3>4 DEF ApproveBooks, Paid, objectVars
  <2>8. /\ draft'[s] \in Entry \cup {None} /\ draft' = [draft EXCEPT ![s] = draft'[s]]
        /\ offer'[s] \in RewardObject \cup {None} /\ offer' = [offer EXCEPT ![s] = offer'[s]]
        /\ job[s].op # "approve" => draft'[s] = None /\ offer'[s] = None
        /\ UNCHANGED seen
    BY <2>1, <2>2 DEF BooksInv, TypeOKAll, objectVars, HandlingBooks
  <2>9. job[s].op # "deliver"
    BY <2>2
  <2>. HIDE DEF object
  <2>. QED
    BY <2>1, <2>2, <2>4, <2>5, <2>6, <2>7, <2>8, <2>9, <2>10, WritingBooks
<1>. QED
  BY <1>1, <1>2

LEMMA ApprovePostsBooks ==
    ASSUME BooksInv, NEW s \in Sessions, ApprovePosts(s)
    PROVE  BooksInv'
<1>1. CASE Refuse(s)
  BY <1>1, RefuseBooks
<1>2. CASE ~Refuse(s)
  <2>. DEFINE u == job[s].user  r == job[s].key  n == -job[s].points
              old == copy[s]
              new == [old EXCEPT !.now = Posted(old.now, n)]
              e == [key |-> r, points |-> n, balance_before |-> old.now["current_balance"],
                    balance_after |-> old.now["current_balance"] + n]
              o == Deducted(offer[s], seen[s].quantity)
  <2>1. /\ pc[s] = "post" /\ job[s].op = "approve" /\ r \notin KeysOf(u)
        /\ apply_ledger_entry(s, u, r, n) /\ offer' = [offer EXCEPT ![s] = o]
        /\ Advance(s) /\ UNCHANGED <<wallet, ledger, job, rowVars, seen>>
    BY <1>2 DEF ApprovePosts, Op
  <2>2. HandlingBooks(s)
    BY <2>1, WhoIsThere DEF BooksInv, Handlers
  <2>3. /\ u \in Users /\ r \in Keys /\ job[s].points \in Nat /\ job[s].points > 0
        /\ seen[s].quantity \in Nat
    BY <2>2, HandledTypes DEF BooksInv
  <2>4. /\ old # None /\ old.now["current_balance"] >= job[s].points
        /\ draft[s] = None /\ offer[s] # None /\ offer[s].id = seen[s].reward
        /\ offer[s].now = offer[s].read /\ InStock(offer[s].now, seen[s].quantity)
    BY <2>1, <2>2 DEF HandlingBooks, ApproveBooks, Paid
  <2>5. old \in Object /\ old.now \in Row /\ offer[s] \in RewardObject
    BY <2>4 DEF BooksInv, TypeOKAll, Object
  <2>6. Selected(s, u) = old
    BY <2>4 DEF Selected
  <2>7. /\ GetWalletLocked(s, u)
        /\ copy' = [copy EXCEPT ![s] = new] /\ draft' = [draft EXCEPT ![s] = e]
    BY <2>1, <2>6 DEF apply_ledger_entry
  <2>8. /\ n \in Int /\ ~(n > 0)
        /\ Posted(old.now, n) \in Row
        /\ Posted(old.now, n)["current_balance"] = old.now["current_balance"] + n
    <3>1. n \in Int /\ ~(n > 0)
      BY <2>3
    <3>. HIDE DEF n
    <3>. QED
      BY <2>5, <3>1, PostedFacts
  <2>9. /\ Posted(old.now, n)["total_earned"] = old.now["total_earned"]
        /\ Posted(old.now, n)["redeemed_points"] = old.now["redeemed_points"]
    BY <2>5, <2>8 DEF Posted, Row, Columns
  <2>10. new \in Object /\ new.read = old.read /\ new.now = Posted(old.now, n)
    BY <2>5, <2>8 DEF Object
  <2>11. old.now["current_balance"] \in Int /\ old.read["current_balance"] = old.now["current_balance"]
    BY <2>2, <2>4, <2>5 DEF HandlingBooks, CopyBooks, Same, Row, Columns
  <2>12. /\ e \in Entry /\ e.key = r /\ e.points = n
         /\ e.balance_before = old.read["current_balance"]
         /\ e.balance_after = e.balance_before + n
    BY <2>3, <2>8, <2>11 DEF Entry
  <2>13. o \in RewardObject /\ o.id = offer[s].id
    <3>. DEFINE row == offer[s].now  left == row.inventory_remaining
    <3>1. offer[s] \in [id: Rewards, read: RewardRow, now: RewardRow] /\ row \in RewardRow
      BY <2>5 DEF RewardObject
    <3>2. CASE left = None
      BY <2>5, <3>2 DEF Deducted
    <3>3. CASE left # None
      <4>1. left \in Nat /\ seen[s].quantity <= left
        BY <2>4, <3>1, <3>3 DEF RewardRow, InStock
      <4>2. left - seen[s].quantity \in Nat
        BY <2>3, <4>1
      <4>3. [row EXCEPT !.inventory_remaining = left - seen[s].quantity] \in RewardRow
        BY <3>1, <4>2 DEF RewardRow
      <4>4. o = [offer[s] EXCEPT !.now = [row EXCEPT !.inventory_remaining = left - seen[s].quantity]]
        BY <3>1, <3>3 DEF Deducted, RewardRow
      <4>. QED
        BY <3>1, <4>3, <4>4 DEF RewardObject
    <3>. QED
      BY <3>2, <3>3
  <2>14. locked_by'[u] = s
    BY <2>3, <2>7 DEF GetWalletLocked, BooksInv, TypeOKAll
  <2>15. new # None /\ e # None /\ o # None
    <3>. HIDE DEF new, e, o
    <3>. QED
      BY <2>10, <2>12, <2>13, NoneAssumption, NoRowAssumption
  <2>16. copy'[s] = new /\ draft'[s] = e /\ offer'[s] = o
    BY <2>1, <2>7 DEF BooksInv, TypeOKAll
  <2>. HIDE DEF new, e, o
  <2>17. CopyBooks(s)'
    BY <2>1, <2>2, <2>4, <2>9, <2>10, <2>14, <2>15, <2>16 DEF HandlingBooks, CopyBooks, Same
  <2>18. ASSUME pc'[s] = NextOf("approve", seen[s].status, pc[s])
         PROVE  ApproveBooks(s)'
    <3>1. pc'[s] = "pending"
      BY <2>1, <2>18 DEF NextOf
    <3>2. e.balance_after = new.now["current_balance"] /\ e.balance_after >= 0
      BY <2>3, <2>4, <2>8, <2>10, <2>11, <2>12
    <3>3. (job[s].key \notin KeysOf(job[s].user))'
      BY <2>1 DEF KeysOf
    <3>. QED
      BY <2>1, <2>4, <2>10, <2>12, <2>13, <2>14, <2>15, <2>16, <3>1, <3>2, <3>3
         DEF ApproveBooks, Paid
  <2>19. /\ copy' = [copy EXCEPT ![s] = copy'[s]] /\ draft' = [draft EXCEPT ![s] = draft'[s]]
         /\ offer' = [offer EXCEPT ![s] = offer'[s]]
    BY <2>1, <2>7, <2>16
  <2>. QED
    BY <2>1, <2>2, <2>7, <2>10, <2>12, <2>13, <2>16, <2>17, <2>18, <2>19, WritingBooks
<1>. QED
  BY <1>1, <1>2

LEMMA PendingBooks ==
    ASSUME BooksInv, NEW s \in Sessions, adjust_pending(s)
    PROVE  BooksInv'
<1>. DEFINE u == job[s].user
            delta == IF Op(s) \in {"create", "submit"} THEN job[s].points ELSE -job[s].points
            old == Selected(s, u)
            amount == AtLeastZero(old.now["pending_points"] + delta)
            new == [old EXCEPT !.now["pending_points"] = amount]
<1>1. /\ pc[s] = "pending" /\ GetWalletLocked(s, u) /\ Advance(s)
      /\ copy' = [copy EXCEPT ![s] = new]
      /\ UNCHANGED <<wallet, ledger, job, draft, rowVars, objectVars>>
  BY DEF adjust_pending
<1>2. HandlingBooks(s) /\ job[s].op # "deliver"
  BY <1>1, WhoIsThere DEF BooksInv
<1>3. u \in Users /\ job[s].points \in Nat
  BY <1>2, HandledTypes DEF BooksInv
<1>4. /\ old \in Object
      /\ copy[s] # None => old = copy[s]
      /\ copy[s] = None => old.now = old.read
  BY <1>3, SelectedIs DEF BooksInv
<1>5. /\ old.now \in Row /\ old.now["pending_points"] \in Int
  BY <1>4 DEF Object, Row, Columns
<1>6. amount \in Int
  BY <1>3, <1>5 DEF AtLeastZero
<1>. HIDE DEF amount, old
<1>7. /\ new \in Object /\ new.read = old.read
      /\ \A c \in Columns \ {"pending_points"} : new.now[c] = old.now[c]
  <2>1. [old.now EXCEPT !["pending_points"] = amount] \in Row
    BY <1>5, <1>6 DEF Row, Columns
  <2>2. new = [old EXCEPT !.now = [old.now EXCEPT !["pending_points"] = amount]]
    BY <1>4 DEF Object
  <2>3. new \in Object /\ new.read = old.read
        /\ new.now = [old.now EXCEPT !["pending_points"] = amount]
    BY <1>4, <2>1, <2>2 DEF Object
  <2>. QED
    BY <1>5, <2>3 DEF Row, Columns
<1>. HIDE DEF new
<1>8. copy'[s] = new /\ new # None /\ locked_by'[u] = s
  BY <1>1, <1>3, <1>7, NoneAssumption DEF BooksInv, TypeOKAll, GetWalletLocked
<1>9. new.now["current_balance"] = old.now["current_balance"]
      /\ new.now["total_earned"] = old.now["total_earned"]
      /\ new.now["redeemed_points"] = old.now["redeemed_points"]
  BY <1>7 DEF Columns
<1>10. CopyBooks(s)'
  BY <1>1, <1>2, <1>4, <1>7, <1>8, <1>9 DEF HandlingBooks, CopyBooks, Same
<1>11. ASSUME job[s].op = "approve", pc'[s] = NextOf("approve", seen[s].status, pc[s])
       PROVE  ApproveBooks(s)'
  <2>1. pc'[s] = "reward_row"
    BY <1>1, <1>11 DEF NextOf
  <2>2. ApproveBooks(s)
    BY <1>2, <1>11 DEF HandlingBooks
  <2>3. copy[s] # None
    BY <1>1, <2>2 DEF ApproveBooks, Paid
  <2>4. (job[s].key \notin KeysOf(job[s].user))'
    BY <1>1, <2>2 DEF ApproveBooks, Paid, KeysOf
  <2>. QED
    BY <1>1, <1>4, <1>7, <1>8, <1>9, <2>1, <2>2, <2>3, <2>4 DEF ApproveBooks, Paid, objectVars
<1>12. /\ copy' = [copy EXCEPT ![s] = copy'[s]]
       /\ draft' = [draft EXCEPT ![s] = draft'[s]] /\ draft'[s] \in Entry \cup {None}
       /\ offer' = [offer EXCEPT ![s] = offer'[s]] /\ offer'[s] \in RewardObject \cup {None}
       /\ job[s].op # "approve" => draft'[s] = None /\ offer'[s] = None
       /\ UNCHANGED seen
  BY <1>1, <1>2, <1>8 DEF BooksInv, TypeOKAll, HandlingBooks, objectVars
<1>. QED
  BY <1>1, <1>2, <1>7, <1>8, <1>10, <1>11, <1>12, WritingBooks

LEMMA RedeemedBooks ==
    ASSUME BooksInv, NEW s \in Sessions, mark_redeemed(s)
    PROVE  BooksInv'
<1>. DEFINE u == job[s].user
            old == Selected(s, u)
            new == [old EXCEPT !.now["redeemed_points"] = old.now["redeemed_points"] + job[s].points]
<1>1. /\ pc[s] = "redeemed" /\ GetWalletLocked(s, u) /\ Advance(s)
      /\ copy' = [copy EXCEPT ![s] = new]
      /\ UNCHANGED <<wallet, ledger, job, draft, rowVars, objectVars>>
  BY DEF mark_redeemed
<1>2. HandlingBooks(s) /\ job[s].op = "deliver"
  BY <1>1, WhoIsThere DEF BooksInv
<1>3. u \in Users /\ job[s].points \in Nat
  BY <1>2, HandledTypes DEF BooksInv
<1>4. copy[s] = None /\ job[s].key \in KeysOf(u)
  BY <1>1, <1>2 DEF HandlingBooks, DeliverBooks
<1>5. old \in Object /\ old.read = RowOf(u) /\ old.now = RowOf(u)
  BY <1>3, <1>4, SelectedIs DEF BooksInv
<1>. HIDE DEF old
<1>6. old.now \in Row /\ old.now["redeemed_points"] \in Int
  BY <1>5 DEF Object, Row, Columns
<1>7. /\ new \in Object /\ new.read = old.read
      /\ new.now["redeemed_points"] = old.now["redeemed_points"] + job[s].points
      /\ \A c \in Columns \ {"redeemed_points"} : new.now[c] = old.now[c]
  <2>. DEFINE amount == old.now["redeemed_points"] + job[s].points
  <2>0. amount \in Int
    BY <1>3, <1>6
  <2>. HIDE DEF amount
  <2>1. [old.now EXCEPT !["redeemed_points"] = amount] \in Row
    BY <1>6, <2>0 DEF Row, Columns
  <2>2. new = [old EXCEPT !.now = [old.now EXCEPT !["redeemed_points"] = amount]]
    BY <1>5 DEF Object, amount
  <2>3. new \in Object /\ new.read = old.read
        /\ new.now = [old.now EXCEPT !["redeemed_points"] = amount]
    BY <1>5, <2>1, <2>2 DEF Object
  <2>4. new.now["redeemed_points"] = amount
        /\ \A c \in Columns \ {"redeemed_points"} : new.now[c] = old.now[c]
    BY <1>6, <2>3 DEF Row, Columns
  <2>. QED
    BY <2>3, <2>4 DEF amount
<1>. HIDE DEF new
<1>8. copy'[s] = new /\ new # None /\ locked_by'[u] = s
  BY <1>1, <1>3, <1>7, NoneAssumption DEF BooksInv, TypeOKAll, GetWalletLocked
<1>9. new.now["current_balance"] = old.now["current_balance"]
      /\ new.now["total_earned"] = old.now["total_earned"]
  BY <1>7 DEF Columns
<1>10. CopyBooks(s)'
  BY <1>1, <1>2, <1>5, <1>7, <1>8, <1>9 DEF CopyBooks, Same
<1>11. ASSUME pc'[s] = NextOf("deliver", seen[s].status, pc[s])
       PROVE  DeliverBooks(s)'
  <2>1. pc'[s] = "redemption_row"
    BY <1>1, <1>11 DEF NextOf
  <2>2. (job[s].key \in KeysOf(job[s].user))' /\ RowOf(u)' = RowOf(u)
    BY <1>1, <1>4 DEF KeysOf, RowOf
  <2>3. (copy[s].read = RowOf(job[s].user))'
    BY <1>1, <1>5, <1>7, <1>8 DEF RowOf
  <2>. QED
    BY <1>1, <1>5, <1>7, <1>8, <2>1, <2>2, <2>3 DEF DeliverBooks
<1>12. /\ copy' = [copy EXCEPT ![s] = copy'[s]]
       /\ draft' = [draft EXCEPT ![s] = draft'[s]] /\ draft'[s] \in Entry \cup {None}
       /\ offer' = [offer EXCEPT ![s] = offer'[s]] /\ offer'[s] \in RewardObject \cup {None}
       /\ draft'[s] = None /\ offer'[s] = None
       /\ UNCHANGED seen
  BY <1>1, <1>2, <1>8 DEF BooksInv, TypeOKAll, HandlingBooks, objectVars
<1>. QED
  BY <1>1, <1>2, <1>7, <1>8, <1>10, <1>11, <1>12, WritingBooks

LEMMA FlushRewardBooks ==
    ASSUME BooksInv, NEW s \in Sessions, FlushReward(s)
    PROVE  BooksInv'
<1>1. /\ pc[s] = "reward_row" /\ Advance(s)
      /\ UNCHANGED <<wallet, ledger, locked_by, job, copy, draft, reward, redemption,
                     redemption_locked_by, objectVars>>
      /\ reward_locked_by' \in [Rewards -> Sessions \cup {None}]
  BY DEF FlushReward, BooksInv, TypeOKAll
<1>2. /\ offer' = [offer EXCEPT ![s] = offer'[s]] /\ offer'[s] \in RewardObject \cup {None}
      /\ offer'[s] = offer[s] /\ seen' = seen
      /\ redemption_locked_by' \in [Redemptions -> Sessions \cup {None}]
  BY <1>1 DEF BooksInv, TypeOKAll, objectVars
<1>3. PostingBooks(s) \/ EditingBooks(s) \/ HandlingBooks(s)
  BY <1>1 DEF BooksInv, SessionBooks
<1>4. CASE EditingBooks(s)
  <2>. DEFINE plan == Statements("edit", None)
  <2>1. PICK i \in DOMAIN plan : plan[i] = "reward_row" /\ pc' = [pc EXCEPT ![s] = plan[i + 1]]
    BY <1>1, <1>4 DEF EditingBooks, Advance, Op
  <2>2. plan[i + 1] = "commit"
    BY <2>1, PlanNext DEF NextOf
  <2>5. pc' = [pc EXCEPT ![s] = "commit"] /\ pc'[s] = "commit"
    BY <2>1, <2>2 DEF BooksInv, TypeOKAll
  <2>3. EditingBooks(s)'
    BY <1>1, <1>2, <1>4, <2>5 DEF EditingBooks
  <2>4. /\ copy' = [copy EXCEPT ![s] = copy'[s]] /\ copy'[s] \in Object \cup {None}
        /\ draft' = [draft EXCEPT ![s] = draft'[s]] /\ draft'[s] \in Entry \cup {None}
    BY <1>1 DEF BooksInv, TypeOKAll
  <2>. QED
    BY <1>1, <1>2, <2>3, <2>4, <2>5, StatementBooks DEF PhasesAll
<1>5. CASE HandlingBooks(s)
  <2>1. job[s].op = "approve"
    BY <1>1, <1>5, WhoIsThere DEF BooksInv
  <2>2. ASSUME pc'[s] = NextOf("approve", seen[s].status, pc[s]) PROVE ApproveBooks(s)'
    <3>1. pc'[s] = "redemption_row"
      BY <1>1, <2>2 DEF NextOf
    <3>2. ApproveBooks(s)
      BY <1>5, <2>1 DEF HandlingBooks
    <3>3. (job[s].key \notin KeysOf(job[s].user))'
      BY <1>1, <3>2 DEF ApproveBooks, Paid, KeysOf
    <3>. QED
      BY <1>1, <1>2, <3>1, <3>2, <3>3 DEF ApproveBooks, Paid
  <2>. QED
    BY <1>1, <1>2, <1>5, <2>1, <2>2, ReadingBooks
<1>. QED
  BY <1>1, <1>3, <1>4, <1>5 DEF PostingBooks

LEMMA FlushRedemptionBooks ==
    ASSUME BooksInv, NEW s \in Sessions, FlushRedemption(s)
    PROVE  BooksInv'
<1>1. /\ pc[s] = "redemption_row" /\ Advance(s)
      /\ UNCHANGED <<wallet, ledger, locked_by, job, copy, draft, reward, redemption,
                     reward_locked_by, objectVars>>
      /\ redemption_locked_by' \in [Redemptions -> Sessions \cup {None}]
  BY DEF FlushRedemption, BooksInv, TypeOKAll
<1>2. /\ offer' = [offer EXCEPT ![s] = offer'[s]] /\ offer'[s] \in RewardObject \cup {None}
      /\ offer'[s] = offer[s] /\ seen' = seen
      /\ reward_locked_by' \in [Rewards -> Sessions \cup {None}]
  BY <1>1 DEF BooksInv, TypeOKAll, objectVars
<1>3. HandlingBooks(s)
  BY <1>1, WhoIsThere DEF BooksInv
<1>4. ASSUME job[s].op = "approve", pc'[s] = NextOf("approve", seen[s].status, pc[s])
      PROVE  ApproveBooks(s)'
  <2>1. pc'[s] = "commit"
    BY <1>1, <1>4 DEF NextOf
  <2>2. ApproveBooks(s)
    BY <1>3, <1>4 DEF HandlingBooks
  <2>3. (job[s].key \notin KeysOf(job[s].user))'
    BY <1>1, <2>2 DEF ApproveBooks, Paid, KeysOf
  <2>. QED
    BY <1>1, <1>2, <2>1, <2>2, <2>3 DEF ApproveBooks, Paid
<1>5. ASSUME job[s].op = "deliver", pc'[s] = NextOf("deliver", seen[s].status, pc[s])
      PROVE  DeliverBooks(s)'
  <2>1. pc'[s] = "commit"
    BY <1>1, <1>5 DEF NextOf
  <2>2. DeliverBooks(s)
    BY <1>3, <1>5 DEF HandlingBooks
  <2>3. (job[s].key \in KeysOf(job[s].user))' /\ (copy[s].read = RowOf(job[s].user))'
    BY <1>1, <2>2 DEF DeliverBooks, KeysOf, RowOf
  <2>. QED
    BY <1>1, <2>1, <2>2, <2>3 DEF DeliverBooks
<1>. QED
  BY <1>1, <1>2, <1>3, <1>4, <1>5, ReadingBooks

----------------------------------------------------------------------------
(* A commit                                                                *)

LEMMA WrittenColumns ==
    ASSUME NEW row \in Row, NEW object \in Object
    PROVE  /\ Written(row, object) \in Row
           /\ \A c \in Columns : Written(row, object)[c]
                = IF object.now[c] # object.read[c] THEN object.now[c] ELSE row[c]
           /\ object.now = object.read => Written(row, object) = row
<1>. DEFINE new == [c \in Columns |-> IF object.now[c] # object.read[c] THEN object.now[c] ELSE row[c]]
<1>1. DOMAIN row = Columns /\ \A c \in Columns : object.now[c] \in Int /\ row[c] \in Int
  BY DEF Row, Object
<1>2. Written(row, object) = new
  BY <1>1 DEF Written
<1>3. new \in Row
  BY <1>1 DEF Row
<1>4. object.now = object.read => new = row
  BY DEF Row
<1>. QED
  BY <1>2, <1>3, <1>4

LEMMA WrittenReward ==
    ASSUME NEW row \in RewardRow, NEW object \in RewardObject
    PROVE  Written(row, object) \in RewardRow
<1>. DEFINE Fields == {"status", "cost_points", "inventory_total", "inventory_remaining"}
            Value(c) == IF object.now[c] # object.read[c] THEN object.now[c] ELSE row[c]
<1>1. /\ DOMAIN row = Fields /\ object.now \in RewardRow
      /\ row.status \in RewardStatuses /\ row.cost_points \in Costs /\ row.inventory_total \in Totals
      /\ row.inventory_remaining \in Nat \cup {None}
  BY DEF RewardRow, RewardObject
<1>2. /\ object.now.status \in RewardStatuses /\ object.now.cost_points \in Costs
      /\ object.now.inventory_total \in Totals /\ object.now.inventory_remaining \in Nat \cup {None}
  BY <1>1 DEF RewardRow
<1>3. Written(row, object) = [c \in Fields |-> Value(c)]
  BY <1>1 DEF Written
<1>4. [c \in Fields |-> Value(c)]
        = [status |-> Value("status"), cost_points |-> Value("cost_points"),
           inventory_total |-> Value("inventory_total"),
           inventory_remaining |-> Value("inventory_remaining")]
  OBVIOUS
<1>5. /\ Value("status") \in RewardStatuses /\ Value("cost_points") \in Costs
      /\ Value("inventory_total") \in Totals /\ Value("inventory_remaining") \in Nat \cup {None}
  BY <1>1, <1>2
<1>. HIDE DEF Value, Fields
<1>. QED
  BY <1>3, <1>4, <1>5 DEF RewardRow

(* What a commit writes to wallets and ledgers.                            *)
LEMMA CommittedWallet ==
    ASSUME BooksInv, NEW s \in Sessions, CommitAll(s)
    PROVE  /\ copy[s] # None => job[s].user \in Users
           /\ draft[s] # None => copy[s] # None /\ locked_by[job[s].user] = s
           /\ wallet' \in [Users -> Row \cup {None}] /\ ledger' \in [Users -> Seq(Entry)]
           /\ \A v \in Users :
                /\ RowOf(v)' = IF copy[s] # None /\ v = job[s].user THEN Written(RowOf(v), copy[s])
                               ELSE RowOf(v)
                /\ ledger'[v] = IF draft[s] # None /\ v = job[s].user THEN Append(ledger[v], draft[s])
                                ELSE ledger[v]
<1>. DEFINE u == job[s].user
<1>1. pc[s] = "commit" /\ CommitRows(s)
  BY DEF CommitAll
<1>2. TypeOKAll /\ SessionBooks(s)
  BY DEF BooksInv
<1>3. /\ copy[s] # None => u \in Users
      /\ draft[s] # None => copy[s] # None /\ u \in Users /\ locked_by[u] = s
  <2>1. CASE PostingBooks(s)
    BY <1>1, <2>1 DEF PostingBooks
  <2>2. CASE EditingBooks(s)
    BY <2>2 DEF EditingBooks
  <2>3. CASE HandlingBooks(s)
    BY <1>1, <1>2, <2>3, HandledTypes DEF HandlingBooks, ApproveBooks, Paid
  <2>. QED
    BY <1>1, <1>2, <2>1, <2>2, <2>3 DEF SessionBooks
<1>4. CASE copy[s] = None
  <2>1. wallet' = wallet /\ ledger' = ledger
    BY <1>1, <1>3, <1>4 DEF CommitRows
  <2>. QED
    BY <1>2, <1>3, <1>4, <2>1 DEF TypeOKAll, RowOf
<1>5. CASE copy[s] # None
  <2>. DEFINE row == Written(RowOf(u), copy[s])
  <2>1. wallet' = [wallet EXCEPT ![u] = row]
    BY <1>1, <1>5 DEF CommitRows
  <2>2. row \in Row
    BY <1>2, <1>3, <1>5, WrittenColumns, RowIs DEF TypeOKAll
  <2>. HIDE DEF row
  <2>3. row # None
    BY <2>2, NoneAssumption
  <2>4. /\ wallet' \in [Users -> Row \cup {None}]
        /\ \A v \in Users : RowOf(v)' = IF v = u THEN row ELSE RowOf(v)
    BY <1>2, <1>3, <1>5, <2>1, <2>2, <2>3 DEF TypeOKAll, RowOf
  <2>5. \A v \in Users : ledger'[v] = IF draft[s] # None /\ v = u THEN Append(ledger[v], draft[s])
                                      ELSE ledger[v]
    BY <1>1, <1>2, <1>3 DEF CommitRows, TypeOKAll
  <2>6. ledger' = [v \in Users |-> ledger'[v]]
    BY <1>1, <1>2 DEF CommitRows, TypeOKAll
  <2>7. \A v \in Users : ledger[v] \in Seq(Entry)
    BY <1>2 DEF TypeOKAll
  <2>8. draft[s] # None => draft[s] \in Entry
    BY <1>2 DEF TypeOKAll
  <2>9. \A v \in Users : ledger'[v] \in Seq(Entry)
    BY <2>5, <2>7, <2>8, AppendProperties
  <2>. QED
    BY <1>3, <1>5, <2>4, <2>5, <2>6, <2>9 DEF row
<1>. QED
  BY <1>4, <1>5

(* The columns of the wallet a commit writes: the balance is the one the   *)
(* new entry ends with, and what was won or redeemed has been added to the *)
(* committed row.                                                          *)
LEMMA CommittedColumns ==
    ASSUME BooksInv, NEW s \in Sessions, CommitAll(s), copy[s] # None
    PROVE  LET u == job[s].user  old == RowOf(u)  new == Written(RowOf(u), copy[s])  e == draft[s]
           IN  /\ new["current_balance"]
                    = IF e = None THEN old["current_balance"] ELSE e.balance_after
               /\ new["total_earned"]
                    = old["total_earned"] + (IF e = None THEN 0 ELSE AtLeastZero(e.points))
               /\ new["redeemed_points"]
                    = old["redeemed_points"] + (IF job[s].op = "deliver" THEN job[s].points ELSE 0)
               /\ locked_by[u] # s => new = old
<1>. DEFINE u == job[s].user  old == RowOf(u)  new == Written(RowOf(u), copy[s])  e == draft[s]
            object == copy[s]
<1>1. pc[s] = "commit" /\ TypeOKAll /\ SessionBooks(s) /\ u \in Users
  BY CommittedWallet DEF CommitAll, BooksInv
<1>2. object \in Object /\ old \in Row /\ e \in Entry \cup {None}
  BY <1>1, RowIs DEF TypeOKAll
<1>3. /\ new \in Row
      /\ \A c \in Columns : new[c] = IF object.now[c] # object.read[c] THEN object.now[c] ELSE old[c]
      /\ object.now = object.read => new = old
  BY <1>2, WrittenColumns
<1>4. \A c \in Columns : old[c] \in Int /\ object.now[c] \in Int /\ object.read[c] \in Int
  BY <1>2 DEF Row, Object
<1>5. e # None => e.points \in Int /\ e.balance_before \in Int /\ e.balance_after \in Int
  BY <1>2 DEF Entry
<1>. HIDE DEF new, old
<1>6. CASE PostingBooks(s)
  <2>1. /\ job[s].op = "post" /\ locked_by[u] = s /\ object.read = old
        /\ e = None => object.now = object.read
        /\ e # None => /\ e.points # 0 /\ e.balance_after = old["current_balance"] + e.points
                       /\ object.now = Posted(old, e.points)
    BY <1>1, <1>6 DEF PostingBooks, old
  <2>2. CASE e = None
    <3>1. new = old /\ old["total_earned"] \in Int /\ old["redeemed_points"] \in Int
      BY <1>3, <1>4, <2>1, <2>2 DEF Columns
    <3>. QED
      BY <2>1, <2>2, <3>1 DEF new, old
  <2>3. CASE e # None
    <3>1. /\ object.now["current_balance"] = old["current_balance"] + e.points
          /\ object.now["total_earned"]
               = IF e.points > 0 THEN old["total_earned"] + e.points ELSE old["total_earned"]
          /\ object.now["redeemed_points"] = old["redeemed_points"]
      BY <1>2, <1>5, <2>1, <2>3 DEF Posted, Row, Columns
    <3>. QED
      <4>1. /\ new["current_balance"] = e.balance_after
            /\ new["total_earned"] = old["total_earned"] + AtLeastZero(e.points)
            /\ new["redeemed_points"] = old["redeemed_points"] + 0
        BY <1>3, <1>4, <1>5, <2>1, <2>3, <3>1 DEF Columns, AtLeastZero
      <4>. QED
        BY <2>1, <2>3, <4>1 DEF new, old
  <2>. QED
    BY <2>2, <2>3
<1>7. CASE HandlingBooks(s)
  <2>1. /\ e = None => object.now["current_balance"] = object.read["current_balance"]
        /\ object.now["total_earned"] = object.read["total_earned"]
        /\ job[s].op # "deliver" => object.now["redeemed_points"] = object.read["redeemed_points"]
        /\ locked_by[u] = s \/ object.now = object.read
        /\ e # None => job[s].op = "approve"
    BY <1>1, <1>7 DEF HandlingBooks, CopyBooks, Same
  <2>2. job[s].points \in Nat /\ job[s].points > 0
    BY <1>1, <1>7, HandledTypes
  <2>3. e # None => /\ e.points = -job[s].points
                    /\ e.balance_before = object.read["current_balance"]
                    /\ e.balance_after = e.balance_before + e.points
                    /\ e.balance_after = object.now["current_balance"]
    BY <1>1, <1>7, <2>1 DEF HandlingBooks, ApproveBooks, Paid
  <2>4. job[s].op = "deliver" =>
           /\ object.read = old
           /\ object.now["redeemed_points"] = object.read["redeemed_points"] + job[s].points
    BY <1>1, <1>7 DEF HandlingBooks, DeliverBooks, old
  <2>5. new["current_balance"] = IF e = None THEN old["current_balance"] ELSE e.balance_after
    BY <1>3, <1>4, <1>5, <2>1, <2>2, <2>3 DEF Columns
  <2>6. new["total_earned"] = old["total_earned"] + (IF e = None THEN 0 ELSE AtLeastZero(e.points))
    BY <1>3, <1>4, <1>5, <2>1, <2>2, <2>3 DEF Columns, AtLeastZero
  <2>7. new["redeemed_points"]
          = old["redeemed_points"] + (IF job[s].op = "deliver" THEN job[s].points ELSE 0)
    BY <1>3, <1>4, <2>1, <2>2, <2>4 DEF Columns
  <2>. QED
    BY <1>3, <2>1, <2>5, <2>6, <2>7 DEF new, old
<1>. QED
  BY <1>1, <1>6, <1>7 DEF SessionBooks, EditingBooks, new, old

(* What a commit writes to rewards and requests: a request keeps its user  *)
(* and its price, and only its own handler changes its status.             *)
LEMMA CommittedRequests ==
    ASSUME BooksInv, NEW s \in Sessions, CommitAll(s)
    PROVE  /\ reward' \in [Rewards -> RewardRow \cup {None}]
           /\ \A w \in Rewards : reward[w] # None => reward'[w] # None
           /\ redemption' \in [Redemptions -> RedemptionRow \cup {None}]
           /\ \A q \in Redemptions : redemption'[q] # redemption[q] => HandlingBooks(s) /\ q = job[s].key
           /\ HandlingBooks(s) =>
                LET q == job[s].key
                IN  /\ q \in Redemptions /\ redemption'[q] # None
                    /\ redemption'[q].user = job[s].user /\ redemption'[q].reward \in Rewards
                    /\ reward[redemption'[q].reward] # None
                    /\ redemption'[q].cost_points_snapshot = job[s].points
                    /\ redemption'[q].status
                         = IF job[s].op = "create" THEN seen[s].status ELSE Target[job[s].op]
                    /\ redemption[q] # None =>
                         /\ redemption[q].user = job[s].user
                         /\ redemption[q].cost_points_snapshot = job[s].points
<1>1. TypeOKAll /\ SessionBooks(s) /\ pc[s] = "commit" /\ Books
  BY DEF BooksInv, CommitAll
<1>2. /\ reward' \in [Rewards -> RewardRow \cup {None}]
      /\ \A w \in Rewards : reward[w] # None => reward'[w] # None
  <2>1. CASE offer[s] = None
    BY <1>1, <2>1 DEF CommitAll, TypeOKAll
  <2>2. CASE offer[s] # None
    <3>. DEFINE w == offer[s].id  row == Written(reward[w], offer[s])
    <3>1. offer[s] \in RewardObject /\ w \in Rewards
      BY <1>1, <2>2 DEF TypeOKAll, RewardObject
    <3>2. reward[w] # None
      <4>1. CASE PostingBooks(s)
        BY <2>2, <4>1 DEF PostingBooks
      <4>2. CASE EditingBooks(s)
        BY <4>2 DEF EditingBooks
      <4>3. CASE HandlingBooks(s)
        BY <1>1, <2>2, <4>3 DEF HandlingBooks, ApproveBooks
      <4>. QED
        BY <1>1, <4>1, <4>2, <4>3 DEF SessionBooks
    <3>3. row \in RewardRow
      BY <1>1, <3>1, <3>2, WrittenReward DEF TypeOKAll
    <3>4. reward' = [reward EXCEPT ![w] = row]
      BY <2>2 DEF CommitAll
    <3>5. row # None
      BY <3>3, NoRowAssumption
    <3>. HIDE DEF row, w
    <3>. QED
      BY <1>1, <3>1, <3>3, <3>4, <3>5 DEF TypeOKAll
  <2>. QED
    BY <2>1, <2>2
<1>3. CASE seen[s] = None
  <2>1. redemption' = redemption /\ ~HandlingBooks(s)
    BY <1>3 DEF CommitAll, HandlingBooks
  <2>. QED
    BY <1>1, <1>2, <2>1 DEF TypeOKAll
<1>4. CASE seen[s] # None
  <2>. DEFINE q == job[s].key
              row == IF job[s].op = "create" THEN seen[s]
                     ELSE [redemption[q] EXCEPT !.status = Target[job[s].op]]
  <2>1. HandlingBooks(s)
    BY <1>1, <1>4 DEF SessionBooks, PostingBooks, EditingBooks
  <2>2. q \in Redemptions /\ seen[s] \in RedemptionRow /\ redemption[q] \in RedemptionRow \cup {None}
    BY <1>1, <2>1, HandledTypes DEF TypeOKAll
  <2>3. redemption' = [redemption EXCEPT ![q] = row]
    BY <1>4 DEF CommitAll, Op
  <2>4. CASE job[s].op = "create"
    <3>1. row = seen[s] /\ redemption[q] = None
      BY <2>1, <2>4 DEF HandlingBooks
    <3>2. /\ row.user = job[s].user /\ row.reward \in Rewards /\ reward[row.reward] # None
          /\ row.cost_points_snapshot = job[s].points /\ row.status = seen[s].status
      BY <2>1, <2>2, <3>1 DEF HandlingBooks, RedemptionRow
    <3>. HIDE DEF row
    <3>3. redemption'[q] = row /\ \A p \in Redemptions : p # q => redemption'[p] = redemption[p]
      BY <1>1, <2>2, <2>3 DEF TypeOKAll
    <3>4. redemption' \in [Redemptions -> RedemptionRow \cup {None}]
      BY <1>1, <2>2, <2>3, <3>1 DEF TypeOKAll
    <3>. QED
      BY <1>2, <1>4, <2>1, <2>2, <2>4, <3>1, <3>2, <3>3, <3>4
  <2>5. CASE job[s].op # "create"
    <3>1. /\ redemption[q] # None /\ redemption[q].user = job[s].user
          /\ redemption[q].cost_points_snapshot = job[s].points
      BY <2>1, <2>5 DEF HandlingBooks, Cost
    <3>2. redemption[q] \in RedemptionRow /\ q \in Existing
      BY <2>2, <3>1 DEF Existing
    <3>3. Target[job[s].op] \in RedemptionStatuses
      <4>1. job[s].op \in {"submit", "cancel", "review", "approve", "reject", "deliver"}
        BY <2>1, <2>5 DEF HandlingBooks, Handlers
      <4>. QED
        BY <4>1 DEF Target, RedemptionStatuses, REDEMPTION_TRANSITIONS
    <3>4. row = [redemption[q] EXCEPT !.status = Target[job[s].op]]
      BY <2>5
    <3>5. /\ row \in RedemptionRow /\ row.user = redemption[q].user
          /\ row.reward = redemption[q].reward /\ row.status = Target[job[s].op]
          /\ row.cost_points_snapshot = redemption[q].cost_points_snapshot
      BY <3>2, <3>3, <3>4 DEF RedemptionRow
    <3>6. row.reward \in Rewards /\ reward[row.reward] # None
      BY <1>1, <3>2, <3>5 DEF Books, RedemptionRow
    <3>. HIDE DEF row
    <3>7. row # None
      BY <3>5, NoRowAssumption
    <3>8. redemption'[q] = row /\ \A p \in Redemptions : p # q => redemption'[p] = redemption[p]
      BY <1>1, <2>2, <2>3 DEF TypeOKAll
    <3>9. redemption' \in [Redemptions -> RedemptionRow \cup {None}]
      BY <1>1, <2>2, <2>3, <3>5 DEF TypeOKAll
    <3>. QED
      BY <1>2, <2>1, <2>2, <2>5, <3>1, <3>5, <3>6, <3>7, <3>8, <3>9
  <2>. QED
    BY <2>4, <2>5
<1>. QED
  BY <1>3, <1>4

(* The entries of a ledger after a commit.                                 *)
LEMMA CommittedEntries ==
    ASSUME BooksInv, NEW s \in Sessions, CommitAll(s), NEW v \in Users
    PROVE  /\ KeysOf(v)' = KeysOf(v) \cup
                 (IF draft[s] # None /\ v = job[s].user THEN {draft[s].key} ELSE {})
           /\ DOMAIN ledger[v] \subseteq DOMAIN ledger'[v]
           /\ \A i \in DOMAIN ledger[v] : ledger'[v][i] = ledger[v][i]
           /\ \A i \in DOMAIN ledger'[v] \ DOMAIN ledger[v] :
                 draft[s] # None /\ v = job[s].user /\ ledger'[v][i] = draft[s]
<1>1. ledger'[v] = IF draft[s] # None /\ v = job[s].user THEN Append(ledger[v], draft[s]) ELSE ledger[v]
  BY CommittedWallet
<1>2. CASE ~(draft[s] # None /\ v = job[s].user)
  BY <1>1, <1>2 DEF KeysOf
<1>3. CASE draft[s] # None /\ v = job[s].user
  <2>. DEFINE n == Len(ledger[v])
  <2>1. ledger[v] \in Seq(Entry) /\ draft[s] \in Entry
    BY <1>3 DEF BooksInv, TypeOKAll
  <2>2. /\ n \in Nat /\ DOMAIN ledger[v] = 1 .. n /\ DOMAIN ledger'[v] = 1 .. (n + 1)
        /\ \A i \in 1 .. n : ledger'[v][i] = ledger[v][i]
        /\ ledger'[v][n + 1] = draft[s]
    BY <1>1, <1>3, <2>1, AppendProperties, LenProperties
  <2>. HIDE DEF n
  <2>3. 1 .. (n + 1) = (1 .. n) \cup {n + 1} /\ n + 1 \notin 1 .. n
    BY <2>2
  <2>4. KeysOf(v)' = KeysOf(v) \cup {draft[s].key}
    BY <2>2, <2>3 DEF KeysOf
  <2>. QED
    BY <1>3, <2>2, <2>3, <2>4
<1>. QED
  BY <1>2, <1>3

(* A commit does not disturb the other sessions.                           *)
LEMMA CommitDisturbsNobody ==
    ASSUME BooksInv, NEW s \in Sessions, CommitAll(s), NEW t \in Sessions \ {s}
    PROVE  Undisturbed(t)
<1>1. TypeOKAll /\ SessionBooks(s) /\ SessionBooks(t) /\ CreatedByOne /\ pc[s] = "commit"
      /\ EndSession(s) /\ Close(s)
  BY DEF BooksInv, CommitAll, CommitRows
<1>2. StepOf(s)
  BY <1>1, SessionEnds
<1>3. /\ pc'[t] = pc[t] /\ job'[t] = job[t] /\ copy'[t] = copy[t]
      /\ draft'[t] = draft[t] /\ offer'[t] = offer[t] /\ seen'[t] = seen[t]
  BY <1>1, <1>2, OthersAsTheyWere
<1>4. ASSUME NEW u \in Users, locked_by[u] = t
      PROVE  locked_by'[u] = t /\ RowOf(u)' = RowOf(u) /\ KeysOf(u)' = KeysOf(u)
  <2>1. locked_by'[u] = t
    BY <1>2, <1>4 DEF StepOf
  <2>2. copy[s] # None /\ u = job[s].user => Written(RowOf(u), copy[s]) = RowOf(u)
    BY <1>4, CommittedColumns
  <2>3. draft[s] # None => u # job[s].user
    BY <1>4, CommittedWallet
  <2>4. RowOf(u)' = RowOf(u)
    BY <2>2, CommittedWallet
  <2>5. KeysOf(u)' = KeysOf(u) \cup {}
    BY <2>3, CommittedEntries
  <2>. QED
    BY <2>1, <2>4, <2>5
<1>5. \A u \in Users : KeysOf(u) \subseteq KeysOf(u)'
  BY CommittedEntries
<1>6. \A q \in Existing : /\ redemption'[q] # None /\ redemption'[q].user = redemption[q].user
                          /\ Cost(q)' = Cost(q)
  BY CommittedRequests DEF Existing, Cost
<1>7. ASSUME pc[t] # "idle", job[t].op = "create"
      PROVE  redemption'[job[t].key] = redemption[job[t].key]
  <2>1. HandlingBooks(t)
    BY <1>1, <1>7, WhoIsThere DEF Handlers
  <2>2. job[t].key \in Redemptions /\ redemption[job[t].key] = None
    BY <1>7, <2>1 DEF HandlingBooks
  <2>3. HandlingBooks(s) => job[s].key # job[t].key
    BY <1>1, <1>7, <2>2 DEF HandlingBooks, CreatedByOne
  <2>. QED
    BY <2>2, <2>3, CommittedRequests
<1>. QED
  BY <1>3, <1>4, <1>5, <1>6, <1>7, CommittedRequests DEF Undisturbed

(* One more entry adds its points to what the ledger says was won.         *)
LEMMA EarnedAppend ==
    ASSUME NEW entries \in Seq(Entry), NEW e \in Entry
    PROVE  SumFunction([i \in DOMAIN Append(entries, e) |-> AtLeastZero(Append(entries, e)[i].points)])
             = SumFunction([i \in DOMAIN entries |-> AtLeastZero(entries[i].points)])
               + AtLeastZero(e.points)
<1>. DEFINE longer == Append(entries, e)
            n == Len(entries)
            f == [i \in DOMAIN longer |-> AtLeastZero(longer[i].points)]
            g == [i \in DOMAIN entries |-> AtLeastZero(entries[i].points)]
<1>1. /\ longer \in Seq(Entry) /\ n \in Nat
      /\ DOMAIN longer = 1 .. (n + 1) /\ DOMAIN entries = 1 .. n
      /\ \A i \in 1 .. n : longer[i] = entries[i]
      /\ longer[n + 1] = e
  BY AppendProperties, LenProperties
<1>. HIDE DEF n, longer
<1>2. \A i \in 1 .. (n + 1) : longer[i] \in Entry
  BY <1>1, ElementOfSeq
<1>3. \A m \in Int : AtLeastZero(m) \in Int
  BY DEF AtLeastZero
<1>4. DOMAIN f = 1 .. (n + 1) /\ \A i \in 1 .. (n + 1) : f[i] \in Int
  BY <1>1, <1>2, <1>3 DEF Entry
<1>5. f[n + 1] = AtLeastZero(e.points) /\ f[n + 1] \in Int /\ n + 1 \in 1 .. (n + 1)
  BY <1>1, <1>4
<1>6. DOMAIN g = 1 .. n /\ \A i \in 1 .. n : f[i] = g[i]
  BY <1>1
<1>. HIDE DEF f, g
<1>7. IsFiniteSet(1 .. (n + 1)) /\ IsFiniteSet(1 .. n)
  BY <1>1, FS_Interval
<1>8. (1 .. (n + 1)) \ {n + 1} = 1 .. n
  BY <1>1
<1>9. /\ SumFunction(f) = f[n + 1] + SumFunctionOnSet(f, 1 .. n)
      /\ SumFunctionOnSet(f, 1 .. n) \in Int
  <2>1. \A i \in 1 .. n : f[i] \in Int
    BY <1>1, <1>4
  <2>2. SumFunctionOnSet(f, 1 .. n) \in Int
    BY <1>7, <2>1, SumOfIntegers
  <2>3. SumFunctionOnSet(f, 1 .. (n + 1)) = f[n + 1] + SumFunctionOnSet(f, (1 .. (n + 1)) \ {n + 1})
    BY <1>4, <1>5, <1>7, SumRemove
  <2>4. SumFunction(f) = SumFunctionOnSet(f, 1 .. (n + 1))
    BY <1>4 DEF SumFunction
  <2>. QED
    BY <1>8, <2>2, <2>3, <2>4
<1>10. SumFunctionOnSet(f, 1 .. n) = SumFunctionOnSet(g, 1 .. n)
  BY <1>6, <1>7, SumCongruence
<1>11. SumFunction(g) = SumFunctionOnSet(g, 1 .. n)
  BY <1>6 DEF SumFunction
<1>12. SumFunction(f) = SumFunction(g) + AtLeastZero(e.points)
  BY <1>5, <1>9, <1>10, <1>11
<1>. QED
  BY <1>12 DEF f, g, longer

(* A sum that changes in one element moves by the change of that element.  *)
LEMMA SumMoves ==
    ASSUME NEW f, IsFiniteSet(DOMAIN f), \A x \in DOMAIN f : f[x] \in Nat,
           NEW g, IsFiniteSet(DOMAIN g), \A x \in DOMAIN g : g[x] \in Nat,
           NEW r, (DOMAIN f) \ {r} = (DOMAIN g) \ {r},
           \A x \in DOMAIN f : x # r => g[x] = f[x]
    PROVE  /\ SumFunction(f) \in Nat /\ SumFunction(g) \in Nat
           /\ SumFunction(g) + (IF r \in DOMAIN f THEN f[r] ELSE 0)
                = SumFunction(f) + (IF r \in DOMAIN g THEN g[r] ELSE 0)
<1>. DEFINE S == DOMAIN f  T == DOMAIN g  R == S \ {r}
<1>1. /\ SumFunction(f) = SumFunctionOnSet(f, S)
      /\ SumFunction(g) = SumFunctionOnSet(g, T)
  BY DEF SumFunction
<1>2. SumFunctionOnSet(f, S) \in Nat /\ SumFunctionOnSet(g, T) \in Nat
  BY SumOfNaturals
<1>3. IsFiniteSet(R)
  BY FS_RemoveElement
<1>4. SumFunctionOnSet(f, R) = SumFunctionOnSet(g, R)
  BY <1>3, SumCongruence
<1>5. SumFunctionOnSet(f, R) \in Nat
  BY <1>3, SumOfNaturals
<1>6. SumFunctionOnSet(f, S) = (IF r \in S THEN f[r] ELSE 0) + SumFunctionOnSet(f, R)
  <2>1. CASE r \in S
    <3>1. \A x \in S : f[x] \in Int
      OBVIOUS
    <3>. QED
      BY <2>1, <3>1, SumRemove
  <2>2. CASE r \notin S
    <3>1. R = S
      BY <2>2
    <3>. QED
      BY <1>5, <2>2, <3>1
  <2>. QED
    BY <2>1, <2>2
<1>7. SumFunctionOnSet(g, T) = (IF r \in T THEN g[r] ELSE 0) + SumFunctionOnSet(g, R)
  <2>0. T \ {r} = R
    OBVIOUS
  <2>1. CASE r \in T
    <3>1. \A x \in T : g[x] \in Int
      OBVIOUS
    <3>. QED
      BY <2>0, <2>1, <3>1, SumRemove
  <2>2. CASE r \notin T
    <3>1. R = T
      BY <2>0, <2>2
    <3>. QED
      BY <1>4, <1>5, <2>2, <3>1
  <2>. QED
    BY <2>1, <2>2
<1>8. (r \in S => f[r] \in Nat) /\ (r \in T => g[r] \in Nat)
  OBVIOUS
<1>. HIDE DEF S, T, R
<1>9. SumFunctionOnSet(g, T) + (IF r \in S THEN f[r] ELSE 0)
        = SumFunctionOnSet(f, S) + (IF r \in T THEN g[r] ELSE 0)
  BY <1>4, <1>5, <1>6, <1>7, <1>8
<1>. QED
  BY <1>1, <1>2, <1>9 DEF S, T

Delivered(u) == Of(u) \cap InStatus({"delivered"})

(* A commit adds at most its own request to the requests that exist.       *)
LEMMA ExistingAfter ==
    ASSUME BooksInv, NEW s \in Sessions, CommitAll(s)
    PROVE  /\ IsFiniteSet(Existing) /\ IsFiniteSet(Existing')
           /\ \A q \in Existing : q \in Existing' /\ Cost(q) \in Nat
           /\ \A q \in Existing' : Cost(q)' \in Nat
           /\ HandlingBooks(s) => Existing' = Existing \cup {job[s].key}
           /\ ~HandlingBooks(s) => Existing' = Existing
           /\ \A q \in Existing : ~(HandlingBooks(s) /\ q = job[s].key) =>
                 redemption'[q] = redemption[q]
<1>1. IsFiniteSet(Existing) /\ TypeOKAll
  BY DEF BooksInv, Books
<1>2. \A q \in Existing : Cost(q) \in Nat
  BY <1>1 DEF Existing, Cost, TypeOKAll, RedemptionRow
<1>3. redemption' \in [Redemptions -> RedemptionRow \cup {None}]
  BY CommittedRequests
<1>4. \A q \in Existing' : Cost(q)' \in Nat
  BY <1>3 DEF Existing, Cost, RedemptionRow
<1>5. \A q \in Redemptions : redemption'[q] # redemption[q] => HandlingBooks(s) /\ q = job[s].key
  BY CommittedRequests
<1>6. HandlingBooks(s) => Existing' = Existing \cup {job[s].key}
  <2>. SUFFICES ASSUME HandlingBooks(s) PROVE Existing' = Existing \cup {job[s].key}
    OBVIOUS
  <2>1. job[s].key \in Redemptions /\ redemption'[job[s].key] # None
    BY CommittedRequests
  <2>. QED
    BY <1>5, <2>1 DEF Existing
<1>7. ~HandlingBooks(s) => Existing' = Existing
  BY <1>5 DEF Existing
<1>8. IsFiniteSet(Existing')
  BY <1>1, <1>6, <1>7, FS_AddElement
<1>9. \A q \in Existing : ~(HandlingBooks(s) /\ q = job[s].key) => redemption'[q] = redemption[q]
  BY <1>5 DEF Existing
<1>10. \A q \in Existing : q \in Existing'
  BY <1>6, <1>7
<1>. QED
  BY <1>1, <1>2, <1>4, <1>6, <1>7, <1>8, <1>9, <1>10

(* A commit moves the points of the requests of a user in some statuses by *)
(* those of its own request.                                               *)
LEMMA TotalAfter ==
    ASSUME BooksInv, NEW s \in Sessions, CommitAll(s), NEW v \in Users, NEW statuses,
           NEW r, r = job[s].key
    PROVE  LET rs == Of(v) \cap InStatus(statuses)
           IN  /\ TotalCost(rs) \in Nat /\ TotalCost(rs)' \in Nat
               /\ r \in rs => Cost(r) \in Nat
               /\ r \in rs' => Cost(r)' \in Nat
               /\ TotalCost(rs)' + (IF r \in rs THEN Cost(r) ELSE 0)
                    = TotalCost(rs) + (IF r \in rs' THEN Cost(r)' ELSE 0)
<1>. DEFINE rs == Of(v) \cap InStatus(statuses)
            f == [q \in rs |-> Cost(q)]
            g == [q \in rs' |-> Cost(q)']
<1>1. TotalCost(rs) = SumFunction(f) /\ TotalCost(rs)' = SumFunction(g)
  BY DEF TotalCost
<1>2. rs \subseteq Existing /\ rs' \subseteq Existing'
  BY DEF Of, InStatus
<1>3. IsFiniteSet(rs) /\ IsFiniteSet(rs')
  BY <1>2, ExistingAfter, FS_Subset
<1>4. /\ \A q \in rs : f[q] = Cost(q) /\ f[q] \in Nat
      /\ \A q \in rs' : g[q] = Cost(q)' /\ g[q] \in Nat
      /\ DOMAIN f = rs /\ DOMAIN g = rs'
  BY <1>2, ExistingAfter
<1>5. \A q \in Redemptions : q # r => redemption'[q] = redemption[q]
  BY CommittedRequests
<1>6. rs \ {r} = rs' \ {r}
  BY <1>5 DEF Of, InStatus, Existing
<1>7. \A q \in rs : q # r => g[q] = f[q]
  <2>. SUFFICES ASSUME NEW q \in rs, q # r PROVE g[q] = f[q]
    OBVIOUS
  <2>1. q \in rs' /\ q \in Redemptions
    BY <1>2, <1>6 DEF Existing
  <2>2. Cost(q)' = Cost(q)
    BY <1>5, <2>1 DEF Cost
  <2>. QED
    BY <1>4, <2>1, <2>2
<1>. HIDE DEF f, g
<1>8. /\ SumFunction(f) \in Nat /\ SumFunction(g) \in Nat
      /\ SumFunction(g) + (IF r \in DOMAIN f THEN f[r] ELSE 0)
           = SumFunction(f) + (IF r \in DOMAIN g THEN g[r] ELSE 0)
  <2>1. IsFiniteSet(DOMAIN f) /\ IsFiniteSet(DOMAIN g) /\ (DOMAIN f) \ {r} = (DOMAIN g) \ {r}
    BY <1>3, <1>4, <1>6
  <2>2. \A q \in DOMAIN f : q # r => g[q] = f[q]
    BY <1>4, <1>7
  <2>3. (\A q \in DOMAIN f : f[q] \in Nat) /\ \A q \in DOMAIN g : g[q] \in Nat
    BY <1>4
  <2>. QED
    BY <2>1, <2>2, <2>3, SumMoves
<1>. HIDE DEF rs
<1>9. /\ TotalCost(rs) \in Nat /\ TotalCost(rs)' \in Nat
      /\ r \in rs => Cost(r) \in Nat
      /\ r \in rs' => Cost(r)' \in Nat
      /\ TotalCost(rs)' + (IF r \in rs THEN Cost(r) ELSE 0)
           = TotalCost(rs) + (IF r \in rs' THEN Cost(r)' ELSE 0)
  BY <1>1, <1>4, <1>8
<1>. QED
  BY <1>9 DEF rs

(* Who gets a request delivered is credited with its points in the same    *)
(* transaction, on the row that mark_redeemed has locked.                  *)
LEMMA CommitCoversDelivered ==
    ASSUME BooksInv, NEW s \in Sessions, CommitAll(s), NEW v \in Users
    PROVE  RowOf(v)'["redeemed_points"] >= TotalCost(Delivered(v))'
<1>. DEFINE before == TotalCost(Delivered(v))  after == TotalCost(Delivered(v))'
<1>1. PICK r : r = job[s].key
  OBVIOUS
<1>2. Delivered(v) \subseteq Existing /\ Delivered(v)' \subseteq Existing'
  BY DEF Delivered, Of, InStatus
<1>3. RowOf(v)["redeemed_points"] >= before
  BY DEF BooksInv, Books, RedeemedCoversDelivered, Delivered
<1>4. \A q \in Redemptions : q # r => redemption'[q] = redemption[q]
  BY <1>1, CommittedRequests
<1>5. /\ before \in Nat /\ after \in Nat
      /\ r \in Delivered(v) => Cost(r) \in Nat
      /\ r \in Delivered(v)' => Cost(r)' \in Nat
      /\ after + (IF r \in Delivered(v) THEN Cost(r) ELSE 0)
           = before + (IF r \in Delivered(v)' THEN Cost(r)' ELSE 0)
  BY <1>1, TotalAfter DEF Delivered
<1>. HIDE DEF before, after
<1>6. RowOf(v)["redeemed_points"] \in Int
  BY RowIs DEF BooksInv, Row, Columns
<1>7. CASE r \in Delivered(v)' /\ r \notin Delivered(v)
  <2>1. HandlingBooks(s) /\ redemption'[r] # redemption[r]
    BY <1>1, <1>2, <1>4, <1>7, CommittedRequests DEF Delivered, Of, InStatus, Existing
  <2>2. /\ redemption'[r].user = job[s].user /\ Cost(r)' = job[s].points
        /\ redemption'[r].status = IF job[s].op = "create" THEN seen[s].status ELSE Target[job[s].op]
    BY <1>1, <2>1, CommittedRequests DEF Cost
  <2>3. redemption'[r].user = v /\ redemption'[r].status = "delivered"
    BY <1>7 DEF Delivered, Of, InStatus, Existing
  <2>4. job[s].op = "deliver"
    <3>1. job[s].op = "create" => seen[s].status # "delivered"
      BY <2>1 DEF HandlingBooks
    <3>2. job[s].op \in Handlers
      BY <2>1 DEF HandlingBooks
    <3>. QED
      BY <2>2, <2>3, <3>1, <3>2 DEF Handlers, Target
  <2>5. copy[s] # None
    BY <2>1, <2>4 DEF HandlingBooks, DeliverBooks, CommitAll
  <2>6. v = job[s].user /\ Cost(r)' = job[s].points
    BY <2>2, <2>3
  <2>7. RowOf(v)'["redeemed_points"] = RowOf(v)["redeemed_points"] + job[s].points
    BY <2>4, <2>5, <2>6, CommittedWallet, CommittedColumns
  <2>8. job[s].points \in Nat
    BY <2>1, HandledTypes DEF BooksInv
  <2>9. after = before + job[s].points
    BY <1>5, <1>7, <2>6, <2>8
  <2>. QED
    BY <1>3, <1>5, <1>6, <2>7, <2>8, <2>9 DEF after
<1>8. CASE ~(r \in Delivered(v)' /\ r \notin Delivered(v))
  <2>1. after <= before
    <3>1. CASE r \notin Delivered(v)'
      BY <1>5, <3>1
    <3>2. CASE r \in Delivered(v)' /\ r \in Delivered(v)
      <4>1. Cost(r)' = Cost(r)
        BY <1>1, <1>2, <3>2, CommittedRequests, ExistingAfter DEF Cost, Existing
      <4>. QED
        BY <1>5, <3>2, <4>1
    <3>. QED
      BY <1>8, <3>1, <3>2
  <2>2. RowOf(v)'["redeemed_points"] >= RowOf(v)["redeemed_points"]
    <3>1. CASE copy[s] # None /\ v = job[s].user
      <4>1. job[s].op = "deliver" => job[s].points \in Nat
        <5>1. SessionBooks(s) /\ TypeOKAll
          BY DEF BooksInv
        <5>2. job[s].op = "deliver" => HandlingBooks(s)
          BY <5>1, WhoIsThere DEF Handlers, CommitAll
        <5>. QED
          BY <5>1, <5>2, HandledTypes
      <4>2. RowOf(v)'["redeemed_points"] = RowOf(v)["redeemed_points"]
              + (IF job[s].op = "deliver" THEN job[s].points ELSE 0)
        BY <3>1, CommittedWallet, CommittedColumns
      <4>. QED
        BY <1>6, <4>1, <4>2
    <3>2. CASE ~(copy[s] # None /\ v = job[s].user)
      <4>1. RowOf(v)' = RowOf(v)
        BY <3>2, CommittedWallet
      <4>. QED
        BY <1>6, <4>1
    <3>. QED
      BY <3>1, <3>2
  <2>3. RowOf(v)'["redeemed_points"] \in Int
    BY CommittedWallet DEF RowOf, ZeroRow, Row, Columns
  <2>. QED
    BY <1>3, <1>5, <1>6, <2>1, <2>2, <2>3 DEF after
<1>. QED
  BY <1>7, <1>8

(* A new entry pays for the request that a handler approves, or is an      *)
(* award or a manual transaction; its key is new in its ledger.            *)
LEMMA CommittedPayment ==
    ASSUME BooksInv, NEW s \in Sessions, CommitAll(s), draft[s] # None
    PROVE  LET u == job[s].user  e == draft[s]
           IN  /\ u \in Users /\ e \in Entry /\ e.key \notin KeysOf(u)
               /\ e.key \in Redemptions =>
                    /\ HandlingBooks(s) /\ e.key = job[s].key /\ e.key \in Existing
                    /\ redemption[e.key].user = u
                    /\ e.points = -Cost(e.key) /\ e.balance_after >= 0
<1>1. pc[s] = "commit" /\ SessionBooks(s) /\ TypeOKAll
  BY DEF BooksInv, CommitAll
<1>2. job[s].user \in Users /\ draft[s] \in Entry
  BY <1>1, CommittedWallet DEF TypeOKAll
<1>3. CASE PostingBooks(s)
  BY <1>1, <1>2, <1>3 DEF PostingBooks
<1>4. CASE HandlingBooks(s)
  <2>1. job[s].op = "approve" /\ ApproveBooks(s) /\ pc[s] \in Paid
    BY <1>1, <1>4 DEF HandlingBooks, Paid
  <2>2. /\ job[s].key \in Redemptions /\ redemption[job[s].key] # None
        /\ redemption[job[s].key].user = job[s].user /\ Cost(job[s].key) = job[s].points
    BY <1>4, <2>1 DEF HandlingBooks
  <2>3. /\ draft[s].key = job[s].key /\ draft[s].key \notin KeysOf(job[s].user)
        /\ draft[s].points = -job[s].points /\ draft[s].balance_after >= 0
    BY <2>1 DEF ApproveBooks
  <2>. QED
    BY <1>2, <1>4, <2>2, <2>3 DEF Existing
<1>. QED
  BY <1>1, <1>3, <1>4 DEF SessionBooks, EditingBooks

(* The balance and what was won follow the new entry.                      *)
LEMMA CommitKeepsSums ==
    ASSUME BooksInv, NEW s \in Sessions, CommitAll(s), NEW v \in Users
    PROVE  /\ PL!OncePerKey(ledger'[v])
           /\ RowOf(v)'["current_balance"] = PL!BalanceAfter(ledger'[v], Len(ledger'[v]))
           /\ RowOf(v)'["total_earned"]
                = SumFunction([i \in DOMAIN ledger'[v] |-> AtLeastZero(ledger'[v][i].points)])
<1>1. /\ PL!OncePerKey(ledger[v])
      /\ RowOf(v)["current_balance"] = PL!BalanceAfter(ledger[v], Len(ledger[v]))
      /\ RowOf(v)["total_earned"]
           = SumFunction([i \in DOMAIN ledger[v] |-> AtLeastZero(ledger[v][i].points)])
  BY DEF BooksInv, Books, BalanceIsLastEntry, EarnedMatchesLedger, Balance
<1>2. ledger[v] \in Seq(Entry)
  BY DEF BooksInv, TypeOKAll
<1>3. RowOf(v)["total_earned"] \in Int /\ RowOf(v)["current_balance"] \in Int
  BY RowIs DEF BooksInv, Row, Columns
<1>4. CASE draft[s] # None /\ v = job[s].user
  <2>. DEFINE e == draft[s]
  <2>1. e \in Entry /\ e.key \notin KeysOf(v)
    BY <1>4, CommittedPayment
  <2>2. ledger'[v] = Append(ledger[v], e) /\ copy[s] # None
    BY <1>4, CommittedWallet
  <2>3. /\ RowOf(v)'["current_balance"] = e.balance_after
        /\ RowOf(v)'["total_earned"] = RowOf(v)["total_earned"] + AtLeastZero(e.points)
    BY <1>4, <2>2, CommittedWallet, CommittedColumns
  <2>. HIDE DEF e
  <2>4. PL!OncePerKey(Append(ledger[v], e))
    BY <1>1, <1>2, <2>1, AppendOncePerKey DEF KeysOf
  <2>5. PL!BalanceAfter(Append(ledger[v], e), Len(Append(ledger[v], e))) = e.balance_after
    <3>1. /\ Len(Append(ledger[v], e)) = Len(ledger[v]) + 1 /\ Len(ledger[v]) \in Nat
          /\ Append(ledger[v], e)[Len(ledger[v]) + 1] = e
      BY <1>2, <2>1, AppendProperties, LenProperties
    <3>. QED
      BY <3>1 DEF PL!BalanceAfter
  <2>6. SumFunction([i \in DOMAIN Append(ledger[v], e) |-> AtLeastZero(Append(ledger[v], e)[i].points)])
          = SumFunction([i \in DOMAIN ledger[v] |-> AtLeastZero(ledger[v][i].points)])
            + AtLeastZero(e.points)
    BY <1>2, <2>1, EarnedAppend
  <2>. QED
    BY <1>1, <2>2, <2>3, <2>4, <2>5, <2>6
<1>5. CASE ~(draft[s] # None /\ v = job[s].user)
  <2>1. ledger'[v] = ledger[v]
    BY <1>5, CommittedWallet
  <2>2. /\ RowOf(v)'["current_balance"] = RowOf(v)["current_balance"]
        /\ RowOf(v)'["total_earned"] = RowOf(v)["total_earned"]
    BY <1>3, <1>5, CommittedWallet, CommittedColumns
  <2>. QED
    BY <1>1, <2>1, <2>2
<1>. QED
  BY <1>4, <1>5

(* An entry under the key of a request goes on paying for it.              *)
LEMMA CommitKeepsPayments ==
    ASSUME BooksInv, NEW s \in Sessions, CommitAll(s), NEW v \in Users, NEW i \in DOMAIN ledger'[v],
           ledger'[v][i].key \in Redemptions
    PROVE  LET e == ledger'[v][i]
           IN  /\ redemption'[e.key] # None /\ redemption'[e.key].user = v
               /\ e.points = -redemption'[e.key].cost_points_snapshot /\ e.balance_after >= 0
<1>. DEFINE e == ledger'[v][i]
<1>1. CASE i \in DOMAIN ledger[v]
  <2>1. ledger[v][i] = e
    BY <1>1, CommittedEntries
  <2>2. IsPayment(v, ledger[v][i])
    BY <1>1, <2>1 DEF BooksInv, Books
  <2>3. /\ e.key \in Existing /\ redemption[e.key].user = v
        /\ e.points = -Cost(e.key) /\ e.balance_after >= 0
    BY <2>1, <2>2 DEF IsPayment, Existing
  <2>. HIDE DEF e
  <2>4. /\ redemption'[e.key] # None /\ redemption'[e.key].user = v
        /\ redemption'[e.key].cost_points_snapshot = Cost(e.key)
    BY <2>3, CommittedRequests DEF Existing, Cost
  <2>. QED
    BY <2>3, <2>4 DEF e
<1>2. CASE i \notin DOMAIN ledger[v]
  <2>1. draft[s] # None /\ v = job[s].user /\ e = draft[s]
    BY <1>2, CommittedEntries
  <2>2. /\ e.key \in Existing /\ redemption[e.key].user = v
        /\ e.points = -Cost(e.key) /\ e.balance_after >= 0
    BY <2>1, CommittedPayment
  <2>. HIDE DEF e
  <2>3. /\ redemption'[e.key] # None /\ redemption'[e.key].user = v
        /\ redemption'[e.key].cost_points_snapshot = Cost(e.key)
    BY <2>2, CommittedRequests DEF Existing, Cost
  <2>. QED
    BY <2>2, <2>3 DEF e
<1>. QED
  BY <1>1, <1>2

(* A request becomes approved with the entry that pays for it, and         *)
(* delivered after that entry has been committed.                          *)
LEMMA CommitKeepsPaid ==
    ASSUME BooksInv, NEW s \in Sessions, CommitAll(s), NEW q \in Redemptions, NEW u \in Users,
           redemption'[q] # None, redemption'[q].status \in {"approved", "delivered"},
           redemption'[q].user = u
    PROVE  q \in KeysOf(u)'
<1>1. KeysOf(u) \subseteq KeysOf(u)'
  BY CommittedEntries
<1>2. CASE redemption'[q] = redemption[q]
  <2>1. q \in InStatus({"approved", "delivered"}) /\ redemption[q].user = u
    BY <1>2 DEF InStatus, Existing
  <2>2. q \in KeysOf(u)
    BY <2>1 DEF BooksInv, Books
  <2>. QED
    BY <1>1, <2>2
<1>3. CASE redemption'[q] # redemption[q]
  <2>1. HandlingBooks(s) /\ q = job[s].key
    BY <1>3, CommittedRequests
  <2>2. /\ job[s].user = u
        /\ redemption'[q].status = IF job[s].op = "create" THEN seen[s].status ELSE Target[job[s].op]
    BY <2>1, CommittedRequests
  <2>3. job[s].op \in {"approve", "deliver"}
    <3>1. job[s].op = "create" => seen[s].status \notin {"approved", "delivered"}
      BY <2>1 DEF HandlingBooks
    <3>2. job[s].op \in Handlers
      BY <2>1 DEF HandlingBooks
    <3>. QED
      BY <2>2, <3>1, <3>2 DEF Handlers, Target
  <2>4. CASE job[s].op = "approve"
    <3>1. draft[s] # None /\ draft[s].key = q
      BY <2>1, <2>4 DEF HandlingBooks, ApproveBooks, Paid, CommitAll
    <3>2. KeysOf(u)' = KeysOf(u) \cup {draft[s].key}
      BY <2>2, <3>1, CommittedEntries
    <3>. QED
      BY <3>1, <3>2
  <2>5. CASE job[s].op = "deliver"
    <3>1. q \in KeysOf(u)
      BY <2>1, <2>2, <2>5 DEF HandlingBooks, DeliverBooks
    <3>. QED
      BY <1>1, <3>1
  <2>. QED
    BY <2>3, <2>4, <2>5
<1>. QED
  BY <1>2, <1>3

LEMMA CommitBooks ==
    ASSUME BooksInv, NEW s \in Sessions, CommitAll(s)
    PROVE  Books'
<1>1. \A u \in Users : PL!OncePerKey(ledger'[u])
  BY CommitKeepsSums
<1>2. BalanceIsLastEntry'
  BY CommitKeepsSums DEF BalanceIsLastEntry, Balance
<1>3. EarnedMatchesLedger'
  BY CommitKeepsSums DEF EarnedMatchesLedger
<1>4. IsFiniteSet(Existing')
  BY ExistingAfter
<1>5. RedeemedCoversDelivered'
  BY CommitCoversDelivered DEF RedeemedCoversDelivered, Delivered
<1>6. ASSUME NEW q \in Existing' PROVE reward'[redemption'[q].reward] # None /\ Cost(q)' \in Prices
  <2>1. CASE HandlingBooks(s) /\ q = job[s].key
    <3>1. /\ redemption'[q].reward \in Rewards /\ reward[redemption'[q].reward] # None
          /\ Cost(q)' = job[s].points
      BY <2>1, CommittedRequests DEF Cost
    <3>2. job[s].points \in Prices
      BY <2>1 DEF HandlingBooks
    <3>. QED
      BY <3>1, <3>2, CommittedRequests
  <2>2. CASE ~(HandlingBooks(s) /\ q = job[s].key)
    <3>1. q \in Existing /\ redemption'[q] = redemption[q]
      BY <1>6, <2>2, ExistingAfter
    <3>2. redemption[q].reward \in Rewards /\ reward[redemption[q].reward] # None /\ Cost(q) \in Prices
      BY <3>1 DEF BooksInv, Books, TypeOKAll, Existing, RedemptionRow
    <3>3. reward'[redemption'[q].reward] # None
      BY <3>1, <3>2, CommittedRequests
    <3>. QED
      BY <3>1, <3>2, <3>3 DEF Cost
  <2>. QED
    BY <2>1, <2>2
<1>7. ASSUME NEW u \in Users, NEW i \in DOMAIN ledger'[u], ledger'[u][i].key \in Redemptions
      PROVE  IsPayment(u, ledger[u][i])'
  <2>1. LET e == ledger'[u][i]
        IN  /\ redemption'[e.key] # None /\ redemption'[e.key].user = u
            /\ e.points = -redemption'[e.key].cost_points_snapshot /\ e.balance_after >= 0
    BY <1>7, CommitKeepsPayments
  <2>. QED
    BY <2>1 DEF IsPayment, Cost
<1>8. ASSUME NEW q \in InStatus({"approved", "delivered"})'
      PROVE  (q \in KeysOf(redemption[q].user))'
  <2>1. /\ q \in Redemptions /\ redemption'[q] # None
        /\ redemption'[q].status \in {"approved", "delivered"}
    BY <1>8 DEF InStatus, Existing
  <2>2. redemption'[q].user \in Users
    BY <2>1, CommittedRequests DEF RedemptionRow
  <2>3. PICK u \in Users : redemption'[q].user = u
    BY <2>2
  <2>4. q \in KeysOf(u)'
    BY <2>1, <2>3, CommitKeepsPaid
  <2>. QED
    BY <2>3, <2>4 DEF KeysOf
<1>9. \A u \in Users : \A i \in DOMAIN ledger'[u] :
        ledger'[u][i].key \in Redemptions => IsPayment(u, ledger[u][i])'
  BY <1>7
<1>. QED
  BY <1>1, <1>2, <1>3, <1>4, <1>5, <1>6, <1>8, <1>9 DEF Books

LEMMA CommitAllBooks ==
    ASSUME BooksInv, NEW s \in Sessions, CommitAll(s)
    PROVE  BooksInv'
<1>1. TypeOKAll /\ CreatedByOne /\ EndSession(s) /\ Close(s)
  BY DEF BooksInv, CommitAll, CommitRows
<1>2. StepOf(s) /\ OwnKey(s) /\ SessionTypes(s)' /\ SessionBooks(s)'
  BY <1>1, SessionEnds
<1>3. /\ wallet' \in [Users -> Row \cup {None}] /\ ledger' \in [Users -> Seq(Entry)]
      /\ reward' \in [Rewards -> RewardRow \cup {None}]
      /\ redemption' \in [Redemptions -> RedemptionRow \cup {None}]
  BY CommittedWallet, CommittedRequests
<1>4. TypeOKAll'
  BY <1>1, <1>2, <1>3, TypesAfter
<1>5. CreatedByOne'
  BY <1>1, <1>2, CreatorsAfter
<1>6. ASSUME NEW t \in Sessions \ {s} PROVE SessionBooks(t)'
  <2>1. SessionTypes(t) /\ SessionBooks(t)
    BY <1>1, TypesOfSessions DEF BooksInv
  <2>. QED
    BY <2>1, CommitDisturbsNobody, SessionStays
<1>. QED
  BY <1>2, <1>4, <1>5, <1>6, CommitBooks DEF BooksInv

----------------------------------------------------------------------------
(* The invariant holds                                                     *)

LEMMA EmptySum == ASSUME NEW f, DOMAIN f = {} PROVE SumFunction(f) = 0
BY SumStep, FS_EmptySet DEF SumFunction

LEMMA InitBooks == InitAll => BooksInv
<1>. SUFFICES ASSUME InitAll PROVE BooksInv
  OBVIOUS
<1>. USE DEF InitAll, Init
<1>1. TypeOKAll
  BY DEF TypeOKAll, PhasesAll
<1>2. Existing = {}
  BY DEF Existing
<1>3. \A u \in Users : \A c \in Columns : RowOf(u)[c] = 0
  BY DEF RowOf, ZeroRow
<1>4. \A u \in Users : ledger[u] = <<>> /\ DOMAIN ledger[u] = {}
  <2>1. DOMAIN <<>> = {}
    OBVIOUS
  <2>. QED
    BY <2>1
<1>5. \A u \in Users : PL!OncePerKey(ledger[u])
  BY <1>4 DEF PL!OncePerKey
<1>6. BalanceIsLastEntry
  BY <1>3, <1>4 DEF BalanceIsLastEntry, Balance, PL!BalanceAfter, Columns
<1>7. EarnedMatchesLedger
  <2>. SUFFICES ASSUME NEW u \in Users
                PROVE  RowOf(u)["total_earned"]
                         = SumFunction([i \in DOMAIN ledger[u] |-> AtLeastZero(ledger[u][i].points)])
    BY DEF EarnedMatchesLedger
  <2>. DEFINE f == [i \in DOMAIN ledger[u] |-> AtLeastZero(ledger[u][i].points)]
  <2>1. DOMAIN f = {}
    BY <1>4
  <2>. HIDE DEF f
  <2>2. SumFunction(f) = 0
    BY <2>1, EmptySum
  <2>. QED
    BY <1>3, <2>2 DEF f, Columns
<1>8. RedeemedCoversDelivered
  <2>. SUFFICES ASSUME NEW u \in Users
                PROVE  RowOf(u)["redeemed_points"] >= TotalCost(Of(u) \cap InStatus({"delivered"}))
    BY DEF RedeemedCoversDelivered
  <2>. DEFINE f == [r \in Of(u) \cap InStatus({"delivered"}) |-> Cost(r)]
  <2>1. DOMAIN f = {}
    BY <1>2 DEF Of
  <2>. HIDE DEF f
  <2>2. SumFunction(f) = 0
    BY <2>1, EmptySum
  <2>. QED
    BY <1>3, <2>2 DEF f, Columns, TotalCost
<1>9. Books
  BY <1>2, <1>4, <1>5, <1>6, <1>7, <1>8, FS_EmptySet DEF Books, InStatus
<1>10. \A s \in Sessions : SessionBooks(s)
  BY DEF SessionBooks
<1>11. CreatedByOne
  BY DEF CreatedByOne
<1>. QED
  BY <1>1, <1>9, <1>10, <1>11 DEF BooksInv

LEMMA StepBooks ==
    ASSUME BooksInv, NEW s \in Sessions, Step(s)
    PROVE  BooksInv'
<1>1. CASE PostEntry(s) /\ UNCHANGED <<rowVars, objectVars>>
  BY <1>1, PostEntryBooks
<1>2. CASE submit_redemption(s)
  BY <1>2, SubmitBooks
<1>3. CASE ApproveReadsReward(s)
  BY <1>3, ApproveReadsBooks
<1>4. CASE CheckBalance(s)
  BY <1>4, CheckBalanceBooks
<1>5. CASE ApprovePosts(s)
  BY <1>5, ApprovePostsBooks
<1>6. CASE adjust_pending(s)
  BY <1>6, PendingBooks
<1>7. CASE mark_redeemed(s)
  BY <1>7, RedeemedBooks
<1>8. CASE FlushReward(s)
  BY <1>8, FlushRewardBooks
<1>9. CASE FlushRedemption(s)
  BY <1>9, FlushRedemptionBooks
<1>10. CASE CommitAll(s)
  BY <1>10, CommitAllBooks
<1>. QED
  BY <1>1, <1>2, <1>3, <1>4, <1>5, <1>6, <1>7, <1>8, <1>9, <1>10 DEF Step

LEMMA StutterBooks ==
    ASSUME BooksInv, UNCHANGED allVars
    PROVE  BooksInv'
<1>. USE DEF allVars, vars, rowVars, objectVars
<1>1. TypeOKAll'
  BY DEF BooksInv, TypeOKAll
<1>2. Books'
  BY BooksStandStill DEF BooksInv
<1>3. ASSUME NEW s \in Sessions PROVE SessionBooks(s)'
  <2>1. Undisturbed(s)
    BY DEF Undisturbed, RowOf, KeysOf, Existing, Cost
  <2>2. SessionTypes(s) /\ SessionBooks(s)
    BY TypesOfSessions DEF BooksInv
  <2>. QED
    BY <2>1, <2>2, SessionStays
<1>4. CreatedByOne'
  BY DEF BooksInv, CreatedByOne
<1>. QED
  BY <1>1, <1>2, <1>3, <1>4 DEF BooksInv

LEMMA NextBooks == BooksInv /\ [NextAll]_allVars => BooksInv'
<1>. SUFFICES ASSUME BooksInv, [NextAll]_allVars PROVE BooksInv'
  OBVIOUS
<1>1. ASSUME NEW w \in Rewards, NEW status \in RewardStatuses, NEW cost \in Costs,
             NEW total \in Totals, create_reward(w, status, cost, total)
      PROVE  BooksInv'
  BY <1>1, CreateRewardBooks
<1>2. ASSUME NEW s \in Sessions, RequestAll(s) PROVE BooksInv'
  BY <1>2, BeginBooks
<1>3. ASSUME NEW s \in Sessions, Step(s) PROVE BooksInv'
  BY <1>3, StepBooks
<1>4. ASSUME NEW s \in Sessions, RollbackAll(s) PROVE BooksInv'
  BY <1>4, RefuseBooks DEF RollbackAll
<1>5. CASE UNCHANGED allVars
  BY <1>5, StutterBooks
<1>. QED
  BY <1>1, <1>2, <1>3, <1>4, <1>5 DEF NextAll

(* The books are consistent in every reachable state, whatever the number  *)
(* of sessions, users, rewards and requests.                               *)
THEOREM BooksInvariance == SpecAll => []BooksInv
BY InitBooks, NextBooks, PTL DEF SpecAll

(* Every variable keeps its type: stocks are naturals or unlimited, and a  *)
(* row lock has one owner.                                                 *)
THEOREM AllTypesCorrect == SpecAll => []TypeOKAll
<1>1. BooksInv => TypeOKAll
  BY DEF BooksInv
<1>. QED
  BY <1>1, BooksInvariance, PTL

(* What it takes for p to be a deduction made for request r.               *)
LEMMA ChargeIs ==
    ASSUME NEW r, NEW p
    PROVE  p \in Charges(r) <=>
             \E u \in Users : \E i \in DOMAIN ledger[u] : p = <<u, i>> /\ ledger[u][i].key = r
BY DEF Charges

(* redemption_service.py:10: what is approved has been paid, once, however *)
(* many approvals of it run at the same time.                              *)
THEOREM PaidOnce == SpecAll => []ApprovedIsChargedOnce
<1>1. BooksInv => ApprovedIsChargedOnce
  <2>. SUFFICES ASSUME BooksInv PROVE ApprovedIsChargedOnce
    OBVIOUS
  <2>. USE DEF BooksInv
  <2>1. ASSUME NEW r \in Redemptions, NEW p \in Charges(r), NEW q \in Charges(r)
        PROVE  p = q
    <3>1. PICK u \in Users : \E i \in DOMAIN ledger[u] : p = <<u, i>> /\ ledger[u][i].key = r
      BY ChargeIs
    <3>2. PICK i \in DOMAIN ledger[u] : p = <<u, i>> /\ ledger[u][i].key = r
      BY <3>1
    <3>3. PICK v \in Users : \E j \in DOMAIN ledger[v] : q = <<v, j>> /\ ledger[v][j].key = r
      BY ChargeIs
    <3>4. PICK j \in DOMAIN ledger[v] : q = <<v, j>> /\ ledger[v][j].key = r
      BY <3>3
    <3>5. redemption[r].user = u /\ redemption[r].user = v
      BY <3>2, <3>4 DEF Books, IsPayment
    <3>6. i = j
      BY <3>2, <3>4, <3>5 DEF Books, PL!OncePerKey
    <3>. QED
      BY <3>2, <3>4, <3>5, <3>6
  <2>2. ASSUME NEW r \in Redemptions PROVE Cardinality(Charges(r)) <= 1
    <3>1. CASE Charges(r) = {}
      BY <3>1, FS_EmptySet
    <3>2. CASE Charges(r) # {}
      <4>1. PICK p \in Charges(r) : TRUE
        BY <3>2
      <4>2. Charges(r) = {p}
        BY <2>1, <4>1
      <4>. QED
        BY <4>2, FS_Singleton
    <3>. QED
      BY <3>1, <3>2
  <2>3. ASSUME NEW r \in InStatus({"approved", "delivered"})
        PROVE  \E p \in Charges(r) :
                 p[1] = redemption[r].user /\ ledger[p[1]][p[2]].points = -Cost(r)
    <3>. DEFINE u == redemption[r].user
    <3>1. r \in Redemptions /\ redemption[r] # None /\ u \in Users
      BY DEF InStatus, Existing, TypeOKAll, RedemptionRow
    <3>2. PICK i \in DOMAIN ledger[u] : ledger[u][i].key = r
      BY DEF Books, KeysOf
    <3>3. ledger[u][i].points = -Cost(r)
      BY <3>1, <3>2 DEF Books, IsPayment
    <3>4. <<u, i>> \in Charges(r)
      BY <3>1, <3>2, ChargeIs
    <3>5. <<u, i>>[1] = u /\ <<u, i>>[2] = i
      OBVIOUS
    <3>. QED
      BY <3>3, <3>4, <3>5
  <2>. QED
    BY <2>2, <2>3 DEF ApprovedIsChargedOnce
<1>. QED
  BY <1>1, BooksInvariance, PTL

(* models/points.py:24-28: the balance is where the newest entry ended,    *)
(* whatever the approvals with old copies of the wallet write.             *)
THEOREM BalanceFollowsLedger == SpecAll => []BalanceIsLastEntry
<1>1. BooksInv => BalanceIsLastEntry
  BY DEF BooksInv, Books
<1>. QED
  BY <1>1, BooksInvariance, PTL

(* wallet_service.py:122-128: total_earned is the sum of the entries that  *)
(* won points, for ledgers of any length.                                  *)
THEOREM NothingEarnedIsLost == SpecAll => []EarnedMatchesLedger
<1>1. BooksInv => EarnedMatchesLedger
  BY DEF BooksInv, Books
<1>. QED
  BY <1>1, BooksInvariance, PTL

(* redemption_service.py:166-184: no deduction takes a balance below zero  *)
(* and no approval a stock, also when both are changed in between.         *)
THEOREM NeverBelowZero == SpecAll => []NothingBelowZero
<1>1. BooksInv => NothingBelowZero
  <2>. SUFFICES ASSUME BooksInv PROVE NothingBelowZero
    OBVIOUS
  <2>. USE DEF BooksInv
  <2>1. ASSUME NEW r \in Redemptions, NEW p \in Charges(r)
        PROVE  ledger[p[1]][p[2]].balance_after >= 0
    <3>0. PICK u \in Users : \E i \in DOMAIN ledger[u] : p = <<u, i>> /\ ledger[u][i].key = r
      BY ChargeIs
    <3>1. PICK i \in DOMAIN ledger[u] : p = <<u, i>> /\ ledger[u][i].key = r
      BY <3>0
    <3>2. p[1] = u /\ p[2] = i
      BY <3>1
    <3>. QED
      BY <3>1, <3>2 DEF Books, IsPayment
  <2>2. \A w \in Rewards : reward[w] # None /\ reward[w].inventory_remaining # None
                             => reward[w].inventory_remaining >= 0
    BY DEF TypeOKAll, RewardRow
  <2>. QED
    BY <2>1, <2>2 DEF NothingBelowZero
<1>. QED
  BY <1>1, BooksInvariance, PTL

(* models/points.py:238: redeemed_points covers the requests that have     *)
(* been delivered, for any number of them and of racing deliveries.        *)
THEOREM DeliveriesAreCounted == SpecAll => []RedeemedCoversDelivered
<1>1. BooksInv => RedeemedCoversDelivered
  BY DEF BooksInv, Books
<1>. QED
  BY <1>1, BooksInvariance, PTL

=============================================================================
