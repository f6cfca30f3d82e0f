---------------------------- MODULE UserPagesProofs ---------------------------
(***************************************************************************)
(* Theorems about the pages of a user, for any items, steps, tickets and   *)
(* number of requests in flight.                                           *)
(*                                                                         *)
(* Contents: items are done in order, a summary never counts more than is  *)
(* done, and the page of a content is never ahead.  All of it rests on one *)
(* observation: done only grows, so what a request has checked or counted  *)
(* before it commits is still true when it does.  The page of a quiz waits *)
(* for one request at most.                                                *)
(*                                                                         *)
(* Programs: an enrollment is completed only when every step that stays    *)
(* required and has a row in it is completed, with transactions that       *)
(* overlap, with duplicate enrollments, and with steps that an             *)
(* administrator adds or makes required or optional meanwhile.  The steps  *)
(* and statuses a transaction has read may be old when it commits, but     *)
(* only in one direction: such a step is among the steps read, is never    *)
(* skipped, and once completed stays so, and an enrollment gets no rows    *)
(* after the first.                                                        *)
(*                                                                         *)
(* Tickets: a closed ticket has its time of closing.                       *)
(*                                                                         *)
(* A tab, whichever page is open in it, keeps what is proved of that page: *)
(* every behaviour of UserPages is one of Learning, Journey and Tickets.   *)
(***************************************************************************)
EXTENDS UserPages, FiniteSetTheorems, WellFoundedInduction, TLAPS

----------------------------------------------------------------------------
(* Contents: the invariant                                                 *)

(* What the proofs need to know of a request; its slot does not matter.    *)
IsPost(p) ==
    /\ p = [id |-> p.id, item |-> p.item, page |-> p.page, st |-> p.st,
            new |-> p.new, first |-> p.first, count |-> p.count]
    /\ p.item \in Items

(* A request that has passed the lock passes it for good.                  *)
CheckedStays(p) ==
    Sequential /\ p.st \in {"checked", "counted"} => Before(p.item) \subseteq done

(* It has counted no more than is done when it commits.                    *)
CountStays(p) ==
    p.st = "counted" => p.count \in Nat /\ p.count <= Cardinality(done \cup {p.item})

(* What it was told to have completed is done.                             *)
AnswerHolds(p) == p.st = "ok" => p.item \in done

(* An attempt, likewise.                                                   *)
IsSubmit(s) ==
    /\ s = [id |-> s.id, item |-> s.item, page |-> s.page, st |-> s.st]
    /\ s.item \in Items

PostInv == \A p \in posts : IsPost(p) /\ CheckedStays(p) /\ CountStays(p) /\ AnswerHolds(p)

(* The summary counts no more than is done.                                *)
SummaryInv == summary # NoRow => summary \in Nat /\ summary <= Cardinality(done)

(* The pages are records that name items.                                  *)
PagesInv ==
    /\ detail = [shown |-> detail.shown, locked |-> detail.locked,
                 drawn |-> detail.drawn, new |-> detail.new]
    /\ viewer = [item |-> viewer.item, button |-> viewer.button]
    /\ viewer.button = TRUE => viewer.item \in Items
    /\ quiz = [view |-> quiz.view, item |-> quiz.item, used |-> quiz.used,
               current |-> quiz.current]

SubmitInv == \A s \in submits : IsSubmit(s)

(* Before a quiz has been opened nothing of its page runs or waits.        *)
QuizInv ==
    \/ quiz.item \in Items
    \/ /\ quiz.view = "none" /\ timer = FALSE
       /\ \A r \in posts \cup submits : r.page # "quiz"

LearningInv ==
    /\ done \subseteq Items
    /\ PostInv /\ SubmitInv /\ SummaryInv /\ PagesInv /\ QuizInv
    /\ InOrder /\ PageNeverAhead

----------------------------------------------------------------------------
(* Counting.                                                               *)

LEMMA Counts ==
    ASSUME NEW S \in SUBSET Items
    PROVE  /\ IsFiniteSet(S) /\ Cardinality(S) \in Nat /\ Cardinality(S) <= Total
           /\ Cardinality(S) = Total => S = Items
           /\ \A T \in SUBSET S : Cardinality(T) \in Nat /\ Cardinality(T) <= Cardinality(S)
<1>1. IsFiniteSet(S) /\ Cardinality(S) <= Total /\ (Cardinality(S) = Total => S = Items)
  BY LearningAssumption, FS_Subset DEF Total
<1>2. Cardinality(S) \in Nat
  BY <1>1, FS_CardinalityType
<1>3. \A T \in SUBSET S : Cardinality(T) \in Nat /\ Cardinality(T) <= Cardinality(S)
  <2>. TAKE T \in SUBSET S
  <2>1. IsFiniteSet(T) /\ Cardinality(T) <= Cardinality(S)
    BY <1>1, FS_Subset
  <2>. QED
    BY <2>1, FS_CardinalityType
<1>. QED
  BY <1>1, <1>2, <1>3

(* What a request knows survives every step that completes more items.     *)
LEMMA PostsStay ==
    ASSUME PostInv, done \subseteq done', done' \subseteq Items,
           \A p \in posts' :
               \/ IsPost(p) /\ p.st \in {"sent", "failed"}
               \/ IsPost(p) /\ \E q \in posts : /\ p.item = q.item /\ p.st = q.st
                                              /\ p.count = q.count
    PROVE  PostInv'
<1>. SUFFICES ASSUME NEW p \in posts'
              PROVE  /\ IsPost(p)
                     /\ Sequential /\ p.st \in {"checked", "counted"}
                          => Before(p.item) \subseteq done'
                     /\ p.st = "counted" => /\ p.count \in Nat
                                            /\ p.count <= Cardinality(done' \cup {p.item})
                     /\ p.st = "ok" => p.item \in done'
  BY DEF PostInv, CheckedStays, CountStays, AnswerHolds, IsPost
<1>1. CASE IsPost(p) /\ p.st \in {"sent", "failed"}
  BY <1>1
<1>2. CASE IsPost(p) /\ \E q \in posts : p.item = q.item /\ p.st = q.st /\ p.count = q.count
  <2>1. PICK q \in posts : p.item = q.item /\ p.st = q.st /\ p.count = q.count
    BY <1>2
  <2>2. p.item \in Items
    BY <1>2 DEF IsPost
  <2>3. done' \cup {p.item} \in SUBSET Items /\ done \cup {p.item} \in SUBSET (done' \cup {p.item})
    BY <2>2
  <2>4. /\ Cardinality(done \cup {p.item}) \in Nat /\ Cardinality(done' \cup {p.item}) \in Nat
        /\ Cardinality(done \cup {p.item}) <= Cardinality(done' \cup {p.item})
    BY <2>3, Counts
  <2>5. IsPost(q) /\ CheckedStays(q) /\ CountStays(q) /\ AnswerHolds(q)
    BY <2>1 DEF PostInv
  <2>. QED
    BY <1>2, <2>1, <2>4, <2>5 DEF CheckedStays, CountStays, AnswerHolds
<1>. QED
  BY <1>1, <1>2

(* A request that is answered keeps what it is about.                      *)
LEMMA Answers ==
    ASSUME NEW p, IsPost(p), NEW st, NEW r \in Answered(p, st)
    PROVE  IsPost(r) /\ r.st = st /\ r.item = p.item /\ r.page = p.page /\ r.count = p.count
BY DEF IsPost, Answered

LEMMA SubmitAnswers ==
    ASSUME NEW s, IsSubmit(s), NEW st, NEW r \in Answered(s, st)
    PROVE  IsSubmit(r) /\ r.page = s.page
BY DEF IsSubmit, Answered

(* A request that is left behind keeps what it is about, but for its page. *)
LEMMA OrphanPosts ==
    ASSUME NEW S, \A p \in S : IsPost(p), NEW r \in Orphans(S)
    PROVE  /\ IsPost(r) /\ r.page = "gone"
           /\ \E q \in S : r.item = q.item /\ r.st = q.st /\ r.count = q.count
<1>1. PICK q \in S : r = [q EXCEPT !.page = "gone"]
  BY DEF Orphans
<1>2. IsPost(q)
  BY <1>1
<1>. QED
  BY <1>1, <1>2 DEF IsPost

LEMMA OrphanSubmits ==
    ASSUME NEW S, \A s \in S : IsSubmit(s), NEW r \in Orphans(S)
    PROVE  IsSubmit(r) /\ r.page = "gone"
<1>1. PICK q \in S : r = [q EXCEPT !.page = "gone"]
  BY DEF Orphans
<1>2. IsSubmit(q)
  BY <1>1
<1>. QED
  BY <1>1, <1>2 DEF IsSubmit

----------------------------------------------------------------------------
(* The steps that complete items.                                          *)

LEMMA WhoCompletes ==
    ASSUME [LearningNext]_learningVars
    PROVE  \/ done' = done /\ summary' = summary
           \/ \E p \in posts : CommitItem(p)
           \/ \E i \in Items : OtherTab(i)
           \/ Render
<1>1. CASE \E p \in posts : CheckItem(p) \/ CountItems(p) \/ ProgressAnswered(p)
                            \/ RenderResult(p)
  BY <1>1 DEF CheckItem, CountItems, ProgressAnswered, RenderResult, server
<1>2. CASE \E s \in submits : CheckAttempt(s) \/ RecordAttempt(s) \/ SubmitAnswered(s)
                              \/ SubmitLost(s)
  BY <1>2 DEF CheckAttempt, RecordAttempt, SubmitAnswered, SubmitLost, server
<1>3. CASE \E i \in Items : OpenItem(i) \/ OpenQuiz(i)
  BY <1>3 DEF OpenItem, OpenQuiz, server
<1>4. CASE \E n \in 1..Questions : GotoQuestion(n)
  BY <1>4 DEF GotoQuestion, server
<1>5. CASE LoadContent \/ MarkComplete \/ CloseViewer \/ Start \/ Finish \/ TimeIsUp \/ Retry
  BY <1>5 DEF LoadContent, MarkComplete, CloseViewer, Start, Finish, TimeIsUp, submit,
              Retry, server
<1>6. CASE UNCHANGED learningVars
  BY <1>6 DEF learningVars, server
<1>. QED
  BY <1>1, <1>2, <1>3, <1>4, <1>5, <1>6 DEF LearningNext

(* Items are completed one at a time, after the earlier ones, and counted. *)
LEMMA Completes ==
    ASSUME LearningInv, [LearningNext]_learningVars
    PROVE  /\ done \subseteq done' /\ done' \subseteq Items
           /\ InOrder' /\ SummaryInv'
<1>1. CASE done' = done /\ summary' = summary
  BY <1>1 DEF LearningInv, InOrder, SummaryInv
<1>2. CASE \E p \in posts : CommitItem(p)
  <2>1. PICK p \in posts : CommitItem(p)
    BY <1>2
  <2>2. IsPost(p) /\ CheckedStays(p) /\ CountStays(p)
    BY <2>1 DEF LearningInv, PostInv
  <2>3. CASE done' = done /\ summary' = summary
    BY <2>3 DEF LearningInv, InOrder, SummaryInv
  <2>4. CASE done' = done \cup {p.item} /\ summary' = p.count
    <3>1. p.item \in Items /\ p.st = "counted"
      BY <2>1, <2>2 DEF IsPost, CommitItem
    <3>2. Sequential => Before(p.item) \subseteq done
      BY <2>2, <3>1 DEF CheckedStays
    <3>3. InOrder'
      BY <2>4, <3>2 DEF LearningInv, InOrder
    <3>4. SummaryInv'
      BY <2>2, <2>4, <3>1 DEF CountStays, SummaryInv
    <3>. QED
      BY <2>4, <3>1, <3>3, <3>4 DEF LearningInv
  <2>. QED
    BY <2>1, <2>3, <2>4 DEF CommitItem
<1>3. CASE \E i \in Items : OtherTab(i)
  <2>1. PICK i \in Items : OtherTab(i)
    BY <1>3
  <2>2. /\ ~ is_item_locked(i) /\ done' = done \cup {i}
        /\ summary' = Cardinality(done \cup {i})
    BY <2>1 DEF OtherTab, completed_items
  <2>3. done' \in SUBSET Items
    BY <2>2 DEF LearningInv
  <2>4. Cardinality(done') \in Nat
    BY <2>3, Counts
  <2>5. SummaryInv'
    BY <2>2, <2>4 DEF SummaryInv
  <2>6. InOrder'
    BY <2>2 DEF is_item_locked, InOrder, LearningInv
  <2>. QED
    BY <2>2, <2>3, <2>5, <2>6
<1>4. CASE Render
  <2>1. done' = done /\ (summary' = summary \/ summary' = 0)
    BY <1>4 DEF Render
  <2>2. Cardinality(done) \in Nat
    BY Counts DEF LearningInv
  <2>. QED
    BY <2>1, <2>2 DEF LearningInv, InOrder, SummaryInv
<1>. QED
  BY <1>1, <1>2, <1>3, <1>4, WhoCompletes

----------------------------------------------------------------------------
(* The requests.                                                           *)

LEMMA PostStep ==
    ASSUME LearningInv, [LearningNext]_learningVars
    PROVE  PostInv'
<1>. done \subseteq done' /\ done' \subseteq Items
  BY Completes
<1>1. PostInv /\ \A p \in posts : IsPost(p)
  BY DEF LearningInv, PostInv
<1>2. CASE UNCHANGED posts
  BY <1>1, <1>2, PostsStay
<1>3. ASSUME \A r \in posts' : r \in posts \/ (IsPost(r) /\ r.st \in {"sent", "failed"})
      PROVE  PostInv'
  BY <1>1, <1>3, PostsStay
(* One request takes a step that leaves it with something to keep. *)
<1>4. ASSUME NEW p \in posts, NEW r, IsPost(r), posts' = (posts \ {p}) \cup {r},
             (CheckedStays(r) /\ CountStays(r) /\ AnswerHolds(r))', done' = done
      PROVE  PostInv'
  BY <1>1, <1>4 DEF PostInv, CheckedStays, CountStays, AnswerHolds, IsPost
<1>5. ASSUME NEW p \in posts, CheckItem(p) PROVE PostInv'
  <2>1. CASE is_item_locked(p.item)
    <3>1. \A r \in posts' : r \in posts \/ r \in Answered(p, "failed")
      BY <1>5, <2>1 DEF CheckItem
    <3>. QED
      BY <1>1, <1>3, <3>1, Answers
  <2>2. CASE ~ is_item_locked(p.item)
    <3>1. PICK r : r = [p EXCEPT !.st = "checked", !.new = p.item \notin done]
      OBVIOUS
    <3>2. IsPost(p)
      BY <1>1
    <3>3. IsPost(r) /\ r.st = "checked" /\ r.item = p.item
      BY <3>1, <3>2 DEF IsPost
    <3>4. posts' = (posts \ {p}) \cup {r} /\ done' = done
      BY <1>5, <2>2, <3>1 DEF CheckItem, server
    <3>5. (CheckedStays(r) /\ CountStays(r) /\ AnswerHolds(r))'
      BY <2>2, <3>3, <3>4 DEF is_item_locked, CheckedStays, CountStays, AnswerHolds
    <3>. QED
      BY <1>4, <3>3, <3>4, <3>5
  <2>. QED
    BY <2>1, <2>2
<1>6. ASSUME NEW p \in posts, CountItems(p) PROVE PostInv'
  <2>1. CASE p.new /\ p.item \in done
    <3>1. \A r \in posts' : r \in posts \/ r \in Answered(p, "failed")
      BY <1>6, <2>1 DEF CountItems
    <3>. QED
      BY <1>1, <1>3, <3>1, Answers
  <2>2. CASE ~ (p.new /\ p.item \in done)
    <3>1. PICK r : r = [p EXCEPT !.st = "counted", !.count = completed_items(p.item),
                                 !.first = summary = NoRow]
      OBVIOUS
    <3>2. IsPost(p) /\ CheckedStays(p) /\ p.st = "checked"
      BY <1>1, <1>6 DEF PostInv, CountItems
    <3>3. r = [id |-> p.id, item |-> p.item, page |-> p.page, st |-> "counted",
               new |-> p.new, first |-> (summary = NoRow), count |-> completed_items(p.item)]
      BY <3>1, <3>2 DEF IsPost
    <3>4. /\ IsPost(r) /\ r.st = "counted" /\ r.item = p.item
          /\ r.count = Cardinality(done \cup {p.item})
      BY <3>2, <3>3 DEF IsPost, completed_items
    <3>5. posts' = (posts \ {p}) \cup {r} /\ done' = done
      BY <1>6, <2>2, <3>1 DEF CountItems, server
    <3>6. done \cup {p.item} \in SUBSET Items
      BY <3>2 DEF IsPost, LearningInv
    <3>7. Cardinality(done \cup {p.item}) \in Nat
      BY <3>6, Counts
    <3>8. (CheckedStays(r) /\ CountStays(r) /\ AnswerHolds(r))'
      BY <3>2, <3>4, <3>5, <3>7 DEF CheckedStays, CountStays, AnswerHolds
    <3>. QED
      BY <1>4, <3>4, <3>5, <3>8
  <2>. QED
    BY <2>1, <2>2
<1>7. ASSUME NEW p \in posts, CommitItem(p) PROVE PostInv'
  <2>1. CASE p.first /\ summary # NoRow
    <3>1. \A r \in posts' : r \in posts \/ r \in Answered(p, "failed")
      BY <1>7, <2>1 DEF CommitItem
    <3>. QED
      BY <1>1, <1>3, <3>1, Answers
  <2>2. CASE ~ (p.first /\ summary # NoRow)
    <3>1. \A r \in posts' : r \in posts \/ r \in Answered(p, "ok")
      BY <1>7, <2>2 DEF CommitItem
    <3>2. p.item \in done'
      BY <1>7, <2>2 DEF CommitItem
    <3>3. \A r \in Answered(p, "ok") : IsPost(r) /\ r.st = "ok" /\ r.item = p.item
      BY <1>1, Answers
    <3>4. \A q \in posts : q.st = "counted" =>
             Cardinality(done' \cup {q.item}) \in Nat /\ q.count \in Nat
             /\ q.count <= Cardinality(done' \cup {q.item})
      <4>. SUFFICES ASSUME NEW q \in posts, q.st = "counted"
                    PROVE  /\ Cardinality(done' \cup {q.item}) \in Nat /\ q.count \in Nat
                           /\ q.count <= Cardinality(done' \cup {q.item})
        OBVIOUS
      <4>1. IsPost(q) /\ CountStays(q)
        BY <1>1 DEF PostInv
      <4>2. /\ done' \cup {q.item} \in SUBSET Items
            /\ done \cup {q.item} \in SUBSET (done' \cup {q.item})
        BY <4>1 DEF IsPost
      <4>3. /\ Cardinality(done \cup {q.item}) \in Nat /\ Cardinality(done' \cup {q.item}) \in Nat
            /\ Cardinality(done \cup {q.item}) <= Cardinality(done' \cup {q.item})
        BY <4>2, Counts
      <4>. QED
        BY <4>1, <4>3 DEF CountStays
    <3>5. \A q \in posts : (CheckedStays(q) /\ CountStays(q) /\ AnswerHolds(q))'
      BY <1>1, <3>4 DEF PostInv, CheckedStays, CountStays, AnswerHolds
    <3>6. \A r \in Answered(p, "ok") : (CheckedStays(r) /\ CountStays(r) /\ AnswerHolds(r))'
      BY <3>2, <3>3 DEF CheckedStays, CountStays, AnswerHolds
    <3>. QED
      BY <1>1, <3>1, <3>3, <3>5, <3>6 DEF PostInv, IsPost
  <2>. QED
    BY <2>1, <2>2
<1>8. ASSUME NEW i \in Items PROVE OtherTab(i) \/ OpenItem(i) => PostInv'
  BY <1>2 DEF OtherTab, OpenItem
<1>9. CASE LoadContent \/ \E i \in Items : OpenQuiz(i)
  <2>1. posts' = Orphans(posts)
    BY <1>9 DEF LoadContent, OpenQuiz
  <2>2. \A r \in posts' : IsPost(r) /\ \E q \in posts : r.item = q.item /\ r.st = q.st
                                                       /\ r.count = q.count
    BY <1>1, <2>1, OrphanPosts
  <2>. QED
    BY <1>1, <2>2, PostsStay
<1>10. CASE MarkComplete
  <2>1. viewer.item \in Items
    BY <1>10 DEF MarkComplete, LearningInv, PagesInv
  <2>2. PICK r : r = [id |-> slot(posts), item |-> viewer.item, page |-> "content",
                      st |-> "sent", new |-> FALSE, first |-> FALSE, count |-> 0]
    OBVIOUS
  <2>3. posts' = posts \cup {r}
    BY <1>10, <2>2 DEF MarkComplete
  <2>4. IsPost(r) /\ r.st = "sent"
    BY <2>1, <2>2 DEF IsPost
  <2>. QED
    BY <1>3, <2>3, <2>4
<1>11. ASSUME NEW s \in submits, SubmitAnswered(s) PROVE PostInv'
  <2>1. CASE UNCHANGED posts
    BY <1>2, <2>1
  <2>2. CASE s.st = "ok"
    <3>1. s.item \in Items
      BY DEF LearningInv, SubmitInv, IsSubmit
    <3>2. PICK r : r = [id |-> slot(posts), item |-> s.item, page |-> "quiz",
                        st |-> "sent", new |-> FALSE, first |-> FALSE, count |-> 0]
      OBVIOUS
    <3>3. posts' = posts \cup {r}
      BY <1>11, <2>2, <3>2 DEF SubmitAnswered
    <3>4. IsPost(r) /\ r.st = "sent"
      BY <3>1, <3>2 DEF IsPost
    <3>. QED
      BY <1>3, <3>3, <3>4
  <2>. QED
    BY <1>11, <2>1, <2>2 DEF SubmitAnswered
<1>12. ASSUME NEW p \in posts, ProgressAnswered(p) \/ RenderResult(p) PROVE PostInv'
  BY <1>3, <1>12 DEF ProgressAnswered, RenderResult
<1>13. CASE \E s \in submits : CheckAttempt(s) \/ RecordAttempt(s) \/ SubmitLost(s)
  BY <1>2, <1>13 DEF CheckAttempt, RecordAttempt, SubmitLost
<1>14. CASE \/ \E n \in 1..Questions : GotoQuestion(n)
            \/ Render \/ CloseViewer \/ Start \/ Finish \/ TimeIsUp \/ Retry
  BY <1>2, <1>14 DEF GotoQuestion, Render, CloseViewer, Start, Finish, TimeIsUp, submit, Retry
<1>15. CASE UNCHANGED learningVars
  BY <1>2, <1>15 DEF learningVars
<1>. QED
  BY <1>5, <1>6, <1>7, <1>8, <1>9, <1>10, <1>11, <1>12, <1>13, <1>14, <1>15 DEF LearningNext

----------------------------------------------------------------------------
(* The pages.                                                              *)

(* What is shown as done and as open stays so.                             *)
LEMMA PageStays ==
    ASSUME PageNeverAhead, done \subseteq done', done' \subseteq Items,
           UNCHANGED <<at, detail>>
    PROVE  PageNeverAhead'
BY DEF PageNeverAhead, is_item_locked

(* The page of the content shows what it was told, and done only grows.    *)
LEMMA PageStep ==
    ASSUME LearningInv, [LearningNext]_learningVars
    PROVE  PageNeverAhead'
<1>. done \subseteq done' /\ done' \subseteq Items
  BY Completes
<1>1. PageNeverAhead
  BY DEF LearningInv
<1>2. CASE UNCHANGED <<at, detail>>
  BY <1>1, <1>2, PageStays
<1>3. CASE LoadContent
  <2>1. detail' = [shown |-> done, locked |-> compute_locked_map,
                   drawn |-> FALSE, new |-> (summary = NoRow)] /\ done' = done
    BY <1>3 DEF LoadContent, server
  <2>2. detail'.shown = done /\ detail'.locked = {i \in Items : is_item_locked(i)}
    BY <2>1 DEF compute_locked_map
  <2>. QED
    BY <2>1, <2>2 DEF PageNeverAhead, is_item_locked
<1>4. CASE Render
  <2>1. /\ detail' = [detail EXCEPT !.drawn = TRUE] /\ at' = at
        /\ detail = [shown |-> detail.shown, locked |-> detail.locked,
                     drawn |-> detail.drawn, new |-> detail.new]
    BY <1>4 DEF Render, LearningInv, PagesInv
  <2>2. detail'.shown = detail.shown /\ detail'.locked = detail.locked
    BY <2>1
  <2>. QED
    BY <1>1, <2>1, <2>2 DEF PageNeverAhead, is_item_locked
<1>5. ASSUME NEW p \in posts, ProgressAnswered(p) PROVE PageNeverAhead'
  <2>1. CASE UNCHANGED contentPage
    BY <1>2, <1>5, <2>1 DEF ProgressAnswered, contentPage
  <2>2. CASE p.st = "ok" /\ detail' = [detail EXCEPT !.shown = @ \cup {p.item}]
    <3>1. p.item \in done
      BY <2>2 DEF LearningInv, PostInv, AnswerHolds
    <3>2. detail = [shown |-> detail.shown, locked |-> detail.locked,
                    drawn |-> detail.drawn, new |-> detail.new]
      BY DEF LearningInv, PagesInv
    <3>3. detail'.shown = detail.shown \cup {p.item} /\ detail'.locked = detail.locked
      BY <2>2, <3>2
    <3>4. at' = at /\ done' = done
      BY <1>5 DEF ProgressAnswered, server
    <3>. QED
      BY <1>1, <3>1, <3>3, <3>4 DEF PageNeverAhead, is_item_locked
  <2>. QED
    BY <1>5, <2>1, <2>2 DEF ProgressAnswered
<1>6. ASSUME NEW i \in Items, OpenQuiz(i) PROVE PageNeverAhead'
  BY <1>6 DEF OpenQuiz, PageNeverAhead
<1>7. CASE \E p \in posts : CheckItem(p) \/ CountItems(p) \/ CommitItem(p) \/ RenderResult(p)
  BY <1>2, <1>7 DEF CheckItem, CountItems, CommitItem, RenderResult, contentPage
<1>8. CASE \E s \in submits : CheckAttempt(s) \/ RecordAttempt(s) \/ SubmitAnswered(s)
                              \/ SubmitLost(s)
  BY <1>2, <1>8 DEF CheckAttempt, RecordAttempt, SubmitAnswered, SubmitLost, contentPage
<1>9. CASE \/ \E i \in Items : OtherTab(i) \/ OpenItem(i)
           \/ \E n \in 1..Questions : GotoQuestion(n)
  BY <1>2, <1>9 DEF OtherTab, OpenItem, GotoQuestion, contentPage
<1>10. CASE MarkComplete \/ CloseViewer \/ Start \/ Finish \/ TimeIsUp \/ Retry
  BY <1>2, <1>10 DEF MarkComplete, CloseViewer, Start, Finish, TimeIsUp, submit, Retry,
                     contentPage
<1>11. CASE UNCHANGED learningVars
  BY <1>2, <1>11 DEF learningVars, contentPage
<1>. QED
  BY <1>3, <1>4, <1>5, <1>6, <1>7, <1>8, <1>9, <1>10, <1>11 DEF LearningNext

LEMMA SubmitStep ==
    ASSUME LearningInv, [LearningNext]_learningVars
    PROVE  SubmitInv'
<1>1. \A s \in submits : IsSubmit(s)
  BY DEF LearningInv, SubmitInv
<1>2. ASSUME \A r \in submits' : r \in submits \/ IsSubmit(r) PROVE SubmitInv'
  BY <1>1, <1>2 DEF SubmitInv, IsSubmit
<1>3. ASSUME NEW s \in submits, CheckAttempt(s) PROVE SubmitInv'
  <2>1. PICK r : r = [s EXCEPT !.st = "counted"]
    OBVIOUS
  <2>2. IsSubmit(r)
    BY <1>1, <2>1 DEF IsSubmit
  <2>3. \A q \in submits' : q \in submits \/ q = r \/ q \in Answered(s, "failed")
    BY <1>3, <2>1 DEF CheckAttempt
  <2>. QED
    BY <1>1, <1>2, <2>2, <2>3, SubmitAnswers
<1>4. ASSUME NEW s \in submits, RecordAttempt(s) PROVE SubmitInv'
  <2>1. \A q \in submits' : q \in submits \/ q \in Answered(s, "ok")
    BY <1>4 DEF RecordAttempt
  <2>. QED
    BY <1>1, <1>2, <2>1, SubmitAnswers
<1>5. ASSUME NEW s \in submits, SubmitAnswered(s) PROVE SubmitInv'
  BY <1>2, <1>5 DEF SubmitAnswered
<1>6. ASSUME NEW s \in submits, SubmitLost(s) PROVE SubmitInv'
  <2>1. \A q \in submits' : q \in submits \/ q \in Orphans({s})
    BY <1>6 DEF SubmitLost
  <2>. QED
    BY <1>1, <1>2, <2>1, OrphanSubmits
<1>7. CASE LoadContent \/ \E i \in Items : OpenQuiz(i)
  <2>1. submits' = Orphans(submits)
    BY <1>7 DEF LoadContent, OpenQuiz
  <2>. QED
    BY <1>1, <1>2, <2>1, OrphanSubmits
<1>8. CASE Finish \/ TimeIsUp
  <2>1. submit /\ quiz.item \in Items
    BY <1>8 DEF Finish, TimeIsUp, LearningInv, QuizInv
  <2>2. PICK r : r = [id |-> slot(submits), item |-> quiz.item, page |-> "quiz", st |-> "sent"]
    OBVIOUS
  <2>3. submits' = submits \cup {r}
    BY <2>1, <2>2 DEF submit
  <2>4. IsSubmit(r)
    BY <2>1, <2>2 DEF IsSubmit
  <2>. QED
    BY <1>2, <2>3, <2>4
<1>9. CASE \E p \in posts : CheckItem(p) \/ CountItems(p) \/ CommitItem(p)
                            \/ ProgressAnswered(p) \/ RenderResult(p)
  BY <1>2, <1>9 DEF CheckItem, CountItems, CommitItem, ProgressAnswered, RenderResult
<1>10. CASE \/ \E i \in Items : OtherTab(i) \/ OpenItem(i)
            \/ \E n \in 1..Questions : GotoQuestion(n)
            \/ Render \/ MarkComplete \/ CloseViewer \/ Start \/ Retry
  BY <1>2, <1>10 DEF OtherTab, OpenItem, GotoQuestion, Render, MarkComplete, CloseViewer,
                     Start, Retry
<1>11. CASE UNCHANGED learningVars
  BY <1>2, <1>11 DEF learningVars
<1>. QED
  BY <1>3, <1>4, <1>5, <1>6, <1>7, <1>8, <1>9, <1>10, <1>11 DEF LearningNext

LEMMA PagesStep ==
    ASSUME LearningInv, [LearningNext]_learningVars
    PROVE  PagesInv'
<1>. DEFINE ListShape(d) == d = [shown |-> d.shown, locked |-> d.locked,
                                 drawn |-> d.drawn, new |-> d.new]
            Viewer(v) == /\ v = [item |-> v.item, button |-> v.button]
                         /\ v.button = TRUE => v.item \in Items
            Quiz(q) == q = [view |-> q.view, item |-> q.item, used |-> q.used,
                            current |-> q.current]
<1>1. ListShape(detail) /\ Viewer(viewer) /\ Quiz(quiz)
  BY DEF LearningInv, PagesInv
<1>2. Viewer(NoViewer) /\ ListShape(NoDetail) /\ Quiz(NoQuiz)
  BY DEF NoViewer, NoDetail, NoQuiz
<1>3. \A i : Quiz(load(i))
  BY DEF load, NoQuiz
<1>4. ListShape(detail')
  <2>1. CASE UNCHANGED detail
    BY <1>1, <2>1
  <2>2. CASE LoadContent
    BY <2>2 DEF LoadContent
  <2>3. CASE Render
    BY <1>1, <2>3 DEF Render
  <2>4. CASE \E p \in posts : ProgressAnswered(p)
    BY <1>1, <2>4 DEF ProgressAnswered, contentPage
  <2>5. CASE \E i \in Items : OpenQuiz(i)
    BY <1>2, <2>5 DEF OpenQuiz
  <2>6. CASE \/ \E p \in posts : CheckItem(p) \/ CountItems(p) \/ CommitItem(p) \/ RenderResult(p)
             \/ \E s \in submits : CheckAttempt(s) \/ RecordAttempt(s) \/ SubmitAnswered(s)
                                   \/ SubmitLost(s)
    BY <2>1, <2>6 DEF CheckItem, CountItems, CommitItem, RenderResult, CheckAttempt,
                      RecordAttempt, SubmitAnswered, SubmitLost, contentPage
  <2>7. CASE \/ \E i \in Items : OtherTab(i) \/ OpenItem(i)
             \/ \E n \in 1..Questions : GotoQuestion(n)
    BY <2>1, <2>7 DEF OtherTab, OpenItem, GotoQuestion, contentPage
  <2>8. CASE MarkComplete \/ CloseViewer \/ Start \/ Finish \/ TimeIsUp \/ Retry
    BY <2>1, <2>8 DEF MarkComplete, CloseViewer, Start, Finish, TimeIsUp, submit, Retry,
                      contentPage
  <2>9. CASE UNCHANGED learningVars
    BY <2>1, <2>9 DEF learningVars, contentPage
  <2>. QED
    BY <2>2, <2>3, <2>4, <2>5, <2>6, <2>7, <2>8, <2>9 DEF LearningNext
<1>5. Viewer(viewer')
  <2>1. CASE UNCHANGED viewer
    BY <1>1, <2>1
  <2>2. CASE LoadContent \/ CloseViewer \/ \E i \in Items : OpenQuiz(i)
    BY <1>2, <2>2 DEF LoadContent, CloseViewer, OpenQuiz
  <2>3. CASE \E i \in Items : OpenItem(i)
    BY <2>3 DEF OpenItem
  <2>4. CASE \E p \in posts : ProgressAnswered(p)
    BY <1>1, <1>2, <2>4 DEF ProgressAnswered, contentPage
  <2>5. CASE \/ \E p \in posts : CheckItem(p) \/ CountItems(p) \/ CommitItem(p) \/ RenderResult(p)
             \/ \E s \in submits : CheckAttempt(s) \/ RecordAttempt(s) \/ SubmitAnswered(s)
                                   \/ SubmitLost(s)
    BY <2>1, <2>5 DEF CheckItem, CountItems, CommitItem, RenderResult, CheckAttempt,
                      RecordAttempt, SubmitAnswered, SubmitLost, contentPage
  <2>6. CASE \/ \E i \in Items : OtherTab(i)
             \/ \E n \in 1..Questions : GotoQuestion(n)
             \/ Render \/ MarkComplete \/ Start \/ Finish \/ TimeIsUp \/ Retry
    BY <2>1, <2>6 DEF OtherTab, GotoQuestion, Render, MarkComplete, Start, Finish, TimeIsUp,
                      submit, Retry, contentPage
  <2>7. CASE UNCHANGED learningVars
    BY <2>1, <2>7 DEF learningVars, contentPage
  <2>. QED
    BY <2>2, <2>3, <2>4, <2>5, <2>6, <2>7 DEF LearningNext
<1>6. Quiz(quiz')
  <2>1. CASE UNCHANGED quiz
    BY <1>1, <2>1
  <2>2. CASE LoadContent
    BY <1>2, <2>2 DEF LoadContent
  <2>3. CASE (\E i \in Items : OpenQuiz(i)) \/ Retry
    BY <1>3, <2>3 DEF OpenQuiz, Retry
  <2>4. CASE (\E n \in 1..Questions : GotoQuestion(n)) \/ Start
    BY <1>1, <2>4 DEF GotoQuestion, Start
  <2>5. CASE \E p \in posts : RenderResult(p)
    BY <1>1, <2>5 DEF RenderResult
  <2>6. CASE \/ \E p \in posts : CheckItem(p) \/ CountItems(p) \/ CommitItem(p)
                                 \/ ProgressAnswered(p)
             \/ \E s \in submits : CheckAttempt(s) \/ RecordAttempt(s) \/ SubmitAnswered(s)
                                   \/ SubmitLost(s)
    BY <2>1, <2>6 DEF CheckItem, CountItems, CommitItem, ProgressAnswered, CheckAttempt,
                      RecordAttempt, SubmitAnswered, SubmitLost, quizPage
  <2>7. CASE \/ \E i \in Items : OtherTab(i) \/ OpenItem(i)
             \/ Render \/ MarkComplete \/ CloseViewer \/ Finish \/ TimeIsUp
    BY <2>1, <2>7 DEF OtherTab, OpenItem, Render, MarkComplete, CloseViewer, Finish, TimeIsUp,
                      submit, quizPage
  <2>8. CASE UNCHANGED learningVars
    BY <2>1, <2>8 DEF learningVars, quizPage
  <2>. QED
    BY <2>2, <2>3, <2>4, <2>5, <2>6, <2>7, <2>8 DEF LearningNext
<1>. QED
  BY <1>4, <1>5, <1>6 DEF PagesInv

LEMMA QuizStep ==
    ASSUME LearningInv, [LearningNext]_learningVars
    PROVE  QuizInv'
<1>1. /\ QuizInv /\ \A p \in posts : IsPost(p)
      /\ \A s \in submits : IsSubmit(s)
  BY DEF LearningInv, PostInv, SubmitInv
<1>2. /\ quiz = [view |-> quiz.view, item |-> quiz.item, used |-> quiz.used,
                 current |-> quiz.current]
  BY DEF LearningInv, PagesInv
(* The page of a quiz that is open stays about its item. *)
<1>3. CASE quiz.item \in Items
  <2>1. CASE UNCHANGED quiz
    BY <1>3, <2>1 DEF QuizInv
  <2>2. CASE LoadContent
    <3>1. /\ \A r \in Orphans(posts) : r.page = "gone"
          /\ \A r \in Orphans(submits) : r.page = "gone"
      BY <1>1, OrphanPosts, OrphanSubmits
    <3>. QED
      BY <2>2, <3>1 DEF LoadContent, QuizInv, NoQuiz
  <2>3. CASE (\E n \in 1..Questions : GotoQuestion(n)) \/ Start
             \/ \E p \in posts : RenderResult(p)
    <3>1. quiz'.item = quiz.item
      BY <1>2, <2>3 DEF GotoQuestion, Start, RenderResult
    <3>. QED
      BY <1>3, <3>1 DEF QuizInv
  <2>4. CASE (\E i \in Items : OpenQuiz(i)) \/ Retry
    <3>1. PICK i \in Items : quiz' = load(i)
      BY <1>3, <2>4 DEF OpenQuiz, Retry
    <3>2. quiz'.item = i
      BY <3>1 DEF load, NoQuiz
    <3>. QED
      BY <3>1, <3>2 DEF QuizInv
  <2>5. CASE \/ \E p \in posts : CheckItem(p) \/ CountItems(p) \/ CommitItem(p)
                                 \/ ProgressAnswered(p)
             \/ \E s \in submits : CheckAttempt(s) \/ RecordAttempt(s) \/ SubmitAnswered(s)
                                   \/ SubmitLost(s)
    BY <2>1, <2>5 DEF CheckItem, CountItems, CommitItem, ProgressAnswered, CheckAttempt,
                      RecordAttempt, SubmitAnswered, SubmitLost, quizPage
  <2>6. CASE \/ \E i \in Items : OtherTab(i) \/ OpenItem(i)
             \/ Render \/ MarkComplete \/ CloseViewer \/ Finish \/ TimeIsUp
    BY <2>1, <2>6 DEF OtherTab, OpenItem, Render, MarkComplete, CloseViewer, Finish, TimeIsUp,
                      submit, quizPage
  <2>7. CASE UNCHANGED learningVars
    BY <2>1, <2>7 DEF learningVars, quizPage
  <2>. QED
    BY <2>2, <2>3, <2>4, <2>5, <2>6, <2>7 DEF LearningNext
(* Before one is opened, no step starts its page. *)
<1>4. CASE /\ quiz.view = "none" /\ timer = FALSE
           /\ \A r \in posts \cup submits : r.page # "quiz"
  <2>1. ASSUME UNCHANGED <<quiz, timer>>, \A r \in posts' \cup submits' : r.page # "quiz"
        PROVE  QuizInv'
    BY <1>4, <2>1 DEF QuizInv
  <2>2. \A p \in posts : \A st : \A r \in Answered(p, st) : r.page # "quiz"
    BY <1>1, <1>4, Answers
  <2>3. \A s \in submits : \A st : \A r \in Answered(s, st) : r.page # "quiz"
    BY <1>1, <1>4, SubmitAnswers
  <2>4. \A r \in Orphans(posts) \cup Orphans(submits) : r.page # "quiz"
    BY <1>1, OrphanPosts, OrphanSubmits
  <2>5. ASSUME NEW p \in posts, CheckItem(p) PROVE QuizInv'
    <3>1. PICK r : r = [p EXCEPT !.st = "checked", !.new = p.item \notin done]
      OBVIOUS
    <3>2. r.page = p.page
      BY <1>1, <3>1 DEF IsPost
    <3>3. \A q \in posts' : q \in posts \/ q = r \/ q \in Answered(p, "failed")
      BY <2>5, <3>1 DEF CheckItem
    <3>. QED
      BY <1>4, <2>1, <2>2, <2>5, <3>2, <3>3 DEF CheckItem, quizPage
  <2>6. ASSUME NEW p \in posts, CountItems(p) PROVE QuizInv'
    <3>1. PICK r : r = [p EXCEPT !.st = "counted", !.count = completed_items(p.item),
                                 !.first = summary = NoRow]
      OBVIOUS
    <3>2. r.page = p.page
      BY <1>1, <3>1 DEF IsPost
    <3>3. \A q \in posts' : q \in posts \/ q = r \/ q \in Answered(p, "failed")
      BY <2>6, <3>1 DEF CountItems
    <3>. QED
      BY <1>4, <2>1, <2>2, <2>6, <3>2, <3>3 DEF CountItems, quizPage
  <2>7. ASSUME NEW p \in posts, CommitItem(p) PROVE QuizInv'
    <3>1. \A q \in posts' : q \in posts \/ \E st : q \in Answered(p, st)
      BY <2>7 DEF CommitItem
    <3>. QED
      BY <1>4, <2>1, <2>2, <2>7, <3>1 DEF CommitItem, quizPage
  <2>8. ASSUME NEW p \in posts, ProgressAnswered(p) PROVE QuizInv'
    BY <1>4, <2>1, <2>8 DEF ProgressAnswered, quizPage
  <2>9. ASSUME NEW s \in submits, CheckAttempt(s) PROVE QuizInv'
    <3>1. PICK r : r = [s EXCEPT !.st = "counted"]
      OBVIOUS
    <3>2. r.page = s.page
      BY <1>1, <3>1 DEF IsSubmit
    <3>3. \A q \in submits' : q \in submits \/ q = r \/ q \in Answered(s, "failed")
      BY <2>9, <3>1 DEF CheckAttempt
    <3>. QED
      BY <1>4, <2>1, <2>3, <2>9, <3>2, <3>3 DEF CheckAttempt, quizPage
  <2>10. ASSUME NEW s \in submits, RecordAttempt(s) PROVE QuizInv'
    BY <1>4, <2>1, <2>3, <2>10 DEF RecordAttempt, quizPage
  <2>11. CASE LoadContent
    <3>1. posts' = Orphans(posts) /\ submits' = Orphans(submits) /\ quiz' = NoQuiz
          /\ timer' = FALSE
      BY <2>11 DEF LoadContent
    <3>. QED
      BY <2>4, <3>1 DEF QuizInv, NoQuiz
  <2>12. ASSUME NEW i \in Items, OpenQuiz(i) PROVE QuizInv'
    <3>1. quiz'.item = i
      BY <2>12 DEF OpenQuiz, load, NoQuiz
    <3>. QED
      BY <3>1 DEF QuizInv
  <2>13. CASE MarkComplete
    <3>1. PICK r : r = [id |-> slot(posts), item |-> viewer.item, page |-> "content",
                        st |-> "sent", new |-> FALSE, first |-> FALSE, count |-> 0]
      OBVIOUS
    <3>2. posts' = posts \cup {r} /\ UNCHANGED <<quizPage, submits>>
      BY <2>13, <3>1 DEF MarkComplete
    <3>. QED
      BY <1>4, <2>1, <3>1, <3>2 DEF quizPage
  <2>14. CASE \/ \E i \in Items : OtherTab(i) \/ OpenItem(i)
              \/ Render \/ CloseViewer
    BY <1>4, <2>1, <2>14 DEF OtherTab, OpenItem, Render, CloseViewer, quizPage
  <2>15. CASE UNCHANGED learningVars
    BY <1>4, <2>1, <2>15 DEF learningVars, quizPage
  <2>16. ~ (\/ \E p \in posts : RenderResult(p)
            \/ \E s \in submits : SubmitAnswered(s) \/ SubmitLost(s))
    BY <1>4 DEF RenderResult, SubmitAnswered, SubmitLost
  <2>17. ~ (Start \/ Finish \/ TimeIsUp \/ Retry \/ \E n \in 1..Questions : GotoQuestion(n))
    BY <1>4 DEF Start, Finish, TimeIsUp, Retry, GotoQuestion
  <2>. QED
    BY <2>5, <2>6, <2>7, <2>8, <2>9, <2>10, <2>11, <2>12, <2>13, <2>14, <2>15, <2>16, <2>17
       DEF LearningNext
<1>. QED
  BY <1>1, <1>3, <1>4 DEF QuizInv

----------------------------------------------------------------------------
(* The invariant is inductive: it holds in every reachable state.          *)
THEOREM LearningInvariant == LearningSpec => []LearningInv
<1>1. LearningInit => LearningInv
  <2>. SUFFICES ASSUME LearningInit PROVE LearningInv
    OBVIOUS
  <2>1. done = {} /\ posts = {} /\ submits = {} /\ at = "away" /\ summary = NoRow
        /\ timer = FALSE
    BY DEF LearningInit
  <2>2. PagesInv /\ quiz.view = "none"
    BY DEF LearningInit, PagesInv, NoDetail, NoViewer, NoQuiz
  <2>. QED
    BY <2>1, <2>2 DEF LearningInv, PostInv, SubmitInv, SummaryInv, QuizInv, InOrder,
                      PageNeverAhead
<1>2. LearningInv /\ [LearningNext]_learningVars => LearningInv'
  <2>. SUFFICES ASSUME LearningInv, [LearningNext]_learningVars PROVE LearningInv'
    OBVIOUS
  <2>1. done' \subseteq Items /\ InOrder' /\ SummaryInv'
    BY Completes
  <2>2. PostInv' /\ SubmitInv' /\ PagesInv' /\ QuizInv' /\ PageNeverAhead'
    BY PostStep, SubmitStep, PagesStep, QuizStep, PageStep
  <2>. QED
    BY <2>1, <2>2 DEF LearningInv
<1>. QED
  BY <1>1, <1>2, PTL DEF LearningSpec

(* progress_service.py:85-86: a sequential content is completed in order,  *)
(* for any items and any requests.                                         *)
THEOREM ItemsInOrder == LearningSpec => []InOrder
<1>1. LearningInv => InOrder
  BY DEF LearningInv
<1>. QED
  BY <1>1, LearningInvariant, PTL

(* progress_service.py:241: a content that counts as completed is, for any *)
(* number of items.                                                        *)
THEOREM SummaryNeverAhead == LearningSpec => []CompletedMeansAll
<1>1. LearningInv => CompletedMeansAll
  <2>. SUFFICES ASSUME LearningInv, summary = Total PROVE done = Items
    BY DEF CompletedMeansAll
  <2>1. /\ Total \in Nat /\ Cardinality(done) \in Nat /\ Cardinality(done) <= Total
        /\ (Cardinality(done) = Total => done = Items)
    <3>1. done \in SUBSET Items /\ Items \in SUBSET Items
      BY DEF LearningInv
    <3>. QED
      BY <3>1, Counts DEF Total
  <2>2. summary # NoRow
    BY <2>1, LearningAssumption
  <2>3. Total <= Cardinality(done)
    BY <2>2 DEF LearningInv, SummaryInv
  <2>. QED
    BY <2>1, <2>3
<1>. QED
  BY <1>1, LearningInvariant, PTL

(* content_detail.js: the page of a content never shows an item as done or *)
(* as open that the server has not, however late its answers come.         *)
THEOREM PageHonest == LearningSpec => []PageNeverAhead
<1>1. LearningInv => PageNeverAhead
  BY DEF LearningInv
<1>. QED
  BY <1>1, LearningInvariant, PTL

----------------------------------------------------------------------------
(* One sitting at a time                                                   *)

(* The page of the quiz waits for one request at most; while it does, its  *)
(* countdown is stopped and its button disabled.                           *)
AtQuiz(requests) == {r \in requests : r.page = "quiz"}

SittingInv ==
    /\ \A a, b \in AtQuiz(submits) : a = b
    /\ \A a, b \in AtQuiz(posts) : a = b
    /\ AtQuiz(submits) = {} \/ AtQuiz(posts) = {}
    /\ AtQuiz(submits) # {} \/ AtQuiz(posts) # {} =>
         quiz.view = "quiz" /\ ~ timer /\ ~ finish
    /\ timer => quiz.view = "quiz"

LEMMA AnsweredOne ==
    ASSUME NEW r, NEW st
    PROVE  \A a, b \in Answered(r, st) : a = b
BY DEF Answered

LEMMA PostReplaced ==
    ASSUME SittingInv, NEW p \in posts, NEW R, posts' = (posts \ {p}) \cup R,
           \A r \in R : r.page = p.page, \A r, q \in R : r = q,
           UNCHANGED <<submits, quiz, timer, finish>>
    PROVE  SittingInv'
<1>1. CASE p.page = "quiz"
  <2>1. AtQuiz(posts) = {p} /\ AtQuiz(submits) = {}
    BY <1>1 DEF SittingInv, AtQuiz
  <2>2. AtQuiz(posts') = R
    BY <1>1, <2>1 DEF AtQuiz
  <2>. QED
    BY <2>1, <2>2 DEF SittingInv, AtQuiz
<1>2. CASE p.page # "quiz"
  <2>1. AtQuiz(posts') = AtQuiz(posts)
    BY <1>2 DEF AtQuiz
  <2>. QED
    BY <2>1 DEF SittingInv, AtQuiz
<1>. QED
  BY <1>1, <1>2

LEMMA SubmitReplaced ==
    ASSUME SittingInv, NEW s \in submits, NEW R, submits' = (submits \ {s}) \cup R,
           \A r \in R : r.page = s.page, \A r, q \in R : r = q,
           UNCHANGED <<posts, quiz, timer, finish>>
    PROVE  SittingInv'
<1>1. CASE s.page = "quiz"
  <2>1. AtQuiz(submits) = {s} /\ AtQuiz(posts) = {}
    BY <1>1 DEF SittingInv, AtQuiz
  <2>2. AtQuiz(submits') = R
    BY <1>1, <2>1 DEF AtQuiz
  <2>. QED
    BY <2>1, <2>2 DEF SittingInv, AtQuiz
<1>2. CASE s.page # "quiz"
  <2>1. AtQuiz(submits') = AtQuiz(submits)
    BY <1>2 DEF AtQuiz
  <2>. QED
    BY <2>1 DEF SittingInv, AtQuiz
<1>. QED
  BY <1>1, <1>2

(* Nobody at the page waits any more.                                      *)
LEMMA NobodyWaits ==
    ASSUME AtQuiz(posts') = {}, AtQuiz(submits') = {}, timer' => quiz'.view = "quiz"
    PROVE  SittingInv'
BY DEF SittingInv, AtQuiz

LEMMA OrphansLeave ==
    ASSUME LearningInv
    PROVE  AtQuiz(Orphans(posts)) = {} /\ AtQuiz(Orphans(submits)) = {}
BY OrphanPosts, OrphanSubmits DEF LearningInv, PostInv, SubmitInv, AtQuiz

LEMMA SittingStep ==
    ASSUME LearningInv, SittingInv, [LearningNext]_learningVars
    PROVE  SittingInv'
<1>1. \A p \in posts : IsPost(p)
  BY DEF LearningInv, PostInv
<1>2. \A s \in submits : IsSubmit(s)
  BY DEF LearningInv, SubmitInv
<1>3. ASSUME UNCHANGED <<submits, quiz, timer, finish>>, AtQuiz(posts') = AtQuiz(posts)
      PROVE  SittingInv'
  BY <1>3 DEF SittingInv, AtQuiz
<1>4. ASSUME NEW p \in posts, NEW R, posts' = (posts \ {p}) \cup R,
             R = Answered(p, "failed") \/ R = Answered(p, "ok"),
             UNCHANGED <<submits, quiz, timer, finish>>
      PROVE  SittingInv'
  <2>1. \A r \in R : r.page = p.page
    BY <1>1, <1>4, Answers
  <2>2. \A r, q \in R : r = q
    BY <1>4, AnsweredOne
  <2>. QED
    BY <1>4, <2>1, <2>2, PostReplaced
<1>5. ASSUME NEW s \in submits, NEW R, submits' = (submits \ {s}) \cup R,
             R = Answered(s, "failed") \/ R = Answered(s, "ok"),
             UNCHANGED <<posts, quiz, timer, finish>>
      PROVE  SittingInv'
  <2>1. \A r \in R : r.page = s.page
    BY <1>2, <1>5, SubmitAnswers
  <2>2. \A r, q \in R : r = q
    BY <1>5, AnsweredOne
  <2>. QED
    BY <1>5, <2>1, <2>2, SubmitReplaced
<1>6. ASSUME NEW p \in posts, CheckItem(p) PROVE SittingInv'
  <2>1. UNCHANGED <<submits, quiz, timer, finish>>
    BY <1>6 DEF CheckItem, quizPage
  <2>2. CASE posts' = (posts \ {p}) \cup Answered(p, "failed")
    BY <1>4, <2>1, <2>2
  <2>3. CASE posts' = (posts \ {p}) \cup {[p EXCEPT !.st = "checked", !.new = p.item \notin done]}
    <3>1. PICK R : R = {[p EXCEPT !.st = "checked", !.new = p.item \notin done]}
      OBVIOUS
    <3>2. (\A r \in R : r.page = p.page) /\ \A r, q \in R : r = q
      BY <1>1, <3>1 DEF IsPost
    <3>3. posts' = (posts \ {p}) \cup R
      BY <2>3, <3>1
    <3>. QED
      BY <2>1, <3>2, <3>3, PostReplaced
  <2>. QED
    BY <1>6, <2>2, <2>3 DEF CheckItem
<1>7. ASSUME NEW p \in posts, CountItems(p) PROVE SittingInv'
  <2>1. UNCHANGED <<submits, quiz, timer, finish>>
    BY <1>7 DEF CountItems, quizPage
  <2>2. CASE posts' = (posts \ {p}) \cup Answered(p, "failed")
    BY <1>4, <2>1, <2>2
  <2>3. PICK R : R = {[p EXCEPT !.st = "counted", !.count = completed_items(p.item),
                                !.first = summary = NoRow]}
    OBVIOUS
  <2>4. (\A r \in R : r.page = p.page) /\ \A r, q \in R : r = q
    BY <1>1, <2>3 DEF IsPost
  <2>5. CASE posts' = (posts \ {p}) \cup R
    BY <2>1, <2>4, <2>5, PostReplaced
  <2>. QED
    BY <1>7, <2>2, <2>3, <2>5 DEF CountItems
<1>8. ASSUME NEW p \in posts, CommitItem(p) PROVE SittingInv'
  BY <1>4, <1>8 DEF CommitItem, quizPage
<1>9. ASSUME NEW p \in posts, ProgressAnswered(p) PROVE SittingInv'
  <2>1. AtQuiz(posts') = AtQuiz(posts)
    BY <1>9 DEF ProgressAnswered, AtQuiz
  <2>. QED
    BY <1>3, <1>9, <2>1 DEF ProgressAnswered, quizPage
<1>10. ASSUME NEW p \in posts, RenderResult(p) PROVE SittingInv'
  <2>1. AtQuiz(posts) = {p} /\ AtQuiz(submits) = {} /\ ~ timer
    BY <1>10 DEF RenderResult, SittingInv, AtQuiz
  <2>2. AtQuiz(posts') = {} /\ AtQuiz(submits') = {} /\ ~ timer'
    BY <1>10, <2>1 DEF RenderResult, AtQuiz
  <2>. QED
    BY <2>2, NobodyWaits
<1>11. ASSUME NEW s \in submits, CheckAttempt(s) PROVE SittingInv'
  <2>1. UNCHANGED <<posts, quiz, timer, finish>>
    BY <1>11 DEF CheckAttempt, quizPage
  <2>2. CASE submits' = (submits \ {s}) \cup Answered(s, "failed")
    BY <1>5, <2>1, <2>2
  <2>3. PICK R : R = {[s EXCEPT !.st = "counted"]}
    OBVIOUS
  <2>4. (\A r \in R : r.page = s.page) /\ \A r, q \in R : r = q
    BY <1>2, <2>3 DEF IsSubmit
  <2>5. CASE submits' = (submits \ {s}) \cup R
    BY <2>1, <2>4, <2>5, SubmitReplaced
  <2>. QED
    BY <1>11, <2>2, <2>3, <2>5 DEF CheckAttempt
<1>12. ASSUME NEW s \in submits, RecordAttempt(s) PROVE SittingInv'
  BY <1>5, <1>12 DEF RecordAttempt, quizPage
<1>13. ASSUME NEW s \in submits, SubmitAnswered(s) PROVE SittingInv'
  <2>1. /\ AtQuiz(submits) = {s} /\ AtQuiz(posts) = {}
        /\ quiz.view = "quiz" /\ ~ timer /\ ~ finish
    BY <1>13 DEF SubmitAnswered, SittingInv, AtQuiz
  <2>2. submits' = submits \ {s} /\ UNCHANGED <<quiz, timer>>
    BY <1>13 DEF SubmitAnswered
  <2>3. AtQuiz(submits') = {}
    BY <2>1, <2>2 DEF AtQuiz
  <2>4. CASE UNCHANGED posts
    BY <2>1, <2>2, <2>3, <2>4, NobodyWaits
  <2>5. PICK r : r = [id |-> slot(posts), item |-> s.item, page |-> "quiz",
                      st |-> "sent", new |-> FALSE, first |-> FALSE, count |-> 0]
    OBVIOUS
  <2>6. CASE posts' = posts \cup {r} /\ UNCHANGED finish
    <3>1. AtQuiz(posts') = {r}
      BY <2>1, <2>5, <2>6 DEF AtQuiz
    <3>. QED
      BY <2>1, <2>2, <2>3, <2>6, <3>1 DEF SittingInv, AtQuiz
  <2>. QED
    BY <1>13, <2>4, <2>5, <2>6 DEF SubmitAnswered
<1>14. ASSUME NEW s \in submits, SubmitLost(s) PROVE SittingInv'
  <2>1. AtQuiz(submits) = {s} /\ AtQuiz(posts) = {} /\ ~ timer
    BY <1>14 DEF SubmitLost, SittingInv, AtQuiz
  <2>2. submits' = (submits \ {s}) \cup Orphans({s}) /\ UNCHANGED <<quiz, timer, posts>>
    BY <1>14 DEF SubmitLost
  <2>3. AtQuiz(Orphans({s})) = {}
    BY <1>2, OrphanSubmits DEF AtQuiz
  <2>4. AtQuiz(submits') = {}
    BY <2>1, <2>2, <2>3 DEF AtQuiz
  <2>. QED
    BY <2>1, <2>2, <2>4, NobodyWaits
<1>15. ASSUME submit, timer \/ (finish /\ quiz.view = "quiz") PROVE SittingInv'
  <2>1. AtQuiz(submits) = {} /\ AtQuiz(posts) = {} /\ quiz.view = "quiz"
    BY <1>15 DEF SittingInv
  <2>2. PICK r : r = [id |-> slot(submits), item |-> quiz.item, page |-> "quiz", st |-> "sent"]
    OBVIOUS
  <2>3. submits' = submits \cup {r} /\ timer' = FALSE /\ finish' = FALSE /\ UNCHANGED <<quiz, posts>>
    BY <1>15, <2>2 DEF submit
  <2>4. AtQuiz(submits') = {r} /\ AtQuiz(posts') = {}
    BY <2>1, <2>2, <2>3 DEF AtQuiz
  <2>. QED
    BY <2>1, <2>3, <2>4 DEF SittingInv, AtQuiz
<1>16. CASE Finish \/ TimeIsUp
  BY <1>15, <1>16 DEF Finish, TimeIsUp
<1>17. CASE LoadContent
  BY <1>17, OrphansLeave, NobodyWaits DEF LoadContent
<1>18. ASSUME NEW i \in Items, OpenQuiz(i) PROVE SittingInv'
  BY <1>18, OrphansLeave, NobodyWaits DEF OpenQuiz
<1>19. CASE Start
  <2>1. AtQuiz(submits) = {} /\ AtQuiz(posts) = {}
    BY <1>19 DEF Start, SittingInv
  <2>2. quiz'.view = "quiz"
    BY <1>19 DEF Start, LearningInv, PagesInv
  <2>. QED
    BY <1>19, <2>1, <2>2, NobodyWaits DEF Start, AtQuiz
<1>20. CASE Retry
  <2>1. AtQuiz(submits) = {} /\ AtQuiz(posts) = {} /\ ~ timer
    BY <1>20 DEF Retry, SittingInv
  <2>. QED
    BY <1>20, <2>1, NobodyWaits DEF Retry, AtQuiz
<1>21. ASSUME NEW n \in 1..Questions, GotoQuestion(n) PROVE SittingInv'
  <2>1. quiz'.view = quiz.view
    BY <1>21 DEF GotoQuestion, LearningInv, PagesInv
  <2>. QED
    BY <1>21, <2>1 DEF GotoQuestion, SittingInv, AtQuiz
<1>22. CASE MarkComplete
  <2>1. PICK r : r = [id |-> slot(posts), item |-> viewer.item, page |-> "content",
                      st |-> "sent", new |-> FALSE, first |-> FALSE, count |-> 0]
    OBVIOUS
  <2>2. posts' = posts \cup {r} /\ UNCHANGED <<submits, quizPage>>
    BY <1>22, <2>1 DEF MarkComplete
  <2>3. AtQuiz(posts') = AtQuiz(posts)
    BY <2>1, <2>2 DEF AtQuiz
  <2>. QED
    BY <1>3, <2>2, <2>3 DEF quizPage
<1>23. CASE Render \/ CloseViewer \/ (\E i \in Items : OtherTab(i) \/ OpenItem(i))
            \/ UNCHANGED learningVars
  BY <1>3, <1>23 DEF Render, CloseViewer, OtherTab, OpenItem, learningVars, quizPage
<1>. QED
  BY <1>6, <1>7, <1>8, <1>9, <1>10, <1>11, <1>12, <1>13, <1>14, <1>16, <1>17, <1>18, <1>19, <1>20,
     <1>21, <1>22, <1>23 DEF LearningNext

(* quiz_take.js: submit, its countdown and its answers.                    *)
THEOREM SittingInvariant == LearningSpec => []SittingInv
<1>1. LearningInit => SittingInv
  BY DEF LearningInit, SittingInv, AtQuiz
<1>2. LearningInv /\ SittingInv /\ [LearningNext]_learningVars => SittingInv'
  BY SittingStep
<1>. QED
  BY <1>1, <1>2, LearningInvariant, PTL DEF LearningSpec

(* quiz_service.py:451-456 counts the attempts before it records one: the  *)
(* page of a quiz never sends a second submission while it waits for the   *)
(* first, however the countdown, the button, errors and answers follow.    *)
THEOREM OneSubmissionAtATime == LearningSpec => []OneSubmission
<1>1. SittingInv => OneSubmission
  <2>. SUFFICES ASSUME SittingInv PROVE OneSubmission
    OBVIOUS
  <2>. DEFINE waiting == AtQuiz(submits) \cup AtQuiz(posts)
  <2>1. \A a, b \in waiting : a = b
    BY DEF SittingInv
  <2>. HIDE DEF waiting
  <2>2. CASE waiting = {}
    <3>1. Cardinality(waiting) = 0
      BY <2>2, FS_EmptySet
    <3>. QED
      BY <3>1 DEF waiting, OneSubmission, AtQuiz
  <2>3. ASSUME NEW r \in waiting PROVE OneSubmission
    <3>1. waiting = {r}
      BY <2>1
    <3>2. Cardinality(waiting) = 1
      BY <3>1, FS_Singleton
    <3>. QED
      BY <3>2 DEF waiting, OneSubmission, AtQuiz
  <2>. QED
    BY <2>2, <2>3
<1>. QED
  BY <1>1, SittingInvariant, PTL

----------------------------------------------------------------------------
(* Contents: types                                                         *)

RowsTyped == done \subseteq Items /\ summary \in 0..Total \cup {NoRow} /\ attempts \in Nat

PageTyped ==
    /\ at \in {"away", "content", "quiz"}
    /\ detail \in [shown : SUBSET Items, locked : SUBSET Items, drawn : BOOLEAN, new : BOOLEAN]
    /\ viewer \in [item : Items \cup {NoItem}, button : BOOLEAN]

(* A page that shows a quiz shows one of the content.                      *)
QuizTyped ==
    /\ quiz \in [view : {"none", "intro", "quiz", "result", "fatal"}, item : Quizzes \cup {NoItem},
                 used : Nat, current : 1..Questions]
    /\ timer \in BOOLEAN /\ finish \in BOOLEAN
    /\ quiz.view # "none" => quiz.item \in Quizzes

RequestsTyped == posts \subseteq Posts /\ submits \subseteq Submits

LearningTyped == RowsTyped /\ PageTyped /\ QuizTyped /\ RequestsTyped

LEMMA LeastNumber ==
    ASSUME NEW S \in SUBSET Nat, S # {}
    PROVE  \E n \in S : \A m \in S : n <= m
<1>1. PICK n \in S : \A m \in S : ~ (<<m, n>> \in OpToRel(<, Nat))
  BY NatLessThanWellFounded, WFMin
<1>2. \A m \in S : ~ (m < n)
  BY <1>1 DEF OpToRel
<1>. QED
  BY <1>2

(* A request that may be sent has a slot.                                  *)
LEMMA SlotIsFree ==
    ASSUME NEW requests, Free(requests) # {}
    PROVE  slot(requests) \in Slots
<1>1. Free(requests) \in SUBSET Nat
  BY LearningAssumption DEF Free, Slots
<1>2. \E n \in Free(requests) : \A m \in Free(requests) : n <= m
  BY <1>1, LeastNumber
<1>. QED
  BY <1>2 DEF slot, Free

LEMMA AnsweredTyped ==
    /\ \A p \in Posts : Answered(p, "ok") \subseteq Posts /\ Answered(p, "failed") \subseteq Posts
    /\ \A s \in Submits : Answered(s, "ok") \subseteq Submits /\ Answered(s, "failed") \subseteq Submits
BY DEF Answered, Posts, Submits

LEMMA OrphansTyped ==
    /\ \A P \in SUBSET Posts : Orphans(P) \subseteq Posts
    /\ \A S \in SUBSET Submits : Orphans(S) \subseteq Submits
BY DEF Orphans, Posts, Submits, Pages

LEMMA CountTyped ==
    ASSUME done \subseteq Items, NEW i \in Items
    PROVE  completed_items(i) \in 0..Total
<1>1. done \cup {i} \in SUBSET Items /\ Items \in SUBSET Items
  OBVIOUS
<1>2. /\ Cardinality(done \cup {i}) \in Nat /\ Cardinality(done \cup {i}) <= Total
      /\ Cardinality(Items) \in Nat
  BY <1>1, Counts
<1>. QED
  BY <1>2 DEF completed_items, Total

LEMMA NothingTyped ==
    /\ 1 \in 1..Questions /\ TimeLimited \in BOOLEAN
    /\ NoQuiz \in [view : {"none", "intro", "quiz", "result", "fatal"}, item : Quizzes \cup {NoItem},
                   used : Nat, current : 1..Questions]
    /\ NoQuiz.view = "none"
    /\ NoViewer \in [item : Items \cup {NoItem}, button : BOOLEAN]
<1>1. 1 \in 1..Questions /\ TimeLimited \in BOOLEAN
  BY LearningAssumption
<1>. QED
  BY <1>1 DEF NoQuiz, NoViewer

LEMMA LoadTyped ==
    ASSUME QuizTyped, RowsTyped, NEW i \in Quizzes, quiz' = load(i),
           timer' \in BOOLEAN, finish' \in BOOLEAN
    PROVE  QuizTyped'
<1>1. attempts \in Nat
  BY DEF RowsTyped
<1>2. CASE is_item_locked(i)
  BY <1>1, <1>2, NothingTyped DEF QuizTyped, load
<1>3. CASE ~ is_item_locked(i)
  BY <1>1, <1>3, NothingTyped DEF QuizTyped, load
<1>. QED
  BY <1>2, <1>3

LEMMA PostSent ==
    ASSUME posts \subseteq Posts, Free(posts) # {}, NEW i \in Items, NEW pg \in Pages
    PROVE  [id |-> slot(posts), item |-> i, page |-> pg, st |-> "sent",
            new |-> FALSE, first |-> FALSE, count |-> 0] \in Posts
<1>1. Total \in Nat
  BY LearningAssumption, FS_CardinalityType DEF Total
<1>2. slot(posts) \in Slots
  BY SlotIsFree
<1>. QED
  BY <1>1, <1>2 DEF Posts

LEMMA LearningTypesStep ==
    ASSUME LearningInv, SittingInv, LearningTyped, [LearningNext]_learningVars
    PROVE  LearningTyped'
<1>. USE DEF LearningTyped
<1>1. RowsTyped /\ PageTyped /\ QuizTyped /\ RequestsTyped
  OBVIOUS
<1>2. \A p \in posts : p \in Posts /\ p.item \in Items /\ p.page \in Pages
  BY <1>1 DEF RequestsTyped, Posts
<1>3. \A s \in submits : s \in Submits /\ s.item \in Quizzes /\ s.item \in Items
  BY <1>1, LearningAssumption DEF RequestsTyped, Submits
<1>4. ASSUME UNCHANGED server PROVE RowsTyped'
  BY <1>1, <1>4 DEF RowsTyped, server
<1>5. ASSUME UNCHANGED <<at, contentPage>> PROVE PageTyped'
  BY <1>1, <1>5 DEF PageTyped, contentPage
<1>6. ASSUME UNCHANGED quizPage PROVE QuizTyped'
  BY <1>1, <1>6 DEF QuizTyped, quizPage
<1>7. ASSUME UNCHANGED <<posts, submits>> PROVE RequestsTyped'
  BY <1>1, <1>7 DEF RequestsTyped
<1>8. ASSUME NEW p \in posts, CheckItem(p) PROVE LearningTyped'
  <2>1. [p EXCEPT !.st = "checked", !.new = p.item \notin done] \in Posts
    BY <1>2 DEF Posts
  <2>2. RequestsTyped'
    BY <1>1, <1>2, <1>8, <2>1, AnsweredTyped DEF CheckItem, RequestsTyped
  <2>. QED
    BY <1>4, <1>5, <1>6, <1>8, <2>2 DEF CheckItem
<1>9. ASSUME NEW p \in posts, CountItems(p) PROVE LearningTyped'
  <2>1. completed_items(p.item) \in 0..Total
    BY <1>1, <1>2, CountTyped DEF RowsTyped
  <2>2. [p EXCEPT !.st = "counted", !.count = completed_items(p.item), !.first = summary = NoRow] \in Posts
    BY <1>2, <2>1 DEF Posts
  <2>3. RequestsTyped'
    BY <1>1, <1>2, <1>9, <2>2, AnsweredTyped DEF CountItems, RequestsTyped
  <2>. QED
    BY <1>4, <1>5, <1>6, <1>9, <2>3 DEF CountItems
<1>10. ASSUME NEW p \in posts, CommitItem(p) PROVE LearningTyped'
  <2>1. p.count \in 0..Total
    BY <1>2 DEF Posts
  <2>2. RowsTyped'
    BY <1>1, <1>2, <1>10, <2>1 DEF CommitItem, RowsTyped
  <2>3. RequestsTyped'
    BY <1>1, <1>2, <1>10, AnsweredTyped DEF CommitItem, RequestsTyped
  <2>. QED
    BY <1>5, <1>6, <1>10, <2>2, <2>3 DEF CommitItem
<1>11. ASSUME NEW p \in posts, ProgressAnswered(p) PROVE LearningTyped'
  <2>1. RequestsTyped'
    BY <1>1, <1>11 DEF ProgressAnswered, RequestsTyped
  <2>2. PageTyped'
    <3>1. CASE UNCHANGED contentPage
      BY <1>1, <1>11, <3>1 DEF ProgressAnswered, PageTyped, contentPage
    <3>2. CASE /\ detail' = [detail EXCEPT !.shown = @ \cup {p.item}]
               /\ viewer' = IF viewer.item = p.item THEN NoViewer ELSE viewer
      <4>1. detail' \in [shown : SUBSET Items, locked : SUBSET Items, drawn : BOOLEAN, new : BOOLEAN]
        BY <1>1, <1>2, <3>2 DEF PageTyped
      <4>2. viewer' \in [item : Items \cup {NoItem}, button : BOOLEAN]
        BY <1>1, <3>2, NothingTyped DEF PageTyped
      <4>. QED
        BY <1>1, <1>11, <4>1, <4>2 DEF ProgressAnswered, PageTyped
    <3>. QED
      BY <1>11, <3>1, <3>2 DEF ProgressAnswered
  <2>. QED
    BY <1>4, <1>6, <1>11, <2>1, <2>2 DEF ProgressAnswered
<1>12. ASSUME NEW p \in posts, RenderResult(p) PROVE LearningTyped'
  <2>1. RequestsTyped'
    BY <1>1, <1>12 DEF RenderResult, RequestsTyped
  <2>2. quiz.view = "quiz"
    BY <1>12 DEF RenderResult, SittingInv, AtQuiz
  <2>3. QuizTyped'
    BY <1>1, <1>12, <2>2 DEF RenderResult, QuizTyped
  <2>. QED
    BY <1>4, <1>5, <1>12, <2>1, <2>3 DEF RenderResult
<1>13. ASSUME NEW s \in submits, CheckAttempt(s) PROVE LearningTyped'
  <2>1. [s EXCEPT !.st = "counted"] \in Submits
    BY <1>3 DEF Submits
  <2>2. RequestsTyped'
    BY <1>1, <1>3, <1>13, <2>1, AnsweredTyped DEF CheckAttempt, RequestsTyped
  <2>. QED
    BY <1>4, <1>5, <1>6, <1>13, <2>2 DEF CheckAttempt
<1>14. ASSUME NEW s \in submits, RecordAttempt(s) PROVE LearningTyped'
  <2>1. RequestsTyped'
    BY <1>1, <1>3, <1>14, AnsweredTyped DEF RecordAttempt, RequestsTyped
  <2>2. RowsTyped'
    BY <1>1, <1>14 DEF RecordAttempt, RowsTyped
  <2>. QED
    BY <1>5, <1>6, <1>14, <2>1, <2>2 DEF RecordAttempt
<1>15. ASSUME NEW s \in submits, SubmitAnswered(s) PROVE LearningTyped'
  <2>1. submits' \subseteq Submits
    BY <1>1, <1>15 DEF SubmitAnswered, RequestsTyped
  <2>2. posts' \subseteq Posts
    <3>1. CASE UNCHANGED posts
      BY <1>1, <3>1 DEF RequestsTyped
    <3>2. CASE Free(posts) # {} /\ posts' = posts \cup
                 {[id |-> slot(posts), item |-> s.item, page |-> "quiz",
                   st |-> "sent", new |-> FALSE, first |-> FALSE, count |-> 0]}
      <4>1. [id |-> slot(posts), item |-> s.item, page |-> "quiz",
             st |-> "sent", new |-> FALSE, first |-> FALSE, count |-> 0] \in Posts
        BY <1>1, <1>3, <3>2, PostSent DEF RequestsTyped, Pages
      <4>. QED
        BY <1>1, <3>2, <4>1 DEF RequestsTyped
    <3>. QED
      BY <1>15, <3>1, <3>2 DEF SubmitAnswered
  <2>3. QuizTyped'
    BY <1>1, <1>15 DEF SubmitAnswered, QuizTyped
  <2>. QED
    BY <1>4, <1>5, <1>15, <2>1, <2>2, <2>3 DEF SubmitAnswered, RequestsTyped
<1>16. ASSUME NEW s \in submits, SubmitLost(s) PROVE LearningTyped'
  <2>1. RequestsTyped'
    BY <1>1, <1>3, <1>16, OrphansTyped DEF SubmitLost, RequestsTyped
  <2>2. QuizTyped'
    BY <1>1, <1>16 DEF SubmitLost, QuizTyped
  <2>. QED
    BY <1>4, <1>5, <1>16, <2>1, <2>2 DEF SubmitLost
<1>17. ASSUME submit, quiz.view = "quiz" PROVE LearningTyped'
  <2>1. slot(submits) \in Slots
    BY <1>17, SlotIsFree DEF submit
  <2>2. [id |-> slot(submits), item |-> quiz.item, page |-> "quiz", st |-> "sent"] \in Submits
    BY <1>1, <1>17, <2>1 DEF QuizTyped, Submits, Pages
  <2>3. RequestsTyped'
    BY <1>1, <1>17, <2>2 DEF submit, RequestsTyped
  <2>4. QuizTyped'
    BY <1>1, <1>17 DEF submit, QuizTyped
  <2>. QED
    BY <1>4, <1>5, <1>17, <2>3, <2>4 DEF submit
<1>18. CASE Finish \/ TimeIsUp
  <2>1. submit /\ quiz.view = "quiz"
    BY <1>18 DEF Finish, TimeIsUp, SittingInv
  <2>. QED
    BY <1>17, <2>1
<1>19. CASE LoadContent
  <2>1. RequestsTyped'
    BY <1>1, <1>19, OrphansTyped DEF LoadContent, RequestsTyped
  <2>2. PageTyped'
    BY <1>1, <1>19 DEF LoadContent, PageTyped, RowsTyped, NoViewer, compute_locked_map
  <2>3. QuizTyped'
    BY <1>1, <1>19, NothingTyped DEF LoadContent, QuizTyped
  <2>. QED
    BY <1>4, <1>19, <2>1, <2>2, <2>3 DEF LoadContent
<1>20. ASSUME NEW i \in Items, OpenQuiz(i) PROVE LearningTyped'
  <2>1. RequestsTyped'
    BY <1>1, <1>20, OrphansTyped DEF OpenQuiz, RequestsTyped
  <2>2. PageTyped'
    BY <1>1, <1>20 DEF OpenQuiz, PageTyped, NoViewer, NoDetail
  <2>3. QuizTyped'
    BY <1>1, <1>20, LoadTyped DEF OpenQuiz
  <2>. QED
    BY <1>4, <1>20, <2>1, <2>2, <2>3 DEF OpenQuiz
<1>21. CASE Start
  <2>1. QuizTyped'
    BY <1>1, <1>21, NothingTyped DEF Start, QuizTyped
  <2>. QED
    BY <1>4, <1>5, <1>7, <1>21, <2>1 DEF Start
<1>22. CASE Retry
  <2>1. quiz.item \in Quizzes /\ timer' \in BOOLEAN /\ finish' \in BOOLEAN /\ quiz' = load(quiz.item)
    BY <1>1, <1>22 DEF Retry, QuizTyped
  <2>2. QuizTyped'
    BY <1>1, <2>1, LoadTyped
  <2>. QED
    BY <1>4, <1>5, <1>7, <1>22, <2>2 DEF Retry
<1>23. ASSUME NEW n \in 1..Questions, GotoQuestion(n) PROVE LearningTyped'
  <2>1. QuizTyped'
    BY <1>1, <1>23 DEF GotoQuestion, QuizTyped
  <2>. QED
    BY <1>4, <1>5, <1>7, <1>23, <2>1 DEF GotoQuestion
<1>24. CASE MarkComplete
  <2>1. viewer.item \in Items
    BY <1>24 DEF MarkComplete, LearningInv, PagesInv
  <2>2. [id |-> slot(posts), item |-> viewer.item, page |-> "content",
         st |-> "sent", new |-> FALSE, first |-> FALSE, count |-> 0] \in Posts
    BY <1>1, <1>24, <2>1, PostSent DEF MarkComplete, RequestsTyped, Pages
  <2>3. RequestsTyped'
    BY <1>1, <1>24, <2>2 DEF MarkComplete, RequestsTyped
  <2>. QED
    BY <1>4, <1>5, <1>6, <1>24, <2>3 DEF MarkComplete
<1>25. CASE Render
  <2>1. RowsTyped' 
    <3>1. Total \in Nat
      BY LearningAssumption, FS_CardinalityType DEF Total
    <3>. QED
      BY <1>1, <1>25, <3>1 DEF Render, RowsTyped
  <2>2. PageTyped'
    BY <1>1, <1>25 DEF Render, PageTyped
  <2>. QED
    BY <1>6, <1>7, <1>25, <2>1, <2>2 DEF Render
<1>26. CASE CloseViewer
  <2>1. PageTyped'
    BY <1>1, <1>26 DEF CloseViewer, PageTyped, NoViewer
  <2>. QED
    BY <1>4, <1>6, <1>7, <1>26, <2>1 DEF CloseViewer
<1>27. ASSUME NEW i \in Items, OpenItem(i) PROVE LearningTyped'
  <2>1. PageTyped'
    BY <1>1, <1>27 DEF OpenItem, PageTyped
  <2>. QED
    BY <1>4, <1>6, <1>7, <1>27, <2>1 DEF OpenItem
<1>28. ASSUME NEW i \in Items, OtherTab(i) PROVE LearningTyped'
  <2>1. completed_items(i) \in 0..Total
    BY <1>1, CountTyped DEF RowsTyped
  <2>2. RowsTyped'
    BY <1>1, <1>28, <2>1 DEF OtherTab, RowsTyped
  <2>. QED
    BY <1>5, <1>6, <1>7, <1>28, <2>2 DEF OtherTab
<1>29. CASE UNCHANGED learningVars
  BY <1>4, <1>5, <1>6, <1>7, <1>29 DEF learningVars
<1>. QED
  BY <1>8, <1>9, <1>10, <1>11, <1>12, <1>13, <1>14, <1>15, <1>16, <1>18, <1>19, <1>20, <1>21,
     <1>22, <1>23, <1>24, <1>25, <1>26, <1>27, <1>28, <1>29 DEF LearningNext

(* The rows, the pages and the requests of contents keep their types; the  *)
(* number of a summary is between none and all of the items.               *)
THEOREM LearningTypes == LearningSpec => []LearningTypeOK
<1>1. LearningInit => LearningTyped
  <2>1. LearningInit => RowsTyped /\ RequestsTyped
    BY DEF LearningInit, RowsTyped, RequestsTyped
  <2>2. LearningInit => PageTyped
    BY NothingTyped DEF LearningInit, PageTyped, NoDetail
  <2>3. LearningInit => QuizTyped
    BY NothingTyped DEF LearningInit, QuizTyped
  <2>. QED
    BY <2>1, <2>2, <2>3 DEF LearningTyped
<1>2. LearningInv /\ SittingInv /\ LearningTyped /\ [LearningNext]_learningVars => LearningTyped'
  BY LearningTypesStep
<1>3. LearningTyped => LearningTypeOK
  BY DEF LearningTyped, RowsTyped, PageTyped, QuizTyped, RequestsTyped, LearningTypeOK
<1>. QED
  BY <1>1, <1>2, <1>3, LearningInvariant, SittingInvariant, PTL DEF LearningSpec

----------------------------------------------------------------------------
(* Programs: the invariant                                                 *)

HasRows(e) == \E s \in Steps : progress[e][s] # "none"

IsAction(a) ==
    /\ a = [id |-> a.id, step |-> a.step, to |-> a.to, st |-> a.st, heard |-> a.heard,
            enrollment |-> a.enrollment, old |-> a.old, need |-> a.need, was |-> a.was,
            all |-> a.all, detail |-> a.detail]
    /\ a.step \in Steps /\ a.to \in {"completed", "skipped"}
    /\ a.enrollment \in Enrollments \cup {NotEnrolled}

AtWork == {"found", "set", "listed", "counted"}

(* A request that has found the row of its step; a step that stays         *)
(* required is only ever completed.                                        *)
FoundStays(a) ==
    a.st \in AtWork =>
       /\ a.enrollment \in Enrollments /\ progress[a.enrollment][a.step] # "none"
       /\ a.step \in StaysRequired /\ a.old = "completed"
            => progress[a.enrollment][a.step] = "completed"

(* What it has read and counted still holds when it commits.               *)
CountedStays(a) ==
    /\ a.st \in {"set", "listed", "counted"} /\ a.step \in StaysRequired => a.to = "completed"
    /\ a.st = "listed" =>
         \A s \in StaysRequired : progress[a.enrollment][s] # "none" => s \in a.need
    /\ a.st = "counted" /\ a.all = TRUE =>
         \A s \in StaysRequired \ {a.step} : progress[a.enrollment][s] \in {"completed", "none"}

Sound(a) == IsAction(a) /\ FoundStays(a) /\ CountedStays(a)

ActionsInv == \A a \in actions : Sound(a)

RowsInv ==
    /\ program \subseteq Steps /\ StaysRequired \subseteq required
    /\ progress = [e \in Enrollments |-> progress[e]]
    /\ \A e \in Enrollments : progress[e] = [s \in Steps |-> progress[e][s]]
    /\ \A e \in Enrollments, s \in Steps : progress[e][s] # "none" => s \in program
    /\ \A e \in completed : e \in Enrollments /\ HasRows(e)

ViewerInv == opened.complete = TRUE \/ opened.skip = TRUE => opened.step \in Steps

JourneyInv == RowsInv /\ ActionsInv /\ ViewerInv /\ CompletedMeansDone

----------------------------------------------------------------------------
(* Rows appear together, stay, and a completed required one stays so.      *)
RowsGrow ==
    \A e \in Enrollments : HasRows(e) =>
        \A s \in Steps : /\ progress[e][s] = "none" <=> progress'[e][s] = "none"
                         /\ s \in StaysRequired /\ progress[e][s] = "completed"
                              => progress'[e][s] = "completed"

LEMMA StaysSteps == StaysRequired \subseteq Steps
BY JourneyAssumption DEF StaysRequired

LEMMA GrowKeeps ==
    ASSUME JourneyInv, RowsGrow, NEW a \in actions
    PROVE  Sound(a)'
<1>. StaysRequired \subseteq Steps
  BY StaysSteps
<1>1. IsAction(a) /\ FoundStays(a) /\ CountedStays(a)
  BY DEF JourneyInv, ActionsInv, Sound
<1>2. IsAction(a)'
  BY <1>1 DEF IsAction
<1>3. CASE a.st \notin AtWork
  BY <1>2, <1>3 DEF Sound, FoundStays, CountedStays, AtWork
<1>4. CASE a.st \in AtWork
  <2>1. a.step \in Steps /\ a.enrollment \in Enrollments
    BY <1>1, <1>4 DEF IsAction, FoundStays
  <2>2. HasRows(a.enrollment)
    BY <1>1, <1>4, <2>1 DEF FoundStays, HasRows
  <2>3. \A s \in Steps :
           /\ progress[a.enrollment][s] = "none" <=> progress'[a.enrollment][s] = "none"
           /\ s \in StaysRequired /\ progress[a.enrollment][s] = "completed"
                => progress'[a.enrollment][s] = "completed"
    BY <2>1, <2>2 DEF RowsGrow
  <2>4. FoundStays(a)'
    BY <1>1, <1>4, <2>1, <2>3 DEF FoundStays
  <2>5. CountedStays(a)'
    BY <1>1, <2>1, <2>3 DEF CountedStays
  <2>. QED
    BY <1>2, <2>4, <2>5 DEF Sound
<1>. QED
  BY <1>3, <1>4

LEMMA GrowKeepsCompleted ==
    ASSUME JourneyInv, RowsGrow, NEW e \in completed
    PROVE  /\ HasRows(e)'
           /\ \A s \in StaysRequired : progress'[e][s] \in {"completed", "none"}
<1>. StaysRequired \subseteq Steps
  BY StaysSteps
<1>1. e \in Enrollments /\ HasRows(e)
  BY DEF JourneyInv, RowsInv
<1>2. \A s \in StaysRequired : progress[e][s] \in {"completed", "none"}
  BY DEF JourneyInv, CompletedMeansDone
<1>. QED
  BY <1>1, <1>2 DEF RowsGrow, HasRows

(* A request becomes another one, and nothing else changes.                *)
LEMMA OneBecomes ==
    ASSUME JourneyInv, NEW a \in actions, NEW b, Becomes(a, b), UNCHANGED <<records, opened>>, Sound(b)
    PROVE  JourneyInv'
<1>1. RowsInv' /\ CompletedMeansDone' /\ ViewerInv'
  BY DEF JourneyInv, RowsInv, HasRows, CompletedMeansDone, ViewerInv, records
<1>2. ActionsInv'
  BY DEF Becomes, JourneyInv, ActionsInv, Sound, FoundStays, CountedStays, IsAction, records
<1>. QED
  BY <1>1, <1>2 DEF JourneyInv

LEMMA OneFails ==
    ASSUME JourneyInv, NEW a \in actions, NEW why, why \notin AtWork,
           Fails(a, why), UNCHANGED <<records, opened>>
    PROVE  JourneyInv'
<1>1. PICK b : b = [a EXCEPT !.st = why]
  OBVIOUS
<1>2. IsAction(b) /\ b.st = why
  BY <1>1 DEF JourneyInv, ActionsInv, Sound, IsAction
<1>3. Becomes(a, b)
  BY <1>1 DEF Fails
<1>. QED
  BY <1>2, <1>3, OneBecomes DEF Sound, FoundStays, CountedStays, AtWork

----------------------------------------------------------------------------
LEMMA FindStep ==
    ASSUME JourneyInv, NEW a \in actions, Find(a)
    PROVE  JourneyInv'
<1>. UNCHANGED <<records, opened>>
  BY DEF Find
<1>1. IsAction(a)
  BY DEF JourneyInv, ActionsInv, Sound
<1>2. CASE Fails(a, "error") \/ Fails(a, "not found")
  BY <1>2, OneFails DEF AtWork
<1>3. CASE Becomes(a, [a EXCEPT !.st = "enrolling"])
  BY <1>3, OneFails DEF Fails, AtWork
<1>4. ASSUME NEW e \in Enrollments, Rows(a.step) = {e},
             Becomes(a, [a EXCEPT !.st = "found", !.enrollment = e, !.old = progress[e][a.step]])
      PROVE  JourneyInv'
  <2>1. PICK b : b = [a EXCEPT !.st = "found", !.enrollment = e, !.old = progress[e][a.step]]
    OBVIOUS
  <2>2. /\ IsAction(b) /\ b.st = "found" /\ b.enrollment = e /\ b.step = a.step
        /\ b.old = progress[e][a.step]
    BY <1>1, <2>1 DEF IsAction
  <2>3. progress[e][a.step] # "none"
    BY <1>4 DEF Rows
  <2>4. Sound(b)
    BY <2>2, <2>3 DEF Sound, FoundStays, CountedStays
  <2>5. Becomes(a, b)
    BY <1>4, <2>1
  <2>. QED
    BY <2>4, <2>5, OneBecomes
<1>. QED
  BY <1>2, <1>3, <1>4 DEF Find

LEMMA SetStatusStep ==
    ASSUME JourneyInv, NEW a \in actions, SetStatus(a)
    PROVE  JourneyInv'
<1>. UNCHANGED <<records, opened>>
  BY DEF SetStatus
<1>1. IsAction(a) /\ FoundStays(a) /\ a.st = "found"
  BY DEF JourneyInv, ActionsInv, Sound, SetStatus
<1>2. CASE Fails(a, "error")
  BY <1>2, OneFails DEF AtWork
<1>3. CASE ~ (a.to = "skipped" /\ a.step \in required)
  <2>1. PICK b : b = [a EXCEPT !.st = "set"]
    OBVIOUS
  <2>2. /\ IsAction(b) /\ b.st = "set" /\ b.enrollment = a.enrollment /\ b.step = a.step
        /\ b.to = a.to /\ b.old = a.old
    BY <1>1, <2>1 DEF IsAction
  <2>3. a.step \in StaysRequired => a.to = "completed"
    BY <1>1, <1>3 DEF IsAction, JourneyInv, RowsInv
  <2>4. Sound(b)
    BY <1>1, <2>2, <2>3 DEF Sound, FoundStays, CountedStays, AtWork
  <2>5. Becomes(a, b)
    BY <1>3, <2>1 DEF SetStatus
  <2>. QED
    BY <2>4, <2>5, OneBecomes
<1>. QED
  BY <1>2, <1>3 DEF SetStatus

(* A step that stays required and has a row is among the steps needed.     *)
LEMMA ListStepsStep ==
    ASSUME JourneyInv, NEW a \in actions, ListSteps(a)
    PROVE  JourneyInv'
<1>. UNCHANGED <<records, opened>>
  BY DEF ListSteps
<1>1. IsAction(a) /\ FoundStays(a) /\ CountedStays(a) /\ a.st = "set"
  BY DEF JourneyInv, ActionsInv, Sound, ListSteps
<1>2. PICK was, need : was = (a.enrollment \in completed) /\ need = required \cap program
  OBVIOUS
<1>3. PICK b : b = [a EXCEPT !.st = "listed", !.was = was, !.need = need]
  OBVIOUS
<1>4. /\ IsAction(b) /\ b.st = "listed" /\ b.enrollment = a.enrollment /\ b.step = a.step
      /\ b.to = a.to /\ b.old = a.old /\ b.need = need
  BY <1>1, <1>3 DEF IsAction
<1>5. ASSUME NEW s \in StaysRequired, progress[a.enrollment][s] # "none"
      PROVE  s \in need
  <2>1. s \in Steps /\ a.enrollment \in Enrollments
    BY <1>1, StaysSteps DEF FoundStays, AtWork
  <2>. QED
    BY <1>2, <1>5, <2>1 DEF JourneyInv, RowsInv
<1>6. Sound(b)
  BY <1>1, <1>4, <1>5 DEF Sound, FoundStays, CountedStays, AtWork
<1>7. Becomes(a, b)
  BY <1>2, <1>3 DEF ListSteps
<1>. QED
  BY <1>6, <1>7, OneBecomes

LEMMA RecalculateStep ==
    ASSUME JourneyInv, NEW a \in actions, Recalculate(a)
    PROVE  JourneyInv'
<1>. UNCHANGED <<records, opened>>
  BY DEF Recalculate
<1>1. IsAction(a) /\ FoundStays(a) /\ CountedStays(a) /\ a.st = "listed"
  BY DEF JourneyInv, ActionsInv, Sound, Recalculate
<1>2. PICK rows : rows = [progress[a.enrollment] EXCEPT ![a.step] = a.to]
  OBVIOUS
<1>3. PICK all : all = AllRequired(a.need, rows)
  OBVIOUS
<1>4. PICK b : b = [a EXCEPT !.st = "counted", !.need = {}, !.all = all]
  OBVIOUS
<1>5. /\ IsAction(b) /\ b.st = "counted" /\ b.enrollment = a.enrollment /\ b.step = a.step
      /\ b.to = a.to /\ b.old = a.old /\ b.all = all
  BY <1>1, <1>4 DEF IsAction
<1>6. ASSUME all = TRUE, NEW s \in StaysRequired \ {a.step}
      PROVE  progress[a.enrollment][s] \in {"completed", "none"}
  <2>1. s \in Steps /\ a.enrollment \in Enrollments
    BY <1>1, StaysSteps DEF FoundStays, AtWork
  <2>2. progress[a.enrollment] = [t \in Steps |-> progress[a.enrollment][t]]
    BY <2>1 DEF JourneyInv, RowsInv
  <2>3. rows[s] = progress[a.enrollment][s]
    BY <1>2, <2>1, <2>2
  <2>4. s \in a.need => rows[s] = "completed"
    BY <1>3, <1>6 DEF AllRequired
  <2>. QED
    BY <1>1, <2>3, <2>4 DEF CountedStays
<1>7. Sound(b)
  BY <1>1, <1>5, <1>6 DEF Sound, FoundStays, CountedStays, AtWork
<1>8. Becomes(a, b)
  BY <1>2, <1>3, <1>4 DEF Recalculate
<1>. QED
  BY <1>7, <1>8, OneBecomes

(* The rows of an enrollment change, and a request with them, if it stays. *)
Writes(b, e, row) ==
    /\ (\A c \in actions' : c \in actions \/ c = b)
    /\ UNCHANGED <<program, required, opened>>
    /\ IsAction(b) /\ b.st \notin AtWork
    /\ RowsGrow
    /\ progress' = [progress EXCEPT ![e] = row]
    /\ row = [s \in Steps |-> row[s]]
    /\ \A s \in Steps : row[s] # "none" => s \in program
    /\ \A c \in completed' : c \in completed \/
          /\ c = e /\ (\E s \in Steps : row[s] # "none")
          /\ \A s \in StaysRequired : row[s] \in {"completed", "none"}

LEMMA RowsStep ==
    ASSUME JourneyInv, NEW b, NEW e \in Enrollments, NEW row, Writes(b, e, row)
    PROVE  JourneyInv'
<1>. /\ (\A c \in actions' : c \in actions \/ c = b)
     /\ UNCHANGED <<program, required, opened>>
     /\ IsAction(b) /\ b.st \notin AtWork
     /\ RowsGrow
     /\ progress' = [progress EXCEPT ![e] = row]
     /\ row = [s \in Steps |-> row[s]]
     /\ \A s \in Steps : row[s] # "none" => s \in program
     /\ \A c \in completed' : c \in completed \/
           /\ c = e /\ (\E s \in Steps : row[s] # "none")
           /\ \A s \in StaysRequired : row[s] \in {"completed", "none"}
  BY DEF Writes
<1>1. progress'[e] = row
  BY DEF JourneyInv, RowsInv
<1>2. \A c \in completed' : c \in Enrollments /\ HasRows(c)'
                            /\ \A s \in StaysRequired : progress'[c][s] \in {"completed", "none"}
  BY <1>1, GrowKeepsCompleted DEF HasRows, JourneyInv, RowsInv
<1>3. /\ progress' = [f \in Enrollments |-> progress'[f]]
      /\ \A f \in Enrollments : progress'[f] = progress[f] \/ f = e
  BY DEF JourneyInv, RowsInv
<1>4. RowsInv'
  BY <1>1, <1>2, <1>3 DEF RowsInv, JourneyInv
<1>5. CompletedMeansDone'
  BY <1>2 DEF CompletedMeansDone
<1>6. ActionsInv'
  <2>1. \A c \in actions : Sound(c)'
    BY GrowKeeps
  <2>2. Sound(b)'
    BY DEF Sound, FoundStays, CountedStays, IsAction, AtWork
  <2>. QED
    BY <2>1, <2>2 DEF ActionsInv, Sound
<1>. QED
  BY <1>4, <1>5, <1>6 DEF JourneyInv, ViewerInv

LEMMA EnrollStep ==
    ASSUME JourneyInv, NEW a \in actions, Enroll(a)
    PROVE  JourneyInv' /\ RowsGrow
<1>1. PICK e \in Enrollments \ enrolled :
         progress' = [progress EXCEPT ![e] = [s \in Steps |-> IF s \in program THEN "not_started"
                                                              ELSE "none"]]
  BY DEF Enroll
<1>2. \A s \in Steps : progress[e][s] = "none"
  BY <1>1 DEF enrolled, NoRows
<1>3. RowsGrow
  BY <1>1, <1>2 DEF RowsGrow, HasRows, JourneyInv, RowsInv
<1>4. PICK b : b = [a EXCEPT !.st = "sent"]
  OBVIOUS
<1>5. IsAction(b) /\ b.st = "sent"
  <2>1. IsAction(a)
    BY DEF JourneyInv, ActionsInv, Sound
  <2>. QED
    BY <1>4, <2>1 DEF IsAction
<1>6. (\A c \in actions' : c \in actions \/ c = b)
      /\ UNCHANGED <<program, required, opened, completed>>
  BY <1>4 DEF Enroll, Becomes
<1>7. PICK row : row = [s \in Steps |-> IF s \in program THEN "not_started" ELSE "none"]
  OBVIOUS
<1>8. /\ progress' = [progress EXCEPT ![e] = row]
      /\ row = [s \in Steps |-> row[s]]
      /\ \A s \in Steps : row[s] # "none" => s \in program
  BY <1>1, <1>7
<1>9. Writes(b, e, row)
  BY <1>3, <1>5, <1>6, <1>8 DEF Writes, AtWork
<1>. QED
  BY <1>3, <1>9, RowsStep

LEMMA CommitStep ==
    ASSUME JourneyInv, NEW a \in actions, Commit(a)
    PROVE  JourneyInv' /\ RowsGrow
<1>. StaysRequired \subseteq Steps
  BY StaysSteps
<1>1. IsAction(a) /\ FoundStays(a) /\ CountedStays(a) /\ a.st = "counted"
  BY DEF JourneyInv, ActionsInv, Sound, Commit
<1>2. PICK e : e = a.enrollment
  OBVIOUS
<1>3. /\ e \in Enrollments /\ a.step \in Steps /\ a.step \in program
      /\ progress[e][a.step] # "none"
      /\ progress[e] = [s \in Steps |-> progress[e][s]]
  BY <1>1, <1>2 DEF IsAction, FoundStays, AtWork, JourneyInv, RowsInv
<1>4. PICK row : row = IF a.to = a.old THEN progress[e] ELSE [progress[e] EXCEPT ![a.step] = a.to]
  OBVIOUS
<1>5. /\ row = [s \in Steps |-> row[s]]
      /\ \A s \in Steps \ {a.step} : row[s] = progress[e][s]
      /\ row[a.step] \in {a.to, progress[e][a.step]} /\ row[a.step] # "none"
      /\ a.step \in StaysRequired => row[a.step] = "completed"
  BY <1>1, <1>2, <1>3, <1>4 DEF IsAction, FoundStays, CountedStays, AtWork
<1>6. progress' = [progress EXCEPT ![e] = row]
  BY <1>2, <1>3, <1>4 DEF Commit, JourneyInv, RowsInv
<1>7. progress'[e] = row /\ \A f \in Enrollments \ {e} : progress'[f] = progress[f]
  BY <1>3, <1>6 DEF JourneyInv, RowsInv
<1>8. RowsGrow
  BY <1>3, <1>5, <1>7 DEF RowsGrow
<1>9. PICK b : b = [a EXCEPT !.st = "answering", !.old = "none", !.was = FALSE, !.all = FALSE]
  OBVIOUS
<1>10. IsAction(b) /\ b.st = "answering" /\ \A d \in actions' : d \in actions \/ d = b
  <2>1. IsAction(b) /\ b.st = "answering"
    BY <1>1, <1>9 DEF IsAction
  <2>2. CASE a.heard
    BY <1>9, <2>1, <2>2 DEF Commit, Becomes
  <2>3. CASE ~ a.heard
    BY <2>1, <2>3 DEF Commit
  <2>. QED
    BY <2>2, <2>3
<1>11. \A c \in completed' : c \in completed \/ (c = e /\ a.all = TRUE)
  BY <1>2 DEF Commit
<1>12. \A c \in completed' : c \in completed \/
              /\ c = e /\ (\E s \in Steps : row[s] # "none")
              /\ \A s \in StaysRequired : row[s] \in {"completed", "none"}
  BY <1>1, <1>2, <1>3, <1>5, <1>11 DEF CountedStays
<1>13. \A s \in Steps : row[s] # "none" => s \in program
  BY <1>3, <1>5 DEF JourneyInv, RowsInv
<1>14. Writes(b, e, row)
  <2>1. UNCHANGED <<program, required, opened>>
    BY DEF Commit
  <2>. QED
    BY <1>5, <1>6, <1>8, <1>10, <1>12, <1>13, <2>1 DEF Writes, AtWork
<1>. QED
  BY <1>3, <1>8, <1>14, RowsStep

----------------------------------------------------------------------------
(* The page and the administrator.                                         *)

LEMMA PageSteps ==
    ASSUME JourneyInv, UNCHANGED records, \A a \in actions' : a \in actions \/ Sound(a),
           ViewerInv'
    PROVE  JourneyInv'
<1>1. RowsInv' /\ CompletedMeansDone'
  BY DEF JourneyInv, RowsInv, HasRows, CompletedMeansDone, records
<1>2. \A a : Sound(a) => Sound(a)'
  BY DEF Sound, IsAction, FoundStays, CountedStays, records
<1>3. ActionsInv'
  BY <1>2 DEF ActionsInv, JourneyInv
<1>. QED
  BY <1>1, <1>3 DEF JourneyInv

(* A request whose page is left goes on, without being heard.              *)
LEMMA UnheardSound ==
    ASSUME NEW a, Sound(a)
    PROVE  Sound([a EXCEPT !.heard = FALSE])
<1>1. PICK b : b = [a EXCEPT !.heard = FALSE]
  OBVIOUS
<1>2. b = [id |-> a.id, step |-> a.step, to |-> a.to, st |-> a.st, heard |-> FALSE,
           enrollment |-> a.enrollment, old |-> a.old, need |-> a.need, was |-> a.was,
           all |-> a.all, detail |-> a.detail]
  BY <1>1 DEF Sound, IsAction
<1>3. IsAction(b)
  BY <1>2 DEF Sound, IsAction
<1>4. /\ b.step = a.step /\ b.to = a.to /\ b.st = a.st /\ b.enrollment = a.enrollment
      /\ b.old = a.old /\ b.need = a.need /\ b.all = a.all
  BY <1>2
<1>5. Sound(b)
  BY <1>3, <1>4 DEF Sound, FoundStays, CountedStays
<1>. QED
  BY <1>1, <1>5

LEMMA RequestStep ==
    ASSUME JourneyInv, NEW to \in {"completed", "skipped"}, opened.step \in Steps, Request(to)
    PROVE  JourneyInv'
<1>1. PICK n : actions' = actions \cup
               {[id |-> n, step |-> opened.step, to |-> to, st |-> "sent", heard |-> TRUE,
                 enrollment |-> NotEnrolled, old |-> "none", need |-> {}, was |-> FALSE,
                 all |-> FALSE, detail |-> NoJourney]}
  BY DEF Request
<1>2. PICK b : b = [id |-> n, step |-> opened.step, to |-> to, st |-> "sent", heard |-> TRUE,
                    enrollment |-> NotEnrolled, old |-> "none", need |-> {}, was |-> FALSE,
                    all |-> FALSE, detail |-> NoJourney]
  OBVIOUS
<1>3. IsAction(b) /\ b.st = "sent"
  BY <1>2 DEF IsAction
<1>4. UNCHANGED <<records, opened>> /\ actions' = actions \cup {b}
  BY <1>1, <1>2 DEF Request
<1>5. ViewerInv'
  BY <1>4 DEF JourneyInv, ViewerInv
<1>6. Sound(b)
  BY <1>3 DEF Sound, FoundStays, CountedStays, AtWork
<1>. QED
  BY <1>4, <1>5, <1>6, PageSteps

(* The invariant is inductive: it holds in every reachable state.          *)
THEOREM JourneyInvariant == JourneySpec => []JourneyInv
<1>1. JourneyInit => JourneyInv
  <2>. SUFFICES ASSUME JourneyInit PROVE JourneyInv
    OBVIOUS
  <2>1. /\ completed = {} /\ actions = {} /\ opened = Nobody /\ program = Steps \ LateSteps
        /\ required = Required
    BY DEF JourneyInit
  <2>2. PICK first \in {NoRows, [s \in Steps |-> IF s \in LateSteps THEN "none"
                                                 ELSE "not_started"]} :
           progress = [e \in Enrollments |-> IF e = 1 THEN first ELSE NoRows]
    BY DEF JourneyInit
  <2>3. \A row \in {first, NoRows} :
           /\ row = [s \in Steps |-> row[s]]
           /\ \A s \in Steps : row[s] # "none" => s \notin LateSteps
    BY <2>2 DEF NoRows
  <2>4. /\ progress = [e \in Enrollments |-> progress[e]]
        /\ \A e \in Enrollments : progress[e] \in {first, NoRows}
    BY <2>2
  <2>5. RowsInv
    BY <2>1, <2>3, <2>4 DEF RowsInv, StaysRequired
  <2>. QED
    BY <2>1, <2>5 DEF JourneyInv, ActionsInv, ViewerInv, Nobody, CompletedMeansDone
<1>2. JourneyInv /\ [JourneyNext]_journeyVars => JourneyInv'
  <2>. SUFFICES ASSUME JourneyInv, [JourneyNext]_journeyVars PROVE JourneyInv'
    OBVIOUS
  <2>1. ASSUME UNCHANGED <<progress, completed, opened, actions>>, program' \subseteq Steps,
               program \subseteq program', StaysRequired \subseteq required'
        PROVE  JourneyInv'
    <3>1. RowsInv' /\ CompletedMeansDone' /\ ViewerInv'
      BY <2>1 DEF JourneyInv, RowsInv, HasRows, CompletedMeansDone, ViewerInv
    <3>2. ActionsInv'
      BY <2>1 DEF JourneyInv, ActionsInv, Sound, IsAction, FoundStays, CountedStays
    <3>. QED
      BY <3>1, <3>2 DEF JourneyInv
  <2>2. CASE AddStep
    BY <2>1, <2>2, JourneyAssumption DEF AddStep, JourneyInv, RowsInv
  <2>3. ASSUME NEW s \in Steps, UpdateStep(s) PROVE JourneyInv'
    BY <2>1, <2>3 DEF UpdateStep, JourneyInv, RowsInv, StaysRequired
  <2>4. CASE CloseStep
    <3>1. opened' = Nobody /\ UNCHANGED <<records, actions>>
      BY <2>4 DEF CloseStep
    <3>2. ViewerInv'
      BY <3>1 DEF ViewerInv, Nobody
    <3>. QED
      BY <3>1, <3>2, PageSteps
  <2>5. CASE LoadJourney
    <3>1. ViewerInv' /\ UNCHANGED records
      BY <2>5 DEF LoadJourney, ViewerInv, Nobody
    <3>2. \A a \in actions' : Sound(a)
      BY <2>5, UnheardSound DEF LoadJourney, JourneyInv, ActionsInv
    <3>. QED
      BY <3>1, <3>2, PageSteps
  <2>6. CASE completeStep \/ skipStep
    BY <2>6, RequestStep DEF completeStep, skipStep, JourneyInv, ViewerInv
  <2>7. ASSUME NEW s \in Steps, OpenStep(s) PROVE JourneyInv'
    <3>1. opened'.step = s /\ UNCHANGED <<records, actions>>
      BY <2>7 DEF OpenStep
    <3>2. ViewerInv'
      BY <3>1 DEF ViewerInv
    <3>. QED
      BY <3>1, <3>2, PageSteps
  <2>8. ASSUME NEW a \in actions, \/ Find(a) \/ Enroll(a) \/ SetStatus(a)
                                 \/ ListSteps(a) \/ Recalculate(a) \/ Commit(a)
        PROVE  JourneyInv'
    BY <2>8, FindStep, EnrollStep, SetStatusStep, ListStepsStep, RecalculateStep, CommitStep
  <2>9. ASSUME NEW a \in actions, Answer(a) PROVE JourneyInv'
    <3>1. PICK b : b = [a EXCEPT !.st = "ok", !.enrollment = NotEnrolled,
                                 !.detail = Detail(a.enrollment)]
      OBVIOUS
    <3>2. IsAction(a)
      BY DEF JourneyInv, ActionsInv, Sound
    <3>3. IsAction(b) /\ b.st = "ok"
      BY <3>1, <3>2 DEF IsAction
    <3>4. Becomes(a, b) /\ UNCHANGED <<records, opened>>
      BY <2>9, <3>1 DEF Answer
    <3>5. Sound(b)
      BY <3>3 DEF Sound, FoundStays, CountedStays, AtWork
    <3>. QED
      BY <3>4, <3>5, OneBecomes
  <2>10. ASSUME NEW a \in actions, StepAnswered(a) PROVE JourneyInv'
    <3>1. actions' \subseteq actions /\ UNCHANGED records /\ opened' \in {Nobody, opened}
      BY <2>10 DEF StepAnswered
    <3>2. ViewerInv'
      BY <3>1 DEF JourneyInv, ViewerInv, Nobody
    <3>. QED
      BY <3>1, <3>2, PageSteps
  <2>11. CASE UNCHANGED journeyVars
    BY <2>11, PageSteps DEF journeyVars, JourneyInv, ViewerInv
  <2>. QED
    BY <2>2, <2>6, <2>7, <2>8, <2>9, <2>10, <2>11, <2>3, <2>4, <2>5 DEF JourneyNext
<1>. QED
  BY <1>1, <1>2, PTL DEF JourneySpec

(* onboarding_service.py:7-10: a completed enrollment means that the steps *)
(* that stay required are done, for any number of requests.                *)
THEOREM RequiredStepsDone == JourneySpec => []CompletedMeansDone
<1>1. JourneyInv => CompletedMeansDone
  BY DEF JourneyInv
<1>. QED
  BY <1>1, JourneyInvariant, PTL

----------------------------------------------------------------------------
(* What the page shows.                                                    *)

(* A detail of a program tells of no step that is not done.                *)
Honest(d) ==
    \A s \in StaysRequired : d.shown[s] = "completed"
        => d.enrollment \in Enrollments /\ progress[d.enrollment][s] = "completed"

ShownInv ==
    /\ Honest(journey)
    /\ \A a \in actions : a.st = "ok" => Honest(a.detail)

LEMMA StaysHonest ==
    ASSUME RowsGrow \/ UNCHANGED progress, NEW d, Honest(d)
    PROVE  Honest(d)'
<1>1. SUFFICES ASSUME NEW s \in StaysRequired, d.shown[s] = "completed"
               PROVE  d.enrollment \in Enrollments /\ progress'[d.enrollment][s] = "completed"
  BY DEF Honest
<1>2. s \in Steps
  BY StaysSteps
<1>3. d.enrollment \in Enrollments /\ progress[d.enrollment][s] = "completed"
  BY <1>1 DEF Honest
<1>. QED
  BY <1>2, <1>3 DEF RowsGrow, HasRows

LEMMA DetailHonest ==
    ASSUME NEW e \in Enrollments \cup {NotEnrolled}
    PROVE  Honest(Detail(e))
<1>1. SUFFICES ASSUME NEW s \in StaysRequired, Detail(e).shown[s] = "completed"
               PROVE  Detail(e).enrollment \in Enrollments
                      /\ progress[Detail(e).enrollment][s] = "completed"
  BY DEF Honest
<1>2. s \in Steps
  BY StaysSteps
<1>3. Detail(e).enrollment = e
      /\ Detail(e).shown[s] = IF s \notin program THEN "none"
                              ELSE IF e = NotEnrolled \/ progress[e][s] = "none"
                                   THEN "not_started" ELSE progress[e][s]
  BY <1>2 DEF Detail
<1>. QED
  BY <1>1, <1>3

LEMMA HonestBecomes ==
    ASSUME ShownInv, NEW a \in actions, NEW b, Becomes(a, b), UNCHANGED journey,
           RowsGrow \/ UNCHANGED progress, b.st # "ok"
    PROVE  ShownInv'
<1>1. Honest(journey)' /\ \A c \in actions : c.st = "ok" => Honest(c.detail)'
  BY StaysHonest DEF ShownInv
<1>2. \A c \in actions' : c \in actions \/ c = b
  BY DEF Becomes
<1>. QED
  BY <1>1, <1>2 DEF ShownInv, Honest

(* onboarding_detail.js: the page of a program never shows such a step     *)
(* as completed that is not, in whatever order its answers arrive.         *)
THEOREM ShownStepsDone == JourneySpec => []ShownIsDone
<1>1. JourneyInit => ShownInv
  <2>. SUFFICES ASSUME JourneyInit PROVE ShownInv
    OBVIOUS
  <2>1. journey = NoJourney /\ actions = {}
    BY DEF JourneyInit
  <2>2. \A s \in StaysRequired : NoJourney.shown[s] = "none"
    BY StaysSteps DEF NoJourney, NoRows
  <2>. QED
    BY <2>1, <2>2 DEF ShownInv, Honest
<1>2. JourneyInv /\ ShownInv /\ [JourneyNext]_journeyVars => ShownInv'
  <2>. SUFFICES ASSUME JourneyInv, ShownInv, [JourneyNext]_journeyVars PROVE ShownInv'
    OBVIOUS
  <2>1. \A a \in actions : IsAction(a)
    BY DEF JourneyInv, ActionsInv, Sound
  <2>2. ASSUME UNCHANGED <<progress, journey>>, \A a \in actions' : a \in actions \/ a.st # "ok"
        PROVE  ShownInv'
    BY <2>2 DEF ShownInv, Honest
  <2>3. CASE AddStep \/ CloseStep \/ \E s \in Steps : OpenStep(s) \/ UpdateStep(s)
    BY <2>2, <2>3 DEF AddStep, CloseStep, OpenStep, UpdateStep, records
  <2>4. CASE LoadJourney
    <3>1. PICK e \in enrolled \cup {NotEnrolled} : journey' = Detail(e)
      BY <2>4 DEF LoadJourney
    <3>2. UNCHANGED progress
      BY <2>4 DEF LoadJourney, records
    <3>3. PICK d : d = Detail(e)
      OBVIOUS
    <3>4. Honest(d)
      <4>1. e \in Enrollments \cup {NotEnrolled}
        BY DEF enrolled
      <4>. QED
        BY <3>3, <4>1, DetailHonest
    <3>5. ASSUME NEW a \in actions' PROVE a.st # "ok"
      <4>1. PICK b \in actions : b.st \notin Ended /\ a = [b EXCEPT !.heard = FALSE]
        BY <2>4 DEF LoadJourney
      <4>2. a.st = b.st
        BY <2>1, <4>1 DEF IsAction
      <4>. QED
        BY <4>1, <4>2 DEF Ended
    <3>6. Honest(d)'
      BY <3>2, <3>4, StaysHonest
    <3>. QED
      BY <3>1, <3>3, <3>5, <3>6 DEF ShownInv, Honest
  <2>5. CASE completeStep \/ skipStep
    <3>1. PICK b : actions' = actions \cup {b} /\ b.st = "sent"
      <4>1. PICK n, to : actions' = actions \cup
               {[id |-> n, step |-> opened.step, to |-> to, st |-> "sent", heard |-> TRUE,
                 enrollment |-> NotEnrolled, old |-> "none", need |-> {}, was |-> FALSE,
                 all |-> FALSE, detail |-> NoJourney]}
        BY <2>5 DEF completeStep, skipStep, Request
      <4>2. PICK r : r = [id |-> n, step |-> opened.step, to |-> to, st |-> "sent", heard |-> TRUE,
                          enrollment |-> NotEnrolled, old |-> "none", need |-> {}, was |-> FALSE,
                          all |-> FALSE, detail |-> NoJourney]
        OBVIOUS
      <4>3. r.st = "sent"
        BY <4>2
      <4>. QED
        BY <4>1, <4>2, <4>3
    <3>2. UNCHANGED <<progress, journey>>
      BY <2>5 DEF completeStep, skipStep, Request, records
    <3>3. \A a \in actions' : a \in actions \/ a.st # "ok"
      BY <3>1
    <3>. QED
      BY <2>2, <3>2, <3>3
  <2>6. ASSUME NEW a \in actions, NEW why, why # "ok", Fails(a, why),
               UNCHANGED <<progress, journey>>
        PROVE  ShownInv'
    <3>1. PICK b : b = [a EXCEPT !.st = why]
      OBVIOUS
    <3>2. b.st = why
      BY <2>1, <3>1 DEF IsAction
    <3>. QED
      BY <2>6, <3>1, <3>2, HonestBecomes DEF Fails
  <2>7. ASSUME NEW a \in actions, Find(a) PROVE ShownInv'
    <3>1. UNCHANGED <<progress, journey>>
      BY <2>7 DEF Find, records
    <3>2. CASE Fails(a, "error") \/ Fails(a, "not found")
      BY <2>6, <3>1, <3>2
    <3>3. CASE Becomes(a, [a EXCEPT !.st = "enrolling"])
      BY <2>6, <3>1, <3>3 DEF Fails
    <3>4. ASSUME NEW e, Becomes(a, [a EXCEPT !.st = "found", !.enrollment = e,
                                             !.old = progress[e][a.step]])
          PROVE  ShownInv'
      <4>1. PICK b : b = [a EXCEPT !.st = "found", !.enrollment = e, !.old = progress[e][a.step]]
        OBVIOUS
      <4>2. b.st = "found"
        BY <2>1, <4>1 DEF IsAction
      <4>. QED
        BY <3>1, <3>4, <4>1, <4>2, HonestBecomes
    <3>. QED
      BY <2>7, <3>2, <3>3, <3>4 DEF Find
  <2>8. ASSUME NEW a \in actions, Enroll(a) PROVE ShownInv'
    <3>1. PICK b : b = [a EXCEPT !.st = "sent"]
      OBVIOUS
    <3>2. b.st = "sent"
      BY <2>1, <3>1 DEF IsAction
    <3>3. Becomes(a, b) /\ UNCHANGED journey
      BY <2>8, <3>1 DEF Enroll
    <3>. QED
      BY <2>8, <3>2, <3>3, EnrollStep, HonestBecomes
  <2>9. ASSUME NEW a \in actions, SetStatus(a) PROVE ShownInv'
    <3>1. UNCHANGED <<progress, journey>>
      BY <2>9 DEF SetStatus, records
    <3>2. CASE Fails(a, "error")
      BY <2>6, <3>1, <3>2
    <3>3. CASE Becomes(a, [a EXCEPT !.st = "set"])
      BY <2>6, <3>1, <3>3 DEF Fails
    <3>. QED
      BY <2>9, <3>2, <3>3 DEF SetStatus
  <2>10. ASSUME NEW a \in actions, ListSteps(a) PROVE ShownInv'
    <3>1. PICK was, need : was = (a.enrollment \in completed) /\ need = required \cap program
      OBVIOUS
    <3>2. PICK b : b = [a EXCEPT !.st = "listed", !.was = was, !.need = need]
      OBVIOUS
    <3>3. b.st = "listed"
      BY <2>1, <3>2 DEF IsAction
    <3>4. Becomes(a, b) /\ UNCHANGED <<progress, journey>>
      BY <2>10, <3>1, <3>2 DEF ListSteps, records
    <3>. QED
      BY <3>3, <3>4, HonestBecomes
  <2>11. ASSUME NEW a \in actions, Recalculate(a) PROVE ShownInv'
    <3>1. PICK all : all = AllRequired(a.need, [progress[a.enrollment] EXCEPT ![a.step] = a.to])
      OBVIOUS
    <3>2. PICK b : b = [a EXCEPT !.st = "counted", !.need = {}, !.all = all]
      OBVIOUS
    <3>3. b.st = "counted"
      BY <2>1, <3>2 DEF IsAction
    <3>4. Becomes(a, b) /\ UNCHANGED <<progress, journey>>
      BY <2>11, <3>1, <3>2 DEF Recalculate, records
    <3>. QED
      BY <3>3, <3>4, HonestBecomes
  <2>12. ASSUME NEW a \in actions, Commit(a) PROVE ShownInv'
    <3>1. PICK b : b = [a EXCEPT !.st = "answering", !.old = "none", !.was = FALSE, !.all = FALSE]
      OBVIOUS
    <3>2. b.st = "answering"
      BY <2>1, <3>1 DEF IsAction
    <3>3. (Becomes(a, b) \/ actions' = actions \ {a}) /\ UNCHANGED journey
      BY <2>12, <3>1 DEF Commit
    <3>4. \A d \in actions' : d \in actions \/ d = b
      BY <3>3 DEF Becomes
    <3>5. RowsGrow
      BY <2>12, CommitStep
    <3>6. Honest(journey)' /\ \A d \in actions : d.st = "ok" => Honest(d.detail)'
      BY <3>3, <3>5, StaysHonest DEF ShownInv
    <3>. QED
      BY <3>2, <3>3, <3>4, <3>6 DEF ShownInv, Honest
  <2>13. ASSUME NEW a \in actions, Answer(a) PROVE ShownInv'
    <3>1. PICK b : b = [a EXCEPT !.st = "ok", !.enrollment = NotEnrolled,
                                 !.detail = Detail(a.enrollment)]
      OBVIOUS
    <3>2. b.detail = Detail(a.enrollment)
      BY <2>1, <3>1 DEF IsAction
    <3>3. a.enrollment \in Enrollments \cup {NotEnrolled}
      BY <2>1 DEF IsAction
    <3>4. Honest(b.detail)
      BY <3>2, <3>3, DetailHonest
    <3>5. Becomes(a, b) /\ UNCHANGED <<progress, journey>>
      BY <2>13, <3>1 DEF Answer, records
    <3>. QED
      BY <3>4, <3>5 DEF Becomes, ShownInv, Honest
  <2>14. ASSUME NEW a \in actions, StepAnswered(a) PROVE ShownInv'
    <3>1. journey' = journey \/ (a.st = "ok" /\ journey' = a.detail)
      BY <2>14 DEF StepAnswered
    <3>2. actions' \subseteq actions /\ UNCHANGED progress
      BY <2>14 DEF StepAnswered, records
    <3>. QED
      BY <3>1, <3>2 DEF ShownInv, Honest
  <2>15. CASE UNCHANGED journeyVars
    BY <2>2, <2>15 DEF journeyVars, records
  <2>. QED
    BY <2>3, <2>4, <2>5, <2>7, <2>8, <2>9, <2>12, <2>13, <2>14, <2>15,
       <2>10, <2>11 DEF JourneyNext
<1>3. ShownInv => ShownIsDone
  BY DEF ShownInv, Honest, ShownIsDone
<1>. QED
  BY <1>1, <1>2, <1>3, JourneyInvariant, PTL DEF JourneySpec

----------------------------------------------------------------------------
(* Programs: types                                                         *)

RecordsTyped ==
    /\ program \subseteq Steps /\ required \subseteq Steps
    /\ progress \in [Enrollments -> [Steps -> Statuses]]
    /\ completed \subseteq Enrollments

ShowsTyped ==
    /\ journey \in Journeys
    /\ opened \in [step : Steps \cup {NoStep}, complete : BOOLEAN, skip : BOOLEAN]

JourneyTyped == RecordsTyped /\ ShowsTyped /\ actions \subseteq Actions

LEMMA DetailTyped ==
    ASSUME RecordsTyped, NEW e \in Enrollments \cup {NotEnrolled}
    PROVE  Detail(e) \in Journeys
<1>. DEFINE shown == [s \in Steps |-> IF s \notin program THEN "none"
                                     ELSE IF e = NotEnrolled \/ progress[e][s] = "none"
                                          THEN "not_started" ELSE progress[e][s]]
<1>1. e # NotEnrolled => e \in Enrollments
  OBVIOUS
<1>2. shown \in [Steps -> Statuses]
  BY <1>1 DEF RecordsTyped, Statuses
<1>3. Detail(e) = [enrollment |-> e, shown |-> shown, is_required |-> required \cap program]
  BY DEF Detail
<1>. HIDE DEF shown
<1>. QED
  BY <1>2, <1>3 DEF Journeys, RecordsTyped

LEMMA NothingShown ==
    /\ NoRows \in [Steps -> Statuses] /\ NoJourney \in Journeys
    /\ Nobody \in [step : Steps \cup {NoStep}, complete : BOOLEAN, skip : BOOLEAN]
<1>1. NoRows \in [Steps -> Statuses]
  BY DEF NoRows, Statuses
<1>. QED
  BY <1>1 DEF NoJourney, Journeys, Nobody

LEMMA JourneyTypesStep ==
    ASSUME JourneyInv, JourneyTyped, [JourneyNext]_journeyVars
    PROVE  JourneyTyped'
<1>1. RecordsTyped /\ ShowsTyped /\ actions \subseteq Actions
  BY DEF JourneyTyped
<1>2. ASSUME UNCHANGED records PROVE RecordsTyped'
  BY <1>1, <1>2 DEF RecordsTyped, records
<1>3. ASSUME UNCHANGED <<journey, opened>> PROVE ShowsTyped'
  BY <1>1, <1>3 DEF ShowsTyped
<1>4. ASSUME NEW a \in actions, NEW b \in Actions, Becomes(a, b) PROVE actions' \subseteq Actions
  BY <1>1, <1>4 DEF Becomes
<1>5. \A a \in actions : a \in Actions
  BY <1>1
<1>6. ASSUME NEW a \in actions, NEW why, why \in {"error", "not found"}, Fails(a, why)
      PROVE  actions' \subseteq Actions
  <2>1. [a EXCEPT !.st = why] \in Actions
    BY <1>5, <1>6 DEF Actions
  <2>. QED
    BY <1>4, <1>6, <2>1 DEF Fails
<1>7. ASSUME NEW a \in actions, Find(a) PROVE JourneyTyped'
  <2>1. ASSUME NEW e \in Enrollments PROVE progress[e][a.step] \in Statuses
    BY <1>1, <1>5 DEF RecordsTyped, Actions
  <2>2. ASSUME NEW e \in Enrollments,
               Becomes(a, [a EXCEPT !.st = "found", !.enrollment = e, !.old = progress[e][a.step]])
        PROVE  actions' \subseteq Actions
    <3>1. [a EXCEPT !.st = "found", !.enrollment = e, !.old = progress[e][a.step]] \in Actions
      BY <1>5, <2>1 DEF Actions
    <3>. QED
      BY <1>4, <2>2, <3>1
  <2>3. [a EXCEPT !.st = "enrolling"] \in Actions
    BY <1>5 DEF Actions
  <2>4. actions' \subseteq Actions
    BY <1>4, <1>6, <1>7, <2>2, <2>3 DEF Find
  <2>. QED
    BY <1>2, <1>3, <1>7, <2>4 DEF Find, JourneyTyped
<1>8. ASSUME NEW a \in actions, Enroll(a) PROVE JourneyTyped'
  <2>1. [a EXCEPT !.st = "sent"] \in Actions
    BY <1>5 DEF Actions
  <2>2. actions' \subseteq Actions
    BY <1>4, <1>8, <2>1 DEF Enroll
  <2>3. PICK e \in Enrollments :
           progress' = [progress EXCEPT ![e] = [s \in Steps |-> IF s \in program THEN "not_started"
                                                                ELSE "none"]]
    BY <1>8 DEF Enroll
  <2>4. [s \in Steps |-> IF s \in program THEN "not_started" ELSE "none"] \in [Steps -> Statuses]
    BY DEF Statuses
  <2>5. progress' \in [Enrollments -> [Steps -> Statuses]]
    BY <1>1, <2>3, <2>4 DEF RecordsTyped
  <2>6. RecordsTyped'
    BY <1>1, <1>8, <2>5 DEF Enroll, RecordsTyped
  <2>. QED
    BY <1>3, <1>8, <2>2, <2>6 DEF Enroll, JourneyTyped
<1>9. ASSUME NEW a \in actions, SetStatus(a) PROVE JourneyTyped'
  <2>1. [a EXCEPT !.st = "set"] \in Actions
    BY <1>5 DEF Actions
  <2>2. actions' \subseteq Actions
    BY <1>4, <1>6, <1>9, <2>1 DEF SetStatus
  <2>. QED
    BY <1>2, <1>3, <1>9, <2>2 DEF SetStatus, JourneyTyped
<1>10. ASSUME NEW a \in actions, ListSteps(a) PROVE JourneyTyped'
  <2>1. PICK was, need : was = (a.enrollment \in completed) /\ need = required \cap program
    OBVIOUS
  <2>2. was \in BOOLEAN /\ need \in SUBSET Steps
    BY <1>1, <2>1 DEF RecordsTyped
  <2>3. [a EXCEPT !.st = "listed", !.was = was, !.need = need] \in Actions
    BY <1>5, <2>2 DEF Actions
  <2>4. actions' \subseteq Actions
    BY <1>4, <1>10, <2>1, <2>3 DEF ListSteps
  <2>. QED
    BY <1>2, <1>3, <1>10, <2>4 DEF ListSteps, JourneyTyped
<1>11. ASSUME NEW a \in actions, Recalculate(a) PROVE JourneyTyped'
  <2>1. PICK all : all = AllRequired(a.need, [progress[a.enrollment] EXCEPT ![a.step] = a.to])
    OBVIOUS
  <2>2. all \in BOOLEAN /\ {} \in SUBSET Steps
    BY <2>1 DEF AllRequired
  <2>3. [a EXCEPT !.st = "counted", !.need = {}, !.all = all] \in Actions
    BY <1>5, <2>2 DEF Actions
  <2>4. actions' \subseteq Actions
    BY <1>4, <1>11, <2>1, <2>3 DEF Recalculate
  <2>. QED
    BY <1>2, <1>3, <1>11, <2>4 DEF Recalculate, JourneyTyped
<1>12. ASSUME NEW a \in actions, Commit(a) PROVE JourneyTyped'
  <2>1. a.enrollment \in Enrollments /\ a.step \in Steps /\ a.to \in Statuses
    <3>1. a.enrollment \in Enrollments
      BY <1>12 DEF Commit, JourneyInv, ActionsInv, Sound, FoundStays, AtWork
    <3>. QED
      BY <1>5, <3>1 DEF Actions, Statuses
  <2>2. [a EXCEPT !.st = "answering", !.old = "none", !.was = FALSE, !.all = FALSE] \in Actions
    BY <1>5 DEF Actions, Statuses
  <2>3. actions' \subseteq Actions
    BY <1>1, <1>4, <1>12, <2>2 DEF Commit
  <2>4. progress' \in [Enrollments -> [Steps -> Statuses]]
    BY <1>1, <1>12, <2>1 DEF Commit, RecordsTyped
  <2>5. RecordsTyped'
    BY <1>1, <1>12, <2>1, <2>4 DEF Commit, RecordsTyped
  <2>. QED
    BY <1>3, <1>12, <2>3, <2>5 DEF Commit, JourneyTyped
<1>13. ASSUME NEW a \in actions, Answer(a) PROVE JourneyTyped'
  <2>1. PICK d : d = Detail(a.enrollment)
    OBVIOUS
  <2>2. d \in Journeys
    BY <1>1, <1>5, <2>1, DetailTyped DEF Actions
  <2>3. [a EXCEPT !.st = "ok", !.enrollment = NotEnrolled, !.detail = d] \in Actions
    BY <1>5, <2>2 DEF Actions
  <2>4. actions' \subseteq Actions
    BY <1>4, <1>13, <2>1, <2>3 DEF Answer
  <2>. QED
    BY <1>2, <1>3, <1>13, <2>4 DEF Answer, JourneyTyped
<1>14. ASSUME NEW a \in actions, StepAnswered(a) PROVE JourneyTyped'
  <2>1. actions' \subseteq Actions
    BY <1>1, <1>14 DEF StepAnswered
  <2>2. a.detail \in Journeys
    BY <1>5 DEF Actions
  <2>3. ShowsTyped'
    BY <1>1, <1>14, <2>2, NothingShown DEF StepAnswered, ShowsTyped
  <2>. QED
    BY <1>2, <1>14, <2>1, <2>3 DEF StepAnswered, JourneyTyped
<1>15. CASE LoadJourney
  <2>1. \A e \in enrolled \cup {NotEnrolled} : Detail(e) \in Journeys
    BY <1>1, DetailTyped DEF enrolled
  <2>2. ShowsTyped'
    BY <1>1, <1>15, <2>1, NothingShown DEF LoadJourney, ShowsTyped
  <2>3. \A a \in actions : [a EXCEPT !.heard = FALSE] \in Actions
    BY <1>5 DEF Actions
  <2>4. actions' \subseteq Actions
    BY <1>15, <2>3 DEF LoadJourney
  <2>. QED
    BY <1>2, <1>15, <2>2, <2>4 DEF LoadJourney, JourneyTyped
<1>16. ASSUME NEW s \in Steps, UpdateStep(s) PROVE JourneyTyped'
  BY <1>1, <1>16 DEF UpdateStep, JourneyTyped, RecordsTyped, ShowsTyped
<1>17. ASSUME NEW s \in Steps, OpenStep(s) PROVE JourneyTyped'
  <2>1. ShowsTyped'
    BY <1>1, <1>17 DEF OpenStep, ShowsTyped
  <2>. QED
    BY <1>1, <1>2, <1>17, <2>1 DEF OpenStep, JourneyTyped
<1>18. ASSUME NEW to \in {"completed", "skipped"}, opened.step \in Steps, Request(to) PROVE JourneyTyped'
  <2>1. PICK n \in FreeActions : actions' = actions \cup
               {[id |-> n, step |-> opened.step, to |-> to, st |-> "sent", heard |-> TRUE,
                 enrollment |-> NotEnrolled, old |-> "none", need |-> {}, was |-> FALSE,
                 all |-> FALSE, detail |-> NoJourney]}
    BY <1>18 DEF Request
  <2>2. n \in ActionSlots
    BY DEF FreeActions
  <2>3. [id |-> n, step |-> opened.step, to |-> to, st |-> "sent", heard |-> TRUE,
         enrollment |-> NotEnrolled, old |-> "none", need |-> {}, was |-> FALSE,
         all |-> FALSE, detail |-> NoJourney] \in Actions
    BY <1>18, <2>2, NothingShown DEF Actions, Statuses
  <2>4. actions' \subseteq Actions
    BY <1>1, <2>1, <2>3
  <2>. QED
    BY <1>2, <1>3, <1>18, <2>4 DEF Request, JourneyTyped
<1>19. CASE completeStep \/ skipStep
  <2>1. opened.step \in Steps
    BY <1>19 DEF completeStep, skipStep, JourneyInv, ViewerInv
  <2>. QED
    BY <1>18, <1>19, <2>1 DEF completeStep, skipStep
<1>20. CASE AddStep
  <2>1. RecordsTyped'
    BY <1>1, <1>20, JourneyAssumption DEF AddStep, RecordsTyped
  <2>. QED
    BY <1>1, <1>3, <1>20, <2>1 DEF AddStep, JourneyTyped
<1>21. CASE CloseStep
  <2>1. ShowsTyped'
    BY <1>1, <1>21, NothingShown DEF CloseStep, ShowsTyped
  <2>. QED
    BY <1>1, <1>2, <1>21, <2>1 DEF CloseStep, JourneyTyped
<1>22. CASE UNCHANGED journeyVars
  BY <1>1, <1>2, <1>3, <1>22 DEF journeyVars, JourneyTyped
<1>. QED
  BY <1>7, <1>8, <1>9, <1>12, <1>13, <1>14, <1>15, <1>17, <1>19, <1>20, <1>21, <1>22,
     <1>10, <1>11, <1>16 DEF JourneyNext

(* The rows, the page and the requests of programs keep their types.       *)
THEOREM JourneyTypes == JourneySpec => []JourneyTypeOK
<1>1. JourneyInit => JourneyTyped
  <2>. SUFFICES ASSUME JourneyInit PROVE JourneyTyped
    OBVIOUS
  <2>1. PICK first \in {NoRows, [s \in Steps |-> IF s \in LateSteps THEN "none"
                                                 ELSE "not_started"]} :
           progress = [e \in Enrollments |-> IF e = 1 THEN first ELSE NoRows]
    BY DEF JourneyInit
  <2>2. first \in [Steps -> Statuses]
    BY NothingShown DEF Statuses
  <2>3. progress \in [Enrollments -> [Steps -> Statuses]]
    BY <2>1, <2>2, NothingShown
  <2>. QED
    BY <2>3, NothingShown, JourneyAssumption DEF JourneyInit, JourneyTyped, RecordsTyped, ShowsTyped
<1>2. JourneyInv /\ JourneyTyped /\ [JourneyNext]_journeyVars => JourneyTyped'
  BY JourneyTypesStep
<1>3. JourneyTyped => JourneyTypeOK
  BY DEF JourneyTyped, RecordsTyped, ShowsTyped, JourneyTypeOK
<1>. QED
  BY <1>1, <1>2, <1>3, JourneyInvariant, PTL DEF JourneySpec

----------------------------------------------------------------------------
(* Tickets: the invariant                                                  *)

IsRow(row) == row = [status |-> row.status, closed |-> row.closed, rated |-> row.rated]

(* A request keeps the row it read, whose status did not refuse it.        *)
IsCall(c) ==
    /\ c = [id |-> c.id, here |-> c.here, by |-> c.by, ticket |-> c.ticket,
            kind |-> c.kind, st |-> c.st, row |-> c.row]
    /\ IsRow(c.row)
    /\ c.st = "read" => c.kind \in Kinds /\ ~ Refused(c.kind, c.row)

TicketRows ==
    /\ tickets = [t \in TicketIds |-> tickets[t]]
    /\ \A t \in TicketIds : IsRow(tickets[t])

CallsInv == \A c \in calls : IsCall(c)

(* A dialog that is seen is of a ticket.                                   *)
IsDesk(d) ==
    /\ d = [side |-> d.side, visible |-> d.visible, current |-> d.current,
            status |-> d.status, stars |-> d.stars, busy |-> d.busy]
    /\ d.visible = TRUE => d.current \in TicketIds

TicketsInv == TicketRows /\ CallsInv /\ IsDesk(desk) /\ ClosedHasTime

----------------------------------------------------------------------------
(* Tickets: the requests                                                   *)

(* The row a request writes back: closed only if it was, with its time, or *)
(* if this closes it.                                                      *)
LEMMA WrittenHasTime ==
    ASSUME NEW c, IsCall(c), c.st = "read", NEW row, IsRow(row),
           row.status = "closed" => row.closed
    PROVE  IsRow(Written(row, c)) /\ (Written(row, c).status = "closed" => Written(row, c).closed)
<1>1. PICK w : w = Written(row, c)
  OBVIOUS
<1>2. PICK n : n = Changed(c)
  OBVIOUS
<1>3. /\ IsRow(w)
      /\ w.status = IF n.status = c.row.status THEN row.status ELSE n.status
      /\ w.closed = IF n.closed = c.row.closed /\ c.kind # "close" THEN row.closed ELSE n.closed
  BY <1>1, <1>2 DEF Written, IsRow
<1>4. CASE c.kind = "reply"
  <2>1. n = [c.row EXCEPT !.status = "answered"] \/ n = c.row
    BY <1>2, <1>4 DEF Changed
  <2>2. n.closed = c.row.closed /\ (n.status = "answered" \/ n.status = c.row.status)
    BY <2>1 DEF IsCall, IsRow
  <2>. QED
    BY <1>1, <1>3, <1>4, <2>2
<1>5. CASE c.kind = "close"
  <2>1. n = [c.row EXCEPT !.status = "closed", !.closed = TRUE, !.rated = @ \/ c.by = "creator"]
    BY <1>2, <1>5 DEF Changed
  <2>2. n.closed = TRUE
    BY <2>1 DEF IsCall, IsRow
  <2>. QED
    BY <1>1, <1>3, <1>5, <2>2
<1>6. CASE c.kind = "reopen"
  <2>1. n = NewTicket
    BY <1>2, <1>6 DEF Changed
  <2>2. n.status = "open"
    BY <2>1 DEF NewTicket
  <2>3. c.row.status = "closed"
    BY <1>6 DEF IsCall, Refused
  <2>. QED
    BY <1>1, <1>3, <2>2, <2>3
<1>. QED
  BY <1>4, <1>5, <1>6 DEF IsCall, Kinds

(* ticket_service.py:295-339: the rows, and what each request has read of  *)
(* them.                                                                   *)
THEOREM TicketsInvariant == TicketsSpec => []TicketsInv
<1>1. TicketsInit => TicketsInv
  <2>. SUFFICES ASSUME TicketsInit PROVE TicketsInv
    OBVIOUS
  <2>1. TicketRows /\ CallsInv /\ ClosedHasTime
    BY DEF TicketsInit, TicketRows, CallsInv, ClosedHasTime, NewTicket, IsRow
  <2>2. IsDesk(desk)
    BY DEF TicketsInit, ClosedDialog, IsDesk
  <2>. QED
    BY <2>1, <2>2 DEF TicketsInv
<1>2. TicketsInv /\ [TicketsNext]_ticketVars => TicketsInv'
  <2>. SUFFICES ASSUME TicketsInv, [TicketsNext]_ticketVars PROVE TicketsInv'
    OBVIOUS
  <2>. USE DEF TicketsInv
  <2>1. ASSUME UNCHANGED tickets, calls' \subseteq calls, IsDesk(desk') PROVE TicketsInv'
    BY <2>1 DEF TicketRows, CallsInv, ClosedHasTime, IsDesk
  <2>2. ASSUME NEW c \in calls, CommitTicket(c) PROVE TicketsInv'
    <3>1. IsCall(c) /\ c.st = "read"
      BY <2>2 DEF CallsInv, CommitTicket
    <3>2. tickets' = [tickets EXCEPT ![c.ticket] = Written(@, c)]
      BY <2>2 DEF CommitTicket
    <3>3. TicketRows' /\ ClosedHasTime'
      <4>1. \A t \in TicketIds : tickets'[t] = tickets[t] \/ tickets'[t] = Written(tickets[t], c)
        BY <3>2 DEF TicketRows
      <4>2. \A t \in TicketIds : IsRow(tickets'[t])
                                 /\ (tickets'[t].status = "closed" => tickets'[t].closed)
        BY <3>1, <4>1, WrittenHasTime DEF TicketRows, ClosedHasTime
      <4>3. tickets' = [t \in TicketIds |-> tickets'[t]]
        BY <3>2 DEF TicketRows
      <4>. QED
        BY <4>2, <4>3 DEF TicketRows, ClosedHasTime
    <3>4. PICK d : d = [c EXCEPT !.st = "ok", !.row = NewTicket]
      OBVIOUS
    <3>5. IsCall(d)
      BY <3>1, <3>4 DEF IsCall, IsRow, NewTicket
    <3>6. \A e \in calls' : e \in calls \/ e = d
      BY <2>2, <3>4 DEF CommitTicket
    <3>7. UNCHANGED desk
      BY <2>2 DEF CommitTicket
    <3>. QED
      BY <3>3, <3>5, <3>6, <3>7 DEF CallsInv, IsDesk
  <2>3. ASSUME NEW here, NEW by, NEW kind \in Kinds, NEW t \in TicketIds, Send(here, by, kind, t),
               IsDesk(desk')
        PROVE  TicketsInv'
    <3>1. PICK n \in FreeCalls :
            LET c == [id |-> n, here |-> here, by |-> by, ticket |-> t, kind |-> kind,
                      st |-> "read", row |-> tickets[t]] IN
              \/ ~ Refused(kind, tickets[t]) /\ calls' = calls \cup {c}
              \/ /\ Refused(kind, tickets[t]) /\ here
                 /\ calls' = calls \cup {[c EXCEPT !.st = "failed", !.row = NewTicket]}
      BY <2>3 DEF Send
    <3>2. PICK c : c = [id |-> n, here |-> here, by |-> by, ticket |-> t, kind |-> kind,
                        st |-> "read", row |-> tickets[t]]
      OBVIOUS
    <3>3. PICK d : d = [c EXCEPT !.st = "failed", !.row = NewTicket]
      OBVIOUS
    <3>4. ~ Refused(kind, tickets[t]) => IsCall(c)
      BY <3>2 DEF IsCall, TicketRows
    <3>5. IsCall(d)
      BY <3>2, <3>3 DEF IsCall, IsRow, NewTicket
    <3>6. \/ ~ Refused(kind, tickets[t]) /\ calls' = calls \cup {c}
          \/ calls' = calls \cup {d}
      BY <3>1, <3>2, <3>3
    <3>7. CallsInv'
      BY <3>4, <3>5, <3>6 DEF CallsInv
    <3>8. UNCHANGED tickets
      BY <2>3 DEF Send
    <3>. QED
      BY <2>3, <3>7, <3>8 DEF TicketRows, ClosedHasTime, IsDesk
  <2>4. ASSUME NEW kind \in Kinds, Press(kind), IsDesk(desk') PROVE TicketsInv'
    BY <2>3, <2>4 DEF Press, IsDesk
  <2>5. CASE sendReply \/ closeWithRating \/ forceClose \/ reopen
    <3>1. IsDesk(desk)
      OBVIOUS
    <3>2. IsDesk(desk')
      <4>1. desk' = desk \/ desk' = [desk EXCEPT !.busy = TRUE]
        BY <2>5 DEF sendReply, closeWithRating, forceClose, reopen
      <4>. QED
        BY <3>1, <4>1 DEF IsDesk
    <3>. QED
      BY <2>4, <2>5, <3>2 DEF sendReply, closeWithRating, forceClose, reopen, Kinds
  <2>6. ASSUME NEW by, NEW kind \in Kinds, NEW t \in TicketIds, Elsewhere(by, kind, t)
        PROVE  TicketsInv'
    BY <2>3, <2>6 DEF Elsewhere, IsDesk
  <2>7. ASSUME NEW d, IsDesk(d), NEW under PROVE IsDesk(Hidden(d, under))
    <3>1. PICK h : h = Hidden(d, under)
      OBVIOUS
    <3>2. PICK now : h = [d EXCEPT !.visible = FALSE, !.stars = FALSE, !.current = now]
      BY <3>1 DEF Hidden
    <3>3. IsDesk(h)
      BY <2>7, <3>2 DEF IsDesk
    <3>. QED
      BY <3>1, <3>3
  <2>8. ASSUME NEW c \in calls, TicketAnswered(c) PROVE TicketsInv'
    <3>1. PICK d : d = [desk EXCEPT !.busy = @ /\ c.kind # "reply"]
      OBVIOUS
    <3>2. IsDesk(d)
      BY <3>1 DEF IsDesk
    <3>3. desk' = IF d.visible THEN d ELSE Hidden(d, calls')
      BY <2>8, <3>1 DEF TicketAnswered
    <3>4. IsDesk(desk')
      BY <2>7, <3>2, <3>3
    <3>. QED
      BY <2>1, <2>8, <3>4 DEF TicketAnswered
  <2>9. ASSUME NEW t \in TicketIds, OpenTicket(t) PROVE TicketsInv'
    <3>1. IsDesk(desk')
      BY <2>9 DEF OpenTicket, IsDesk
    <3>. QED
      BY <2>1, <2>9, <3>1 DEF OpenTicket
  <2>10. ASSUME NEW st, OpenFails(st) PROVE TicketsInv'
    BY <2>1, <2>7, <2>10 DEF OpenFails
  <2>11. ASSUME NEW st, RenderDetail(st) PROVE TicketsInv'
    <3>1. IsDesk(desk')
      BY <2>11 DEF RenderDetail, IsDesk
    <3>. QED
      BY <2>1, <2>11, <3>1 DEF RenderDetail
  <2>12. CASE CloseTicketDialog
    BY <2>1, <2>7, <2>12 DEF CloseTicketDialog
  <2>13. CASE showRatingPicker
    <3>1. IsDesk(desk')
      BY <2>13 DEF showRatingPicker, IsDesk
    <3>. QED
      BY <2>1, <2>13, <3>1 DEF showRatingPicker
  <2>14. CASE UNCHANGED ticketVars
    BY <2>1, <2>14 DEF ticketVars, IsDesk
  <2>. QED
    BY <2>2, <2>5, <2>6, <2>8, <2>9, <2>10, <2>11, <2>12, <2>13, <2>14 DEF TicketsNext
<1>. QED
  BY <1>1, <1>2, PTL DEF TicketsSpec

(* ticket_service.py:313-314: a closed ticket has its time of closing, for *)
(* any tickets, any number of requests that overlap, and any statuses the  *)
(* pages they come from show.                                              *)
THEOREM ClosedTicketsHaveTime == TicketsSpec => []ClosedHasTime
<1>1. TicketsInv => ClosedHasTime
  BY DEF TicketsInv
<1>. QED
  BY <1>1, TicketsInvariant, PTL

----------------------------------------------------------------------------
(* Tickets: types                                                          *)

Desks == [side : Sides, visible : BOOLEAN, current : TicketIds \cup {NoTicket},
          status : TicketStatuses \cup {"none"}, stars : BOOLEAN, busy : BOOLEAN]

(* A page that waits for an answer has a ticket to show it in.             *)
TicketsTyped ==
    /\ tickets \in [TicketIds -> TicketRow]
    /\ desk \in Desks /\ drawing \subseteq TicketStatuses /\ calls \subseteq TicketCalls
    /\ \A c \in calls : c.here => desk.current \in TicketIds

LEMMA WrittenTyped ==
    ASSUME NEW c \in TicketCalls, NEW row \in TicketRow
    PROVE  Written(row, c) \in TicketRow
<1>1. PICK n : n = Changed(c)
  OBVIOUS
<1>2. c.row \in TicketRow /\ c.kind \in Kinds
  BY DEF TicketCalls
<1>3. n \in TicketRow
  <2>1. CASE c.kind = "reply"
    BY <1>1, <1>2, <2>1 DEF Changed, TicketRow, TicketStatuses
  <2>2. CASE c.kind = "close"
    <3>1. n = [c.row EXCEPT !.status = "closed", !.closed = TRUE, !.rated = @ \/ c.by = "creator"]
      BY <1>1, <2>2 DEF Changed
    <3>2. PICK rated : rated = (c.row.rated \/ c.by = "creator")
      OBVIOUS
    <3>3. rated \in BOOLEAN /\ n = [c.row EXCEPT !.status = "closed", !.closed = TRUE, !.rated = rated]
      BY <3>1, <3>2
    <3>. QED
      BY <1>2, <3>3 DEF TicketRow, TicketStatuses
  <2>3. CASE c.kind = "reopen"
    BY <1>1, <2>3 DEF Changed, NewTicket, TicketRow, TicketStatuses
  <2>. QED
    BY <1>2, <2>1, <2>2, <2>3 DEF Kinds
<1>. QED
  BY <1>1, <1>2, <1>3 DEF Written, TicketRow

LEMMA HiddenTyped ==
    ASSUME NEW d \in Desks, NEW under,
           \A c \in under : c.here => d.current \in TicketIds
    PROVE  /\ Hidden(d, under) \in Desks
           /\ \A c \in under : c.here => Hidden(d, under).current \in TicketIds
<1>1. PICK now : now = IF \E c \in under : c.here THEN d.current ELSE NoTicket
  OBVIOUS
<1>2. PICK h : h = [d EXCEPT !.visible = FALSE, !.stars = FALSE, !.current = now]
  OBVIOUS
<1>3. Hidden(d, under) = h
  BY <1>1, <1>2 DEF Hidden
<1>4. h \in Desks /\ h.current = now
  BY <1>1, <1>2 DEF Desks
<1>. QED
  BY <1>1, <1>3, <1>4

LEMMA TicketsTypesStep ==
    ASSUME TicketsInv, TicketsTyped, [TicketsNext]_ticketVars
    PROVE  TicketsTyped'
<1>. USE DEF TicketsTyped
<1>1. NewTicket \in TicketRow
  BY DEF NewTicket, TicketRow, TicketStatuses
<1>2. \A c \in calls : c \in TicketCalls
  OBVIOUS
<1>3. desk.visible => desk.current \in TicketIds
  BY DEF TicketsInv, IsDesk
<1>4. \A t \in TicketIds : tickets[t] \in TicketRow /\ tickets[t].status \in TicketStatuses
  BY DEF TicketRow
<1>5. ASSUME NEW c \in calls, CommitTicket(c) PROVE TicketsTyped'
  <2>1. c.ticket \in TicketIds
    BY <1>2 DEF TicketCalls
  <2>2. PICK w : w = Written(tickets[c.ticket], c)
    OBVIOUS
  <2>3. w \in TicketRow
    BY <1>2, <1>4, <2>1, <2>2, WrittenTyped
  <2>4. tickets' = [tickets EXCEPT ![c.ticket] = w]
    BY <1>5, <2>2 DEF CommitTicket
  <2>5. tickets' \in [TicketIds -> TicketRow]
    BY <2>3, <2>4
  <2>6. PICK d : d = [c EXCEPT !.st = "ok", !.row = NewTicket]
    OBVIOUS
  <2>7. d \in TicketCalls /\ d.here = c.here
    BY <1>1, <1>2, <2>6 DEF TicketCalls
  <2>8. \A e \in calls' : e \in calls \/ e = d
    BY <1>5, <2>6 DEF CommitTicket
  <2>9. UNCHANGED <<desk, drawing>>
    BY <1>5 DEF CommitTicket
  <2>. QED
    BY <2>5, <2>7, <2>8, <2>9
<1>6. ASSUME NEW here \in BOOLEAN, NEW by \in Sides, NEW kind \in Kinds, NEW t \in TicketIds,
             Send(here, by, kind, t), here => desk'.current \in TicketIds,
             desk' \in Desks, desk'.current = desk.current
      PROVE  TicketsTyped'
  <2>1. PICK n \in FreeCalls :
          LET c == [id |-> n, here |-> here, by |-> by, ticket |-> t, kind |-> kind,
                    st |-> "read", row |-> tickets[t]] IN
            \/ ~ Refused(kind, tickets[t]) /\ calls' = calls \cup {c}
            \/ /\ Refused(kind, tickets[t]) /\ here
               /\ calls' = calls \cup {[c EXCEPT !.st = "failed", !.row = NewTicket]}
    BY <1>6 DEF Send
  <2>2. PICK c : c = [id |-> n, here |-> here, by |-> by, ticket |-> t, kind |-> kind,
                      st |-> "read", row |-> tickets[t]]
    OBVIOUS
  <2>3. PICK d : d = [c EXCEPT !.st = "failed", !.row = NewTicket]
    OBVIOUS
  <2>4. n \in CallSlots
    BY DEF FreeCalls
  <2>5. c \in TicketCalls /\ c.here = here
    BY <1>4, <2>2, <2>4 DEF TicketCalls
  <2>6. d \in TicketCalls /\ d.here = here
    BY <1>1, <2>3, <2>5 DEF TicketCalls
  <2>7. calls' = calls \cup {c} \/ calls' = calls \cup {d}
    BY <2>1, <2>2, <2>3
  <2>8. UNCHANGED <<tickets, drawing>>
    BY <1>6 DEF Send
  <2>. QED
    BY <1>6, <2>5, <2>6, <2>7, <2>8
<1>7. ASSUME NEW kind \in Kinds, Press(kind), desk' \in Desks, desk'.current = desk.current
      PROVE  TicketsTyped'
  <2>1. desk.side \in Sides /\ desk.current \in TicketIds /\ Send(TRUE, desk.side, kind, desk.current)
    BY <1>3, <1>7 DEF Press, Desks
  <2>. QED
    BY <1>6, <1>7, <2>1
<1>8. CASE sendReply \/ closeWithRating \/ forceClose \/ reopen
  <2>1. desk' = desk \/ desk' = [desk EXCEPT !.busy = TRUE]
    BY <1>8 DEF sendReply, closeWithRating, forceClose, reopen
  <2>2. desk' \in Desks /\ desk'.current = desk.current
    BY <2>1 DEF Desks
  <2>. QED
    BY <1>7, <1>8, <2>2 DEF sendReply, closeWithRating, forceClose, reopen, Kinds
<1>9. ASSUME NEW by \in Sides, NEW kind \in Kinds, NEW t \in TicketIds, Elsewhere(by, kind, t)
      PROVE  TicketsTyped'
  BY <1>6, <1>9 DEF Elsewhere
<1>10. ASSUME NEW c \in calls, TicketAnswered(c) PROVE TicketsTyped'
  <2>1. PICK d : d = [desk EXCEPT !.busy = @ /\ c.kind # "reply"]
    OBVIOUS
  <2>2. PICK busy : busy = (desk.busy /\ c.kind # "reply")
    OBVIOUS
  <2>3. busy \in BOOLEAN /\ d = [desk EXCEPT !.busy = busy]
    BY <2>1, <2>2
  <2>4. d \in Desks /\ d.current = desk.current
    BY <2>3 DEF Desks
  <2>5. desk' = IF d.visible THEN d ELSE Hidden(d, calls')
    BY <1>10, <2>1 DEF TicketAnswered
  <2>6. calls' \subseteq calls /\ UNCHANGED tickets /\ c.here
    BY <1>10 DEF TicketAnswered
  <2>7. PICK under : under = calls'
    OBVIOUS
  <2>8. \A e \in under : e.here => d.current \in TicketIds
    BY <2>4, <2>6, <2>7
  <2>9. Hidden(d, under) \in Desks /\ \A e \in under : e.here => Hidden(d, under).current \in TicketIds
    BY <2>4, <2>8, HiddenTyped
  <2>10. desk' \in Desks /\ \A e \in calls' : e.here => desk'.current \in TicketIds
    BY <2>4, <2>5, <2>7, <2>8, <2>9
  <2>11. drawing' \subseteq TicketStatuses
    BY <1>4, <1>10, <2>6 DEF TicketAnswered
  <2>. QED
    BY <2>6, <2>10, <2>11
<1>11. ASSUME NEW t \in TicketIds, OpenTicket(t) PROVE TicketsTyped'
  <2>1. desk' \in Desks /\ desk'.current = t
    BY <1>11 DEF OpenTicket, Desks
  <2>2. drawing' \subseteq TicketStatuses
    BY <1>4, <1>11 DEF OpenTicket
  <2>. QED
    BY <1>11, <2>1, <2>2 DEF OpenTicket
<1>12. ASSUME desk' = Hidden(desk, calls), UNCHANGED <<tickets, calls>>, drawing' \subseteq drawing
       PROVE  TicketsTyped'
  BY <1>12, HiddenTyped
<1>13. ASSUME NEW st, OpenFails(st) PROVE TicketsTyped'
  BY <1>12, <1>13 DEF OpenFails
<1>14. ASSUME NEW st \in drawing, RenderDetail(st) PROVE TicketsTyped'
  <2>1. desk' \in Desks /\ desk'.current = desk.current
    BY <1>14 DEF RenderDetail, Desks
  <2>. QED
    BY <1>14, <2>1 DEF RenderDetail
<1>15. CASE CloseTicketDialog
  BY <1>12, <1>15 DEF CloseTicketDialog
<1>16. CASE showRatingPicker
  <2>1. desk' \in Desks /\ desk'.current = desk.current
    BY <1>16 DEF showRatingPicker, Desks
  <2>. QED
    BY <1>16, <2>1 DEF showRatingPicker
<1>17. CASE UNCHANGED ticketVars
  BY <1>17 DEF ticketVars
<1>. QED
  BY <1>5, <1>8, <1>9, <1>10, <1>11, <1>13, <1>14, <1>15, <1>16, <1>17 DEF TicketsNext

(* The rows, the dialog and the requests of tickets keep their types.      *)
THEOREM TicketsTypes == TicketsSpec => []TicketsTypeOK
<1>1. TicketsInit => TicketsTyped
  <2>. SUFFICES ASSUME TicketsInit PROVE TicketsTyped
    OBVIOUS
  <2>1. NewTicket \in TicketRow
    BY DEF NewTicket, TicketRow, TicketStatuses
  <2>2. desk \in Desks
    <3>1. PICK side \in Sides : desk = ClosedDialog(side)
      BY DEF TicketsInit
    <3>. QED
      BY <3>1 DEF ClosedDialog, Desks
  <2>. QED
    BY <2>1, <2>2 DEF TicketsInit, TicketsTyped
<1>2. TicketsInv /\ TicketsTyped /\ [TicketsNext]_ticketVars => TicketsTyped'
  BY TicketsTypesStep
<1>3. TicketsTyped => TicketsTypeOK
  BY DEF TicketsTyped, TicketsTypeOK, Desks
<1>. QED
  BY <1>1, <1>2, <1>3, TicketsInvariant, PTL DEF TicketsSpec

----------------------------------------------------------------------------
(* One page at a time                                                      *)

(* A tab does to each page what the page alone would do, or nothing.       *)
THEOREM PagesApart == UserSpec => LearningSpec /\ JourneySpec /\ TicketsSpec
<1>1. UserInit => LearningInit /\ JourneyInit /\ TicketsInit
  BY DEF UserInit
<1>2. [UserNext]_userVars => [LearningNext]_learningVars
  BY DEF UserNext, userVars
<1>3. [UserNext]_userVars => [JourneyNext]_journeyVars
  BY DEF UserNext, userVars
<1>4. [UserNext]_userVars => [TicketsNext]_ticketVars
  BY DEF UserNext, userVars
<1>. QED
  BY <1>1, <1>2, <1>3, <1>4, PTL DEF UserSpec, LearningSpec, JourneySpec, TicketsSpec

(* Each page, its rows and its requests keep their types in every tab.     *)
THEOREM UserTypes == UserSpec => []UserTypeOK
<1>1. UserInit => open \in OpenPages
  BY DEF UserInit
<1>2. open \in OpenPages /\ [UserNext]_userVars => (open \in OpenPages)'
  BY DEF UserNext, userVars
<1>3. UserSpec => [](open \in OpenPages)
  BY <1>1, <1>2, PTL DEF UserSpec
<1>4. open \in OpenPages /\ LearningTypeOK /\ JourneyTypeOK /\ TicketsTypeOK => UserTypeOK
  BY DEF UserTypeOK
<1>. QED
  BY <1>3, <1>4, PagesApart, LearningTypes, JourneyTypes, TicketsTypes, PTL

(* What the run of a user's pages checks of the rows, the pages and the    *)
(* requests, for every instance.                                           *)
THEOREM UserPagesSafe ==
    UserSpec => [](/\ InOrder /\ CompletedMeansAll /\ PageNeverAhead /\ OneSubmission
                   /\ CompletedMeansDone /\ ShownIsDone /\ ClosedHasTime)
BY PagesApart, ItemsInOrder, SummaryNeverAhead, PageHonest, OneSubmissionAtATime,
   RequiredStepsDone, ShownStepsDone, ClosedTicketsHaveTime, PTL
=============================================================================
