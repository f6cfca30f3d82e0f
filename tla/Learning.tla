------------------------------ MODULE Learning ------------------------------
(***************************************************************************)
(* A user works through one content: the page of the content,              *)
(* assets/js/content_detail.js, the page of a quiz that is one of its      *)
(* items, assets/js/quiz_take.js, and the progress that                    *)
(* services/progress_service.py and services/quiz_service.py keep.         *)
(*                                                                         *)
(* The pages report progress 100 or none, so an item is done or not, and   *)
(* a summary is the number of done items that was counted for it: its      *)
(* percentage and its status follow from the number.  A GET is answered    *)
(* at once; a POST runs in the steps of its transaction, next to the       *)
(* others, and its answer may find another page open.  The content is      *)
(* public or its rule gives no points: no wallet row is locked.            *)
(***************************************************************************)
EXTENDS Naturals, FiniteSets

CONSTANTS Items, NoItem,
          Position,     \* order_index of an item
          Quizzes,      \* the items of type quiz_ref
          Played,       \* items completed by being used: video, link, file
          Sequential,   \* Content.sequential_progress
          TimeLimited,  \* the quiz has a time_limit_min
          Questions,    \* number of questions of the quiz
          MaxAttempts,  \* Quiz.max_attempts
          NoRow,        \* there is no user_content_progress row yet
          MaxPosts      \* bound: requests of each kind in flight

ASSUME LearningAssumption ==
    /\ IsFiniteSet(Items) /\ NoItem \notin Items
    /\ Position \in [Items -> Nat]
    /\ Quizzes \subseteq Items /\ Played \subseteq Items \ Quizzes
    /\ Sequential \in BOOLEAN /\ TimeLimited \in BOOLEAN
    /\ Questions \in Nat \ {0} /\ MaxAttempts \in Nat
    /\ NoRow \notin Nat /\ MaxPosts \in Nat

VARIABLES done,      \* items with a completed user_item_progress row
          summary,   \* the user_content_progress row
          attempts,  \* recorded attempts of the quiz
          at,        \* the page the tab shows
          detail,    \* state.detail of the content page: what it shows as done, as locked
          viewer,    \* the open item, and whether the viewer offers to complete it
          quiz,      \* the quiz page: its view, item, state.quiz and question
          timer,     \* its countdown runs
          finish,    \* btnFinishQuiz is enabled
          posts,     \* POST .../progress in flight
          submits    \* POST .../attempts in flight

server == <<done, summary, attempts>>
contentPage == <<detail, viewer>>
quizPage == <<quiz, timer, finish>>
learningVars == <<server, at, contentPage, quizPage, posts, submits>>

Total == Cardinality(Items)

NoDetail == [shown |-> {}, locked |-> Items, drawn |-> FALSE, new |-> FALSE]
NoViewer == [item |-> NoItem, button |-> FALSE]
NoQuiz == [view |-> "none", item |-> NoItem, used |-> 0, current |-> 1]

(* Requests are told apart by a slot; the lowest free one is taken.        *)
Slots == 1..MaxPosts
Free(requests) == Slots \ {r.id : r \in requests}
slot(requests) == CHOOSE n \in Free(requests) : \A m \in Free(requests) : n <= m

(* A request is answered; nobody waits for the answer of a page that has   *)
(* gone away, while the server still works on it.                          *)
Answered(r, st) == IF r.page = "gone" THEN {} ELSE {[r EXCEPT !.st = st]}

Orphans(requests) ==
    {[r EXCEPT !.page = "gone"] : r \in {q \in requests : q.st \notin {"ok", "failed"}}}

----------------------------------------------------------------------------
(* progress_service.py                                                     *)

Before(i) == {j \in Items : Position[j] < Position[i]}

(* A lock that only holds the items of the content page.                   *)
is_item_locked_unless_quiz(i) == Sequential /\ i \notin Quizzes /\ ~ (Before(i) \subseteq done)

is_item_locked(i) == Sequential /\ ~ (Before(i) \subseteq done)

compute_locked_map == {i \in Items : is_item_locked(i)}

(* The router checks the lock before it looks for the row of the item.     *)
CheckItem(p) ==
    /\ p \in posts /\ p.st = "sent"
    /\ posts' = (posts \ {p}) \cup
         IF is_item_locked(p.item) THEN Answered(p, "failed")
         ELSE {[p EXCEPT !.st = "checked", !.new = p.item \notin done]}
    /\ UNCHANGED <<server, at, contentPage, quizPage, submits>>

Writing(i) == \E q \in posts : q.item = i /\ q.st = "counted" /\ q.new

(* An incremented counter in the place of the aggregate.                   *)
completed_items_incremented(i) == Cardinality(done) + 1

(* The aggregate sees the items other transactions have committed and the  *)
(* one of its own.                                                         *)
completed_items(i) == Cardinality(done \cup {i})

(* update_item_progress up to its commit.  An item that is new to two      *)
(* transactions is inserted by the first; the other waits and fails.       *)
CountItems(p) ==
    /\ p \in posts /\ p.st = "checked"
    /\ p.new => ~ Writing(p.item)
    /\ posts' = (posts \ {p}) \cup
         IF p.new /\ p.item \in done THEN Answered(p, "failed")
         ELSE {[p EXCEPT !.st = "counted", !.count = completed_items(p.item),
                         !.first = summary = NoRow]}
    /\ UNCHANGED <<server, at, contentPage, quizPage, submits>>

(* The summary is overwritten with the number of items counted before; a   *)
(* second insert of it fails the transaction.                              *)
CommitItem(p) ==
    /\ p \in posts /\ p.st = "counted"
    /\ IF p.first /\ summary # NoRow
       THEN /\ posts' = (posts \ {p}) \cup Answered(p, "failed")
            /\ UNCHANGED <<done, summary>>
       ELSE /\ posts' = (posts \ {p}) \cup Answered(p, "ok")
            /\ done' = done \cup {p.item}
            /\ summary' = p.count
    /\ UNCHANGED <<attempts, at, contentPage, quizPage, submits>>

(* The same user completes an item in another tab or on another device.    *)
OtherTab(i) ==
    /\ i \notin done /\ ~ is_item_locked(i) /\ ~ Writing(i)
    /\ i \in Quizzes => attempts < MaxAttempts
    /\ done' = done \cup {i}
    /\ summary' = completed_items(i)
    /\ attempts' = IF i \in Quizzes THEN attempts + 1 ELSE attempts
    /\ UNCHANGED <<at, contentPage, quizPage, posts, submits>>

----------------------------------------------------------------------------
(* quiz_service.py                                                         *)

(* submit_attempt: the lock of the item, the attempts counted so far, and  *)
(* the time used, which the time limit may exceed.                         *)
CheckAttempt(s) ==
    /\ s \in submits /\ s.st = "sent"
    /\ \/ /\ ~ is_item_locked(s.item) /\ attempts < MaxAttempts
          /\ submits' = (submits \ {s}) \cup {[s EXCEPT !.st = "counted"]}
       \/ /\ is_item_locked(s.item) \/ attempts >= MaxAttempts \/ TimeLimited
          /\ submits' = (submits \ {s}) \cup Answered(s, "failed")
    /\ UNCHANGED <<server, at, contentPage, quizPage, posts>>

RecordAttempt(s) ==
    /\ s \in submits /\ s.st = "counted"
    /\ attempts' = attempts + 1
    /\ submits' = (submits \ {s}) \cup Answered(s, "ok")
    /\ UNCHANGED <<done, summary, at, contentPage, quizPage, posts>>

----------------------------------------------------------------------------
(* content_detail.js                                                       *)

(* The tab opens the content: the list of contents, the link of a result,  *)
(* a reload.                                                               *)
LoadContent ==
    /\ at' = "content"
    /\ detail' = [shown |-> done, locked |-> compute_locked_map,
                  drawn |-> FALSE, new |-> summary = NoRow]
    /\ viewer' = NoViewer
    /\ quiz' = NoQuiz /\ timer' = FALSE /\ finish' = TRUE
    /\ posts' = Orphans(posts) /\ submits' = Orphans(submits)
    /\ UNCHANGED server

(* The page is drawn after POST .../start, whose failure is ignored, and   *)
(* start_content inserts the summary unless it is there.                   *)
Render ==
    /\ at = "content" /\ ~ detail.drawn
    /\ detail' = [detail EXCEPT !.drawn = TRUE]
    /\ \/ UNCHANGED summary
       \/ detail.new /\ summary = NoRow /\ summary' = 0
    /\ UNCHANGED <<done, attempts, at, viewer, quizPage, posts, submits>>

(* openItem, of an item the page does not show as locked.  The button of   *)
(* an item is left out when the item is shown as completed.                *)
OpenItem(i) ==
    /\ at = "content" /\ detail.drawn /\ viewer = NoViewer
    /\ i \notin detail.locked \cup Quizzes
    /\ viewer' = [item |-> i, button |-> i \in Played \/ i \notin detail.shown]
    /\ UNCHANGED <<server, at, detail, quizPage, posts, submits>>

(* The item shown as completed by the click, not by the answer.            *)
MarkCompleteOptimistic ==
    /\ viewer.button /\ Free(posts) # {}
    /\ posts' = posts \cup {[id |-> slot(posts), item |-> viewer.item, page |-> "content",
                             st |-> "sent", new |-> FALSE, first |-> FALSE, count |-> 0]}
    /\ detail' = [detail EXCEPT !.shown = @ \cup {viewer.item}]
    /\ UNCHANGED <<server, at, viewer, quizPage, submits>>

(* markComplete: the button, the end of the video, the click on the link   *)
(* or on the download.                                                     *)
MarkComplete ==
    /\ viewer.button /\ Free(posts) # {}
    /\ posts' = posts \cup {[id |-> slot(posts), item |-> viewer.item, page |-> "content",
                             st |-> "sent", new |-> FALSE, first |-> FALSE, count |-> 0]}
    /\ UNCHANGED <<server, at, contentPage, quizPage, submits>>

(* Its answer updates the item and closes the viewer of that item; what    *)
(* the list shows as locked waits for the next load.                       *)
ProgressAnswered(p) ==
    /\ p \in posts /\ p.page = "content"
    /\ \/ /\ p.st = "ok"
          /\ detail' = [detail EXCEPT !.shown = @ \cup {p.item}]
          /\ viewer' = IF viewer.item = p.item THEN NoViewer ELSE viewer
       \/ /\ p.st = "failed"
          /\ UNCHANGED contentPage
    /\ posts' = posts \ {p}
    /\ UNCHANGED <<server, at, quizPage, submits>>

CloseViewer ==
    /\ viewer # NoViewer
    /\ viewer' = NoViewer
    /\ UNCHANGED <<server, at, detail, quizPage, posts, submits>>

----------------------------------------------------------------------------
(* quiz_take.js                                                            *)

(* load asks for the quiz with the item it was opened from; the server     *)
(* refuses a locked one.                                                   *)
load(i) == IF is_item_locked(i) THEN [NoQuiz EXCEPT !.view = "fatal", !.item = i]
           ELSE [NoQuiz EXCEPT !.view = "intro", !.item = i, !.used = attempts]

(* The page opens from the item of the content page or, whatever that one  *)
(* shows, from its address.                                                *)
OpenQuiz(i) ==
    /\ i \in Quizzes
    /\ at' = "quiz"
    /\ quiz' = load(i) /\ timer' = FALSE /\ finish' = TRUE
    /\ detail' = NoDetail /\ viewer' = NoViewer
    /\ posts' = Orphans(posts) /\ submits' = Orphans(submits)
    /\ UNCHANGED server

(* start, which renderIntro enables while an attempt is left; startTimer.  *)
Start ==
    /\ quiz.view = "intro" /\ quiz.used < MaxAttempts
    /\ quiz' = [quiz EXCEPT !.view = "quiz", !.current = 1]
    /\ timer' = TimeLimited
    /\ UNCHANGED <<server, at, contentPage, finish, posts, submits>>

(* next, prev and the dots lead to any question; the answers given so far  *)
(* are left out.                                                           *)
GotoQuestion(n) ==
    /\ quiz.view = "quiz" /\ n # quiz.current
    /\ quiz' = [quiz EXCEPT !.current = n]
    /\ UNCHANGED <<server, at, contentPage, timer, finish, posts, submits>>

(* The countdown left to run.                                              *)
submitTimerRuns ==
    /\ Free(submits) # {}
    /\ finish' = FALSE
    /\ submits' = submits \cup {[id |-> slot(submits), item |-> quiz.item,
                                 page |-> "quiz", st |-> "sent"]}
    /\ UNCHANGED <<server, at, contentPage, quiz, timer, posts>>

(* submit stops the countdown and disables the button.                     *)
submit ==
    /\ Free(submits) # {}
    /\ timer' = FALSE /\ finish' = FALSE
    /\ submits' = submits \cup {[id |-> slot(submits), item |-> quiz.item,
                                 page |-> "quiz", st |-> "sent"]}
    /\ UNCHANGED <<server, at, contentPage, quiz, posts>>

(* The button of the last question.                                        *)
Finish == quiz.view = "quiz" /\ quiz.current = Questions /\ finish /\ submit

TimeIsUp == timer /\ submit

(* The result waits for the progress of the item, and for it alone.  An    *)
(* error gives the button back, but not the countdown.                     *)
SubmitAnswered(s) ==
    /\ s \in submits /\ s.page = "quiz"
    /\ \/ /\ s.st = "ok" /\ Free(posts) # {}
          /\ posts' = posts \cup {[id |-> slot(posts), item |-> s.item, page |-> "quiz",
                                   st |-> "sent", new |-> FALSE, first |-> FALSE, count |-> 0]}
          /\ UNCHANGED finish
       \/ /\ s.st = "failed"
          /\ finish' = TRUE
          /\ UNCHANGED posts
    /\ submits' = submits \ {s}
    /\ UNCHANGED <<server, at, contentPage, quiz, timer>>

(* The connection breaks: an error for the page, while the server goes on. *)
SubmitLost(s) ==
    /\ s \in submits /\ s.page = "quiz"
    /\ submits' = (submits \ {s}) \cup Orphans({s})
    /\ finish' = TRUE
    /\ UNCHANGED <<server, at, contentPage, quiz, timer, posts>>

(* renderResult, once the progress request has been answered either way.   *)
RenderResult(p) ==
    /\ p \in posts /\ p.page = "quiz" /\ p.st \in {"ok", "failed"}
    /\ posts' = posts \ {p}
    /\ quiz' = [quiz EXCEPT !.view = "result"]
    /\ UNCHANGED <<server, at, contentPage, timer, finish, submits>>

(* canRetry goes by the attempts known before; the button of the last      *)
(* question stays disabled.                                                *)
Retry ==
    /\ quiz.view = "result" /\ quiz.used + 1 < MaxAttempts
    /\ quiz' = load(quiz.item)
    /\ UNCHANGED <<server, at, contentPage, timer, finish, posts, submits>>

----------------------------------------------------------------------------
LearningInit ==
    /\ done = {} /\ summary = NoRow /\ attempts = 0
    /\ at = "away"
    /\ detail = NoDetail /\ viewer = NoViewer
    /\ quiz = NoQuiz /\ timer = FALSE /\ finish = TRUE
    /\ posts = {} /\ submits = {}

LearningNext ==
    \/ \E p \in posts : CheckItem(p) \/ CountItems(p) \/ CommitItem(p)
                        \/ ProgressAnswered(p) \/ RenderResult(p)
    \/ \E s \in submits : CheckAttempt(s) \/ RecordAttempt(s)
                          \/ SubmitAnswered(s) \/ SubmitLost(s)
    \/ \E i \in Items : OtherTab(i) \/ OpenItem(i) \/ OpenQuiz(i)
    \/ \E n \in 1..Questions : GotoQuestion(n)
    \/ LoadContent \/ Render \/ MarkComplete \/ CloseViewer
    \/ Start \/ Finish \/ TimeIsUp \/ Retry

LearningSpec == LearningInit /\ [][LearningNext]_learningVars

----------------------------------------------------------------------------
Pages == {"content", "quiz", "gone"}

Posts == [id : Slots, item : Items, page : Pages,
          st : {"sent", "checked", "counted", "ok", "failed"},
          new : BOOLEAN, first : BOOLEAN, count : 0..Total]

Submits == [id : Slots, item : Quizzes, page : Pages,
            st : {"sent", "counted", "ok", "failed"}]

(* The pages, the rows and the requests have their types.                  *)
LearningTypeOK ==
    /\ done \subseteq Items /\ summary \in 0..Total \cup {NoRow} /\ attempts \in Nat
    /\ at \in {"away", "content", "quiz"}
    /\ detail \in [shown : SUBSET Items, locked : SUBSET Items, drawn : BOOLEAN, new : BOOLEAN]
    /\ viewer \in [item : Items \cup {NoItem}, button : BOOLEAN]
    /\ quiz \in [view : {"none", "intro", "quiz", "result", "fatal"}, item : Quizzes \cup {NoItem},
                 used : Nat, current : 1..Questions]
    /\ timer \in BOOLEAN /\ finish \in BOOLEAN
    /\ posts \subseteq Posts /\ submits \subseteq Submits

(* progress_service.py:85-86: in a sequential content an item is done only *)
(* after every earlier one, whichever pages, tabs and addresses the user   *)
(* mixes: the lock is checked before the transaction that completes the    *)
(* item.                                                                   *)
InOrder == Sequential => \A i \in done : Before(i) \subseteq done

(* progress_service.py:241: a content counts as completed only when all of *)
(* its items are, although each summary is computed from items read before *)
(* and written over whatever the other transactions wrote.                 *)
CompletedMeansAll == summary = Total => done = Items

(* The content page never shows as completed, nor as open, an item that    *)
(* the server does not: what it shows was read once, or answered late.     *)
PageNeverAhead ==
    at = "content" => /\ detail.shown \subseteq done
                      /\ \A i \in Items \ detail.locked : ~ is_item_locked(i)

(* The countdown, the button and an error never make a page of the quiz    *)
(* send one sitting twice at a time: quiz_service.py counts the attempts   *)
(* before it records one, so two of them would both be let through.        *)
OneSubmission ==
    Cardinality({s \in submits : s.page = "quiz"} \cup {p \in posts : p.page = "quiz"}) <= 1

=============================================================================
