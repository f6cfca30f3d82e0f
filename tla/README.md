# Talentick, modelled and proved in TLA+

Talentick is an onboarding and learning platform: a FastAPI backend
(`src/backend/app`) over PostgreSQL, and a browser client without a framework
(`src/frontend/assets/js`). Employees go through onboarding programs, contents
and quizzes, earn points for them, and redeem points for rewards;
administrators keep contents, programs, departments, users and tickets. This
directory holds TLA+ modules of the two places where the code runs concurrently
with itself, **requests on one database** and **handlers of a page that wait
for answers**, the TLC runs that check them on small instances, and TLAPS
proofs for every instance.

Everything is translated from the code at the lines that `PROJECT.json`
("map") names; comments in the modules give the lines that a property is about.

## 1. How the system runs

### The server

A request is one coroutine with **one `AsyncSession`** of its own
(`database.py`, `get_db`), that is one transaction at READ COMMITTED and one
identity map. `get_db` commits when the handler returns and rolls back when it
raises. Many requests run at once (several workers, several clients), so the
transactions of two requests interleave at every statement. Four facts of this
set-up decide what can go wrong, and the modules keep all four:

1. A plain `SELECT` takes no lock; it sees what is committed at that moment.
2. `SELECT ... FOR UPDATE` and `UPDATE` wait for the row lock of another
   transaction and hold their own until commit or rollback.
3. The session factory has `autoflush=False`, and no query of the services uses
   `populate_existing`: a row whose object is already in the identity map comes
   back **with the values of the first read**, even from
   `SELECT ... FOR UPDATE`.
4. A flush writes only the attributes that differ from the values read, with no
   condition other than the primary key.

`award_points` is called by `progress_service`, `onboarding_service` and
`quiz_service` inside the caller's transaction; all points go through
`wallet_service.apply_ledger_entry`.

### The browser

A page is one script without a framework. Its state is a `state` object, the
fields of its forms and what it has drawn. A click calls an `async` handler;
at each `await` the handler stops and other clicks and answers come in
between. Nothing cancels a request, no page compares an answer with what was
asked last, and a dialog that was closed is found again by the answer that comes
later. So

1. a handler is as many steps as it has `await`s, and holds what it read before;
2. answers come in any order, late ones into whatever is shown by then;
3. tabs share `localStorage` and nothing else; each has its own
   `_refreshPromise`.

The modules of pages keep all of this. A GET is answered from the rows of the
moment it is sent and its answer is a record that waits; this is as general as
a server that reads later, since another request can only be sent, not
answered, in between. Where several statements of one POST matter, it is several
steps too (`Learning`, `Journey`, `Tickets`, `ContentForm`, `TicketGrants`,
`OrgStructure`, and the updates of `UserForm`); elsewhere it is one, when it is answered, and the module says
so.

## 2. Inventory

| Component | State | Operations | Hard behaviour | What makes it correct | Status |
|---|---|---|---|---|---|
| wallet service (`wallet_service.py`, `models/points.py`) | `point_wallets`, `points_ledger` | `get_wallet`, `_get_wallet_locked`, `apply_ledger_entry`, `adjust_pending`, `mark_redeemed` | postings of concurrent requests, duplicate events, crash between INSERT and UPDATE | no posting lost or doubled; ledger is a chain ending at the balance; columns agree | modelled, proved |
| points service (`points_service.py`) | rules, ledger | `award_points`, `create_manual_transaction`, CRUD of rules | the same event delivered twice | at most one credit per event | posting requests modelled |
| reward service (`reward_service.py`) | `rewards` with stock | create, update, archive, `is_available` | total changed while items are sold | remaining stock consistent with total and sales | modelled without the date window |
| redemption service (`redemption_service.py`) | `reward_redemptions`, wallet, stock | create, submit, cancel, review, approve, reject, deliver | checks on copies, three row locks, retries | state machine, paid once, nothing below zero, no deadlock | modelled, proved |
| database sessions (`database.py`) | transactions, identity maps | read, lock, flush, commit, rollback | section 1 | atomic commits, locks given back | modelled with their users |
| client session refresh (`auth.js`, `api.js`, `login.js`) | tokens in `localStorage`, shared promise, calls | fetch, upload, download, refresh, retry, login, logout | parallel 401 answers, several tabs, lost answers | one refresh per page, retries with a new token, every call ends | modelled, proved |
| authentication (`auth_service.py`) | refresh tokens, one-time codes | issue, refresh, revoke, revoke all, codes | refresh race, revocation against rotation, lost counter | tokens rotate, none comes back | tokens modelled; passwords and codes not |
| departments (`department_service.py`, `org_structure.js`) | parent pointers, the chart, its dialog | create, update, delete, reorder, drag and drop, manager search | cycle check on old parents, late lists, drop on an old tree | a forest, one organisation, the manager shown | modelled, proved but for the forest |
| content progress (`progress_service.py`, `content_detail.js`) | item and content progress, the page | update, complete, open, render | aggregate of items of concurrent sessions, late answers | summary never ahead of items; items in order; page never ahead | modelled without `start_content` and view time, proved |
| quizzes (`quiz_service.py`, `quiz_take.js`) | attempts, the sitting | start, answer, countdown, submit, retry | countdown against button, lost answer, count then insert | one submission per sitting | submission modelled, proved |
| onboarding (`onboarding_service.py`, `onboarding_detail.js`, `employee_onboarding_admin.js`) | programs, enrollments, steps, their pages | create, update, enroll, complete, skip, recalculate | two last steps at once, duplicate enrollments, steps made required meanwhile, late lists of departments | complete implies that the steps that stay required are done; page shows what is done; saved is what is shown | modelled but for the gate and the deletion of a step, proved |
| employee documents (`employee_onboarding_service.py`) | types of documents, submissions | CRUD of types, templates, submit, review | late uploads and lists | a template lies with its type (it may not: section 4) | types modelled, their types proved; submissions not |
| tickets (`ticket_service.py`, `tickets.js`, `tickets_admin.js`) | tickets, grants, two pages | reply, close, reopen, grant | reply on a stale copy, late threads and search results, a user moved to another organisation | closed has a time; a grant stays in the organisation (it may not: section 4) | modelled but for opening one, the time proved |
| contents (`content_service.py`, `content.js`) | contents, targets, items, files, the wizard | create, update, items, uploads | answers of two dialogs cross, three transactions, late uploads | audience in the organisation of the content; files too (they may not: finding 5) | modelled but for deletion and counts, the audience proved |
| users (`user_service.py`, `users.js`), spreadsheet import | users, the form | create, update, remove, import | late lists of another organisation, updates of some columns only | place in the organisation (it may not be: section 4) | writes and form modelled, their types proved |
| rule engine (`rule_engine.py`) | none | `resolve_points` | five levels of precedence | most specific active rule wins | not modelled |
| rate limiter (`core/rate_limit.py`) | hits per key | hit | window boundary | at most N hits per window | not modelled |
| permissions (`dependencies.py`) | none | role checks, the gate | one row | | not modelled |
| organisations, positions | rows | CRUD | none: single rows | | not modelled |
| documents, gallery, announcements | rows | CRUD | none: single rows | | not modelled |
| file storage | object store | get, put | I/O only | | not modelled |
| dashboards, reports | none | queries | read-only | | not modelled |
| audit log, SMS | audit rows | insert, send | part of the caller's transaction; external | | not modelled |
| other pages (points, redemptions, editors of quizzes and of the older onboarding) | page state | render, save | as section 1 | | not modelled |
| migrations, deployment | | one-off | | | not modelled |

The list of hazards in `PROJECT.json` gives the line at which each hard
behaviour bites and the properties that would catch it; one that no property
covers says why.

## 3. Modules

    PointLedger            what the wallet service promises: atomic postings
      ^  implemented by
    WalletService          sessions, row locks, identity maps; award_points and
      ^                    create_manual_transaction over apply_ledger_entry
      |  EXTENDS
    RedemptionService      rewards, redemptions and approvals over the same wallets

    ClientSession          tabs, calls and refreshes of one browser, with the
                           tokens the server keeps
    OrgStructure           the chart of departments, its server and other
                           administrators

    Learning   Journey   Tickets                        pages of an employee
         \        |       /  EXTENDS
            UserPages      a tab that shows one of them

    ContentForm ContentItems Programs TicketGrants DocTypes UserForm
         \         \          |         /          /      /  EXTENDS
                       AdminPages      a tab that shows one of them

    *Proofs                theorems (TLAPS); MC* instances for TLC

**PointLedger** has no sessions: `balance` and `book` (the ledger) of each user,
and one action, `Post`, that appends an entry starting from the balance of that
moment, once per key. A key stands for `(event_type, reference_id)`.

**WalletService.** `wallet` and `ledger` are the committed rows, in commit
order; `locked_by` is the owner of each wallet's row lock; `copy[s]` is the
`PointWallet` object in the identity map of session `s`, with the values it was
read with and its attributes now; `draft[s]` is the ledger row inserted and not
committed; `pc` and `job` say where the request is.

| Action | Code |
|---|---|
| `award_points`, `create_manual_transaction` | the requests of `points_service.py`, their early returns and signs |
| `PostEntry` | `apply_ledger_entry`: lock, INSERT ... ON CONFLICT DO NOTHING, columns of the wallet |
| `Commit`, `Rollback` | the two ways out of `get_db`; a lost client, worker or connection is a rollback |

From the lock to the last flush `apply_ledger_entry` touches only rows its
session owns, so it is one step; the wait for the lock is its guard. The first
wallet of a user is inserted by the session that locks it: the unique
constraint on `user_id` makes a second inserter wait for the first, and
`locked_by` covers that too. The constraint on a key includes the user, and the
postings of one user are serialised by the lock, so an INSERT sees every
earlier key of that user.

**RedemptionService** adds `reward`, `redemption`, the owners of their row
locks, and the objects `offer[s]` and `seen[s]`. A handler is a path of phases
(`Statements`, `Advance`), one per statement that reads, locks or writes a shared
row: `load_redemption` (read and assert the transition), `submit_redemption`
(the soft checks), `ApproveReadsReward`, `CheckBalance`, `ApprovePosts`,
`adjust_pending`, `mark_redeemed`, `FlushReward`, `FlushRedemption`,
`CommitAll`, `RollbackAll`. `create_redemption` stores a draft and may submit it
at once. These models declare no ORM relationships, so one flush of SQLAlchemy
writes the mapped classes in the order of their names: `PointWallet` (in
`models.points`), then `Reward`, then `RewardRedemption` (in `models.reward`).
`create_reward` is a single INSERT and a single step; `update_reward` (which
also stands for `archive_reward`) reads the reward, and the UPDATE and the commit
are steps of their own.

**ClientSession.** `store` is `localStorage`; `call`, `promise` and `page` belong
to the page of a tab and go with it; `live` and `fresh` are the refresh and
access tokens that still count. The n-th session carries tokens n, so a token
tells which rotation it is from. `Fetch`, `Upload` and `Download` send;
`FetchUnauthorized` and its companions are the first and the second 401; `refreshSession`
joins or creates the promise; `ServerReadsRefresh` and `ServerRotates` are the
two halves of `refresh_session`, whose row is read without a lock;
`RefreshSettles` resumes the waiters, with success or, at any time, with a
failure of the network; `retry` goes on in each of them. `Login`, `Logout`,
`LogoutEnds`, `LoadPage`, `LeavePage`, `AccessExpires`, `RefreshExpires` and
`RevokeAllSessions` happen next to all of this.

**OrgStructure.** `parent` is the server's tree; `tree`, `rows`, `drag`, `over`,
`form` and `mgr` are the page: its list, what is drawn of it, a drag, the dialog
and the field of the manager with its search. `Drop`, `SaveDept`, `RemoveDept`
and `OpenFor` send; `ReorderReads` and `ReorderCommits` are the two halves of
`reorder_departments`; `OtherAdmin` is any other administrator.

**Learning.** `done`, `summary` and `attempts` are the rows. A POST of progress is
`CheckItem` (the lock of `me.py`), `CountItems` (the aggregate) and `CommitItem`;
one of an attempt `CheckAttempt` and `RecordAttempt`. The pages are
`content_detail.js` (`Render`, `OpenItem`, `MarkComplete`, `ProgressAnswered`) and
`quiz_take.js` (`Start`, `submit` by `Finish` or `TimeIsUp`, `SubmitAnswered`,
`SubmitLost`, `Retry`).

**Journey.** `progress[e]` are the rows of enrollment `e`: nothing makes
enrollments unique, so there may be several. A POST is `Find`, `Enroll` when no
row is there, `SetStatus`, then the recalculation in its two reads, `ListSteps`
(the enrollment and the steps that are required) and `Recalculate` (the
statuses), then `Commit`, and `Answer`, which reads the detail for the page.
Between any two of them an administrator may add a step (`AddStep`) or flip its
`is_required` (`UpdateStep`), which recalculates nothing. The page may be
reloaded at any time; a request that nobody hears of any more goes on to its
commit (`heard`). Which steps an administrator flips is `Revised`, any set of
steps; the others stay as they are (`StaysRequired`). Deleting a step, with its
rows, is left out.

**Tickets.** A request carries the row it read when it was sent (`c.row`) and
commits only what it changes of it (`Written`). `desk` is the dialog of one of
the two pages, `drawing` the threads still to be drawn in it.

**ContentForm.** `wizard` holds the fields of the dialog, `tasks` what is left of
`openCreate`, `openEdit`, `loadTargetingLists` and `loadCategoryOptions`,
`writes` the requests of the buttons; `update_content` commits three times
(`ReplaceTargets`, `ReplaceCategories`). **ContentItems** is the third tab: items,
files that are stored before the row that names them, and `chores` for what
waits.

**Programs** is the dialog of a program with its boxes of departments and the
dialog of its steps; a handler that waits is a job, and the button of one that
has not ended is disabled (`Enabled`). **DocTypes** is the catalogue of one
organisation after another, its form and the upload of a template.
**TicketGrants** is the dialog of the grants; `belongs` is the organisation of
each user, which `MoveMember` changes at any time, and a grant is checked
(`CheckGrant`) before it is inserted (`InsertGrant`). **UserForm** is the dialog
of a user. An update is two steps: `ReadsUser` reads the row and checks the
fields that the body has (`Unsent` for the others), and `UpdatesUser` writes the
columns that differ from what was read. Requests of other clients, which need
not name every field, are `PatchUser` and `UserPatched`.

**UserPages** and **AdminPages** are those pages next to each other. A tab shows
one page at a time and two pages share neither script state nor the rows
modelled of them, so their composition is the choice of the page; `PagesApart`
and `AdminPagesApart` prove that nothing is lost or added by it.

### Abstractions, by name

- `total_expired` and the transaction number: no caller posts an expiration, and
  the number is drawn from a sequence.
- Balances are mathematical integers; overflow of a 32-bit column fails the
  flush, that is a rollback, which may happen at any point of any run.
- The value of an event is any member of `Amounts`: the rule engine is not modelled.
- One award per transaction. Callers that post several awards to one user keep
  the same lock and object for all of them.
- Reward statuses are `active` and `archived`; the latter stands for every
  status in which `is_available` says no. The date window, texts and the scope
  of an organisation are left out, and so are roles, notes and audit rows.
- Commit order is the order of `ledger`. The lock of the wallet row is held to
  the commit, so per user this is also the order of posting.
- A department, position, user or category that is chosen in a form matters for
  the organisation it is of (ContentForm, TicketGrants, UserForm): a set of them
  is the set of their owners. Public categories, which anybody may use, are left
  out.
- Progress is reported as 100 or not at all by the pages, so an item is done or
  not; percentages follow from counts.
- Texts, order among siblings or items, pagination, drafts of replies, toasts
  and the rendering of rows are left out.
- In ContentItems, DocTypes and Programs a write is one step, made when it is
  answered, and so are the creation of a user and an import.

## 4. Runs

| Run | Instance | States | What it shows |
|---|---|---|---|
| `wallet` | 2 users, 3 sessions, 1 event, 1 manual transaction, amounts -1 and 2 | 6 696 | type, `FreshUnderLock`, `LedgerChained`, `CreditedOnce`, `BalanceIsEarnedMinusSpent`, refinement of `PointLedger`, and `EveryRequestEnds` |
| `redemption_concurrent` | 2 sessions, 1 user, 2 requests, 1 reward with 1 item, 2 awards of 2 points, cost 2 | 1.2 million (symmetry) | what survives every interleaving: a request is charged at most once and an approved one exactly once, the balance is that of the last entry, earnings are never lost, no deduction below zero, `redeemed_points` never too low, no deadlock |
| `redemption_serial` | 1 session, stock 1, 2 or unlimited, quantities 1 and 2 | 118 231 | one request after the other: pending and redeemed points exact, stock honest through restocking, every change of status allowed, refinement of `PointLedger` |
| `session` | 2 tabs, 2 calls in one and 1 in the other, one of each kind, 2 sessions | 207 789 | `OneRefreshInFlight`, `RetryIsFresh`, and `CallsSettle` under fairness |
| `chart` | 2 departments of one organisation, one still to be created, 1 of another, 2 users, 1 request at a time | 791 223 | `ParentInOrg`, `ManagerShownIsManagerSaved`, and `DropHidesNothing`: a chart that shows every department still does after a drop on an old row |
| `user_pages` | 3 items in a sequence, the last a quiz with 2 questions, 2 attempts and a time limit; 2 steps, one required, the other added late and then made required or optional; 2 tickets; 2 requests of each kind | 1.5 million (symmetry) | `InOrder`, `CompletedMeansAll`, `PageNeverAhead`, `OneSubmission`, `CompletedMeansDone`, `ShownIsDone`, `ClosedHasTime` |
| `admin_pages` | 2 organisations, 2 contents, items, types of documents and grants, 1 program with 2 departments, 1 user; 2 handlers that wait in the form of a content, in that of a program and in the grants, 1 elsewhere | 1.5 million (symmetry) | `AudienceInOrg`, `SavedIsShown`, and the types of all six pages |
| `redemption_transitions` | as `redemption_concurrent` | violated | finding 1 |
| `redemption_chain` | as `redemption_concurrent` | violated | finding 2 |
| `session_kept` | as `session` | violated | finding 3 |
| `chart_forest` | as `chart` | violated | finding 4 |
| `item_files` | the items of `admin_pages` with 2 handlers that wait | violated | finding 5 |

**Bounds, and why they are enough.** Three sessions let two wait for one lock
while a third owns it; two users show that locks are per user; one event is
delivered by any number of sessions any number of times, which is what a
duplicate is; a loss and a gain of different size make every set of postings
lead to a balance of its own. For redemptions, the races in the code are between
two transactions; two requests for one item and a balance that pays for none,
one or both of them give every outcome of the stock and balance checks. `Keys`
is finite, so a ledger has at most as many entries as there are keys: nothing
else has to be capped. Symmetry (sessions, requests, events) is used only in
runs that check safety alone.

For the session, two calls of one page are what shares a promise and the third
races them from another page; two sessions are a login and one rotation, with every
way to lose it. Two rotations of one token need a third session: with three,
the invariants hold on 3.2 million states, and the theorems hold for any number.
For the chart, a drop needs a department and a parent, a tree that changes under
it one more, another organisation the last; with one request of the page, the
race of finding 4 is with another administrator. For the pages, the defects
looked for take two handlers: what one waits for and what the other changes in
between. Two rows and two organisations are what can be mistaken for each other;
the third item is what is done in the wrong order, and the second step what is
added late and revised. `Summarised = 0` in `admin_pages` (3 in the code) lets the
boxes fold with two departments.

Two runs have constraints besides, for their size; the theorems have none of
these bounds. In `user_pages`, what a page of a program has requested before it
was reloaded is not looked at together with a new request (`UnheardAlone`): for
the server they are two requests, which it answers together elsewhere in the run,
and the page hears of one of them only. In `admin_pages`, a request about a step
of a program waits alone and one of the two departments is not deleted
(`FewChanges`): the dialogs of steps touch neither the boxes nor the targets that
`SavedIsShown` is about. There the server also handles a request about a program
as soon as it is sent, while its answer arrives at any time (`HandledAtOnce`):
whatever else could change its outcome may as well happen before it is sent.

Deadlock is checked except in `session` and `user_pages`: all tabs may wait at
the login page with no session left to issue, and a user who has completed
everything has nothing to do.

**Fairness.** PostgreSQL queues the waiters of a row lock, so a session whose
lock is released again and again gets it: strong fairness on the steps that
lock. A commit is weakly fair. Nothing obliges a client to send a request or a
session to fail. Under this, `EveryRequestEnds`; `SpecAll` gives every session
the same fairness, and `NoWaitCycle` says that there is never a
circle of waiters in the redemption handlers.

In `ClientSession` a request is answered or fails, a page that is being left is
left, a logout is answered or fails, and a continuation runs: the browser's event
loop starves none of them (weak fairness of `RefreshStep`, `LeavePage`,
`LogoutEnds`, `CallStep`). Users owe nothing, and tokens need not expire. The
pages of users and administrators are checked for safety alone.

### Findings

1. **State machine** (`redemption_transitions`). `_assert_transition` looks at the
   copy the handler read; the UPDATE has no condition on the status. Two decisions about one
   request both pass and the second overwrites the first: an approved request,
   its points deducted, can end as rejected. The docstring
   (`redemption_service.py:14`) says every transition is enforced.
2. **Ledger chain** (`redemption_chain`). `approve_redemption` calls `get_wallet` before
   `apply_ledger_entry`; by fact 3 the locking SELECT hands back that older
   object, so `balance_before` may be stale and a posting made in between
   disappears from the balance. `wallet_service.py:8-11` says the balance used
   is the one locked at that very moment. `LedgerChained` and
   `FreshUnderLock` hold in `WalletService`, where nobody reads before locking.
3. **Session kept** (`session_kept`). `_fetch` clears the session after any refresh
   that fails. `refreshSession` gives `false` for a lost connection as well, and
   for a token that another tab has rotated a moment before, whose successor is
   already in `localStorage`. `api.js:4` names an expired or revoked refresh
   token as the reason.
4. **Cycle** (`chart_forest`). `reorder_departments` looks for a cycle in the
   parents it read; two reorders, each fine alone, commit one after the other and
   put two departments under each other. `department_service.py:132` says the
   result must have none. Both vanish from every chart, which draws from the
   roots.
5. **Files** (`item_files`). `uploadBulkFiles` and `saveItem` post to
   `state.contentId` as it is after the upload. A content opened while a file is
   on its way gets an item whose file lies under the organisation of the content
   before it. `routers/content.py:318-323` says the path must be that of the
   content it is for (`ItemFilesUnderOwner`); the readers of the item get a 403 for
   its file.

The causes of findings 1 and 2 make `PendingIsExact` and `RedeemedIsExact` fail for concurrent
requests (two cancellations, two deliveries of one request), so they are checked
with one session, and proved for one; `RedeemedCoversDelivered` is what remains
with several.

The cycle of finding 4 is why `DropHidesNothing` speaks of charts that show every
department: with departments below each other in the list the page has loaded, a
drop can hide more of them.

### Properties that fail and are not among the runs

The modules state more sentences of the code's own comments that the code
violates. Each is seen by adding it under `INVARIANTS` of the configuration
named.

| Property | Configuration | What happens |
|---|---|---|
| `NoOversell` (RedemptionService; `redemption_service.py:10-12`) | `MCRedemptionConcurrent.cfg` | two approvals of the last item both read stock 1, and both write 0 |
| `CompletedMeansRequired` (Journey; `onboarding_service.py:7-10`, 1079) | `MCUserPages.cfg` | `update_step` makes a step required that is not done in a completed enrollment, and recalculates none |
| `OneEnrollment` (Journey; `onboarding_service.py:595`) | `MCUserPages.cfg` | two first steps at once enroll a user twice |
| `NotFoundMeansNoStep` (Journey; `onboarding_service.py:954-955`) | `MCUserPages.cfg` | an enrollment older than a step has no row of it, and the step is answered as not found |
| `RatedIsClosed` (Tickets; `models/ticket.py:81`) | `MCUserPages.cfg` | a reopening that read the ticket before it was rated leaves the rating |
| `AllIsEmptyOrComplete` (Programs; `employee_onboarding_admin.js:178`) | `MCAdminPages.cfg` | a department deleted since makes a selection complete by its size |
| `TemplatesUnderOwner` (DocTypes; `routers/files.py:19-20`) | `MCAdminPages.cfg` with `MaxDocCalls = 2` | a template uploaded for one organisation fills the form opened since for another one, and is saved with it |
| `GrantInOrg` (TicketGrants; `ticket_service.py:171`, `models/ticket.py:12-13`) | `MCAdminPages.cfg` | a user is moved to another organisation, before the grant that was checked is inserted or afterwards, and the grant stays |
| `PlaceInOrg` (UserForm; `routers/users.py:103-107`) | `MCAdminPages.cfg` | a PATCH of `org_id` alone leaves the user a department of the organisation he was of; with `MaxErrands = 2`, two updates at once leave the organisation of one and the place of the other |

What holds in place of `CompletedMeansRequired` is `CompletedMeansDone`: the
required steps that no administrator flips are completed in every completed
enrollment, whatever requests overlap.

## 5. Proofs

### Wallets

`WalletServiceProofs` proves, for any sets of users, sessions and keys and any
integer amounts:

| Theorem | Says |
|---|---|
| `TypeCorrect` | `Spec => []TypeOK` |
| `LockedCopyIsFresh` | `Spec => []FreshUnderLock` |
| `NoLostPosting` | `Spec => []LedgerChained` |
| `NoDoubleCredit` | `Spec => []CreditedOnce` |
| `ColumnsAgree` | `Spec => []BalanceIsEarnedMinusSpent` |
| `Refinement` | `Spec => PL!Spec`: concurrent sessions implement atomic postings |

Assumptions are those WalletService declares: events and manual ids are disjoint
sets of keys (`KeysAssumption`), amounts are integers (`AmountsAssumption`), and
`None` is not a row, object, entry, user or session (`NoneAssumption`). TLC
evaluates them in every run.

**The argument.** None of the properties is inductive alone: at a commit the
columns a session writes back come from its copy, and only the lock makes
that copy as good as the row. `IInv` therefore adds to the properties what each
phase of a session knows (`SessionInv`: an idle session has no object and owns
nothing; one at `post` has a job and no object yet; one at
`commit` owns the wallet of its user and holds an object whose values now are those it
read, or `Posted` of them together with the draft that says so) and that a lock
belongs to a session at `commit` with a job for that user (`LockInv`). From these a commit replaces the row by exactly `Posted(row, n)` and
appends an entry that starts at the row's balance (`CommitFacts`); the lemmas
`AppendChained` and `AppendOncePerKey` then give the chain and the keys, and
`BooksStay` the steps that touch no committed row. `CommitRefines` maps a commit
to `Post` or a stutter, and every other step is a stutter. One lemma per action
(`StartInv`, `PostEntryInv`, `CommitInv`, `RollbackInv`) makes up
`NextInv`.

### Redemptions

`RedemptionBooksProofs` is about any number of sessions, users, rewards and
requests, and any prices, quantities and totals; it follows what survives the old
copies that findings 1 and 2 and `NoOversell` show.

| Theorem | Says |
|---|---|
| `AllTypesCorrect` | `SpecAll => []TypeOKAll` |
| `PaidOnce` | `SpecAll => []ApprovedIsChargedOnce` |
| `BalanceFollowsLedger` | `SpecAll => []BalanceIsLastEntry` |
| `NothingEarnedIsLost` | `SpecAll => []EarnedMatchesLedger` |
| `NeverBelowZero` | `SpecAll => []NothingBelowZero` |
| `DeliveriesAreCounted` | `SpecAll => []RedeemedCoversDelivered` |
| `NoDeadlock` (RedemptionProofs) | `SpecAll => []NoWaitCycle` |

`RedemptionSerialProofs` assumes one session at most (`OneAtATime`: any two
sessions are the same one), and any number of requests one after the other:

| Theorem | Says |
|---|---|
| `PendingPointsAreExact` | `SpecAll => []PendingIsExact` |
| `RedeemedPointsAreExact` | `SpecAll => []RedeemedIsExact` |
| `StockStaysHonest` | `SpecAll => []StockIsHonest` |
| `StatusesFollowTheTransitions` | `SpecAll => TransitionsEnforced` |
| `RedemptionsRefineLedger` | `SpecAll => RedemptionsImplementPointLedger` |

Of these, `redemption_transitions`, `redemption_chain` and `NoOversell` show
that with several sessions the statuses, the ledger and the stock go wrong: what
the code promises of them it keeps for requests that do not overlap.

Assumptions: those of WalletService; requests are keys of no event or manual
transaction (`RedemptionsAssumption`); costs and quantities are positive and
totals natural or absent (`NumbersAssumption`); `None` is no number, request or
reward (`NoRowAssumption`).

**Sums.** Totals are folds over finite sets, and what such a fold computes needs
induction, which the library's theorems do not give (their parameter is an
operator). `SmallestSet` replaces it: among the subsets of a finite set for which
a statement fails there is one without a smaller one, because inclusion of finite
sets is well-founded. From it follow that the recursive function behind a fold
exists (`SumExists`), that two agree where their values do (`SumsAgree`), and
that an element can be added, taken away or changed.

**Several sessions** (`BooksInv`). The properties are not inductive: a commit
writes what its session has computed since. `SessionBooks` says, for each phase of
each handler, what its objects hold that no other session can make untrue.
Balance and earnings in the wallet object may be old in an approval, for
`get_wallet` read them before the lock; what is not old is that the entry to be
inserted ends at the balance to be written and not below zero; and as a flush
writes only the columns that have changed (`Same`), old earnings are never
written at all. `PaidOnce` rests on the unique key: from the lock of the wallet
to the commit, the key of an approval is in nobody's ledger, so a second
approval of a request waits, finds the key and fails. `Undisturbed` says what of
the committed rows a session relies on; `SessionStays` that it then still knows
what it knew. One lemma per statement does the rest.

**One session** (`SerialInv`). What the session has read is still what is
committed (`ReadsStand`); its pending points (`PendingStands`) and its stock
(`StockStands`) differ from that by exactly its own request. So a commit writes
the values the properties ask for. In the refinement the commit of an approval
or an award maps to one `Post`, everything else to a stutter.

### The other modules

All are for any sets and bounds that the assumptions of the modules admit.

| Theorem | Says | Module |
|---|---|---|
| `SessionTypeCorrect`, `OneRefreshPerPage`, `RetryFresh` | `[]TypeOK`, `[]OneRefreshInFlight`, `[]RetryIsFresh` | ClientSessionProofs |
| `ParentsInOrg`, `ManagerAsShown`, `DropsHideNothing` | `[]ParentInOrg`, `[]ManagerShownIsManagerSaved`, `DropHidesNothing` | OrgStructureProofs |
| `ItemsInOrder`, `SummaryNeverAhead`, `PageHonest`, `OneSubmissionAtATime` | `[]InOrder`, `[]CompletedMeansAll`, `[]PageNeverAhead`, `[]OneSubmission` | UserPagesProofs |
| `RequiredStepsDone`, `ShownStepsDone`, `ClosedTicketsHaveTime` | `[]CompletedMeansDone`, `[]ShownIsDone`, `[]ClosedHasTime` | UserPagesProofs |
| `PagesApart`, `UserTypes`, `UserPagesSafe` | `UserSpec` implies the three specifications; `[]UserTypeOK`; all of the other invariants for `UserSpec` | UserPagesProofs |
| `AudiencesInOrg`, `SavedAsShown` | `[]AudienceInOrg` for the form of a content, `[]SavedIsShown` for that of a program | AdminPagesProofs |
| `AdminPagesApart`, `AdminTypes`, `AdminPagesSafe` | `AdminSpec` implies the six specifications; `[]AdminTypeOK`; both of the other invariants for `AdminSpec` | AdminPagesProofs |

**The arguments.** None of these invariants is inductive alone.

- *Deadlock* (`OrderInv`). Every handler locks one wallet, then a reward, then a
  request, and each session's remaining statements say which locks it may hold.
  In a circle of waiters somebody would hold a later kind and wait for an
  earlier one.
- *Retries* (`FreshInv`). An answer on its way to a page carries a session that
  nobody has stored or sent yet (`AnswersAreNew`), so whatever is in the store
  when a call resumes is another token than the one refused.
- *Progress* (`LearningInv`). Items are never undone, so what a request has
  checked or counted is still true when it commits: a summary may be too low and
  never too high. The page shows only answers and lists of the past.
- *Submissions* (`SittingInv`). The page of a quiz waits for one request at most,
  and while it does the countdown is stopped and the button disabled.
- *Enrollments* (`JourneyInv`). The same, for the steps that stay required: each
  of them is among those a recalculation has read (`Sound`), it is never skipped,
  and once completed it stays so; an enrollment gets its rows at once and none
  afterwards. `Revised` may be any set of steps, so in a behaviour the theorem
  speaks of every step that is required from its beginning on and never flipped.
- *Departments* (`TreeInv`). A checked reorder writes departments of one
  organisation; which ones exist may have changed, of which organisation they are
  has not.
- *Drops.* What a chart draws is the least set that has the roots and the children
  of what it has. `LevelsExist` builds it level by level, by a least
  counterexample over the naturals, and `BelowIsClosed` says that the levels of
  finitely many departments end (hence `IsFiniteSet(Depts)` in `OrgAssumption`).
  `MovedStaysDrawn` then needs no levels: the new chart together with what hung
  below the row that was dropped is closed in the old tree, so it holds the old
  chart; and the new parent, which is not below that row, is drawn.
- *Tickets* (`TicketsInv`). Each request carries a row that once was there and in which a
  closed status came with its time; it writes status and time together or
  neither.
- *Administrators.* `update_content` checks the targets against the row it is
  about to write, so for them the rows alone are inductive, whatever the page
  sends (`ContentsInv`). What the page itself must get right is not: `ChoiceInv`
  follows the boxes of a program through every answer.
- *Types.* A handler that goes on after an answer relies on what it asked for:
  that a request for the content of a dialog names a content, that lists are asked
  for an organisation, that a row the form is filled from is a row, that only the request of another client
  leaves fields out. These are
  the parts the type invariants of the pages need beyond themselves
  (`ContentTyped`, `ItemsTyped`, `LearningTyped` and so on).

**Only model-checked.** Of the properties of the passing runs two:
`EveryRequestEnds` and `CallsSettle`, since liveness under fairness is out of the
prover's reach. The violated properties of the findings are false, and so are
the sentences of the table that follows them.

## 6. Not modelled, and what would come next

- The deletion of a step with its rows, the notes of a status; the gate of
  mandatory onboarding and the submissions of documents, with the
  row locks of steps and documents (a wait-for graph with the wallet as in
  `RedemptionService`); creation of users in several transactions.
- `start_content`, the time of viewing and the scores of quizzes; the attempts
  of a quiz against its maximum, which concurrent submissions exceed and no
  comment promises.
- One-time codes and passwords; the rate limiter and the rule engine, two pure
  functions that unit tests reach.
- The count of items of a content, the order of items, the deletion of
  contents, covers and categories.
- Pages with no state besides a list and a form: points, redemptions, gallery,
  announcements, the editors of quizzes and of the older onboarding.
- Hazards beyond the list in `PROJECT.json`, none of which has a property:
  `create_user` commits the user and then enrolls it, whose failure is logged
  (`user_service.py:298`); moving a user with a new path keeps the old
  enrollment (407); a failed GET of the paths of an employee makes a save cancel
  them (`users.js:280`); a list that failed, or a manager beyond the first
  hundred users, makes a save clear the field (`users.js:356`); saving a position
  before its departments have arrived clears its department
  (`org_structure.js:637`); PATCH of a department has no check for a cycle at all
  (`department_service.py:102`); two equal grants at once make later ones fail
  (`ticket_service.py:184`); a thread that arrives late is drawn while replies go
  to the ticket opened since (`tickets.js:113`), and likewise for the employee
  being looked at (`employee_onboarding_admin.js:737`); the answer to a new draft
  or program gives its identifier to the dialog opened since (`content.js:481`,
  `employee_onboarding_admin.js:330`); the welcome page is shown again after
  a rotation (`auth.js:32`); wrong guesses of a one-time code at once count once
  (`auth_service.py:354`); a rotation in flight survives the revocation of all
  sessions (214); the count of items is made in a second transaction
  (`content_service.py:742`); two toggles of a user at once are one
  (`user_service.py:447`); concurrent starts of a content, and view times, lose
  one (`progress_service.py:143`, 201); balances are 32-bit
  (`models/points.py:229`).
