------------------------ MODULE ClientSessionProofs ------------------------
(***************************************************************************)
(* Theorems about ClientSession, for any tabs, calls and number of         *)
(* sessions: types, one refresh per page, and no retry with the token that *)
(* was refused.                                                            *)
(*                                                                         *)
(* The last one needs to know where a token comes from: an answer on its   *)
(* way to a page carries a session that nobody has stored or sent yet.     *)
(***************************************************************************)
EXTENDS ClientSession, TLAPS

(* No session is in use that the server has not issued.                    *)
InUse ==
    /\ store.access <= issued
    /\ \A c \in Calls : call[c].first <= issued
    /\ \A t \in Tabs : \A r \in promise[t] : r.new <= issued

(* The session of an answer is neither stored nor the first one of a call, *)
(* and no other answer carries it.                                         *)
AnswersAreNew ==
    \A t \in Tabs : \A r \in promise[t] :
        r.new # NoToken =>
            /\ r.new # store.access
            /\ \A c \in Calls : r.new # call[c].first
            /\ \A u \in Tabs : \A q \in promise[u] : q.new = r.new => u = t

(* What a call resumes with is not what it was refused with.               *)
ResumesFresh ==
    \A c \in Calls :
        call[c].st = "resumed" /\ call[c].ok =>
            store.access # call[c].first \/ store.access = NoToken

FreshInv == InUse /\ AnswersAreNew /\ ResumesFresh /\ RetryIsFresh

----------------------------------------------------------------------------
(* Types.                                                                  *)

LEMMA IssuedIsToken == Issued \subseteq Token /\ NoToken \in Token /\ NoToken \notin Issued
BY MaxTokenAssumption DEF Issued, Token, NoToken

LEMMA TokensAreNaturals == \A n \in Token : n \in Nat /\ n <= MaxToken
BY MaxTokenAssumption DEF Issued, Token, NoToken

LEMMA TypeInit == Init => TypeOK
BY MaxTokenAssumption DEF Init, TypeOK, Call, Idle, Empty, Token, Issued, NoToken

(* create_session and the end of refresh_session issue a session that fits.*)
LEMMA IssueType ==
    ASSUME TypeOK, NEW used \in SUBSET Issued, issue(used)
    PROVE  /\ issued + 1 \in Issued /\ issued' = issued + 1 /\ issued' \in Token
           /\ fresh' \subseteq Issued /\ live' \subseteq Issued
BY MaxTokenAssumption DEF TypeOK, issue, Issued, Token, NoToken

(* The server's part of a refresh.                                         *)
LEMMA ServerType ==
    ASSUME TypeOK, NEW t \in Tabs, ServerReadsRefresh(t) \/ ServerRotates(t)
    PROVE  TypeOK'
<1>1. CASE ServerReadsRefresh(t)
  BY <1>1 DEF ServerReadsRefresh, TypeOK, Refresh
<1>2. CASE ServerRotates(t)
  <2>1. PICK r \in promise[t] :
           /\ issue({r.token})
           /\ promise' = [promise EXCEPT ![t] =
                {[r EXCEPT !.st = "answered", !.new = issued + 1]}]
    BY <1>2 DEF ServerRotates
  <2>2. r \in Refresh
    BY <2>1 DEF TypeOK
  <2>3. {r.token} \in SUBSET Issued
    BY <2>2 DEF Refresh
  <2>4. issued + 1 \in Token /\ issued' \in Token /\ fresh' \subseteq Issued /\ live' \subseteq Issued
    BY <2>1, <2>3, IssueType, IssuedIsToken
  <2>5. [r EXCEPT !.st = "answered", !.new = issued + 1] \in Refresh
    BY <2>2, <2>4 DEF Refresh
  <2>6. promise' \in [Tabs -> SUBSET Refresh]
    BY <2>1, <2>5 DEF TypeOK
  <2>. QED
    BY <1>2, <2>4, <2>6 DEF ServerRotates, TypeOK
<1>. QED
  BY <1>1, <1>2

(* A call of a page.                                                       *)
LEMMA CallType ==
    ASSUME TypeOK, NEW c \in Calls, sendCall(c) \/ CallEnds(c) \/ unauthorized(c) \/ retry(c)
    PROVE  TypeOK'
<1>. TabOf[c] \in Tabs /\ call[c] \in Call
  BY CallsAssumption DEF TypeOK
<1>. Idle \in Call /\ Empty \in [access : Token, refresh : Token]
  BY IssuedIsToken DEF Idle, Call, Empty
(* A request carries the stored token.                                     *)
<1>. \A st \in {"sent", "retried"}, first \in Token :
        request(c, st, first) => call' \in [Calls -> Call]
  <2>. SUFFICES ASSUME NEW st \in {"sent", "retried"}, NEW first \in Token,
                       request(c, st, first)
                PROVE  call' \in [Calls -> Call]
    OBVIOUS
  <2>1. [st |-> st, token |-> store.access, first |-> first, ok |-> FALSE] \in Call
    BY DEF TypeOK, Call
  <2>. QED
    BY <2>1 DEF request, TypeOK
<1>1. CASE sendCall(c)
  BY <1>1 DEF sendCall, TypeOK
<1>2. CASE CallEnds(c)
  BY <1>2 DEF CallEnds, TypeOK
<1>3. CASE unauthorized(c)
  <2>1. CASE refreshSession(c) /\ UNCHANGED <<store, page, logout, fresh, live, issued>>
    <3>1. CASE store.refresh = NoToken
      BY <2>1, <3>1 DEF refreshSession, TypeOK, Call
    <3>2. CASE store.refresh # NoToken
      <4>1. [token |-> store.refresh, st |-> "sent", new |-> NoToken] \in Refresh
        BY <3>2, IssuedIsToken DEF TypeOK, Refresh, Token
      <4>2. promise' \in [Tabs -> SUBSET Refresh]
        BY <2>1, <3>2, <4>1 DEF refreshSession, TypeOK
      <4>3. call' \in [Calls -> Call]
        BY <2>1, <3>2 DEF refreshSession, TypeOK, Call
      <4>. QED
        BY <2>1, <4>2, <4>3 DEF TypeOK
    <3>. QED
      BY <3>1, <3>2
  <2>2. CASE call' = [call EXCEPT ![c] = Idle] /\ clearAndLeave(TabOf[c])
             /\ UNCHANGED <<promise, logout, fresh, live, issued>>
    BY <2>2 DEF clearAndLeave, clear, TypeOK
  <2>. QED
    BY <1>3, <2>1, <2>2 DEF unauthorized
<1>4. CASE retry(c)
  <2>1. CASE call[c].ok
    <3>1. call[c].first \in Token
      BY DEF Call
    <3>. QED
      BY <1>4, <2>1, <3>1 DEF retry, TypeOK
  <2>2. CASE ~ call[c].ok
    BY <1>4, <2>2 DEF retry, clearAndLeave, clear, TypeOK
  <2>. QED
    BY <2>1, <2>2
<1>. QED
  BY <1>1, <1>2, <1>3, <1>4

(* The answer of a refresh reaches the page.                               *)
LEMMA SettlesType ==
    ASSUME TypeOK, NEW t \in Tabs, RefreshSettles(t)
    PROVE  TypeOK'
<1>1. PICK r \in promise[t] :
         \E ok \in {r.new # NoToken, FALSE} :
            /\ IF ok THEN setSession(r.new) ELSE UNCHANGED store
            /\ call' = [c \in Calls |->
                   IF TabOf[c] = t /\ call[c].st = "waiting"
                   THEN [call[c] EXCEPT !.st = "resumed", !.ok = ok] ELSE call[c]]
  BY DEF RefreshSettles
<1>2. PICK ok \in {r.new # NoToken, FALSE} :
         /\ IF ok THEN setSession(r.new) ELSE UNCHANGED store
         /\ call' = [c \in Calls |->
                IF TabOf[c] = t /\ call[c].st = "waiting"
                THEN [call[c] EXCEPT !.st = "resumed", !.ok = ok] ELSE call[c]]
  BY <1>1
<1>3. r \in Refresh /\ ok \in BOOLEAN
  BY <1>1, <1>2 DEF TypeOK
<1>4. store' \in [access : Token, refresh : Token]
  <2>1. setSession(r.new) \/ UNCHANGED store
    BY <1>2, Zenon
  <2>. QED
    BY <1>3, <2>1 DEF setSession, Refresh, TypeOK
<1>5. call' \in [Calls -> Call]
  BY <1>2, <1>3 DEF TypeOK, Call
<1>6. promise' \in [Tabs -> SUBSET Refresh]
  BY DEF RefreshSettles, TypeOK
<1>. QED
  BY <1>4, <1>5, <1>6 DEF RefreshSettles, TypeOK

(* A page loads, a login, a logout.                                        *)
LEMMA PageType ==
    ASSUME TypeOK, NEW t \in Tabs,
           Login(t) \/ unload(t) \/ Logout(t) \/ LogoutEnds(t)
    PROVE  TypeOK'
<1>. Idle \in Call /\ Empty \in [access : Token, refresh : Token]
  BY IssuedIsToken DEF Idle, Call, Empty
<1>1. CASE Login(t)
  <2>1. issue({})
    BY <1>1 DEF Login
  <2>2. issued + 1 \in Token /\ issued' \in Token /\ fresh' \subseteq Issued /\ live' \subseteq Issued
    BY <2>1, IssueType, IssuedIsToken
  <2>. QED
    BY <1>1, <2>2 DEF Login, setSession, TypeOK
<1>2. CASE unload(t)
  BY <1>2 DEF unload, TypeOK
<1>3. CASE Logout(t)
  BY <1>3 DEF Logout, revoke_session, TypeOK
<1>4. CASE LogoutEnds(t)
  BY <1>4 DEF LogoutEnds, clearAndLeave, clear, TypeOK
<1>. QED
  BY <1>1, <1>2, <1>3, <1>4

LEMMA TypeNext == TypeOK /\ [Next]_vars => TypeOK'
<1>. SUFFICES ASSUME TypeOK, [Next]_vars
              PROVE  TypeOK'
  OBVIOUS
<1>1. ASSUME NEW c \in Calls,
             Fetch(c) \/ Upload(c) \/ Download(c) \/ CallStep(c)
      PROVE  TypeOK'
  BY <1>1, CallType DEF Fetch, Upload, Download, CallStep, Unauthorized,
                        FetchUnauthorized, UploadUnauthorized, DownloadUnauthorized
<1>2. ASSUME NEW t \in Tabs, RefreshStep(t)
      PROVE  TypeOK'
  BY <1>2, ServerType, SettlesType DEF RefreshStep
<1>3. ASSUME NEW t \in Tabs,
             LogoutEnds(t) \/ LeavePage(t) \/ Login(t) \/ LoadPage(t) \/ Logout(t)
      PROVE  TypeOK'
  BY <1>3, PageType DEF LeavePage, LoadPage
<1>4. ASSUME NEW n \in Issued, AccessExpires(n) \/ RefreshExpires(n)
      PROVE  TypeOK'
  BY <1>4 DEF AccessExpires, RefreshExpires, TypeOK
<1>5. CASE RevokeAllSessions
  BY <1>5 DEF RevokeAllSessions, TypeOK
<1>6. CASE UNCHANGED vars
  BY <1>6 DEF vars, TypeOK
<1>. QED
  BY <1>1, <1>2, <1>3, <1>4, <1>5, <1>6 DEF Next

(* TypeOK: every variable keeps its type.                                  *)
THEOREM SessionTypeCorrect == Spec => []TypeOK
<1>. QED
  BY TypeInit, TypeNext, PTL DEF Spec

----------------------------------------------------------------------------
(* One refresh per page.                                                   *)

(* Only a page without a promise gets one; the server answers the request  *)
(* in the place of the one that asked.                                     *)
LEMMA OneRefreshNext == TypeOK /\ OneRefreshInFlight /\ [Next]_vars => OneRefreshInFlight'
<1>. SUFFICES ASSUME TypeOK, OneRefreshInFlight, [Next]_vars
              PROVE  OneRefreshInFlight'
  OBVIOUS
<1>1. ASSUME NEW t \in Tabs, ServerReadsRefresh(t) \/ ServerRotates(t)
      PROVE  OneRefreshInFlight'
  <2>1. PICK r : promise' = [promise EXCEPT ![t] = {r}]
    BY <1>1 DEF ServerReadsRefresh, ServerRotates
  <2>. QED
    BY <2>1 DEF OneRefreshInFlight, TypeOK
<1>2. ASSUME NEW t \in Tabs, RefreshSettles(t) \/ unload(t)
      PROVE  OneRefreshInFlight'
  <2>1. promise' = [promise EXCEPT ![t] = {}]
    BY <1>2 DEF RefreshSettles, unload
  <2>. QED
    BY <2>1 DEF OneRefreshInFlight, TypeOK
<1>3. ASSUME NEW c \in Calls, unauthorized(c)
      PROVE  OneRefreshInFlight'
  <2>1. \/ UNCHANGED promise
        \/ \E r : promise' = [promise EXCEPT ![TabOf[c]] = {r}]
    BY <1>3 DEF unauthorized, refreshSession
  <2>. QED
    BY <2>1 DEF OneRefreshInFlight, TypeOK
<1>4. CASE UNCHANGED promise
  BY <1>4 DEF OneRefreshInFlight
<1>. QED
  BY <1>1, <1>2, <1>3, <1>4
     DEF Next, vars, Fetch, Upload, Download, sendCall, CallStep, CallEnds, Unauthorized,
         FetchUnauthorized, UploadUnauthorized, DownloadUnauthorized, retry, RefreshStep,
         LogoutEnds, LeavePage, Login, LoadPage, Logout, AccessExpires, RefreshExpires,
         RevokeAllSessions

(* OneRefreshInFlight: a page has at most one refresh request under way.   *)
THEOREM OneRefreshPerPage == Spec => []OneRefreshInFlight
<1>1. Init => OneRefreshInFlight
  BY DEF Init, OneRefreshInFlight
<1>. QED
  BY <1>1, OneRefreshNext, SessionTypeCorrect, PTL DEF Spec

----------------------------------------------------------------------------
(* No retry with the refused token.                                        *)

(* What the types say about the numbers that are compared.                 *)
LEMMA Numbers ==
    ASSUME TypeOK
    PROVE  /\ issued \in Nat /\ store.access \in Nat
           /\ \A c \in Calls : call[c].first \in Nat /\ call[c].token \in Token
           /\ \A t \in Tabs : \A r \in promise[t] : r \in Refresh /\ r.new \in Nat
<1>1. \A c \in Calls : call[c] \in Call
  BY DEF TypeOK
<1>2. \A t \in Tabs : \A r \in promise[t] : r \in Refresh
  BY DEF TypeOK
<1>. QED
  BY <1>1, <1>2, TokensAreNaturals DEF TypeOK, Call, Refresh

(* A step that leaves the answers alone or drops some, and stores nothing  *)
(* new, keeps the answers new as long as a call begins with what is stored.*)
LEMMA CallsKeepAnswers ==
    ASSUME TypeOK, FreshInv, issued' = issued,
           store'.access \in {store.access, NoToken},
           \A t \in Tabs : \A r \in promise'[t] : r.new = NoToken \/ r \in promise[t],
           \A c \in Calls : call'[c].first \in {call[c].first, store.access, NoToken}
    PROVE  InUse' /\ AnswersAreNew'
<1>1. InUse'
  BY Numbers DEF FreshInv, InUse, NoToken
<1>2. AnswersAreNew'
  <2>. SUFFICES ASSUME NEW t \in Tabs, NEW r \in promise'[t], r.new # NoToken
                PROVE  /\ r.new # store'.access
                       /\ \A c \in Calls : r.new # call'[c].first
                       /\ \A u \in Tabs : \A q \in promise'[u] : q.new = r.new => u = t
    BY DEF AnswersAreNew
  <2>1. r \in promise[t]
    OBVIOUS
  <2>. QED
    BY <2>1 DEF FreshInv, AnswersAreNew
<1>. QED
  BY <1>1, <1>2

(* A call of a page.                                                       *)
LEMMA CallFresh ==
    ASSUME TypeOK, FreshInv, NEW c \in Calls,
           sendCall(c) \/ CallEnds(c) \/ unauthorized(c) \/ retry(c)
    PROVE  FreshInv'
<1>. /\ TabOf[c] \in Tabs
     /\ DOMAIN call = Calls /\ DOMAIN promise = Tabs
     /\ call[c] \in Call
  BY CallsAssumption DEF TypeOK
<1>1. CASE sendCall(c)
  <2>1. InUse' /\ AnswersAreNew'
    BY <1>1, CallsKeepAnswers DEF sendCall, request
  <2>2. ResumesFresh' /\ RetryIsFresh'
    BY <1>1 DEF sendCall, request, FreshInv, ResumesFresh, RetryIsFresh
  <2>. QED
    BY <2>1, <2>2 DEF FreshInv
<1>2. CASE CallEnds(c)
  <2>1. InUse' /\ AnswersAreNew'
    BY <1>2, CallsKeepAnswers DEF CallEnds, Idle
  <2>2. ResumesFresh' /\ RetryIsFresh'
    BY <1>2 DEF CallEnds, Idle, FreshInv, ResumesFresh, RetryIsFresh
  <2>. QED
    BY <2>1, <2>2 DEF FreshInv
<1>3. CASE refreshSession(c) /\ UNCHANGED <<store, page, logout, fresh, live, issued>>
  <2>1. \A d \in Calls : call'[d].first = call[d].first
    BY <1>3 DEF refreshSession, Call, TypeOK
  <2>2. \A t \in Tabs : \A r \in promise'[t] : r.new = NoToken \/ r \in promise[t]
    BY <1>3 DEF refreshSession
  <2>3. InUse' /\ AnswersAreNew'
    BY <1>3, <2>1, <2>2, CallsKeepAnswers
  <2>4. \A d \in Calls : \/ call'[d] = call[d]
                         \/ call'[d].st = "waiting"
                         \/ call'[d].st = "resumed" /\ call'[d].ok = FALSE
    BY <1>3 DEF refreshSession, Call, TypeOK
  <2>5. ResumesFresh' /\ RetryIsFresh'
    BY <1>3, <2>4 DEF FreshInv, ResumesFresh, RetryIsFresh
  <2>. QED
    BY <2>3, <2>5 DEF FreshInv
<1>4. CASE /\ call' = [call EXCEPT ![c] = Idle] /\ clearAndLeave(TabOf[c])
           /\ UNCHANGED <<promise, logout, fresh, live, issued>>
  <2>1. store'.access = NoToken
    BY <1>4 DEF clearAndLeave, clear, Empty
  <2>2. \A d \in Calls : call'[d] = call[d] \/ call'[d] = Idle
    BY <1>4
  <2>3. InUse' /\ AnswersAreNew'
    BY <1>4, <2>1, <2>2, CallsKeepAnswers DEF Idle
  <2>4. ResumesFresh' /\ RetryIsFresh'
    BY <2>1, <2>2 DEF FreshInv, ResumesFresh, RetryIsFresh, Idle
  <2>. QED
    BY <2>3, <2>4 DEF FreshInv
<1>5. CASE retry(c)
  <2>1. CASE ~ call[c].ok
    BY <1>5, <2>1, <1>4 DEF retry
  <2>2. CASE call[c].ok
    <3>1. /\ call[c].st = "resumed"
          /\ call' = [call EXCEPT ![c] = [st |-> "retried", token |-> store.access,
                                          first |-> call[c].first, ok |-> FALSE]]
          /\ UNCHANGED <<store, page, promise, logout, fresh, live, issued>>
      BY <1>5, <2>2 DEF retry, request
    <3>2. InUse' /\ AnswersAreNew'
      BY <3>1, CallsKeepAnswers
    <3>3. store.access # call[c].first \/ store.access = NoToken
      BY <2>2, <3>1 DEF FreshInv, ResumesFresh
    <3>4. store.access \in Token
      BY DEF TypeOK
    <3>5. ResumesFresh' /\ RetryIsFresh'
      BY <3>1, <3>3, <3>4 DEF FreshInv, ResumesFresh, RetryIsFresh
    <3>. QED
      BY <3>2, <3>5 DEF FreshInv
  <2>. QED
    BY <2>1, <2>2
<1>. QED
  BY <1>1, <1>2, <1>3, <1>4, <1>5 DEF unauthorized

(* The server answers with a session of its own.                           *)
LEMMA RotatesFresh ==
    ASSUME TypeOK, FreshInv, NEW t \in Tabs, ServerRotates(t)
    PROVE  FreshInv'
<1>. DOMAIN promise = Tabs
  BY DEF TypeOK
<1>1. PICK s : promise' = [promise EXCEPT ![t] = {s}] /\ s.new = issued + 1
  <2>1. PICK r \in promise[t] : promise' =
           [promise EXCEPT ![t] = {[r EXCEPT !.st = "answered", !.new = issued + 1]}]
    BY DEF ServerRotates
  <2>2. [r EXCEPT !.st = "answered", !.new = issued + 1].new = issued + 1
    BY <2>1, Numbers DEF Refresh
  <2>. QED
    BY <2>1, <2>2
<1>2. /\ issued' = issued + 1 /\ UNCHANGED <<store, page, call, logout>>
  BY DEF ServerRotates, issue
<1>3. \A u \in Tabs : \A q \in promise'[u] :
         (u = t /\ q.new = issued + 1) \/ (u # t /\ q \in promise[u])
  BY <1>1
<1>4. InUse'
  BY <1>2, <1>3, Numbers DEF FreshInv, InUse
<1>5. AnswersAreNew'
  <2>. SUFFICES ASSUME NEW u \in Tabs, NEW q \in promise'[u], q.new # NoToken
                PROVE  /\ q.new # store.access
                       /\ \A c \in Calls : q.new # call[c].first
                       /\ \A v \in Tabs : \A p \in promise'[v] : p.new = q.new => v = u
    BY <1>2 DEF AnswersAreNew
  <2>1. CASE u = t
    BY <2>1, <1>3, Numbers DEF FreshInv, InUse
  <2>2. CASE u # t
    BY <2>2, <1>3, Numbers DEF FreshInv, InUse, AnswersAreNew
  <2>. QED
    BY <2>1, <2>2
<1>6. ResumesFresh' /\ RetryIsFresh'
  BY <1>2 DEF FreshInv, ResumesFresh, RetryIsFresh
<1>. QED
  BY <1>4, <1>5, <1>6 DEF FreshInv

(* The page stores the answer: what it stores was no call's first token.   *)
LEMMA SettlesFresh ==
    ASSUME TypeOK, FreshInv, NEW t \in Tabs, RefreshSettles(t)
    PROVE  FreshInv'
<1>. DOMAIN promise = Tabs /\ DOMAIN call = Calls
  BY DEF TypeOK
<1>1. PICK r \in promise[t] :
         \E ok \in {r.new # NoToken, FALSE} :
            /\ IF ok THEN setSession(r.new) ELSE UNCHANGED store
            /\ call' = [c \in Calls |->
                   IF TabOf[c] = t /\ call[c].st = "waiting"
                   THEN [call[c] EXCEPT !.st = "resumed", !.ok = ok] ELSE call[c]]
  BY DEF RefreshSettles
<1>2. promise' = [promise EXCEPT ![t] = {}] /\ issued' = issued
  BY DEF RefreshSettles
<1>3. CASE /\ r.new # NoToken /\ setSession(r.new)
           /\ call' = [c \in Calls |->
                  IF TabOf[c] = t /\ call[c].st = "waiting"
                  THEN [call[c] EXCEPT !.st = "resumed", !.ok = TRUE] ELSE call[c]]
  <2>1. store'.access = r.new
    BY <1>3 DEF setSession
  <2>2. \A c \in Calls : /\ call'[c].first = call[c].first
                         /\ call'[c].st = "retried" => call'[c] = call[c]
    BY <1>3 DEF TypeOK, Call
  <2>3. \A u \in Tabs : \A q \in promise'[u] : u # t /\ q \in promise[u]
    BY <1>2
  <2>4. InUse'
    BY <1>2, <2>1, <2>2, <2>3 DEF FreshInv, InUse
  <2>5. /\ \A c \in Calls : r.new # call[c].first
        /\ \A u \in Tabs : \A q \in promise[u] : q.new = r.new => u = t
    <3>1. r \in promise[t] /\ r.new # NoToken
      BY <1>1, <1>3
    <3>. QED
      BY <3>1 DEF FreshInv, AnswersAreNew
  <2>6. AnswersAreNew'
    <3>. SUFFICES ASSUME NEW u \in Tabs, NEW q \in promise'[u], q.new # NoToken
                  PROVE  /\ q.new # store'.access
                         /\ \A c \in Calls : q.new # call'[c].first
                         /\ \A v \in Tabs : \A p \in promise'[v] : p.new = q.new => v = u
      BY DEF AnswersAreNew
    <3>1. u # t /\ q \in promise[u]
      BY <2>3
    <3>2. /\ \A c \in Calls : q.new # call[c].first
          /\ \A v \in Tabs : \A p \in promise[v] : p.new = q.new => v = u
      BY <3>1 DEF FreshInv, AnswersAreNew
    <3>. QED
      BY <2>1, <2>2, <2>3, <2>5, <3>1, <3>2
  <2>7. ResumesFresh'
    BY <2>1, <2>2, <2>5 DEF ResumesFresh
  <2>8. RetryIsFresh'
    BY <2>2 DEF FreshInv, RetryIsFresh
  <2>. QED
    BY <2>4, <2>6, <2>7, <2>8 DEF FreshInv
<1>4. CASE /\ UNCHANGED store
           /\ call' = [c \in Calls |->
                  IF TabOf[c] = t /\ call[c].st = "waiting"
                  THEN [call[c] EXCEPT !.st = "resumed", !.ok = FALSE] ELSE call[c]]
  <2>1. \A c \in Calls : \/ call'[c] = call[c]
                         \/ /\ call'[c].first = call[c].first
                            /\ call'[c].st = "resumed" /\ call'[c].ok = FALSE
    BY <1>4 DEF TypeOK, Call
  <2>2. \A u \in Tabs : \A q \in promise'[u] : q \in promise[u]
    BY <1>2
  <2>3. InUse' /\ AnswersAreNew'
    BY <1>2, <1>4, <2>1, <2>2, CallsKeepAnswers
  <2>4. ResumesFresh' /\ RetryIsFresh'
    BY <1>4, <2>1 DEF FreshInv, ResumesFresh, RetryIsFresh
  <2>. QED
    BY <2>3, <2>4 DEF FreshInv
<1>5. \/ r.new # NoToken /\ setSession(r.new) /\ call' = [c \in Calls |->
                  IF TabOf[c] = t /\ call[c].st = "waiting"
                  THEN [call[c] EXCEPT !.st = "resumed", !.ok = TRUE] ELSE call[c]]
      \/ UNCHANGED store /\ call' = [c \in Calls |->
                  IF TabOf[c] = t /\ call[c].st = "waiting"
                  THEN [call[c] EXCEPT !.st = "resumed", !.ok = FALSE] ELSE call[c]]
  <2>1. CASE r.new # NoToken
    <3>1. {r.new # NoToken, FALSE} = {TRUE, FALSE}
      BY <2>1, Zenon
    <3>. QED
      BY <1>1, <2>1, <3>1
  <2>2. CASE r.new = NoToken
    <3>1. {r.new # NoToken, FALSE} = {FALSE}
      BY <2>2, Zenon
    <3>. QED
      BY <1>1, <3>1
  <2>. QED
    BY <2>1, <2>2
<1>. QED
  BY <1>3, <1>4, <1>5

(* Everything else a page or the server does.                              *)
LEMMA PageFresh ==
    ASSUME TypeOK, FreshInv, NEW t \in Tabs,
           ServerReadsRefresh(t) \/ Login(t) \/ unload(t) \/ Logout(t) \/ LogoutEnds(t)
    PROVE  FreshInv'
<1>. DOMAIN promise = Tabs /\ DOMAIN call = Calls
  BY DEF TypeOK
<1>1. CASE ServerReadsRefresh(t)
  <2>1. PICK r \in promise[t] : promise' = [promise EXCEPT ![t] =
           {[r EXCEPT !.st = IF r.token \in live THEN "read" ELSE "answered"]}]
    BY <1>1 DEF ServerReadsRefresh
  <2>2. [r EXCEPT !.st = IF r.token \in live THEN "read" ELSE "answered"].new = r.new
    BY <2>1, Numbers DEF Refresh
  <2>3. \A u \in Tabs : \A q \in promise'[u] : \E p \in promise[u] : p.new = q.new
    BY <2>1, <2>2
  <2>4. UNCHANGED <<store, page, call, logout, fresh, live, issued>>
    BY <1>1 DEF ServerReadsRefresh
  <2>5. InUse' /\ AnswersAreNew'
    BY <2>3, <2>4 DEF FreshInv, InUse, AnswersAreNew
  <2>6. ResumesFresh' /\ RetryIsFresh'
    BY <2>4 DEF FreshInv, ResumesFresh, RetryIsFresh
  <2>. QED
    BY <2>5, <2>6 DEF FreshInv
<1>2. CASE Login(t)
  <2>1. store'.access = issued + 1 /\ issued' = issued + 1 /\ UNCHANGED <<call, promise>>
    BY <1>2 DEF Login, issue, setSession
  <2>2. InUse' /\ AnswersAreNew' /\ ResumesFresh' /\ RetryIsFresh'
    BY <2>1, Numbers DEF FreshInv, InUse, AnswersAreNew, ResumesFresh, RetryIsFresh
  <2>. QED
    BY <2>2 DEF FreshInv
<1>3. CASE unload(t)
  <2>1. \A c \in Calls : call'[c] = call[c] \/ call'[c] = Idle
    BY <1>3 DEF unload
  <2>2. \A u \in Tabs : \A q \in promise'[u] : q \in promise[u]
    BY <1>3 DEF unload
  <2>3. InUse' /\ AnswersAreNew'
    BY <1>3, <2>1, <2>2, CallsKeepAnswers DEF unload, Idle
  <2>4. ResumesFresh' /\ RetryIsFresh'
    BY <1>3, <2>1 DEF unload, FreshInv, ResumesFresh, RetryIsFresh, Idle
  <2>. QED
    BY <2>3, <2>4 DEF FreshInv
<1>4. CASE Logout(t)
  BY <1>4 DEF Logout, FreshInv, InUse, AnswersAreNew, ResumesFresh, RetryIsFresh
<1>5. CASE LogoutEnds(t)
  <2>1. store'.access = NoToken /\ UNCHANGED <<call, promise, issued>>
    BY <1>5 DEF LogoutEnds, clearAndLeave, clear, Empty
  <2>2. InUse' /\ AnswersAreNew'
    BY <2>1, CallsKeepAnswers
  <2>3. ResumesFresh' /\ RetryIsFresh'
    BY <2>1 DEF FreshInv, ResumesFresh, RetryIsFresh
  <2>. QED
    BY <2>2, <2>3 DEF FreshInv
<1>. QED
  BY <1>1, <1>2, <1>3, <1>4, <1>5

LEMMA FreshNext == TypeOK /\ FreshInv /\ [Next]_vars => FreshInv'
<1>. SUFFICES ASSUME TypeOK, FreshInv, [Next]_vars
              PROVE  FreshInv'
  OBVIOUS
<1>1. ASSUME NEW c \in Calls,
             Fetch(c) \/ Upload(c) \/ Download(c) \/ CallStep(c)
      PROVE  FreshInv'
  BY <1>1, CallFresh DEF Fetch, Upload, Download, CallStep, Unauthorized,
                         FetchUnauthorized, UploadUnauthorized, DownloadUnauthorized
<1>2. ASSUME NEW t \in Tabs,
             RefreshStep(t) \/ LogoutEnds(t) \/ LeavePage(t) \/ Login(t) \/ LoadPage(t)
               \/ Logout(t)
      PROVE  FreshInv'
  BY <1>2, RotatesFresh, SettlesFresh, PageFresh DEF RefreshStep, LeavePage, LoadPage
<1>3. CASE UNCHANGED <<store, call, promise, issued>>
  BY <1>3 DEF FreshInv, InUse, AnswersAreNew, ResumesFresh, RetryIsFresh
<1>4. ASSUME NEW n \in Issued, AccessExpires(n) \/ RefreshExpires(n)
      PROVE  FreshInv'
  BY <1>3, <1>4 DEF AccessExpires, RefreshExpires
<1>5. CASE RevokeAllSessions \/ UNCHANGED vars
  BY <1>3, <1>5 DEF RevokeAllSessions, vars
<1>. QED
  BY <1>1, <1>2, <1>4, <1>5 DEF Next

(* RetryIsFresh: api.js never spends the one retry of a call on the token  *)
(* that was refused.                                                       *)
THEOREM RetryFresh == Spec => []RetryIsFresh
<1>1. Init => FreshInv
  BY DEF Init, FreshInv, InUse, AnswersAreNew, ResumesFresh, RetryIsFresh, Idle, Empty, NoToken
<1>2. FreshInv => RetryIsFresh
  BY DEF FreshInv
<1>. QED
  BY <1>1, <1>2, FreshNext, SessionTypeCorrect, PTL DEF Spec

=============================================================================
