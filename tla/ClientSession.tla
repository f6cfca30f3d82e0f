--------------------------- MODULE ClientSession ---------------------------
(***************************************************************************)
(* The session of one browser: assets/js/auth.js and assets/js/api.js in   *)
(* every tab, login.js on the login page, and the session requests of      *)
(* services/auth_service.py on the server.                                 *)
(*                                                                         *)
(* localStorage is shared by the tabs; _refreshPromise and the requests in *)
(* flight belong to the page of one tab and are lost when it unloads.  The *)
(* n-th session the server issues carries access token n and refresh token *)
(* n; NoToken stands for a missing key of localStorage.  A continuation of *)
(* an awaited promise is an action of its own: tabs run in processes of    *)
(* their own, so another tab may act between any two of them.              *)
(***************************************************************************)
EXTENDS Naturals

CONSTANTS Tabs,      \* the browser's tabs on this origin
          Calls,     \* the api calls that may be in flight
          TabOf,     \* TabOf[c]: the tab whose page makes call c
          KindOf,    \* KindOf[c]: the function of api.js that makes it
          MaxToken   \* bound: how many sessions the server issues

ASSUME MaxTokenAssumption == MaxToken \in Nat

NoToken == 0
Issued == 1..MaxToken
Token == Issued \cup {NoToken}

(* Functions that send a request; each repeats it once after a 401.        *)
Kinds == {"fetch", "upload", "download"}

ASSUME CallsAssumption == TabOf \in [Calls -> Tabs] /\ KindOf \in [Calls -> Kinds]

(* A call: what it waits for, the token of its last request, the token of  *)
(* its first one, and whether the refresh it waited for succeeded.         *)
Call == [st: {"idle", "sent", "waiting", "resumed", "retried"},
         token: Token, first: Token, ok: BOOLEAN]

(* A POST /auth/refresh: the token it carries, how far it is, its result.  *)
Refresh == [token: Issued, st: {"sent", "read", "answered"}, new: Token]

VARIABLES store,    \* localStorage: [access, refresh]
          page,     \* page[t]: the page of tab t, "leaving" once it redirects
          call,     \* call[c]: how far api call c is
          promise,  \* promise[t]: Auth._refreshPromise, a set of at most one request
          logout,   \* the tabs whose Auth.logout waits for its answer
          fresh,    \* access tokens that have not expired
          live,     \* refresh tokens that are neither revoked nor expired
          issued    \* how many sessions the server has issued

vars == <<store, page, call, promise, logout, fresh, live, issued>>

Idle == [st |-> "idle", token |-> NoToken, first |-> NoToken, ok |-> FALSE]
Empty == [access |-> NoToken, refresh |-> NoToken]

(* The tokens, the pages, the calls and the refreshes have their types.   *)
TypeOK ==
    /\ store \in [access: Token, refresh: Token]
    /\ page \in [Tabs -> {"login", "app", "leaving"}]
    /\ call \in [Calls -> Call]
    /\ promise \in [Tabs -> SUBSET Refresh]
    /\ logout \subseteq Tabs
    /\ fresh \subseteq Issued
    /\ live \subseteq Issued
    /\ issued \in Token

Init ==
    /\ store = Empty
    /\ page = [t \in Tabs |-> "login"]
    /\ call = [c \in Calls |-> Idle]
    /\ promise = [t \in Tabs |-> {}]
    /\ logout = {}
    /\ fresh = {} /\ live = {} /\ issued = 0

----------------------------------------------------------------------------
(* auth.js: localStorage                                                   *)

(* Storing a field the response lacks leaves a value that is no token.     *)
setSessionUnchecked(n) == store' = [access |-> n, refresh |-> MaxToken + 1]

(* setSession: both tokens of the response replace the stored ones.        *)
setSession(n) == store' = [access |-> n, refresh |-> n]

clear == store' = Empty

(* clear, then window.location.href: scripts run on until the page unloads.*)
clearAndLeave(t) == clear /\ page' = [page EXCEPT ![t] = "leaving"]

----------------------------------------------------------------------------
(* auth_service.py: what the server does with a session                    *)

(* create_session and the end of refresh_session: one more pair of tokens. *)
issue(revoked) ==
    /\ issued < MaxToken
    /\ issued' = issued + 1
    /\ fresh' = fresh \cup {issued + 1}
    /\ live' = (live \ revoked) \cup {issued + 1}

(* refresh_session reads the row of the token without a lock: a token that *)
(* is unknown, revoked or expired answers 401.                             *)
ServerReadsRefresh(t) ==
    \E r \in promise[t] :
        /\ r.st = "sent"
        /\ promise' = [promise EXCEPT ![t] =
               {[r EXCEPT !.st = IF r.token \in live THEN "read" ELSE "answered"]}]
        /\ UNCHANGED <<store, page, call, logout, fresh, live, issued>>

(* Rotation: the row that was read is revoked, whatever happened since,    *)
(* and the answer carries a new pair.                                      *)
ServerRotates(t) ==
    \E r \in promise[t] :
        /\ r.st = "read"
        /\ issue({r.token})
        /\ promise' = [promise EXCEPT ![t] =
               {[r EXCEPT !.st = "answered", !.new = issued + 1]}]
        /\ UNCHANGED <<store, page, call, logout>>

(* revoke_session behind /auth/logout: the endpoint wants a valid access   *)
(* token, then revokes the one session named, or all of the user's.        *)
revoke_session(access, refresh) ==
    live' = IF access \notin fresh THEN live
            ELSE IF refresh = NoToken THEN {}
            ELSE live \ {refresh}

(* Tokens of one kind live equally long: they expire in the order they     *)
(* were issued, an access token in minutes, a refresh token in days.       *)
oldest(n, tokens) == n \in tokens /\ \A m \in tokens : n <= m

AccessExpires(n) ==
    /\ oldest(n, fresh)
    /\ fresh' = fresh \ {n}
    /\ UNCHANGED <<store, page, call, promise, logout, live, issued>>

RefreshExpires(n) ==
    /\ oldest(n, live) /\ n \notin fresh
    /\ live' = live \ {n}
    /\ UNCHANGED <<store, page, call, promise, logout, fresh, issued>>

(* admin_reset_password and change_password on another device.             *)
RevokeAllSessions ==
    /\ live # {} /\ live' = {}
    /\ UNCHANGED <<store, page, call, promise, logout, fresh, issued>>

----------------------------------------------------------------------------
(* auth.js and api.js: an api call in a tab                                *)

(* A request leaves with the access token stored at that moment.           *)
request(c, st, first) ==
    call' = [call EXCEPT ![c] = [st |-> st, token |-> store.access,
                                 first |-> first, ok |-> FALSE]]

sendCall(c) ==
    /\ page[TabOf[c]] = "app"
    /\ call[c].st = "idle"
    /\ request(c, "sent", store.access)
    /\ UNCHANGED <<store, page, promise, logout, fresh, live, issued>>

Fetch(c) == KindOf[c] = "fetch" /\ sendCall(c)
Upload(c) == KindOf[c] = "upload" /\ sendCall(c)
Download(c) == KindOf[c] = "download" /\ sendCall(c)

(* The server serves an unexpired token (a response that is not a 401), or *)
(* the network fails: either way the caller gets a result or an exception. *)
CallEnds(c) ==
    /\ call[c].st \in {"sent", "retried"}
    /\ call' = [call EXCEPT ![c] = Idle]
    /\ UNCHANGED <<store, page, promise, logout, fresh, live, issued>>

(* Without the shared promise every caller would send its own request.     *)
refreshSessionUnshared(c) ==
    LET t == TabOf[c] IN
    /\ store.refresh # NoToken
    /\ call' = [call EXCEPT ![c].st = "waiting"]
    /\ promise' = [promise EXCEPT ![t] =
           @ \cup {[token |-> store.refresh, st |-> "sent", new |-> NoToken]}]

(* refreshSession: without a stored refresh token it resolves to false;    *)
(* else the caller waits for the promise the page shares.                  *)
refreshSession(c) ==
    LET t == TabOf[c] IN
    IF store.refresh = NoToken
    THEN /\ call' = [call EXCEPT ![c].st = "resumed", ![c].ok = FALSE]
         /\ UNCHANGED promise
    ELSE /\ call' = [call EXCEPT ![c].st = "waiting"]
         /\ promise' = IF promise[t] # {} THEN promise
                       ELSE [promise EXCEPT ![t] =
                             {[token |-> store.refresh, st |-> "sent", new |-> NoToken]}]

(* A first 401 asks for a refresh, a 401 of the retry ends the session.    *)
unauthorized(c) ==
    /\ call[c].token \notin fresh
    /\ \/ /\ call[c].st = "sent"
          /\ refreshSession(c)
          /\ UNCHANGED <<store, page>>
       \/ /\ call[c].st = "retried"
          /\ call' = [call EXCEPT ![c] = Idle]
          /\ clearAndLeave(TabOf[c])
          /\ UNCHANGED promise
    /\ UNCHANGED <<logout, fresh, live, issued>>

FetchUnauthorized(c) == KindOf[c] = "fetch" /\ unauthorized(c)
UploadUnauthorized(c) == KindOf[c] = "upload" /\ unauthorized(c)
DownloadUnauthorized(c) == KindOf[c] = "download" /\ unauthorized(c)

(* A settled promise that stays in place answers every later 401 at once.  *)
RefreshSettlesButStays(t) ==
    \E r \in promise[t] :
        /\ r.st = "answered"
        /\ IF r.new # NoToken THEN setSession(r.new) ELSE UNCHANGED store
        /\ \E c \in Calls :
            /\ TabOf[c] = t /\ call[c].st = "waiting"
            /\ call' = [call EXCEPT ![c].st = "resumed", ![c].ok = r.new # NoToken]
        /\ UNCHANGED <<promise, page, logout, fresh, live, issued>>

(* A refresh that goes back to one of the callers that wait for it.        *)
RefreshSettlesForOne(t) ==
    \E r \in promise[t] :
        /\ r.st = "answered"
        /\ IF r.new # NoToken THEN setSession(r.new) ELSE UNCHANGED store
        /\ \E c \in Calls :
            /\ TabOf[c] = t /\ call[c].st = "waiting"
            /\ call' = [call EXCEPT ![c].st = "resumed", ![c].ok = r.new # NoToken]
        /\ promise' = [promise EXCEPT ![t] = {}]
        /\ UNCHANGED <<page, logout, fresh, live, issued>>

(* The shared promise settles: a good answer is stored; a refusal, and any *)
(* failure on the way there or back, counts as false.  finally clears the  *)
(* promise and its waiters resume.                                         *)
RefreshSettles(t) ==
    \E r \in promise[t] :
        /\ \E ok \in {r.new # NoToken, FALSE} :
            /\ IF ok THEN setSession(r.new) ELSE UNCHANGED store
            /\ call' = [c \in Calls |->
                   IF TabOf[c] = t /\ call[c].st = "waiting"
                   THEN [call[c] EXCEPT !.st = "resumed", !.ok = ok] ELSE call[c]]
        /\ promise' = [promise EXCEPT ![t] = {}]
        /\ UNCHANGED <<page, logout, fresh, live, issued>>

(* The waiter goes on: retry with the token stored now, or to the login.   *)
retry(c) ==
    /\ call[c].st = "resumed"
    /\ IF call[c].ok
       THEN /\ request(c, "retried", call[c].first)
            /\ UNCHANGED <<store, page>>
       ELSE /\ call' = [call EXCEPT ![c] = Idle]
            /\ clearAndLeave(TabOf[c])
    /\ UNCHANGED <<promise, logout, fresh, live, issued>>

----------------------------------------------------------------------------
(* Pages                                                                   *)

(* login.js: the form stays usable when another tab has logged in since.   *)
Login(t) ==
    /\ page[t] = "login"
    /\ issue({})
    /\ setSession(issued + 1)
    /\ page' = [page EXCEPT ![t] = "app"]
    /\ UNCHANGED <<call, promise, logout>>

(* A page unloads: its requests and its promise are gone with it.  The     *)
(* next page asks who is logged in: requireAuth sends a visitor without an *)
(* access token to the login page, which sends a visitor with one back.    *)
unload(t) ==
    /\ page' = [page EXCEPT ![t] = IF store.access = NoToken THEN "login" ELSE "app"]
    /\ call' = [c \in Calls |-> IF TabOf[c] = t THEN Idle ELSE call[c]]
    /\ promise' = [promise EXCEPT ![t] = {}]
    /\ logout' = logout \ {t}
    /\ UNCHANGED <<store, fresh, live, issued>>

(* The user opens another page; a refresh the server has begun is finished *)
(* first.                                                                  *)
LoadPage(t) ==
    /\ page[t] = "app" \/ (page[t] = "login" /\ store.access # NoToken)
    /\ \A r \in promise[t] : r.st # "read"
    /\ unload(t)

(* The redirect to the login page arrives.                                 *)
LeavePage(t) == page[t] = "leaving" /\ unload(t)

(* Auth.logout reads the tokens and tells the server, which hears of it or *)
(* does not; localStorage is cleared after the answer or the failure.      *)
Logout(t) ==
    /\ page[t] = "app"
    /\ t \notin logout
    /\ logout' = logout \cup {t}
    /\ revoke_session(store.access, store.refresh) \/ UNCHANGED live
    /\ UNCHANGED <<store, page, call, promise, fresh, issued>>

LogoutEnds(t) ==
    /\ t \in logout
    /\ logout' = logout \ {t}
    /\ clearAndLeave(t)
    /\ UNCHANGED <<call, promise, fresh, live, issued>>

----------------------------------------------------------------------------
Unauthorized(c) ==
    FetchUnauthorized(c) \/ UploadUnauthorized(c) \/ DownloadUnauthorized(c)

CallStep(c) == CallEnds(c) \/ Unauthorized(c) \/ retry(c)

RefreshStep(t) == ServerReadsRefresh(t) \/ ServerRotates(t) \/ RefreshSettles(t)

Next ==
    \/ \E c \in Calls : Fetch(c) \/ Upload(c) \/ Download(c) \/ CallStep(c)
    \/ \E t \in Tabs : \/ RefreshStep(t) \/ LogoutEnds(t) \/ LeavePage(t)
                       \/ Login(t) \/ LoadPage(t) \/ Logout(t)
    \/ \E n \in Issued : AccessExpires(n) \/ RefreshExpires(n)
    \/ RevokeAllSessions

(* The browser and the server go on by themselves; users owe nothing.      *)
Fairness ==
    /\ \A t \in Tabs : /\ WF_vars(RefreshStep(t))
                      /\ WF_vars(LeavePage(t))
                      /\ WF_vars(LogoutEnds(t))
    /\ \A c \in Calls : WF_vars(CallStep(c))

Spec == Init /\ [][Next]_vars /\ Fairness

----------------------------------------------------------------------------
(* Properties                                                              *)

(* However many calls of a page meet a 401 together, one refresh request   *)
(* is in flight for all of them: a second one would carry a token that the *)
(* first has used up, and its refusal would log the user out.              *)
OneRefreshInFlight == \A t \in Tabs : \A r1, r2 \in promise[t] : r1 = r2

(* A request is repeated with a token other than the one that was refused, *)
(* or with none when another tab has logged out meanwhile: the single      *)
(* retry api.js allows itself is never spent on the dead token.            *)
RetryIsFresh ==
    \A c \in Calls :
        call[c].st = "retried" =>
            call[c].token \in (Token \ {call[c].first}) \cup {NoToken}

(* No call hangs: its promise resolves or rejects, or its page unloads,    *)
(* although calls wait for a promise that another call has created.        *)
CallsSettle ==
    \A c \in Calls :
        (call[c].st # "idle") ~> (call[c].st = "idle")

(* The session is given up only with its refresh token: api.js says that a *)
(* failed refresh means an expired or revoked refresh token.               *)
KeptWhileRefreshable ==
    [][\A c \in Calls : retry(c) /\ ~call[c].ok => store.refresh \notin live]_vars
=============================================================================
