------------------------------ MODULE Session ------------------------------
(***************************************************************************)
(* The browser side of an operator's session in loxilb-ui: how a token is  *)
(* installed, used, doubted and torn down by several tabs that share one   *)
(* localStorage, against an OAM that issues and ends sessions on its own.  *)
(*                                                                         *)
(* A tab is one JavaScript process.  Its module state (the `terminating`   *)
(* flag, the cached session probe, the query client, the watcher of        *)
(* useSessionWatch) lives from one page load to the next; the token and    *)
(* the persisted query cache are shared by all tabs.  Data is abstracted   *)
(* to the session it was read under: `cache` and `mem` hold the sessions   *)
(* whose server data they contain.  Time is abstracted away: a timer that  *)
(* is armed may fire, and OAM may end a session, at any moment.            *)
(***************************************************************************)
EXTENDS Naturals, FiniteSets

CONSTANTS
    Tabs,          \* browser tabs open on the console
    Tokens,        \* access tokens OAM can issue; one token is one session
    NoToken,       \* localStorage holds no access_token
    MaxRequests,   \* bound: requests a tab has in flight
    MaxReloads,    \* bound: page loads the operator asks for
    Scenarios      \* what operators and browsers do beyond the plain case

(***************************************************************************)
(* "selfRename":    an administrator changes their own user name           *)
(* "loginOverLive": a login page left open is used while another tab is    *)
(*                  already signed in                                      *)
(* "slowTabs":      a tab may run a pending storage event, or finish a     *)
(*                  teardown, later than an operator's next action or a    *)
(*                  page load in another tab                               *)
(***************************************************************************)
KnownScenarios == {"selfRename", "loginOverLive", "slowTabs"}

ASSUME NoTokenAssumption   == NoToken \notin Tokens
ASSUME BoundsAssumption    == MaxRequests \in Nat \ {0} /\ MaxReloads \in Nat
ASSUME ScenariosAssumption == Scenarios \subseteq KnownScenarios

VARIABLES
    server,        \* OAM's view of each session
    logouts,       \* POST /logout requests on their way to OAM
    stored,        \* localStorage: access_token
    cache,         \* localStorage: the persisted query cache
    page,          \* tab: what it shows; "leaving" until the next page loads
    mem,           \* tab: the in-memory query client
    requests,      \* tab: fetches in flight; `wanted` until cancelled
    probe,         \* tab: sessionProbe, the one cached GET /users/me
    asking,        \* tab: tokens whose probe someone is awaiting
    watch,         \* tab: the token useSessionWatch captured at page load
    ended,         \* tab: useSessionWatch's `ended`
    event,         \* tab: a storage event for access_token is queued
    terminating,   \* tab: the guard of terminateSession
    purging,       \* tab: teardowns between their first await and the scrub
    signingOut,    \* tab: the sign-out dialog awaits request_logout
    rename,        \* tab: what follows a change of the operator's own name
    reloads        \* page loads asked for so far

vars == <<server, logouts, stored, cache, page, mem, requests, probe, asking,
          watch, ended, event, terminating, purging, signingOut, rename,
          reloads>>

TokenOrNone == Tokens \union {NoToken}
Requests    == [token : TokenOrNone, wanted : BOOLEAN]
NoProbe     == [token |-> NoToken, answer |-> "pending"]

TypeOK ==
    /\ server \in [Tokens -> {"unissued", "live", "ended"}]
    /\ logouts \subseteq Tokens
    /\ stored \in TokenOrNone
    /\ cache \subseteq Tokens
    /\ page \in [Tabs -> {"login", "app", "leaving"}]
    /\ mem \in [Tabs -> SUBSET Tokens]
    /\ requests \in [Tabs -> SUBSET Requests]
    /\ probe \in [Tabs -> [token : TokenOrNone,
                           answer : {"pending", "alive", "ended"}]]
    /\ asking \in [Tabs -> SUBSET Tokens]
    /\ watch \in [Tabs -> TokenOrNone]
    /\ ended \in [Tabs -> BOOLEAN]
    /\ event \in [Tabs -> BOOLEAN]
    /\ terminating \in [Tabs -> BOOLEAN]
    /\ purging \in [Tabs -> Nat]
    /\ signingOut \in [Tabs -> BOOLEAN]
    /\ rename \in [Tabs -> {"none", "relogin", "prompt"}]
    /\ reloads \in 0..MaxReloads

(***************************************************************************)
(* Nobody is signed in and every tab shows the login page.                 *)
(***************************************************************************)
Init ==
    /\ server = [k \in Tokens |-> "unissued"]
    /\ logouts = {}
    /\ stored = NoToken
    /\ cache = {}
    /\ page = [t \in Tabs |-> "login"]
    /\ mem = [t \in Tabs |-> {}]
    /\ requests = [t \in Tabs |-> {}]
    /\ probe = [t \in Tabs |-> NoProbe]
    /\ asking = [t \in Tabs |-> {}]
    /\ watch = [t \in Tabs |-> NoToken]
    /\ ended = [t \in Tabs |-> FALSE]
    /\ event = [t \in Tabs |-> FALSE]
    /\ terminating = [t \in Tabs |-> FALSE]
    /\ purging = [t \in Tabs |-> 0]
    /\ signingOut = [t \in Tabs |-> FALSE]
    /\ rename = [t \in Tabs |-> "none"]
    /\ reloads = 0

----------------------------------------------------------------------------
(* Shared pieces of the handlers. *)

(* Unless "slowTabs", every tab but those in `except` has handled its      *)
(* storage events and finished its teardown.                               *)
Quiet(except) ==
    \/ "slowTabs" \in Scenarios
    \/ \A u \in Tabs \ except : ~event[u] /\ purging[u] = 0

(* localStorage.access_token changes in tab t: the browser queues a        *)
(* storage event in every OTHER tab that listens for one.                  *)
StoreToken(t, k) ==
    /\ stored' = k
    /\ event' = [u \in Tabs |->
                    event[u] \/ (k # stored /\ u # t /\ watch[u] # NoToken)]

(* Mutant of Cancelled: the teardown forgets the fetches in flight.        *)
StillWanted(rs) == rs

(* queryClient.cancelQueries(): the fetches go on, their results are       *)
(* dropped.                                                                *)
Cancelled(rs) == {[r EXCEPT !.wanted = FALSE] : r \in rs}

(* terminateSession up to its first await, in a tab left with requests rs: *)
(* a no-op when the tab is already terminating.                            *)
TerminateSession(t, rs) ==
    /\ terminating' = [terminating EXCEPT ![t] = TRUE]
    /\ purging' = [purging EXCEPT ![t] = IF terminating[t] THEN @ ELSE @ + 1]
    /\ requests' = [requests EXCEPT
                      ![t] = IF terminating[t] THEN rs ELSE Cancelled(rs)]

(* The handler returns without ending the session. *)
KeepSession(t, rs) ==
    /\ requests' = [requests EXCEPT ![t] = rs]
    /\ UNCHANGED <<terminating, purging>>

(* Mutant of OwnsSession: the comparison of the two tokens inverted.       *)
OwnsAnotherSession(t) == ~ended[t] /\ watch[t] # NoToken /\ stored # watch[t]

(* The stored session is the one this page's watcher was armed on, and it  *)
(* has not ended it yet.                                                   *)
OwnsSession(t) == ~ended[t] /\ watch[t] # NoToken /\ stored = watch[t]

----------------------------------------------------------------------------
(* Page loads. *)

(* A new page in tab t: module state starts over, useSessionWatch arms     *)
(* itself on the stored token, and the persisted cache is restored.        *)
NewPage(t) ==
    /\ page' = [page EXCEPT ![t] = IF stored = NoToken THEN "login" ELSE "app"]
    /\ watch' = [watch EXCEPT ![t] = stored]
    /\ mem' = [mem EXCEPT ![t] = cache]
    /\ requests' = [requests EXCEPT ![t] = {}]
    /\ probe' = [probe EXCEPT ![t] = NoProbe]
    /\ asking' = [asking EXCEPT ![t] = {}]
    /\ ended' = [ended EXCEPT ![t] = FALSE]
    /\ event' = [event EXCEPT ![t] = FALSE]
    /\ terminating' = [terminating EXCEPT ![t] = FALSE]
    /\ purging' = [purging EXCEPT ![t] = 0]
    /\ signingOut' = [signingOut EXCEPT ![t] = FALSE]
    /\ rename' = [rename EXCEPT ![t] = "none"]
    /\ UNCHANGED <<server, logouts, stored, cache>>

(* The navigation a handler asked for completes. *)
Load(t) ==
    /\ page[t] = "leaving"
    /\ Quiet({t})
    /\ NewPage(t)
    /\ UNCHANGED reloads

(* The operator reloads, or a crashed tab is reopened: at any point of any *)
(* handler.                                                                *)
Reload(t) ==
    /\ reloads < MaxReloads
    /\ Quiet({})
    /\ NewPage(t)
    /\ reloads' = reloads + 1

(* RequireAuth renders without a token: a router redirect, no page load.   *)
RequireAuth(t) ==
    /\ page[t] = "app"
    /\ stored = NoToken
    /\ page' = [page EXCEPT ![t] = "login"]
    /\ UNCHANGED <<server, logouts, stored, cache, mem, requests, probe,
                   asking, watch, ended, event, terminating, purging,
                   signingOut, rename, reloads>>

----------------------------------------------------------------------------
(* Signing in and out. *)

(* Mutant of MoveForced: the router's push, which keeps the page.          *)
PushInPage(t) == page' = [page EXCEPT ![t] = "app"]

(* move_forced: a navigation that loads a new page. *)
MoveForced(t) == page' = [page EXCEPT ![t] = "leaving"]

(* handleFormSubmit gets its token: beginSession, save, move_forced.       *)
Login(t, k) ==
    /\ page[t] = "login"
    /\ server[k] = "unissued"
    /\ "loginOverLive" \in Scenarios \/ stored = NoToken
    /\ Quiet({})
    /\ server' = [server EXCEPT ![k] = "live"]
    /\ terminating' = [terminating EXCEPT ![t] = FALSE]
    /\ StoreToken(t, k)
    /\ MoveForced(t)
    /\ UNCHANGED <<logouts, cache, mem, requests, probe, asking, watch, ended,
                   purging, signingOut, rename, reloads>>

(* Mutant of RequestLogout: the check for a token dropped.                 *)
RequestLogoutUnchecked == logouts' = logouts \union {stored}

(* request_logout reads the token and posts; without one it posts nothing. *)
RequestLogout == logouts' = logouts \union ({stored} \ {NoToken})

(* The sign-out dialog is confirmed and waits for request_logout.          *)
SignOut(t) ==
    /\ page[t] = "app"
    /\ ~signingOut[t]
    /\ signingOut' = [signingOut EXCEPT ![t] = TRUE]
    /\ RequestLogout
    /\ UNCHANGED <<server, stored, cache, page, mem, requests, probe, asking,
                   watch, ended, event, terminating, purging, rename, reloads>>

(* request_logout settled, answered or not: the session is torn down.      *)
SignOutSettled(t) ==
    /\ signingOut[t]
    /\ signingOut' = [signingOut EXCEPT ![t] = FALSE]
    /\ TerminateSession(t, requests[t])
    /\ UNCHANGED <<server, logouts, stored, cache, page, mem, probe, asking,
                   watch, ended, event, rename, reloads>>

(* Mutant of ClearClient: what was requested during the purges goes on.    *)
ClearDataOnly(t) ==
    /\ mem' = [mem EXCEPT ![t] = {}]
    /\ UNCHANGED requests

(* queryClient.clear(): data and queries go, a query in flight included.   *)
ClearClient(t) ==
    /\ mem' = [mem EXCEPT ![t] = {}]
    /\ requests' = [requests EXCEPT ![t] = Cancelled(@)]

(* Mutant of PurgeCache: the scan of the stores misses the query cache.    *)
PurgeCacheSkipped == UNCHANGED cache

(* removeClient and purgeSessionStorage on the persisted query cache.      *)
PurgeCache == cache' = {}

(* terminateSession after its purges: the query client is emptied, every   *)
(* store is scanned, and only then does the page navigate.                 *)
Scrub(t) ==
    /\ purging[t] > 0
    /\ purging' = [purging EXCEPT ![t] = @ - 1]
    /\ ClearClient(t)
    /\ PurgeCache
    /\ StoreToken(t, NoToken)
    /\ page' = [page EXCEPT ![t] = IF @ = "login" THEN "login" ELSE "leaving"]
    /\ UNCHANGED <<server, logouts, probe, asking, watch, ended, terminating,
                   signingOut, rename, reloads>>

----------------------------------------------------------------------------
(* Requests and their answers. *)

(* fetch_data reads the stored token as it sends. *)
Send(t) ==
    /\ page[t] = "app"
    /\ Cardinality(requests[t]) < MaxRequests
    /\ requests' = [requests EXCEPT
                      ![t] = @ \union {[token |-> stored, wanted |-> TRUE]}]
    /\ UNCHANGED <<server, logouts, stored, cache, page, mem, probe, asking,
                   watch, ended, event, terminating, purging, signingOut,
                   rename, reloads>>

(* 2xx: the query client takes the data unless the query was cancelled.    *)
AnswerData(t, r) ==
    /\ r \in requests[t]
    /\ r.token \in Tokens
    /\ server[r.token] = "live"
    /\ mem' = [mem EXCEPT ![t] = IF r.wanted THEN @ \union {r.token} ELSE @]
    /\ KeepSession(t, requests[t] \ {r})
    /\ UNCHANGED <<server, logouts, stored, cache, page, probe, asking, watch,
                   ended, event, signingOut, rename, reloads>>

(* Network failure, another status, or a 401 of Gateway origin: inline.    *)
AnswerInline(t, r) ==
    /\ r \in requests[t]
    /\ KeepSession(t, requests[t] \ {r})
    /\ UNCHANGED <<server, logouts, stored, cache, page, mem, probe, asking,
                   watch, ended, event, signingOut, rename, reloads>>

(* A 401 OAM marks as its own: verdict "expire", for whatever is stored.   *)
AnswerExpire(t, r) ==
    /\ r \in requests[t]
    /\ r.token \in Tokens => server[r.token] = "ended"
    /\ TerminateSession(t, requests[t] \ {r})
    /\ UNCHANGED <<server, logouts, stored, cache, page, mem, probe, asking,
                   watch, ended, event, signingOut, rename, reloads>>

(* endSessionIfOAMConfirms once the probe of k answered `over`.            *)
EndIfConfirmed(t, k, over, rs) ==
    IF over /\ stored = k THEN TerminateSession(t, rs) ELSE KeepSession(t, rs)

(* A 401 nobody signed: verdict "verify".  Without a token there is        *)
(* nothing to ask; a token already probed in this page is not asked again. *)
AnswerVerify(t, r) ==
    /\ r \in requests[t]
    /\ LET left   == requests[t] \ {r}
           cached == probe[t].token = r.token /\ r.token # NoToken
       IN  \/ /\ r.token = NoToken
              /\ EndIfConfirmed(t, NoToken, TRUE, left)
              /\ UNCHANGED <<probe, asking>>
           \/ /\ cached
              /\ probe[t].answer # "pending"
              /\ EndIfConfirmed(t, r.token, probe[t].answer = "ended", left)
              /\ UNCHANGED <<probe, asking>>
           \/ /\ cached
              /\ probe[t].answer = "pending"
              /\ asking' = [asking EXCEPT ![t] = @ \union {r.token}]
              /\ KeepSession(t, left)
              /\ UNCHANGED probe
           \/ /\ ~cached
              /\ r.token # NoToken
              /\ probe' = [probe EXCEPT ![t] = [token |-> r.token,
                                                answer |-> "pending"]]
              /\ asking' = [asking EXCEPT ![t] = @ \union {r.token}]
              /\ KeepSession(t, left)
    /\ UNCHANGED <<server, logouts, stored, cache, page, mem, watch, ended,
                   event, signingOut, rename, reloads>>

(* The probe of k is answered: 401 if OAM ended the session, otherwise -   *)
(* and when it could not be completed - the session counts as alive.       *)
ProbeAnswer(t, k, over) ==
    /\ k \in asking[t]
    /\ over => server[k] = "ended"
    /\ asking' = [asking EXCEPT ![t] = @ \ {k}]
    /\ probe' = IF probe[t].token = k
                THEN [probe EXCEPT ![t].answer =
                                        IF over THEN "ended" ELSE "alive"]
                ELSE probe
    /\ EndIfConfirmed(t, k, over, requests[t])
    /\ UNCHANGED <<server, logouts, stored, cache, page, mem, watch, ended,
                   event, signingOut, rename, reloads>>

(* The persister's throttled write: the whole client, over the last one.   *)
Save(t) ==
    /\ cache' = mem[t]
    /\ UNCHANGED <<server, logouts, stored, page, mem, requests, probe, asking,
                   watch, ended, event, terminating, purging, signingOut,
                   rename, reloads>>

----------------------------------------------------------------------------
(* useSessionWatch. *)

(* endIdle: revocation is dispatched, not awaited, before the teardown.    *)
IdleFires(t) ==
    /\ OwnsSession(t)
    /\ ended' = [ended EXCEPT ![t] = TRUE]
    /\ RequestLogout
    /\ TerminateSession(t, requests[t])
    /\ UNCHANGED <<server, stored, cache, page, mem, probe, asking, watch,
                   event, signingOut, rename, reloads>>

ExpiryFires(t) ==
    /\ OwnsSession(t)
    /\ TerminateSession(t, requests[t])
    /\ UNCHANGED <<server, logouts, stored, cache, page, mem, probe, asking,
                   watch, ended, event, signingOut, rename, reloads>>

(* Mutant of OnStorage: only a changed token is acted on.                  *)
OnStorageChanged(t) ==
    /\ event[t]
    /\ event' = [event EXCEPT ![t] = FALSE]
    /\ page' = [page EXCEPT ![t] = IF stored \in {watch[t], NoToken}
                                    THEN @ ELSE "leaving"]
    /\ UNCHANGED <<server, logouts, stored, cache, mem, requests, probe, asking,
                   watch, ended, terminating, purging, signingOut, rename,
                   reloads>>

(* onStorage reads the token as it runs, not as the event was queued: a    *)
(* changed token reloads, a missing one ends the session here too.         *)
OnStorage(t) ==
    /\ event[t]
    /\ event' = [event EXCEPT ![t] = FALSE]
    /\ \/ /\ stored # NoToken
          /\ page' = [page EXCEPT ![t] = IF stored = watch[t] THEN @
                                                            ELSE "leaving"]
          /\ UNCHANGED <<terminating, purging, requests>>
       \/ /\ stored = NoToken
          /\ TerminateSession(t, requests[t])
          /\ UNCHANGED page
    /\ UNCHANGED <<server, logouts, stored, cache, mem, probe, asking, watch,
                   ended, signingOut, rename, reloads>>

----------------------------------------------------------------------------
(* handleSubmitUser on the operator's own account (UserManagementPage). *)

(* updateUser renamed the account.  OAM may end the old token; the page    *)
(* signs in again if the form carried a password, and asks otherwise.      *)
RenameSelf(t) ==
    /\ "selfRename" \in Scenarios
    /\ page[t] = "app"
    /\ rename[t] = "none"
    /\ stored \in Tokens
    /\ server[stored] = "live"
    /\ \E s \in {"live", "ended"} : server' = [server EXCEPT ![stored] = s]
    /\ \E next \in {"relogin", "prompt"} :
          rename' = [rename EXCEPT ![t] = next]
    /\ UNCHANGED <<logouts, stored, cache, page, mem, requests, probe, asking,
                   watch, ended, event, terminating, purging, signingOut,
                   reloads>>

(* The new token replaces the old one in the running page.                 *)
Relogin(t, k) ==
    /\ rename[t] = "relogin"
    /\ server[k] = "unissued"
    /\ server' = [server EXCEPT ![k] = "live"]
    /\ StoreToken(t, k)
    /\ rename' = [rename EXCEPT ![t] = "none"]
    /\ UNCHANGED <<logouts, cache, page, mem, requests, probe, asking, watch,
                   ended, terminating, purging, signingOut, reloads>>

ReloginFails(t) ==
    /\ rename[t] = "relogin"
    /\ rename' = [rename EXCEPT ![t] = "prompt"]
    /\ UNCHANGED <<server, logouts, stored, cache, page, mem, requests, probe,
                   asking, watch, ended, event, terminating, purging,
                   signingOut, reloads>>

(* The dialog's OK removes the token by hand and moves to the login page.  *)
ForcedRelogin(t) ==
    /\ rename[t] = "prompt"
    /\ rename' = [rename EXCEPT ![t] = "none"]
    /\ StoreToken(t, NoToken)
    /\ page' = [page EXCEPT ![t] = IF @ = "login" THEN "login" ELSE "leaving"]
    /\ UNCHANGED <<server, logouts, cache, mem, requests, probe, asking, watch,
                   ended, terminating, purging, signingOut, reloads>>

----------------------------------------------------------------------------
(* OAM. *)

(* A session ends on the server: time to live, an administrator, a restart.*)
ServerEnds(k) ==
    /\ server[k] = "live"
    /\ server' = [server EXCEPT ![k] = "ended"]
    /\ UNCHANGED <<logouts, stored, cache, page, mem, requests, probe, asking,
                   watch, ended, event, terminating, purging, signingOut,
                   rename, reloads>>

(* A logout request reaches OAM, or is lost. *)
LogoutArrives(k) ==
    /\ k \in logouts
    /\ logouts' = logouts \ {k}
    /\ \E s \in {"ended", server[k]} : server' = [server EXCEPT ![k] = s]
    /\ UNCHANGED <<stored, cache, page, mem, requests, probe, asking, watch,
                   ended, event, terminating, purging, signingOut, rename,
                   reloads>>

----------------------------------------------------------------------------
TabStep(t) ==
    \/ Load(t) \/ Reload(t) \/ RequireAuth(t)
    \/ \E k \in Tokens : Login(t, k)
    \/ SignOut(t) \/ SignOutSettled(t) \/ Scrub(t)
    \/ Send(t) \/ Save(t)
    \/ \E r \in requests[t] : AnswerData(t, r) \/ AnswerInline(t, r)
    \/ \E r \in requests[t] : AnswerExpire(t, r) \/ AnswerVerify(t, r)
    \/ \E k \in asking[t], over \in BOOLEAN : ProbeAnswer(t, k, over)
    \/ IdleFires(t) \/ ExpiryFires(t) \/ OnStorage(t)
    \/ RenameSelf(t) \/ ReloginFails(t) \/ ForcedRelogin(t)
    \/ \E k \in Tokens : Relogin(t, k)

ServerStep(k) == ServerEnds(k) \/ LogoutArrives(k)

Next == (\E t \in Tabs : TabStep(t)) \/ (\E k \in Tokens : ServerStep(k))

Spec == Init /\ [][Next]_vars

(***************************************************************************)
(* What the browser does on its own: a navigation completes, a teardown's  *)
(* purges settle, a queued storage event is dispatched, a pending request  *)
(* settles, an armed expiry timer fires.  Nothing is assumed of operators. *)
(***************************************************************************)
Fairness ==
    \A t \in Tabs :
        /\ WF_vars(Load(t))
        /\ WF_vars(Scrub(t))
        /\ WF_vars(OnStorage(t))
        /\ WF_vars(SignOutSettled(t))
        /\ WF_vars(ExpiryFires(t))

FairSpec == Spec /\ Fairness

----------------------------------------------------------------------------
(* Properties. *)

(* A page whose teardown has scrubbed the stores stays empty until the     *)
(* next page loads: no answer still in flight puts session data back into  *)
(* its query client (terminateSession: "In-flight work first").            *)
EndedPageStaysEmpty ==
    \A t \in Tabs : terminating[t] /\ purging[t] = 0 =>
        /\ mem[t] = {}
        /\ \A r \in requests[t] : ~(r.wanted /\ r.token \in Tokens)

(* What a page shows was read under the session the page was loaded for:   *)
(* no operator sees data restored from, or fetched for, another session    *)
(* (purge, restore and reload taken together).                             *)
NoForeignData ==
    \A t \in Tabs : page[t] = "app" => mem[t] \subseteq {watch[t]}

Settled(t) == page[t] # "leaving" /\ ~event[t] /\ purging[t] = 0

(* Once the session is gone and every tab has settled on the login page,   *)
(* the browser holds no server data: none persisted, none in memory        *)
(* (terminateSession "purges every store that can hold session data").     *)
NoResidue ==
    stored = NoToken /\ (\A t \in Tabs : Settled(t) /\ page[t] = "login") =>
        cache = {} /\ \A t \in Tabs : mem[t] = {}

(* Every settled page that works under a session also times it: the token  *)
(* its requests carry is the token its idle and expiry timers watch.       *)
SessionIsWatched ==
    \A t \in Tabs : Settled(t) /\ page[t] = "app" /\ stored # NoToken
                        => OwnsSession(t)

(***************************************************************************)
(* Why these hold when nothing in Scenarios happens: the inductive         *)
(* invariant SessionProofs establishes.                                    *)
(***************************************************************************)

(* Whatever a tab remembers or still wants belongs to the session it was   *)
(* loaded for.                                                             *)
OwnData ==
    \A t \in Tabs :
        /\ mem[t] \subseteq {watch[t]}
        /\ \A r \in requests[t] : r.wanted /\ r.token \in Tokens
                                    => r.token = watch[t]

HoldsData(t) ==
    mem[t] # {} \/ \E r \in requests[t] : r.wanted /\ r.token \in Tokens

(* A tab holding data, or showing the app, works under the stored session  *)
(* or has an event or a teardown coming that will empty it.                *)
DataIsCurrentOrDoomed ==
    \A t \in Tabs : page[t] = "app" \/ HoldsData(t) =>
        /\ watch[t] # NoToken
        /\ stored = watch[t] \/ stored = NoToken
        /\ stored = NoToken => event[t] \/ purging[t] > 0

(* A page on its way out holds nothing. *)
LeavingIsEmpty == \A t \in Tabs : page[t] = "leaving" => ~HoldsData(t)

(* The persisted cache is the stored session's, or still some tab's.       *)
CacheIsTraced ==
    cache \subseteq {stored} \/ \E t \in Tabs : cache \subseteq mem[t]

(* A finished teardown is never followed by the app in the same page.      *)
EndedPageHasLeft ==
    \A t \in Tabs : terminating[t] /\ purging[t] = 0 => page[t] # "app"

EndedIsTerminating ==
    \A t \in Tabs : ended[t] => terminating[t] \/ page[t] = "leaving"

RenameOnlyIfAllowed ==
    "selfRename" \notin Scenarios => \A t \in Tabs : rename[t] = "none"

(* The conjunction of the above, the invariant behind NoForeignData and    *)
(* NoResidue; SessionIsWatched needs less, and holds in more scenarios.    *)
SessionInv ==
    /\ OwnData
    /\ DataIsCurrentOrDoomed
    /\ LeavingIsEmpty
    /\ CacheIsTraced
    /\ EndedPageHasLeft
    /\ EndedPageStaysEmpty
    /\ EndedIsTerminating
    /\ RenameOnlyIfAllowed

(* A session OAM has ended does not stay installed: even if no request     *)
(* meets a 401, the expiry timer ends it.                                  *)
EndedSessionLeavesBrowser ==
    \A k \in Tokens :
        stored = k /\ server[k] = "ended" ~> stored # k

(* Signing out anywhere signs out everywhere: once the token is gone every *)
(* tab reaches the login page, unless someone signs in again.              *)
EveryTabFollows ==
    stored = NoToken ~> \/ stored # NoToken
                       \/ \A t \in Tabs : page[t] = "login"
=============================================================================
