--------------------------- MODULE SessionProofs ---------------------------
(***************************************************************************)
(* Theorems about Session, for every set of tabs and tokens and every      *)
(* bound: type correctness, and that a page whose session was torn down    *)
(* stays empty, in every scenario; when Scenarios is empty, that no        *)
(* operator is shown another session's data and that no data is left       *)
(* behind; and, unless operators rename themselves, that a session in use  *)
(* is a session its tab times.                                             *)
(***************************************************************************)
EXTENDS Session, TLAPS

LEMMA CancelledType ==
    ASSUME NEW rs \in SUBSET Requests
    PROVE  Cancelled(rs) \in SUBSET Requests
BY DEF Cancelled, Requests

(* Cancelled requests are wanted by nobody. *)
LEMMA CancelledUnwanted ==
    ASSUME NEW rs \in SUBSET Requests, NEW r \in Cancelled(rs)
    PROVE  r.wanted = FALSE
BY DEF Cancelled, Requests

(* Ending the session keeps the types of the three variables it touches.   *)
LEMMA TerminateType ==
    ASSUME TypeOK, NEW t \in Tabs, NEW rs \in SUBSET Requests,
           TerminateSession(t, rs) \/ KeepSession(t, rs)
    PROVE  /\ terminating' \in [Tabs -> BOOLEAN]
           /\ purging' \in [Tabs -> Nat]
           /\ requests' \in [Tabs -> SUBSET Requests]
<1>1. Cancelled(rs) \in SUBSET Requests
  BY CancelledType
<1>2. CASE TerminateSession(t, rs)
  BY <1>1, <1>2 DEF TerminateSession, TypeOK
<1>3. CASE KeepSession(t, rs)
  BY <1>3 DEF KeepSession, TypeOK
<1> QED BY <1>2, <1>3

LEMMA InitType == Init => TypeOK
BY BoundsAssumption
   DEF Init, TypeOK, TokenOrNone, NoProbe, Requests

LEMMA StepType == TypeOK /\ [Next]_vars => TypeOK'
<1> SUFFICES ASSUME TypeOK, [Next]_vars PROVE TypeOK'
  OBVIOUS
<1> USE NoTokenAssumption, BoundsAssumption
<1>1. ASSUME NEW t \in Tabs, NewPage(t), reloads' \in 0..MaxReloads
      PROVE  TypeOK'
  BY <1>1 DEF NewPage, TypeOK, TokenOrNone, NoProbe
<1>2. ASSUME NEW t \in Tabs, Load(t) PROVE TypeOK'
  BY <1>1, <1>2 DEF Load, TypeOK
<1>3. ASSUME NEW t \in Tabs, Reload(t) PROVE TypeOK'
  <2>1. reloads' \in 0..MaxReloads
    BY <1>3 DEF Reload, TypeOK
  <2> QED BY <1>1, <1>3, <2>1 DEF Reload
<1>4. ASSUME NEW t \in Tabs, RequireAuth(t) PROVE TypeOK'
  BY <1>4 DEF RequireAuth, TypeOK
<1>5. ASSUME NEW t \in Tabs, NEW k \in Tokens, Login(t, k) PROVE TypeOK'
  BY <1>5 DEF Login, MoveForced, StoreToken, TypeOK, TokenOrNone
<1>6. ASSUME NEW t \in Tabs, SignOut(t) PROVE TypeOK'
  BY <1>6 DEF SignOut, RequestLogout, TypeOK, TokenOrNone
<1>7. ASSUME NEW t \in Tabs, SignOutSettled(t) PROVE TypeOK'
  <2>1. requests[t] \in SUBSET Requests
    BY DEF TypeOK
  <2>2. TerminateSession(t, requests[t])
    BY <1>7 DEF SignOutSettled
  <2> QED BY <1>7, <2>1, <2>2, TerminateType DEF SignOutSettled, TypeOK
<1>8. ASSUME NEW t \in Tabs, Scrub(t) PROVE TypeOK'
  <2>1. Cancelled(requests[t]) \in SUBSET Requests
    BY CancelledType DEF TypeOK
  <2>2. purging[t] - 1 \in Nat
    BY <1>8 DEF Scrub, ClearClient, PurgeCache, TypeOK
  <2> QED
    BY <1>8, <2>1, <2>2
       DEF Scrub, ClearClient, PurgeCache, StoreToken, TypeOK, TokenOrNone
<1>9. ASSUME NEW t \in Tabs, Send(t) PROVE TypeOK'
  <2>1. [token |-> stored, wanted |-> TRUE] \in Requests
    BY DEF TypeOK, Requests
  <2>2. requests' \in [Tabs -> SUBSET Requests]
    BY <1>9, <2>1 DEF Send, TypeOK
  <2> QED BY <1>9, <2>2 DEF Send, TypeOK
<1>10. ASSUME NEW t \in Tabs, Save(t) PROVE TypeOK'
  BY <1>10 DEF Save, TypeOK
<1>11. ASSUME NEW t \in Tabs, NEW r \in requests[t],
              AnswerData(t, r) \/ AnswerInline(t, r)
       PROVE  TypeOK'
  <2>1. requests[t] \ {r} \in SUBSET Requests
    BY DEF TypeOK
  <2>2. KeepSession(t, requests[t] \ {r})
    BY <1>11 DEF AnswerData, AnswerInline
  <2>3. mem' \in [Tabs -> SUBSET Tokens]
    BY <1>11 DEF AnswerData, AnswerInline, TypeOK
  <2>4. /\ terminating' \in [Tabs -> BOOLEAN]
        /\ purging' \in [Tabs -> Nat]
        /\ requests' \in [Tabs -> SUBSET Requests]
    BY <2>1, <2>2, TerminateType
  <2> QED BY <1>11, <2>3, <2>4 DEF AnswerData, AnswerInline, TypeOK
<1>12. ASSUME NEW t \in Tabs, NEW r \in requests[t], AnswerExpire(t, r)
       PROVE  TypeOK'
  <2>1. requests[t] \ {r} \in SUBSET Requests
    BY DEF TypeOK
  <2>2. TerminateSession(t, requests[t] \ {r})
    BY <1>12 DEF AnswerExpire
  <2> QED BY <1>12, <2>1, <2>2, TerminateType DEF AnswerExpire, TypeOK
<1>13. ASSUME NEW t \in Tabs, NEW r \in requests[t], AnswerVerify(t, r)
       PROVE  TypeOK'
  <2> DEFINE left == requests[t] \ {r}
  <2>1. left \in SUBSET Requests /\ r \in Requests
    BY DEF TypeOK
  <2>2. TerminateSession(t, left) \/ KeepSession(t, left)
    BY <1>13 DEF AnswerVerify, EndIfConfirmed
  <2>3. /\ terminating' \in [Tabs -> BOOLEAN]
        /\ purging' \in [Tabs -> Nat]
        /\ requests' \in [Tabs -> SUBSET Requests]
    BY <2>1, <2>2, TerminateType
  <2>4. /\ probe' \in [Tabs -> [token : TokenOrNone,
                               answer : {"pending", "alive", "ended"}]]
        /\ asking' \in [Tabs -> SUBSET Tokens]
    <3>1. r.token \in TokenOrNone
      BY <2>1 DEF Requests
    <3>2. CASE UNCHANGED <<probe, asking>>
      BY <3>2 DEF TypeOK
    <3>3. CASE /\ r.token # NoToken
               /\ asking' = [asking EXCEPT ![t] = @ \union {r.token}]
               /\ \/ UNCHANGED probe
                  \/ probe' = [probe EXCEPT ![t] = [token |-> r.token,
                                                    answer |-> "pending"]]
      BY <3>1, <3>3 DEF TypeOK, TokenOrNone
    <3>4. \/ UNCHANGED <<probe, asking>>
          \/ /\ r.token # NoToken
             /\ asking' = [asking EXCEPT ![t] = @ \union {r.token}]
             /\ \/ UNCHANGED probe
                \/ probe' = [probe EXCEPT ![t] = [token |-> r.token,
                                                  answer |-> "pending"]]
      BY <1>13, ZenonT(60) DEF AnswerVerify
    <3> QED BY <3>2, <3>3, <3>4
  <2> QED BY <1>13, <2>3, <2>4 DEF AnswerVerify, TypeOK
<1>14. ASSUME NEW t \in Tabs, NEW k \in asking[t], NEW over \in BOOLEAN,
              ProbeAnswer(t, k, over)
       PROVE  TypeOK'
  <2>1. requests[t] \in SUBSET Requests
    BY DEF TypeOK
  <2>2. TerminateSession(t, requests[t]) \/ KeepSession(t, requests[t])
    BY <1>14 DEF ProbeAnswer, EndIfConfirmed
  <2>3. /\ terminating' \in [Tabs -> BOOLEAN]
        /\ purging' \in [Tabs -> Nat]
        /\ requests' \in [Tabs -> SUBSET Requests]
    BY <2>1, <2>2, TerminateType
  <2>4. /\ probe' \in [Tabs -> [token : TokenOrNone,
                               answer : {"pending", "alive", "ended"}]]
        /\ asking' \in [Tabs -> SUBSET Tokens]
    BY <1>14 DEF ProbeAnswer, TypeOK
  <2> QED BY <1>14, <2>3, <2>4 DEF ProbeAnswer, TypeOK
<1>15. ASSUME NEW t \in Tabs, IdleFires(t) \/ ExpiryFires(t) PROVE TypeOK'
  <2>1. requests[t] \in SUBSET Requests
    BY DEF TypeOK
  <2>2. TerminateSession(t, requests[t])
    BY <1>15 DEF IdleFires, ExpiryFires
  <2>3. stored \in Tokens
    BY <1>15 DEF IdleFires, ExpiryFires, OwnsSession, TypeOK, TokenOrNone
  <2> QED
    BY <1>15, <2>1, <2>2, <2>3, TerminateType
       DEF IdleFires, RequestLogout, ExpiryFires, TypeOK
<1>16. ASSUME NEW t \in Tabs, OnStorage(t) PROVE TypeOK'
  <2>1. requests[t] \in SUBSET Requests
    BY DEF TypeOK
  <2>2. CASE TerminateSession(t, requests[t]) /\ UNCHANGED page
    BY <1>16, <2>1, <2>2, TerminateType DEF OnStorage, TypeOK
  <2>3. CASE UNCHANGED <<terminating, purging, requests>>
    BY <1>16, <2>3 DEF OnStorage, TypeOK
  <2> QED BY <1>16, <2>2, <2>3 DEF OnStorage
<1>17. ASSUME NEW t \in Tabs, RenameSelf(t) PROVE TypeOK'
  BY <1>17 DEF RenameSelf, TypeOK
<1>18. ASSUME NEW t \in Tabs, NEW k \in Tokens, Relogin(t, k) PROVE TypeOK'
  BY <1>18 DEF Relogin, StoreToken, TypeOK, TokenOrNone
<1>19. ASSUME NEW t \in Tabs, ReloginFails(t) \/ ForcedRelogin(t) PROVE TypeOK'
  <2>1. CASE ReloginFails(t)
    BY <1>19, <2>1 DEF ReloginFails, TypeOK
  <2>2. CASE ForcedRelogin(t)
    <3>1. page' \in [Tabs -> {"login", "app", "leaving"}]
      BY <2>2 DEF ForcedRelogin, TypeOK
    <3>2. event' \in [Tabs -> BOOLEAN] /\ stored' \in TokenOrNone
      BY <2>2 DEF ForcedRelogin, StoreToken, TypeOK, TokenOrNone
    <3>3. rename' \in [Tabs -> {"none", "relogin", "prompt"}]
      BY <2>2 DEF ForcedRelogin, TypeOK
    <3> QED BY <2>2, <3>1, <3>2, <3>3 DEF ForcedRelogin, TypeOK
  <2> QED BY <1>19, <2>1, <2>2
<1>20. ASSUME NEW k \in Tokens, ServerStep(k) PROVE TypeOK'
  BY <1>20 DEF ServerStep, ServerEnds, LogoutArrives, TypeOK
<1>21. CASE UNCHANGED vars
  BY <1>21 DEF vars, TypeOK
<1> QED
  BY <1>2, <1>3, <1>4, <1>5, <1>6, <1>7, <1>8, <1>9, <1>10, <1>11, <1>12,
     <1>13, <1>14, <1>15, <1>16, <1>17, <1>18, <1>19, <1>20, <1>21
     DEF Next, TabStep

(* Every reachable state is well typed. *)
THEOREM TypeCorrect == Spec => []TypeOK
BY InitType, StepType, PTL DEF Spec

----------------------------------------------------------------------------
(***************************************************************************)
(* A torn-down page stays empty, in every scenario.  Strengthened with     *)
(* EndedPageHasLeft: only the app sends requests, and it is never shown    *)
(* again by a page that has been torn down.                                *)
(***************************************************************************)
EndedInv == EndedPageHasLeft /\ EndedPageStaysEmpty

(* What ending or keeping the session does to every tab, read pointwise.   *)
LEMMA TerminatePointwise ==
    ASSUME TypeOK, NEW t \in Tabs, NEW rs \in SUBSET requests[t],
           TerminateSession(t, rs) \/ KeepSession(t, rs), NEW u \in Tabs
    PROVE  /\ terminating[u] => terminating'[u]
           /\ purging[u] > 0 => purging'[u] > 0
           /\ terminating'[u] /\ purging'[u] = 0
                  => terminating[u] /\ purging[u] = 0
           /\ \A r \in requests'[u] : r.wanted => r \in requests[u]
<1>1. rs \in SUBSET Requests
  BY DEF TypeOK
<1>2. CASE TerminateSession(t, rs)
  <2>1. /\ terminating[u] => terminating'[u]
        /\ purging[u] > 0 => purging'[u] > 0
        /\ terminating'[u] /\ purging'[u] = 0
                  => terminating[u] /\ purging[u] = 0
    BY <1>2 DEF TerminateSession, TypeOK
  <2>2. ASSUME NEW r \in requests'[u], r.wanted PROVE r \in requests[u]
    <3>1. CASE u = t /\ ~terminating[t]
      BY <1>1, <1>2, <2>2, <3>1, CancelledUnwanted DEF TerminateSession, TypeOK
    <3>2. CASE ~(u = t /\ ~terminating[t])
      BY <1>2, <2>2, <3>2 DEF TerminateSession, TypeOK
    <3> QED BY <3>1, <3>2
  <2> QED BY <2>1, <2>2
<1>3. CASE KeepSession(t, rs)
  BY <1>3 DEF KeepSession, TypeOK
<1> QED BY <1>2, <1>3

LEMMA EndedFrame ==
    ASSUME TypeOK, EndedInv, NEW t \in Tabs, NEW rs \in SUBSET requests[t],
           TerminateSession(t, rs) \/ KeepSession(t, rs),
           mem' = mem, page' = page
    PROVE  EndedInv'
<1>1. ASSUME NEW u \in Tabs, terminating'[u], purging'[u] = 0
      PROVE  /\ terminating[u] /\ purging[u] = 0
             /\ \A r \in requests'[u] : r.wanted => r \in requests[u]
  BY <1>1, TerminatePointwise
<1> QED BY <1>1 DEF EndedInv, EndedPageHasLeft, EndedPageStaysEmpty

LEMMA StepEnded == TypeOK /\ EndedInv /\ [Next]_vars => EndedInv'
<1> SUFFICES ASSUME TypeOK, EndedInv, [Next]_vars PROVE EndedInv'
  OBVIOUS
<1> USE DEF EndedInv, EndedPageHasLeft, EndedPageStaysEmpty
<1>1. ASSUME NEW t \in Tabs, NewPage(t) PROVE EndedInv'
  BY <1>1 DEF NewPage, TypeOK
<1>2. ASSUME NEW t \in Tabs, Load(t) \/ Reload(t) PROVE EndedInv'
  BY <1>1, <1>2 DEF Load, Reload
<1>3. ASSUME NEW t \in Tabs, RequireAuth(t) PROVE EndedInv'
  BY <1>3 DEF RequireAuth, TypeOK
<1>4. ASSUME NEW t \in Tabs, NEW k \in Tokens, Login(t, k) PROVE EndedInv'
  BY <1>4 DEF Login, MoveForced, TypeOK
<1>5. ASSUME NEW t \in Tabs,
             SignOutSettled(t) \/ IdleFires(t) \/ ExpiryFires(t)
      PROVE  EndedInv'
  BY <1>5, EndedFrame DEF SignOutSettled, IdleFires, ExpiryFires
<1>6. ASSUME NEW t \in Tabs, Scrub(t) PROVE EndedInv'
  <2>1. /\ mem'[t] = {}
        /\ page'[t] # "app"
        /\ requests'[t] = Cancelled(requests[t])
    <3>1. page'[t] = IF page[t] = "login" THEN "login" ELSE "leaving"
      BY <1>6 DEF Scrub, ClearClient, PurgeCache, TypeOK
    <3> QED BY <1>6, <3>1 DEF Scrub, ClearClient, PurgeCache, TypeOK
  <2>2. \A r \in requests'[t] : ~r.wanted
    <3>1. requests[t] \in SUBSET Requests
      BY DEF TypeOK
    <3>2. \A r \in Cancelled(requests[t]) : r.wanted = FALSE
      BY <3>1, CancelledUnwanted
    <3> QED BY <2>1, <3>2
  <2>3. ASSUME NEW u \in Tabs, u # t
        PROVE  /\ terminating'[u] = terminating[u]
               /\ purging'[u] = purging[u]
               /\ page'[u] = page[u]
               /\ mem'[u] = mem[u]
               /\ requests'[u] = requests[u]
    <3> u \in Tabs /\ u # t
      BY <2>3
    <3> QED BY <1>6 DEF Scrub, ClearClient, PurgeCache, TypeOK
  <2>4. ASSUME NEW u \in Tabs, terminating'[u], purging'[u] = 0
        PROVE  /\ page'[u] # "app" /\ mem'[u] = {}
               /\ \A r \in requests'[u] : ~(r.wanted /\ r.token \in Tokens)
    BY <2>1, <2>2, <2>3, <2>4
  <2> QED BY <2>4
<1>7. ASSUME NEW t \in Tabs, Send(t) PROVE EndedInv'
  BY <1>7 DEF Send, TypeOK
<1>8. ASSUME NEW t \in Tabs, NEW r \in requests[t], AnswerData(t, r)
      PROVE  EndedInv'
  BY <1>8 DEF AnswerData, KeepSession, TypeOK
<1>9. ASSUME NEW t \in Tabs, NEW r \in requests[t],
             AnswerInline(t, r) \/ AnswerExpire(t, r)
      PROVE  EndedInv'
  <2>1. requests[t] \ {r} \in SUBSET requests[t]
    OBVIOUS
  <2> QED BY <1>9, <2>1, EndedFrame DEF AnswerInline, AnswerExpire
<1>10. ASSUME NEW t \in Tabs, NEW r \in requests[t], AnswerVerify(t, r)
       PROVE  EndedInv'
  <2> DEFINE left == requests[t] \ {r}
  <2>1. TerminateSession(t, left) \/ KeepSession(t, left)
    BY <1>10 DEF AnswerVerify, EndIfConfirmed
  <2>2. left \in SUBSET requests[t] /\ mem' = mem /\ page' = page
    BY <1>10 DEF AnswerVerify
  <2> QED BY <2>1, <2>2, EndedFrame
<1>11. ASSUME NEW t \in Tabs, NEW k \in asking[t], NEW over \in BOOLEAN,
              ProbeAnswer(t, k, over)
       PROVE  EndedInv'
  <2>1. TerminateSession(t, requests[t]) \/ KeepSession(t, requests[t])
    BY <1>11 DEF ProbeAnswer, EndIfConfirmed
  <2>2. mem' = mem /\ page' = page
    BY <1>11 DEF ProbeAnswer
  <2> QED BY <2>1, <2>2, EndedFrame
<1>12. ASSUME NEW t \in Tabs, OnStorage(t) PROVE EndedInv'
  <2>1. CASE TerminateSession(t, requests[t]) /\ UNCHANGED page
    BY <1>12, <2>1, EndedFrame DEF OnStorage
  <2>2. CASE /\ page' = [page EXCEPT ![t] = IF stored = watch[t] THEN @
                                                             ELSE "leaving"]
             /\ UNCHANGED <<terminating, purging, requests>>
    BY <1>12, <2>2 DEF OnStorage, TypeOK
  <2> QED BY <1>12, <2>1, <2>2 DEF OnStorage
<1>13. ASSUME NEW t \in Tabs, ForcedRelogin(t) PROVE EndedInv'
  BY <1>13 DEF ForcedRelogin, TypeOK
<1>14. ASSUME UNCHANGED <<page, mem, requests, terminating, purging>>
       PROVE  EndedInv'
  BY <1>14
<1>15. ASSUME NEW t \in Tabs,
              \/ SignOut(t) \/ Save(t) \/ RenameSelf(t) \/ ReloginFails(t)
              \/ \E k \in Tokens : Relogin(t, k)
       PROVE  EndedInv'
  BY <1>14, <1>15 DEF SignOut, Save, RenameSelf, Relogin, ReloginFails
<1>16. ASSUME NEW k \in Tokens, ServerStep(k) PROVE EndedInv'
  BY <1>14, <1>16 DEF ServerStep, ServerEnds, LogoutArrives
<1>17. CASE UNCHANGED vars
  BY <1>14, <1>17 DEF vars
<1> QED
  BY <1>2, <1>3, <1>4, <1>5, <1>6, <1>7, <1>8, <1>9, <1>10, <1>11, <1>12,
     <1>13, <1>15, <1>16, <1>17 DEF Next, TabStep

(* A page whose teardown has finished holds no session data and takes in   *)
(* none, whatever answers are still on their way (terminateSession).       *)
THEOREM TornDownPagesStayEmpty == Spec => []EndedPageStaysEmpty
<1>1. Init => EndedInv
  BY DEF Init, EndedInv, EndedPageHasLeft, EndedPageStaysEmpty
<1>2. EndedInv => EndedPageStaysEmpty
  BY DEF EndedInv
<1> QED BY <1>1, <1>2, TypeCorrect, StepEnded, PTL DEF Spec

----------------------------------------------------------------------------
(***************************************************************************)
(* The plain case.  DataIsCurrentOrDoomed is the heart: a tab that still   *)
(* holds data of a session that is gone has an event or a teardown pending,*)
(* so, tabs being prompt, it is emptied before anyone signs in again.      *)
(***************************************************************************)
Plain == Scenarios = {}

(* Nobody renames themselves where that scenario is left out.              *)
LEMMA StepRename ==
    TypeOK /\ RenameOnlyIfAllowed /\ [Next]_vars => RenameOnlyIfAllowed'
<1> SUFFICES ASSUME TypeOK, RenameOnlyIfAllowed, [Next]_vars,
                    "selfRename" \notin Scenarios,
                    NEW u \in Tabs
             PROVE  rename'[u] = "none"
  BY DEF RenameOnlyIfAllowed
<1>1. rename[u] = "none"
  BY DEF RenameOnlyIfAllowed
<1>2. ASSUME NEW t \in Tabs, TabStep(t) PROVE rename'[u] = "none"
  <2>1. CASE Load(t) \/ Reload(t)
    BY <1>1, <2>1 DEF Load, Reload, NewPage, TypeOK
  <2>2. CASE RenameSelf(t) \/ ReloginFails(t) \/ ForcedRelogin(t)
             \/ \E k \in Tokens : Relogin(t, k)
    BY <2>2
       DEF RenameSelf, ReloginFails, ForcedRelogin, Relogin,
           RenameOnlyIfAllowed
  <2> QED
    BY <1>1, <1>2, <2>1, <2>2
       DEF TabStep, RequireAuth, Login, SignOut, SignOutSettled, Scrub, Send,
           Save, AnswerData, AnswerInline, AnswerExpire, AnswerVerify,
           ProbeAnswer, IdleFires, ExpiryFires, OnStorage
<1>3. ASSUME NEW k \in Tokens, ServerStep(k) PROVE rename'[u] = "none"
  BY <1>1, <1>3 DEF ServerStep, ServerEnds, LogoutArrives
<1>4. CASE UNCHANGED vars
  BY <1>1, <1>4 DEF vars
<1> QED BY <1>2, <1>3, <1>4 DEF Next

LEMMA InitInv == Init => SessionInv
BY DEF Init, SessionInv, OwnData, DataIsCurrentOrDoomed, HoldsData,
       LeavingIsEmpty, CacheIsTraced, EndedPageHasLeft, EndedPageStaysEmpty,
       EndedIsTerminating, RenameOnlyIfAllowed

(* A handler that only ends or keeps the session preserves the invariant.  *)
LEMMA InvFrame ==
    ASSUME TypeOK, SessionInv, NEW t \in Tabs, NEW rs \in SUBSET requests[t],
           TerminateSession(t, rs) \/ KeepSession(t, rs),
           \A u \in Tabs : ended'[u] => \/ ended[u]
                                       \/ (u = t /\ TerminateSession(t, rs)),
           UNCHANGED <<stored, cache, page, mem, watch, event>>,
           RenameOnlyIfAllowed'
    PROVE  SessionInv'
<1>1. ASSUME NEW u \in Tabs
      PROVE  /\ terminating[u] => terminating'[u]
             /\ purging[u] > 0 => purging'[u] > 0
             /\ \A r \in requests'[u] : r.wanted => r \in requests[u]
  BY <1>1, TerminatePointwise
<1>2. ASSUME NEW u \in Tabs, HoldsData(u)' PROVE HoldsData(u)
  BY <1>1, <1>2 DEF HoldsData
<1>3. OwnData'
  BY <1>1 DEF SessionInv, OwnData
<1>4. DataIsCurrentOrDoomed'
  BY <1>1, <1>2 DEF SessionInv, DataIsCurrentOrDoomed
<1>5. LeavingIsEmpty'
  BY <1>2 DEF SessionInv, LeavingIsEmpty
<1>6. CacheIsTraced'
  BY DEF SessionInv, CacheIsTraced
<1>7. EndedPageHasLeft' /\ EndedPageStaysEmpty'
  BY EndedFrame DEF SessionInv, EndedInv
<1>8. EndedIsTerminating'
  <2>1. TerminateSession(t, rs) => terminating'[t]
    BY DEF TerminateSession, TypeOK
  <2> QED BY <1>1, <2>1 DEF SessionInv, EndedIsTerminating
<1> QED BY <1>3, <1>4, <1>5, <1>6, <1>7, <1>8 DEF SessionInv

(* Where every other tab is quiet, the cache a leaving or quiet page will  *)
(* restore is the stored session's.                                        *)
LEMMA CacheIsCurrent ==
    ASSUME TypeOK, SessionInv, NEW t \in Tabs,
           \A u \in Tabs \ {t} : ~event[u] /\ purging[u] = 0,
           page[t] = "leaving" \/ (~event[t] /\ purging[t] = 0)
    PROVE  cache \subseteq {stored}
<1> SUFFICES ASSUME NEW u \in Tabs, cache \subseteq mem[u], cache # {}
             PROVE  cache \subseteq {stored}
  BY DEF SessionInv, CacheIsTraced
<1>1. HoldsData(u)
  BY DEF HoldsData
<1>2. page[u] # "leaving"
  BY <1>1 DEF SessionInv, LeavingIsEmpty
<1>3. ~event[u] /\ purging[u] = 0
  BY <1>2
<1>4. stored = watch[u]
  BY <1>1, <1>3 DEF SessionInv, DataIsCurrentOrDoomed, TypeOK
<1> QED BY <1>4 DEF SessionInv, OwnData

LEMMA NewPageInv ==
    ASSUME TypeOK, SessionInv, NEW t \in Tabs, NewPage(t),
           cache \subseteq {stored}, RenameOnlyIfAllowed'
    PROVE  SessionInv'
<1>1. /\ page'[t] = IF stored = NoToken THEN "login" ELSE "app"
      /\ watch'[t] = stored /\ mem'[t] = cache /\ requests'[t] = {}
      /\ ended'[t] = FALSE /\ terminating'[t] = FALSE /\ purging'[t] = 0
  BY DEF NewPage, TypeOK
<1>2. stored' = stored /\ cache' = cache
  BY DEF NewPage
<1>3. ASSUME NEW u \in Tabs, u # t
      PROVE  /\ page'[u] = page[u] /\ watch'[u] = watch[u]
             /\ mem'[u] = mem[u] /\ requests'[u] = requests[u]
             /\ ended'[u] = ended[u] /\ terminating'[u] = terminating[u]
             /\ purging'[u] = purging[u] /\ event'[u] = event[u]
  <2> u \in Tabs /\ u # t
    BY <1>3
  <2> QED BY DEF NewPage, TypeOK
<1>4. cache = {} \/ stored # NoToken
  BY NoTokenAssumption DEF TypeOK
<1>5. OwnData'
  BY <1>1, <1>2, <1>3 DEF SessionInv, OwnData
<1>6. DataIsCurrentOrDoomed'
  BY <1>1, <1>2, <1>3, <1>4 DEF SessionInv, DataIsCurrentOrDoomed, HoldsData
<1>7. LeavingIsEmpty'
  BY <1>1, <1>3 DEF SessionInv, LeavingIsEmpty, HoldsData
<1>8. CacheIsTraced'
  BY <1>2 DEF CacheIsTraced
<1>9. EndedPageHasLeft' /\ EndedPageStaysEmpty'
  BY <1>1, <1>3 DEF SessionInv, EndedPageHasLeft, EndedPageStaysEmpty
<1>10. EndedIsTerminating'
  BY <1>1, <1>3 DEF SessionInv, EndedIsTerminating
<1> QED BY <1>5, <1>6, <1>7, <1>8, <1>9, <1>10 DEF SessionInv

LEMMA StepInv == Plain /\ TypeOK /\ SessionInv /\ [Next]_vars => SessionInv'
<1> SUFFICES ASSUME Plain, TypeOK, SessionInv, [Next]_vars PROVE SessionInv'
  OBVIOUS
<1>1. EndedPageHasLeft' /\ EndedPageStaysEmpty'
  BY StepEnded DEF SessionInv, EndedInv
<1>0. RenameOnlyIfAllowed'
  BY StepRename DEF SessionInv
<1>2. ASSUME NEW t \in Tabs, Load(t) \/ Reload(t) PROVE SessionInv'
  <2>1. \A u \in Tabs \ {t} : ~event[u] /\ purging[u] = 0
    BY <1>2 DEF Load, Reload, Quiet, Plain
  <2>2. page[t] = "leaving" \/ (~event[t] /\ purging[t] = 0)
    BY <1>2 DEF Load, Reload, Quiet, Plain
  <2>3. cache \subseteq {stored}
    BY <2>1, <2>2, CacheIsCurrent
  <2> QED BY <1>2, <2>3, <1>0, NewPageInv DEF Load, Reload
<1>3. ASSUME NEW t \in Tabs, RequireAuth(t) PROVE SessionInv'
  <2>1. \A u \in Tabs : \/ page'[u] = page[u]
                        \/ u = t /\ page'[u] = "login"
    BY <1>3 DEF RequireAuth, TypeOK
  <2>2. page[t] = "app" /\ UNCHANGED <<stored, cache, mem, watch, requests,
                                       event, purging, terminating, ended>>
    BY <1>3 DEF RequireAuth
  <2>3. OwnData' /\ CacheIsTraced'
    BY <2>2 DEF SessionInv, OwnData, CacheIsTraced
  <2>4. DataIsCurrentOrDoomed' /\ LeavingIsEmpty'
    BY <2>1, <2>2
       DEF SessionInv, DataIsCurrentOrDoomed, LeavingIsEmpty, HoldsData
  <2>5. EndedIsTerminating'
    BY <2>1, <2>2 DEF SessionInv, EndedIsTerminating
  <2> QED BY <1>0, <1>1, <2>3, <2>4, <2>5 DEF SessionInv
<1>4. ASSUME NEW t \in Tabs, NEW k \in Tokens, Login(t, k) PROVE SessionInv'
  <2>1. /\ stored = NoToken
        /\ \A u \in Tabs : ~event[u] /\ purging[u] = 0
    BY <1>4 DEF Login, Quiet, Plain
  <2>2. \A u \in Tabs : page[u] # "app" /\ ~HoldsData(u)
    BY <2>1 DEF SessionInv, DataIsCurrentOrDoomed, TypeOK
  <2>3. UNCHANGED <<cache, mem, watch, requests, purging, ended>>
    BY <1>4 DEF Login
  <2>4. \A u \in Tabs : \/ u = t /\ page'[u] = "leaving"
                        \/ /\ page'[u] = page[u]
                           /\ terminating'[u] = terminating[u]
    BY <1>4 DEF Login, MoveForced, TypeOK
  <2>5. \A u \in Tabs : page'[u] # "app" /\ ~(HoldsData(u)')
    BY <2>2, <2>3, <2>4 DEF HoldsData
  <2>6. OwnData'
    BY <2>3 DEF SessionInv, OwnData
  <2>7. DataIsCurrentOrDoomed' /\ LeavingIsEmpty'
    BY <2>5 DEF DataIsCurrentOrDoomed, LeavingIsEmpty
  <2>8. CacheIsTraced'
    <3>1. cache \subseteq {stored}
      BY <2>1, CacheIsCurrent, <1>4
    <3>2. cache = {}
      BY <2>1, <3>1, NoTokenAssumption DEF TypeOK
    <3> QED BY <2>3, <3>2 DEF CacheIsTraced
  <2>9. EndedIsTerminating'
    BY <2>3, <2>4 DEF SessionInv, EndedIsTerminating
  <2> QED BY <1>0, <1>1, <2>6, <2>7, <2>8, <2>9 DEF SessionInv
<1>5. ASSUME NEW t \in Tabs,
             SignOutSettled(t) \/ IdleFires(t) \/ ExpiryFires(t)
      PROVE  SessionInv'
  <2>1. TerminateSession(t, requests[t])
    BY <1>5 DEF SignOutSettled, IdleFires, ExpiryFires
  <2>2. \A u \in Tabs : ended'[u] => ended[u] \/ u = t
    BY <1>5 DEF SignOutSettled, IdleFires, ExpiryFires, TypeOK
  <2>3. UNCHANGED <<stored, cache, page, mem, watch, event>>
    BY <1>5 DEF SignOutSettled, IdleFires, ExpiryFires
  <2> QED BY <2>1, <2>2, <2>3, <1>0, InvFrame
<1>6. ASSUME NEW t \in Tabs, Scrub(t) PROVE SessionInv'
  <2>1. /\ mem'[t] = {}
        /\ page'[t] \in {"login", "leaving"}
        /\ requests'[t] = Cancelled(requests[t])
    <3>1. page'[t] = IF page[t] = "login" THEN "login" ELSE "leaving"
      BY <1>6 DEF Scrub, ClearClient, PurgeCache, TypeOK
    <3> QED BY <1>6, <3>1 DEF Scrub, ClearClient, PurgeCache, TypeOK
  <2>2. \A r \in requests'[t] : r.wanted = FALSE
    <3>1. requests[t] \in SUBSET Requests
      BY DEF TypeOK
    <3> QED BY <2>1, <3>1, CancelledUnwanted
  <2>3. ASSUME NEW u \in Tabs, u # t
        PROVE  /\ purging'[u] = purging[u] /\ page'[u] = page[u]
               /\ mem'[u] = mem[u] /\ requests'[u] = requests[u]
               /\ event'[u] = \/ event[u]
                              \/ stored # NoToken /\ watch[u] # NoToken
    <3> u \in Tabs /\ u # t
      BY <2>3
    <3> QED BY <1>6 DEF Scrub, ClearClient, PurgeCache, StoreToken, TypeOK
  <2>4. /\ stored' = NoToken /\ cache' = {}
        /\ UNCHANGED <<watch, ended, terminating>>
    BY <1>6 DEF Scrub, ClearClient, PurgeCache, StoreToken
  <2>5. ~(HoldsData(t)')
    BY <2>1, <2>2 DEF HoldsData
  <2>6. ASSUME NEW u \in Tabs, page'[u] = "app" \/ HoldsData(u)'
        PROVE  u # t /\ (page[u] = "app" \/ HoldsData(u))
    BY <2>1, <2>3, <2>5, <2>6 DEF HoldsData
  <2>7. OwnData'
    BY <2>1, <2>2, <2>3, <2>4 DEF SessionInv, OwnData
  <2>8. DataIsCurrentOrDoomed'
    <3> SUFFICES ASSUME NEW u \in Tabs, page'[u] = "app" \/ HoldsData(u)'
                 PROVE  watch[u] # NoToken /\ (event'[u] \/ purging'[u] > 0)
      BY <2>4 DEF DataIsCurrentOrDoomed
    <3>1. u # t /\ (page[u] = "app" \/ HoldsData(u))
      BY <2>6
    <3>2. /\ watch[u] # NoToken
          /\ stored = NoToken => event[u] \/ purging[u] > 0
      BY <3>1 DEF SessionInv, DataIsCurrentOrDoomed
    <3> QED BY <2>3, <3>1, <3>2
  <2>9. LeavingIsEmpty'
    BY <2>3, <2>5 DEF SessionInv, LeavingIsEmpty, HoldsData
  <2>10. CacheIsTraced'
    BY <2>4 DEF CacheIsTraced
  <2>11. EndedIsTerminating'
    <3> SUFFICES ASSUME NEW u \in Tabs, ended[u]
                 PROVE  terminating[u] \/ page'[u] = "leaving"
      BY <2>4 DEF EndedIsTerminating
    <3>1. terminating[u] \/ page[u] = "leaving"
      BY DEF SessionInv, EndedIsTerminating
    <3>2. page[u] = "leaving" => page'[u] = "leaving"
      BY <1>6 DEF Scrub, TypeOK
    <3> QED BY <3>1, <3>2
  <2> QED BY <1>0, <1>1, <2>7, <2>8, <2>9, <2>10, <2>11 DEF SessionInv
<1>7. ASSUME NEW t \in Tabs, Send(t) PROVE SessionInv'
  <2>1. stored \in Tokens => watch[t] = stored
    BY <1>7, NoTokenAssumption DEF Send, SessionInv, DataIsCurrentOrDoomed
  <2>2. /\ UNCHANGED <<stored, cache, page, mem, watch, event, purging,
                       terminating, ended>>
        /\ page[t] = "app"
    BY <1>7 DEF Send
  <2>3. \A u \in Tabs : \A r \in requests'[u] :
            \/ r \in requests[u]
            \/ u = t /\ r.token = stored
    BY <1>7 DEF Send, TypeOK
  <2>4. \A u \in Tabs : HoldsData(u)' => HoldsData(u) \/ page[u] = "app"
    BY <2>2, <2>3 DEF HoldsData
  <2>5. OwnData'
    BY <2>1, <2>2, <2>3 DEF SessionInv, OwnData
  <2>6. DataIsCurrentOrDoomed'
    BY <2>2, <2>4 DEF SessionInv, DataIsCurrentOrDoomed
  <2>7. LeavingIsEmpty'
    BY <2>2, <2>4 DEF SessionInv, LeavingIsEmpty
  <2>8. CacheIsTraced' /\ EndedIsTerminating'
    BY <2>2 DEF SessionInv, CacheIsTraced, EndedIsTerminating
  <2> QED BY <1>0, <1>1, <2>5, <2>6, <2>7, <2>8 DEF SessionInv
<1>8. ASSUME NEW t \in Tabs, NEW r \in requests[t], AnswerData(t, r)
      PROVE  SessionInv'
  <2>1. UNCHANGED <<stored, cache, page, watch, event, purging, terminating,
                   ended>>
    BY <1>8 DEF AnswerData, KeepSession
  <2>2. \A u \in Tabs : /\ mem[u] \subseteq mem'[u]
                       /\ requests'[u] \subseteq requests[u]
                       /\ \/ mem'[u] = mem[u]
                          \/ /\ u = t /\ r.wanted /\ r.token \in Tokens
                             /\ mem'[u] = mem[u] \union {r.token}
    BY <1>8 DEF AnswerData, KeepSession, TypeOK
  <2>3. \A u \in Tabs : HoldsData(u)' => HoldsData(u)
    BY <2>2 DEF HoldsData
  <2>4. OwnData'
    <3>1. r.wanted /\ r.token \in Tokens => r.token = watch[t]
      BY DEF SessionInv, OwnData
    <3> QED BY <2>1, <2>2, <3>1 DEF SessionInv, OwnData
  <2>5. DataIsCurrentOrDoomed'
    BY <2>1, <2>3 DEF SessionInv, DataIsCurrentOrDoomed
  <2>6. LeavingIsEmpty'
    BY <2>1, <2>3 DEF SessionInv, LeavingIsEmpty
  <2>7. CacheIsTraced'
    BY <2>1, <2>2 DEF SessionInv, CacheIsTraced
  <2>8. EndedIsTerminating'
    BY <2>1 DEF SessionInv, EndedIsTerminating
  <2> QED BY <1>0, <1>1, <2>4, <2>5, <2>6, <2>7, <2>8 DEF SessionInv
<1>9. ASSUME NEW t \in Tabs, NEW rs \in SUBSET requests[t],
             TerminateSession(t, rs) \/ KeepSession(t, rs),
             UNCHANGED <<stored, cache, page, mem, watch, event, ended>>
      PROVE  SessionInv'
  <2>1. \A u \in Tabs : ended'[u] => \/ ended[u]
                                    \/ (u = t /\ TerminateSession(t, rs))
    BY <1>9
  <2>2. UNCHANGED <<stored, cache, page, mem, watch, event>>
    BY <1>9
  <2>3. TerminateSession(t, rs) \/ KeepSession(t, rs)
    BY <1>9
  <2> QED BY <1>0, <2>1, <2>2, <2>3, InvFrame
<1>18. ASSUME NEW t \in Tabs, NEW r \in requests[t],
              AnswerInline(t, r) \/ AnswerExpire(t, r) \/ AnswerVerify(t, r)
       PROVE  SessionInv'
  <2>1. \/ TerminateSession(t, requests[t] \ {r})
        \/ KeepSession(t, requests[t] \ {r})
    BY <1>18 DEF AnswerInline, AnswerExpire, AnswerVerify, EndIfConfirmed
  <2>2. UNCHANGED <<stored, cache, page, mem, watch, event, ended>>
    BY <1>18 DEF AnswerInline, AnswerExpire, AnswerVerify
  <2>3. requests[t] \ {r} \in SUBSET requests[t]
    OBVIOUS
  <2> QED BY <1>9, <2>1, <2>2, <2>3
<1>10. ASSUME NEW t \in Tabs, NEW k \in asking[t], NEW over \in BOOLEAN,
              ProbeAnswer(t, k, over)
       PROVE  SessionInv'
  <2>1. TerminateSession(t, requests[t]) \/ KeepSession(t, requests[t])
    BY <1>10 DEF ProbeAnswer, EndIfConfirmed
  <2>2. UNCHANGED <<stored, cache, page, mem, watch, event, ended>>
    BY <1>10 DEF ProbeAnswer
  <2>3. requests[t] \in SUBSET requests[t]
    OBVIOUS
  <2> QED BY <1>9, <2>1, <2>2, <2>3
<1>11. ASSUME NEW t \in Tabs, Save(t) PROVE SessionInv'
  <2>1. /\ cache' = mem[t]
        /\ UNCHANGED <<stored, page, mem, watch, event, requests, purging,
                       terminating, ended>>
    BY <1>11 DEF Save
  <2>2. OwnData' /\ DataIsCurrentOrDoomed' /\ LeavingIsEmpty'
    BY <2>1 DEF SessionInv, OwnData, DataIsCurrentOrDoomed, LeavingIsEmpty,
                HoldsData
  <2>3. CacheIsTraced' /\ EndedIsTerminating'
    BY <2>1 DEF SessionInv, CacheIsTraced, EndedIsTerminating
  <2> QED BY <1>0, <1>1, <2>2, <2>3 DEF SessionInv
<1>12. ASSUME NEW t \in Tabs, OnStorage(t) PROVE SessionInv'
  <2>1. /\ \A u \in Tabs : u # t => event'[u] = event[u]
        /\ UNCHANGED <<stored, cache, mem, watch, ended>>
    BY <1>12 DEF OnStorage, TypeOK
  <2>2. CASE stored # NoToken
    <3>1. /\ UNCHANGED <<terminating, purging, requests>>
          /\ \A u \in Tabs : \/ page'[u] = page[u]
                             \/ /\ u = t /\ page'[u] = "leaving"
                                /\ stored # watch[t]
      BY <1>12, <2>2 DEF OnStorage, TypeOK
    <3>2. \A u \in Tabs : HoldsData(u)' <=> HoldsData(u)
      BY <2>1, <3>1 DEF HoldsData
    <3>3. stored # watch[t] => ~HoldsData(t)
      BY <2>2 DEF SessionInv, DataIsCurrentOrDoomed
    <3>4. DataIsCurrentOrDoomed'
      BY <2>1, <2>2, <3>1, <3>2 DEF SessionInv, DataIsCurrentOrDoomed
    <3>5. LeavingIsEmpty'
      BY <3>1, <3>2, <3>3 DEF SessionInv, LeavingIsEmpty
    <3>6. OwnData' /\ CacheIsTraced'
      BY <2>1, <3>1 DEF SessionInv, OwnData, CacheIsTraced
    <3>7. EndedIsTerminating'
      BY <2>1, <3>1 DEF SessionInv, EndedIsTerminating
    <3> QED BY <1>0, <1>1, <3>4, <3>5, <3>6, <3>7 DEF SessionInv
  <2>3. CASE stored = NoToken
    <3>1. TerminateSession(t, requests[t]) /\ UNCHANGED page
      BY <1>12, <2>3 DEF OnStorage
    <3>2. ASSUME NEW u \in Tabs
          PROVE  /\ terminating[u] => terminating'[u]
                 /\ purging[u] > 0 => purging'[u] > 0
                 /\ \A r \in requests'[u] : r.wanted => r \in requests[u]
      BY <3>1, <3>2, TerminatePointwise
    <3>3. \A u \in Tabs : HoldsData(u)' => HoldsData(u)
      BY <2>1, <3>2 DEF HoldsData
    <3>4. page[t] = "app" \/ HoldsData(t) => purging'[t] > 0
      <4>1. CASE terminating[t] /\ purging[t] = 0
        BY <4>1 DEF SessionInv, EndedPageHasLeft, EndedPageStaysEmpty,
                    HoldsData
      <4>2. CASE purging[t] > 0
        BY <3>2, <4>2
      <4>3. CASE ~terminating[t]
        BY <3>1, <4>3 DEF TerminateSession, TypeOK
      <4> QED BY <4>1, <4>2, <4>3 DEF TypeOK
    <3>5. DataIsCurrentOrDoomed'
      <4> SUFFICES ASSUME NEW u \in Tabs, page'[u] = "app" \/ HoldsData(u)'
                   PROVE  watch[u] # NoToken /\ (event'[u] \/ purging'[u] > 0)
        BY <2>1, <2>3 DEF DataIsCurrentOrDoomed
      <4>1. page[u] = "app" \/ HoldsData(u)
        BY <3>1, <3>3
      <4>2. watch[u] # NoToken /\ (event[u] \/ purging[u] > 0)
        BY <2>3, <4>1 DEF SessionInv, DataIsCurrentOrDoomed
      <4> QED BY <2>1, <3>2, <3>4, <4>1, <4>2
    <3>6. LeavingIsEmpty'
      BY <3>1, <3>3 DEF SessionInv, LeavingIsEmpty
    <3>7. OwnData' /\ CacheIsTraced'
      BY <2>1, <3>2 DEF SessionInv, OwnData, CacheIsTraced
    <3>8. EndedIsTerminating'
      BY <2>1, <3>1, <3>2 DEF SessionInv, EndedIsTerminating
    <3> QED BY <1>0, <1>1, <3>5, <3>6, <3>7, <3>8 DEF SessionInv
  <2> QED BY <2>2, <2>3
<1>13. ASSUME UNCHANGED <<stored, cache, page, mem, watch, event, requests,
                          purging, terminating, ended>>
       PROVE  SessionInv'
  BY <1>0, <1>13 DEF SessionInv, OwnData, DataIsCurrentOrDoomed, HoldsData,
               LeavingIsEmpty, CacheIsTraced, EndedPageHasLeft,
               EndedPageStaysEmpty, EndedIsTerminating
<1>14. ASSUME NEW t \in Tabs, SignOut(t) PROVE SessionInv'
  BY <1>13, <1>14 DEF SignOut
<1>15. ASSUME NEW k \in Tokens, ServerStep(k) PROVE SessionInv'
  BY <1>13, <1>15 DEF ServerStep, ServerEnds, LogoutArrives
<1>16. CASE UNCHANGED vars
  BY <1>13, <1>16 DEF vars
<1>17. ASSUME NEW t \in Tabs,
              \/ RenameSelf(t) \/ ReloginFails(t) \/ ForcedRelogin(t)
              \/ \E k \in Tokens : Relogin(t, k)
       PROVE  SessionInv'
  BY <1>17
     DEF RenameSelf, ReloginFails, ForcedRelogin, Relogin, Plain, SessionInv,
         RenameOnlyIfAllowed
<1> QED
  BY <1>2, <1>3, <1>4, <1>5, <1>6, <1>7, <1>8, <1>18, <1>10, <1>11, <1>12,
     <1>14, <1>15, <1>16, <1>17 DEF Next, TabStep

THEOREM PlainInvariant == Plain /\ Spec => [](TypeOK /\ SessionInv)
<1> SUFFICES ASSUME Plain PROVE Spec => [](TypeOK /\ SessionInv)
  OBVIOUS
<1>1. TypeOK /\ SessionInv /\ [Next]_vars => (TypeOK /\ SessionInv)'
  BY StepType, StepInv
<1> QED BY <1>1, InitType, InitInv, PTL DEF Spec

LEMMA InvImplies ==
    ASSUME TypeOK, SessionInv
    PROVE  NoForeignData /\ NoResidue
<1>1. NoForeignData
  BY DEF SessionInv, OwnData, NoForeignData
<1>2. NoResidue
  <2> SUFFICES ASSUME stored = NoToken, \A t \in Tabs : Settled(t)
               PROVE  cache = {} /\ \A t \in Tabs : mem[t] = {}
    BY DEF NoResidue
  <2>1. \A t \in Tabs : mem[t] = {}
    BY DEF SessionInv, DataIsCurrentOrDoomed, HoldsData, Settled, TypeOK
  <2>2. cache = {}
    BY <2>1, NoTokenAssumption DEF SessionInv, CacheIsTraced, TypeOK
  <2> QED BY <2>1, <2>2
<1> QED BY <1>1, <1>2

(* In the plain case no page ever shows data of a session other than the   *)
(* one it was loaded for: purge before navigation (session.ts), restore at *)
(* page load (App.tsx) and reload on a changed token (useSessionWatch)     *)
(* suffice together, for any number of tabs and sessions.                  *)
THEOREM NoForeignDataShown == Plain /\ Spec => []NoForeignData
BY PlainInvariant, InvImplies, PTL

(* In the plain case terminateSession leaves nothing behind: once every    *)
(* tab has settled on the login page, no server data is left in memory or  *)
(* in the persisted query cache.                                           *)
THEOREM NoResidueLeft == Plain /\ Spec => []NoResidue
BY PlainInvariant, InvImplies, PTL

----------------------------------------------------------------------------
(***************************************************************************)
(* Wherever nobody renames themselves, tabs slow and login pages left open *)
(* included, an app page has the stored token's timers, or something is    *)
(* coming that will take it down.                                          *)
(***************************************************************************)
AppIsTimedOrDoomed ==
    \A t \in Tabs : page[t] = "app" =>
        /\ watch[t] # NoToken
        /\ stored = watch[t] \/ event[t] \/ purging[t] > 0

WatchInv == AppIsTimedOrDoomed /\ EndedIsTerminating /\ RenameOnlyIfAllowed

LEMMA WatchFrame ==
    ASSUME TypeOK, WatchInv, NEW t \in Tabs, NEW rs \in SUBSET requests[t],
           TerminateSession(t, rs) \/ KeepSession(t, rs),
           \A u \in Tabs : ended'[u] => \/ ended[u]
                                       \/ (u = t /\ TerminateSession(t, rs)),
           UNCHANGED <<stored, page, watch, event>>
    PROVE  AppIsTimedOrDoomed' /\ EndedIsTerminating'
<1>1. ASSUME NEW u \in Tabs
      PROVE  /\ terminating[u] => terminating'[u]
             /\ purging[u] > 0 => purging'[u] > 0
  BY <1>1, TerminatePointwise
<1>2. TerminateSession(t, rs) => terminating'[t]
  BY DEF TerminateSession, TypeOK
<1> QED BY <1>1, <1>2 DEF WatchInv, AppIsTimedOrDoomed, EndedIsTerminating

(* A token that another tab changes queues an event in every app page.     *)
LEMMA StepWatch ==
    ASSUME "selfRename" \notin Scenarios, TypeOK, EndedInv, WatchInv, [Next]_vars
    PROVE  WatchInv'
<1>0. RenameOnlyIfAllowed'
  BY StepRename DEF WatchInv
<1> SUFFICES AppIsTimedOrDoomed' /\ EndedIsTerminating'
  BY <1>0 DEF WatchInv
<1> DEFINE Kept == AppIsTimedOrDoomed' /\ EndedIsTerminating'
<1>1. ASSUME NEW t \in Tabs, Load(t) \/ Reload(t) PROVE Kept
  <2>1. NewPage(t)
    BY <1>1 DEF Load, Reload
  <2>2. /\ page'[t] = "app" => stored # NoToken
        /\ watch'[t] = stored /\ stored' = stored /\ ~ended'[t]
    BY <2>1 DEF NewPage, TypeOK
  <2>3. ASSUME NEW u \in Tabs \ {t}
        PROVE  /\ page'[u] = page[u] /\ watch'[u] = watch[u]
               /\ event'[u] = event[u] /\ purging'[u] = purging[u]
               /\ ended'[u] = ended[u] /\ terminating'[u] = terminating[u]
    BY <2>1 DEF NewPage, TypeOK
  <2> QED BY <2>2, <2>3 DEF WatchInv, AppIsTimedOrDoomed, EndedIsTerminating
<1>2. ASSUME NEW t \in Tabs, RequireAuth(t) PROVE Kept
  BY <1>2 DEF RequireAuth, TypeOK, WatchInv, AppIsTimedOrDoomed, EndedIsTerminating
<1>3. ASSUME NEW t \in Tabs, NEW k \in Tokens, Login(t, k) PROVE Kept
  <2>1. /\ page'[t] = "leaving" /\ UNCHANGED <<watch, ended, purging>>
        /\ \A u \in Tabs \ {t} : page'[u] = page[u] /\ terminating'[u] = terminating[u]
    BY <1>3 DEF Login, MoveForced, TypeOK
  <2>2. \A u \in Tabs \ {t} : watch[u] # NoToken =>
            event'[u] \/ (stored' = stored /\ event'[u] = event[u])
    BY <1>3 DEF Login, StoreToken, TypeOK
  <2> QED BY <2>1, <2>2 DEF WatchInv, AppIsTimedOrDoomed, EndedIsTerminating
<1>4. ASSUME NEW t \in Tabs, SignOutSettled(t) \/ IdleFires(t) \/ ExpiryFires(t)
      PROVE  Kept
  <2>1. TerminateSession(t, requests[t])
    BY <1>4 DEF SignOutSettled, IdleFires, ExpiryFires
  <2>2. /\ \A u \in Tabs : ended'[u] => ended[u] \/ u = t
        /\ UNCHANGED <<stored, page, watch, event>>
    BY <1>4 DEF SignOutSettled, IdleFires, ExpiryFires, TypeOK
  <2> QED BY <2>1, <2>2, WatchFrame
<1>5. ASSUME NEW t \in Tabs, Scrub(t) PROVE Kept
  <2>1. /\ page'[t] # "app" /\ (page'[t] = page[t] \/ page'[t] = "leaving")
        /\ UNCHANGED <<watch, ended, terminating>>
        /\ \A u \in Tabs \ {t} : page'[u] = page[u] /\ purging'[u] = purging[u]
    BY <1>5 DEF Scrub, TypeOK
  <2>2. \A u \in Tabs \ {t} : watch[u] # NoToken =>
            event'[u] \/ (stored' = stored /\ event'[u] = event[u])
    BY <1>5 DEF Scrub, StoreToken, TypeOK
  <2> QED BY <2>1, <2>2 DEF WatchInv, AppIsTimedOrDoomed, EndedIsTerminating
<1>6. ASSUME NEW t \in Tabs, NEW r \in requests[t],
             AnswerData(t, r) \/ AnswerInline(t, r) \/ AnswerExpire(t, r)
                \/ AnswerVerify(t, r)
      PROVE  Kept
  <2> DEFINE rs == requests[t] \ {r}
  <2>1. TerminateSession(t, rs) \/ KeepSession(t, rs)
    BY <1>6 DEF AnswerData, AnswerInline, AnswerExpire, AnswerVerify, EndIfConfirmed
  <2>2. UNCHANGED <<stored, page, watch, event, ended>>
    BY <1>6 DEF AnswerData, AnswerInline, AnswerExpire, AnswerVerify
  <2>3. rs \in SUBSET requests[t]
    OBVIOUS
  <2> HIDE DEF rs
  <2> QED BY <2>1, <2>2, <2>3, WatchFrame
<1>7. ASSUME NEW t \in Tabs, NEW k \in asking[t], NEW over \in BOOLEAN,
             ProbeAnswer(t, k, over)
      PROVE  Kept
  <2>1. TerminateSession(t, requests[t]) \/ KeepSession(t, requests[t])
    BY <1>7 DEF ProbeAnswer, EndIfConfirmed
  <2>2. UNCHANGED <<stored, page, watch, event, ended>>
    BY <1>7 DEF ProbeAnswer
  <2> QED BY <2>1, <2>2, WatchFrame
<1>8. ASSUME NEW t \in Tabs, OnStorage(t) PROVE Kept
  <2>1. /\ UNCHANGED <<stored, watch, ended>>
        /\ \A u \in Tabs \ {t} : event'[u] = event[u]
    BY <1>8 DEF OnStorage, TypeOK
  <2>2. CASE stored # NoToken
    <3>1. /\ page'[t] = "app" => stored = watch[t] /\ page[t] = "app"
          /\ page'[t] = page[t] \/ page'[t] = "leaving"
          /\ \A u \in Tabs \ {t} : page'[u] = page[u]
          /\ UNCHANGED <<terminating, purging>>
      BY <1>8, <2>2 DEF OnStorage, TypeOK
    <3> QED BY <2>1, <3>1 DEF WatchInv, AppIsTimedOrDoomed, EndedIsTerminating
  <2>3. CASE stored = NoToken
    <3>1. TerminateSession(t, requests[t]) /\ page' = page
      BY <1>8, <2>3 DEF OnStorage
    <3>2. terminating'[t]
      BY <3>1 DEF TerminateSession, TypeOK
    <3>3. page[t] = "app" => purging'[t] > 0
      BY <3>1 DEF TerminateSession, EndedInv, EndedPageHasLeft, TypeOK
    <3>4. \A u \in Tabs \ {t} : /\ terminating'[u] = terminating[u]
                                /\ purging'[u] = purging[u]
      BY <3>1 DEF TerminateSession, TypeOK
    <3> QED
      BY <2>1, <3>1, <3>2, <3>3, <3>4
         DEF WatchInv, AppIsTimedOrDoomed, EndedIsTerminating
  <2> QED BY <2>2, <2>3
<1>9. ASSUME NEW t \in Tabs,
             \/ RenameSelf(t) \/ ReloginFails(t) \/ ForcedRelogin(t)
             \/ \E k \in Tokens : Relogin(t, k)
      PROVE  Kept
  <2>1. rename[t] = "none"
    BY DEF WatchInv, RenameOnlyIfAllowed
  <2> QED BY <1>9, <2>1 DEF RenameSelf, ReloginFails, ForcedRelogin, Relogin
<1>10. ASSUME UNCHANGED <<stored, page, watch, event, ended, terminating, purging>>
       PROVE  Kept
  BY <1>10 DEF WatchInv, AppIsTimedOrDoomed, EndedIsTerminating
<1>11. ASSUME NEW t \in Tabs, SignOut(t) \/ Send(t) \/ Save(t) PROVE Kept
  BY <1>10, <1>11 DEF SignOut, Send, Save
<1>12. ASSUME NEW k \in Tokens, ServerStep(k) PROVE Kept
  BY <1>10, <1>12 DEF ServerStep, ServerEnds, LogoutArrives
<1>13. CASE UNCHANGED vars
  BY <1>10, <1>13 DEF vars
<1> QED
  BY <1>1, <1>2, <1>3, <1>4, <1>5, <1>6, <1>7, <1>8, <1>9, <1>11, <1>12, <1>13
     DEF Next, TabStep

(* Unless the operator's own account is renamed, useSessionWatch times     *)
(* every session a page works under: its idle and expiry timers stand for  *)
(* the stored token, however slow tabs are and whoever signs in where.     *)
THEOREM SessionAlwaysWatched ==
    "selfRename" \notin Scenarios /\ Spec => []SessionIsWatched
<1> SUFFICES ASSUME "selfRename" \notin Scenarios
             PROVE  Spec => []SessionIsWatched
  OBVIOUS
<1>1. Init => EndedInv /\ WatchInv
  BY DEF Init, EndedInv, EndedPageHasLeft, EndedPageStaysEmpty, WatchInv,
         AppIsTimedOrDoomed, EndedIsTerminating, RenameOnlyIfAllowed
<1>2. TypeOK /\ EndedInv /\ WatchInv /\ [Next]_vars => EndedInv' /\ WatchInv'
  BY StepEnded, StepWatch
<1>3. TypeOK /\ EndedInv /\ WatchInv => SessionIsWatched
  BY DEF EndedInv, EndedPageHasLeft, WatchInv, AppIsTimedOrDoomed,
         EndedIsTerminating, SessionIsWatched, Settled, OwnsSession, TypeOK
<1> QED BY <1>1, <1>2, <1>3, TypeCorrect, PTL DEF Spec
=============================================================================
