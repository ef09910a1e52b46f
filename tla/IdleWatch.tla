------------------------------ MODULE IdleWatch ----------------------------
(***************************************************************************)
(* The idle timer of a tab (useSessionWatch), with the clock that Session  *)
(* leaves out.  Every tab watches the token it was loaded with and has a   *)
(* deadline and a timer of its own.  A tab that is suspended, or whose     *)
(* machine sleeps, runs no timer; when it wakes, an overdue timer and the  *)
(* operator's first key stroke come in either order.                       *)
(***************************************************************************)
EXTENDS Naturals

CONSTANTS
    IdleTabs,
    IdleLimit,       \* IDLE_LIMIT_MS, in ticks
    MaxIdleClock,    \* bound: the clock
    MaxIdleTokens    \* bound: tokens ever installed

ASSUME IdleAssumption ==
    /\ IdleLimit \in Nat \ {0} /\ MaxIdleClock \in Nat
    /\ MaxIdleTokens \in Nat \ {0}

NoTimer == MaxIdleClock + IdleLimit + 1

VARIABLES
    idNow,       \* the clock
    idToken,     \* the token in localStorage, 0 if none
    idIssued,    \* ghost: tokens issued so far
    idWatched,   \* the token a tab was loaded with, 0 if it watches none
    idEnded,     \* `ended`
    idDeadline,  \* `deadline`
    idTimer,     \* when idleTimer fires
    idAwake,     \* the tab runs
    idActive     \* ghost: when the tab was last used, or loaded
idvars == <<idNow, idToken, idIssued, idWatched, idEnded, idDeadline, idTimer,
            idAwake, idActive>>

----------------------------------------------------------------------------
IdleTypeOK ==
    /\ idNow \in 0..MaxIdleClock
    /\ idToken \in 0..MaxIdleTokens
    /\ idIssued \in 0..MaxIdleTokens
    /\ idWatched \in [IdleTabs -> 0..MaxIdleTokens]
    /\ idEnded \in [IdleTabs -> BOOLEAN]
    /\ idDeadline \in [IdleTabs -> 0..NoTimer]
    /\ idTimer \in [IdleTabs -> 0..NoTimer]
    /\ idAwake \in [IdleTabs -> BOOLEAN]
    /\ idActive \in [IdleTabs -> 0..MaxIdleClock]

IdleInit ==
    /\ idNow = 0 /\ idToken = 0 /\ idIssued = 0
    /\ idWatched = [tab \in IdleTabs |-> 0]
    /\ idEnded = [tab \in IdleTabs |-> FALSE]
    /\ idDeadline = [tab \in IdleTabs |-> 0]
    /\ idTimer = [tab \in IdleTabs |-> NoTimer]
    /\ idAwake = [tab \in IdleTabs |-> TRUE]
    /\ idActive = [tab \in IdleTabs |-> 0]

(* The effect runs once, when the page of a tab is loaded: by a login, or  *)
(* by the reload that follows a token put there by another tab.            *)
Mount(tab, token) ==
    /\ idWatched' = [idWatched EXCEPT ![tab] = token]
    /\ idEnded' = [idEnded EXCEPT ![tab] = FALSE]
    /\ idDeadline' = [idDeadline EXCEPT ![tab] = idNow + IdleLimit]
    /\ idTimer' = [idTimer EXCEPT ![tab] =
                     IF token = 0 THEN NoTimer ELSE idNow + IdleLimit]
    /\ idActive' = [idActive EXCEPT ![tab] = idNow]

SignIn(tab) ==
    /\ idAwake[tab] /\ idWatched[tab] = 0 /\ idIssued < MaxIdleTokens
    /\ idIssued' = idIssued + 1 /\ idToken' = idIssued + 1
    /\ Mount(tab, idIssued + 1)
    /\ UNCHANGED <<idNow, idAwake>>

OpenTab(tab) ==
    /\ idAwake[tab] /\ idWatched[tab] = 0 /\ idToken # 0
    /\ Mount(tab, idToken)
    /\ UNCHANGED <<idNow, idToken, idIssued, idAwake>>

WatchesAToken(tab) == ~idEnded[tab] /\ idWatched[tab] # 0         \* mutant
OwnsSession(tab) ==
    ~idEnded[tab] /\ idWatched[tab] # 0 /\ idToken = idWatched[tab]

(* scheduleIdle: the timer that ran, or was pending, is gone; one for what *)
(* remains replaces it, and when nothing remains the session ends.         *)
ScheduleIdle(tab, deadline) ==
    /\ idTimer' = [idTimer EXCEPT ![tab] =
                     IF OwnsSession(tab) /\ deadline > idNow
                     THEN deadline ELSE NoTimer]
    /\ idEnded' = [idEnded EXCEPT ![tab] =
                     @ \/ (OwnsSession(tab) /\ deadline <= idNow)]

IdleTimerFires(tab) ==
    /\ idAwake[tab] /\ idTimer[tab] <= idNow
    /\ ScheduleIdle(tab, idDeadline[tab])
    /\ UNCHANGED <<idNow, idToken, idIssued, idWatched, idDeadline, idAwake,
                   idActive>>

(* onVisible: the tab comes to the front. *)
ComesToFront(tab) ==
    /\ idAwake[tab] /\ idWatched[tab] # 0
    /\ ScheduleIdle(tab, idDeadline[tab])
    /\ UNCHANGED <<idNow, idToken, idIssued, idWatched, idDeadline, idAwake,
                   idActive>>

(* onActivity: a pointer or a key goes down. *)
UseTab(tab) ==
    /\ idAwake[tab] /\ OwnsSession(tab)
    /\ idDeadline' = [idDeadline EXCEPT ![tab] = idNow + IdleLimit]
    /\ idActive' = [idActive EXCEPT ![tab] = idNow]
    /\ ScheduleIdle(tab, idNow + IdleLimit)
    /\ UNCHANGED <<idNow, idToken, idIssued, idWatched, idAwake>>

(* The end of terminateSession, after its purges: the token is removed,    *)
(* whichever it is by now, and the page is left.                           *)
EndOfIdleSession(tab) ==
    /\ idEnded[tab] /\ idWatched[tab] # 0
    /\ idToken' = 0
    /\ idWatched' = [idWatched EXCEPT ![tab] = 0]
    /\ UNCHANGED <<idNow, idIssued, idEnded, idDeadline, idTimer, idAwake,
                   idActive>>

(* onStorage: another tab took the token away, or put another there.       *)
HearOfToken(tab) ==
    /\ idAwake[tab] /\ idWatched[tab] # 0 /\ idToken # idWatched[tab]
    /\ Mount(tab, idToken)
    /\ UNCHANGED <<idNow, idToken, idIssued, idAwake>>

(* The tab is frozen, or the machine sleeps, and it wakes again.           *)
FreezeOrWake(tab) ==
    /\ idAwake' = [idAwake EXCEPT ![tab] = ~@]
    /\ UNCHANGED <<idNow, idToken, idIssued, idWatched, idEnded, idDeadline,
                   idTimer, idActive>>

(* Time passes; a tab that runs fires a due timer first. *)
IdleTick ==
    /\ idNow < MaxIdleClock
    /\ \A tab \in IdleTabs : idAwake[tab] => idTimer[tab] > idNow
    /\ idNow' = idNow + 1
    /\ UNCHANGED <<idToken, idIssued, idWatched, idEnded, idDeadline, idTimer,
                   idAwake, idActive>>

IdleNext ==
    \/ \E tab \in IdleTabs :
         \/ SignIn(tab) \/ OpenTab(tab) \/ UseTab(tab)
         \/ IdleTimerFires(tab) \/ ComesToFront(tab)
         \/ EndOfIdleSession(tab) \/ HearOfToken(tab) \/ FreezeOrWake(tab)
    \/ IdleTick

IdleSpec == IdleInit /\ [][IdleNext]_idvars

----------------------------------------------------------------------------
(* A tab ends a session as idle only when that tab was not used for the    *)
(* limit, and only the session it was loaded with: a login that another    *)
(* tab made meanwhile is not its to revoke.  And time never passes over an *)
(* unattended tab that runs and still shows its session.                   *)
IdleStepIsTimely ==
    \A tab \in IdleTabs :
       /\ idEnded'[tab] /\ ~idEnded[tab] =>
            /\ idNow - idActive[tab] >= IdleLimit
            /\ idToken = idWatched[tab]
       /\ idNow' # idNow /\ idAwake[tab] /\ OwnsSession(tab) =>
            idNow' - idActive[tab] <= IdleLimit
IdleIsTimely == [][IdleStepIsTimely]_idvars
=============================================================================
