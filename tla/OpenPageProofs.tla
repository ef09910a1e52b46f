--------------------------- MODULE OpenPageProofs ---------------------------
(***************************************************************************)
(* What a page does while it is open, for any number of rows, writes, tabs,*)
(* tokens, views, lines and clicks: the list it writes to, the idle timer  *)
(* of its session, and the log it pages through.                           *)
(***************************************************************************)
EXTENDS PageWrites, IdleWatch, LogPaging, SequenceTheorems, TLAPS

(* The pages that write to a list, for every catalogue row.                *)

(* What every step leaves alone or takes from the page's own handlers.     *)
LEMMA HandlersOfPages ==
    ASSUME NEW p \in Catalogue, NEW h \in p.handlers
    PROVE  h \in Handlers
  BY DEF Handlers

LEMMA RefetchIsTyped ==
    ASSUME PagesTypeOK, RefetchStarts
    PROVE  pgQuery' \in [sees : {"idle", "unread", "list"},
                         at : 0..MaxPageWrites]
  BY PageWritesAssumption DEF PagesTypeOK, RefetchStarts, Unread

(* Every reachable state is well typed: a dialog's handler is one of its   *)
(* page's, and no more 1 s timers run than handlers have succeeded.        *)
THEOREM PagesTypeCorrect == PagesSpec => []PagesTypeOK
<1>1. PagesInit => PagesTypeOK
  BY PageWritesAssumption
     DEF PagesInit, PagesTypeOK, Unread, NoDialog
<1>2. ASSUME PagesTypeOK, [PagesNext]_pgvars
      PROVE  PagesTypeOK'
  <2> USE <1>2, PageWritesAssumption
  <2>1. CASE PageFocused
    BY <2>1 DEF PageFocused, PagesTypeOK, Unread
  <2>2. CASE PageTimer
    BY <2>2, RefetchIsTyped DEF PageTimer, PagesTypeOK
  <2>3. CASE RefreshPage
    BY <2>3, RefetchIsTyped DEF RefreshPage, PagesTypeOK
  <2>4. CASE ServePage
    BY <2>4 DEF ServePage, PagesTypeOK
  <2>5. CASE PageLoads
    <3>1. PICK rows \in SUBSET PageRows :
             /\ pgShown' = [kind |-> "data", rows |-> rows, at |-> pgQuery.at]
             /\ pgTicked' \subseteq pgTicked \union rows
      BY <2>5 DEF PageLoads
    <3> QED BY <2>5, <3>1 DEF PageLoads, PagesTypeOK, Idle
  <2>6. CASE PageFails
    BY <2>6 DEF PageFails, PagesTypeOK, Idle
  <2>7. CASE DismissPage
    <3>1. pgQuery' \in [sees : {"idle", "unread", "list"},
                        at : 0..MaxPageWrites]
      BY <2>7, RefetchIsTyped DEF DismissPage, PagesTypeOK
    <3> QED BY <2>7, <3>1 DEF DismissPage, PagesTypeOK, NoDialog
  <2>8. CASE SubmitPage
    BY <2>8 DEF SubmitPage, PagesTypeOK, NoDialog
  <2>9. CASE SettlePage
    <3>1. PICK answers \in [pgDialog.targets -> {"confirmed"} \union Failures] :
            LET given == {answers[r] : r \in pgDialog.targets}
            IN  /\ ReadsAgain(given)
                /\ pgTicked' = IF DropsTicks(given) THEN {} ELSE pgTicked
                /\ pgFresh' = IF Succeeds(given) THEN {} ELSE pgFresh
                /\ pgDone' = IF "confirmed" \in given THEN pgDone + 1
                                                      ELSE pgDone
                /\ pgUnsure' = pgUnsure \union
                     {r \in pgDialog.targets : answers[r] = "unknown"}
      BY <2>9 DEF SettlePage
    <3> DEFINE given == {answers[r] : r \in pgDialog.targets}
    <3>2. pgDone < MaxPageWrites
      BY <2>9 DEF SettlePage, PagesTypeOK
    <3>3. Succeeds(given) => "confirmed" \in given
      BY DEF Succeeds
    <3>4. pgQuery' \in [sees : {"idle", "unread", "list"},
                        at : 0..MaxPageWrites]
      BY <3>1, RefetchIsTyped DEF ReadsAgain, PagesTypeOK
    <3>5. /\ pgDone' \in 0..MaxPageWrites
          /\ pgTimers' \in 0..MaxPageWrites
          /\ pgTimers' <= pgDone'
      BY <3>1, <3>2, <3>3 DEF ReadsAgain, PagesTypeOK
    <3>6. pgDialog' \in {NoDialog, [pgDialog EXCEPT !.shows = "tells"]}
      BY <3>1 DEF ReadsAgain
    <3>7. UNCHANGED <<pgPage, pgShown>> /\ pgDialog.shows = "waits"
      BY <2>9 DEF SettlePage
    <3>8. /\ pgTicked' \subseteq PageRows
          /\ pgFresh' \subseteq PageRows
          /\ pgUnsure' \subseteq PageRows
      BY <3>1 DEF PagesTypeOK
    <3> QED BY <3>4, <3>5, <3>6, <3>7, <3>8 DEF PagesTypeOK, NoDialog
  <2>10. CASE \E r \in PageRows : Tick(r)
    BY <2>10 DEF Tick, PagesTypeOK
  <2>11. CASE \E h \in pgPage.handlers : AskPage(h)
    <3>1. PICK h \in pgPage.handlers : AskPage(h)
      BY <2>11
    <3>2. h \in Handlers
      BY HandlersOfPages DEF PagesTypeOK
    <3> QED BY <3>1, <3>2 DEF AskPage, PagesTypeOK
  <2>12. CASE UNCHANGED pgvars
    BY <2>12 DEF pgvars, PagesTypeOK
  <2> QED
    BY <2>1, <2>2, <2>3, <2>4, <2>5, <2>6, <2>7, <2>8, <2>9, <2>10, <2>11,
       <2>12 DEF PagesNext
<1> QED BY <1>1, <1>2, PTL DEF PagesSpec

----------------------------------------------------------------------------
(* On a page that catches up, a refetch starts a fetch of its own.         *)
LEMMA RefetchIsNew ==
    ASSUME CatchesUp(pgPage), RefetchStarts
    PROVE  pgQuery' = Unread
  BY DEF CatchesUp, RefetchStarts

CatchesUpInv == ListCatchesUp /\ OldReadsAreFollowed

(* Once a handler has ended with changes confirmed, the list shown is of   *)
(* after them, is marked out of date, or is going to be read: whatever     *)
(* fetches, timers, failures and refreshes fall in between.                *)
THEOREM ListsCatchUp == PagesSpec => []ListCatchesUp
<1>1. PagesInit => CatchesUpInv
  BY DEF PagesInit, CatchesUpInv, ListCatchesUp, OldReadsAreFollowed, Unread
<1>2. ASSUME PagesTypeOK, CatchesUpInv, [PagesNext]_pgvars
      PROVE  CatchesUpInv'
  <2> SUFFICES ASSUME CatchesUp(pgPage)'
               PROVE  CatchesUpInv'
    BY DEF CatchesUpInv, ListCatchesUp, OldReadsAreFollowed
  <2>0. pgPage' = pgPage
    BY <1>2 DEF PagesNext, PageFocused, PageTimer, RefreshPage, ServePage,
            PageLoads, PageFails, DismissPage, SubmitPage, SettlePage, Tick,
            AskPage, pgvars
  <2>00. CatchesUp(pgPage)
    BY <2>0 DEF CatchesUp
  <2>01. /\ \/ pgShown.at = pgDone
            \/ pgShown.kind \in {"stale", "failed"}
            \/ ReadIsOwed
         /\ pgQuery.sees = "list" /\ pgQuery.at # pgDone => pgTimers > 0
    BY <1>2, <2>00 DEF CatchesUpInv, ListCatchesUp, OldReadsAreFollowed
  <2>a. ASSUME pgQuery' = Unread
        PROVE  CatchesUpInv'
    BY <2>a DEF CatchesUpInv, ListCatchesUp, OldReadsAreFollowed, ReadIsOwed,
            Unread
  <2>b. ASSUME UNCHANGED <<pgShown, pgQuery, pgTimers, pgDone>>
        PROVE  CatchesUpInv'
    BY <2>b, <2>01 DEF CatchesUpInv, ListCatchesUp, OldReadsAreFollowed,
            ReadIsOwed
  <2>1. CASE PageFocused
    BY <2>1, <2>a DEF PageFocused
  <2>2. CASE PageTimer
    BY <2>2, <2>a, <2>00, RefetchIsNew DEF PageTimer
  <2>3. CASE RefreshPage
    BY <2>3, <2>a, <2>00, RefetchIsNew DEF RefreshPage
  <2>4. CASE ServePage
    <3>1. pgQuery' = [sees |-> "list", at |-> pgDone]
          /\ UNCHANGED <<pgShown, pgTimers, pgDone>>
      BY <2>4 DEF ServePage
    <3> QED BY <3>1 DEF CatchesUpInv, ListCatchesUp, OldReadsAreFollowed,
                    ReadIsOwed
  <2>5. CASE PageLoads
    <3>1. /\ pgQuery.sees = "list"
          /\ pgShown'.at = pgQuery.at
          /\ pgQuery' = Idle
          /\ UNCHANGED <<pgTimers, pgDone>>
      BY <2>5 DEF PageLoads
    <3> QED BY <3>1, <2>01 DEF CatchesUpInv, ListCatchesUp,
                    OldReadsAreFollowed, ReadIsOwed, Idle
  <2>6. CASE PageFails
    <3>1. /\ pgShown'.kind \in {"stale", "failed"}
          /\ pgQuery' = Idle
      BY <2>6 DEF PageFails, PagesTypeOK
    <3> QED BY <3>1 DEF CatchesUpInv, ListCatchesUp, OldReadsAreFollowed, Idle
  <2>7. CASE DismissPage
    <3>1. CASE UNCHANGED pgQuery
      BY <2>7, <3>1, <2>b DEF DismissPage
    <3>2. CASE RefetchStarts
      BY <3>2, <2>a, <2>00, RefetchIsNew
    <3> QED BY <2>7, <3>1, <3>2 DEF DismissPage
  <2>8. CASE SubmitPage
    BY <2>8, <2>b DEF SubmitPage
  <2>9. CASE SettlePage
    <3> DEFINE h == pgDialog.handler
    <3>1. PICK answers \in [pgDialog.targets -> {"confirmed"} \union Failures] :
            LET given == {answers[r] : r \in pgDialog.targets}
            IN  /\ ReadsAgain(given)
                /\ pgDone' = IF "confirmed" \in given THEN pgDone + 1
                                                      ELSE pgDone
      BY <2>9 DEF SettlePage
    <3> DEFINE given == {answers[r] : r \in pgDialog.targets}
    <3>2. h \in pgPage.handlers /\ pgShown' = pgShown
      BY <1>2, <2>9 DEF SettlePage, PagesTypeOK
    <3>3. ~h.stops /\ h.then \in {"now", "later"}
      BY <3>2, <2>00 DEF CatchesUp
    <3>4. Succeeds(given) <=> "confirmed" \in given
      BY <3>3 DEF Succeeds
    <3>5. CASE "confirmed" \in given /\ h.then = "now"
      BY <3>1, <3>4, <3>5, <2>00, <2>a, RefetchIsNew DEF ReadsAgain
    <3>6. CASE "confirmed" \in given /\ h.then = "later"
      <4>1. pgTimers' = pgTimers + 1
        BY <3>1, <3>4, <3>6 DEF ReadsAgain
      <4>2. pgTimers' > 0
        BY <1>2, <4>1 DEF PagesTypeOK
      <4> QED BY <4>2 DEF CatchesUpInv, ListCatchesUp, OldReadsAreFollowed,
                      ReadIsOwed
    <3>7. CASE "confirmed" \notin given
      <4>1. pgDone' = pgDone /\ pgTimers' = pgTimers
        BY <3>1, <3>4, <3>7 DEF ReadsAgain
      <4>2. RefetchStarts \/ UNCHANGED pgQuery
        BY <3>1 DEF ReadsAgain
      <4>3. CASE RefetchStarts
        BY <4>3, <2>00, <2>a, RefetchIsNew
      <4>4. CASE UNCHANGED pgQuery
        BY <4>1, <4>4, <3>2, <2>b
      <4> QED BY <4>2, <4>3, <4>4
    <3> QED BY <3>3, <3>5, <3>6, <3>7
  <2>10. CASE \E r \in PageRows : Tick(r)
    BY <2>10, <2>b DEF Tick
  <2>11. CASE \E h \in pgPage.handlers : AskPage(h)
    BY <2>11, <2>b DEF AskPage
  <2>12. CASE UNCHANGED pgvars
    BY <2>12, <2>b DEF pgvars
  <2> QED
    BY <1>2, <2>1, <2>2, <2>3, <2>4, <2>5, <2>6, <2>7, <2>8, <2>9, <2>10,
       <2>11, <2>12 DEF PagesNext
<1>3. CatchesUpInv => ListCatchesUp
  BY DEF CatchesUpInv
<1> QED BY <1>1, <1>2, <1>3, PagesTypeCorrect, PTL DEF PagesSpec

----------------------------------------------------------------------------
RidesInv == TicksAreFresh /\ NothingRidesAlong

(* On a page that ticks by key and clears on success, a confirmed Delete   *)
(* names only rows ticked since the page's own last success.               *)
THEOREM DeletesTakeNothingAlong == PagesSpec => []NothingRidesAlong
<1>1. PagesInit => RidesInv
  BY DEF PagesInit, RidesInv, TicksAreFresh, NothingRidesAlong, NoDialog
<1>2. ASSUME PagesTypeOK, RidesInv, [PagesNext]_pgvars
      PROVE  RidesInv'
  <2> SUFFICES ASSUME Tidy(pgPage)'
               PROVE  RidesInv'
    BY DEF RidesInv, TicksAreFresh, NothingRidesAlong
  <2>0. pgPage' = pgPage
    BY <1>2 DEF PagesNext, PageFocused, PageTimer, RefreshPage, ServePage,
            PageLoads, PageFails, DismissPage, SubmitPage, SettlePage, Tick,
            AskPage, pgvars
  <2>00. Tidy(pgPage)
    BY <2>0 DEF Tidy
  <2>01. pgTicked \subseteq pgFresh
    BY <1>2, <2>00 DEF RidesInv, TicksAreFresh
  <2>02. pgDialog.shows \in {"asks", "waits"} /\ pgDialog.handler.acts = "delete"
           /\ pgDialog.handler.on \in {"each", "one"}
             => pgDialog.targets \subseteq pgFresh
    BY <1>2, <2>00 DEF RidesInv, NothingRidesAlong
  <2>a. ASSUME pgTicked' \subseteq pgFresh',
               pgDialog'.shows \notin {"asks", "waits"}
        PROVE  RidesInv'
    BY <2>a DEF RidesInv, TicksAreFresh, NothingRidesAlong
  <2>b. ASSUME pgTicked' \subseteq pgTicked, UNCHANGED <<pgFresh, pgDialog>>
        PROVE  RidesInv'
    BY <2>b, <2>01, <2>02 DEF RidesInv, TicksAreFresh, NothingRidesAlong
  <2>1. CASE PageFocused \/ PageTimer \/ RefreshPage \/ ServePage \/ PageFails
    BY <2>1, <2>b DEF PageFocused, PageTimer, RefreshPage, ServePage, PageFails
  <2>2. CASE PageLoads
    <3>1. pgTicked' \subseteq pgTicked
      BY <2>2, <2>00 DEF PageLoads, Tidy
    <3> QED BY <2>2, <3>1, <2>b DEF PageLoads
  <2>3. CASE DismissPage
    BY <2>3, <2>a, <2>01 DEF DismissPage, NoDialog
  <2>4. CASE SubmitPage
    <3>1. \/ pgDialog' = NoDialog
          \/ /\ pgDialog'.handler = pgDialog.handler
             /\ pgDialog'.targets = pgDialog.targets
      BY <2>4 DEF SubmitPage, PagesTypeOK
    <3>2. UNCHANGED <<pgTicked, pgFresh>> /\ pgDialog.shows = "asks"
      BY <2>4 DEF SubmitPage
    <3> QED BY <3>1, <3>2, <2>01, <2>02
            DEF RidesInv, TicksAreFresh, NothingRidesAlong, NoDialog
  <2>5. CASE SettlePage
    <3> DEFINE h == pgDialog.handler
    <3>1. PICK answers \in [pgDialog.targets -> {"confirmed"} \union Failures] :
            LET given == {answers[r] : r \in pgDialog.targets}
            IN  /\ ReadsAgain(given)
                /\ pgTicked' = IF DropsTicks(given) THEN {} ELSE pgTicked
                /\ pgFresh' = IF Succeeds(given) THEN {} ELSE pgFresh
      BY <2>5 DEF SettlePage
    <3> DEFINE given == {answers[r] : r \in pgDialog.targets}
    <3>2. h \in pgPage.handlers
      BY <1>2, <2>5 DEF SettlePage, PagesTypeOK
    <3>3. h.clears \in {"success", "always"}
      BY <3>2, <2>00 DEF Tidy
    <3>4. Succeeds(given) => DropsTicks(given)
      BY <3>3 DEF DropsTicks
    <3>5. pgTicked' \subseteq pgFresh'
      BY <3>1, <3>4, <2>01
    <3>6. pgDialog' \in {NoDialog, [pgDialog EXCEPT !.shows = "tells"]}
      BY <3>1 DEF ReadsAgain
    <3>7. pgDialog'.shows \notin {"asks", "waits"}
      BY <1>2, <3>6 DEF NoDialog, PagesTypeOK
    <3> QED BY <3>5, <3>7, <2>a
  <2>6. CASE \E r \in PageRows : Tick(r)
    <3>1. PICK r \in PageRows : Tick(r)
      BY <2>6
    <3>2. pgTicked' \subseteq pgFresh' /\ pgDialog' = NoDialog
      BY <3>1, <2>01 DEF Tick
    <3> QED BY <3>2, <2>a DEF NoDialog
  <2>7. CASE \E h \in pgPage.handlers : AskPage(h)
    <3>1. PICK h \in pgPage.handlers, s \in SUBSET PageRows :
             /\ MayTarget(h, s)
             /\ pgDialog' = [shows |-> "asks", handler |-> h, targets |-> s]
      BY <2>7 DEF AskPage
    <3>2. h.on \in {"each", "one"} => s \subseteq pgTicked
      BY <3>1 DEF MayTarget, SelectedItems
    <3>3. UNCHANGED <<pgTicked, pgFresh>>
      BY <2>7 DEF AskPage
    <3> QED BY <3>1, <3>2, <3>3, <2>01
            DEF RidesInv, TicksAreFresh, NothingRidesAlong
  <2>8. CASE UNCHANGED pgvars
    BY <2>8, <2>b DEF pgvars
  <2> QED
    BY <1>2, <2>1, <2>2, <2>3, <2>4, <2>5, <2>6, <2>7, <2>8 DEF PagesNext
<1>3. RidesInv => NothingRidesAlong
  BY DEF RidesInv
<1> QED BY <1>1, <1>2, <1>3, PagesTypeCorrect, PTL DEF PagesSpec

-----------------------------------------------------------------------------
(* The idle timer.  The clock has a bound in the model; the argument does  *)
(* not use it.                                                             *)

LEMMA BoundsAre ==
    /\ NoTimer \in Nat /\ NoTimer = MaxIdleClock + IdleLimit + 1
    /\ IdleLimit \in Nat /\ IdleLimit > 0
    /\ MaxIdleClock \in Nat /\ MaxIdleTokens \in Nat
  BY IdleAssumption DEF NoTimer

LEMMA DeadlinesFit ==
    ASSUME idNow \in 0..MaxIdleClock
    PROVE  idNow + IdleLimit \in 0..NoTimer /\ NoTimer \in 0..NoTimer
  BY BoundsAre

LEMMA MountIsTyped ==
    ASSUME IdleTypeOK, NEW tab \in IdleTabs, NEW token \in 0..MaxIdleTokens,
           Mount(tab, token)
    PROVE  /\ idWatched' \in [IdleTabs -> 0..MaxIdleTokens]
           /\ idEnded' \in [IdleTabs -> BOOLEAN]
           /\ idDeadline' \in [IdleTabs -> 0..NoTimer]
           /\ idTimer' \in [IdleTabs -> 0..NoTimer]
           /\ idActive' \in [IdleTabs -> 0..MaxIdleClock]
<1> DEFINE deadline == idNow + IdleLimit
           timer == IF token = 0 THEN NoTimer ELSE deadline
<1>1. deadline \in 0..NoTimer /\ timer \in 0..NoTimer
  BY DeadlinesFit DEF IdleTypeOK
<1>2. /\ idDeadline' = [idDeadline EXCEPT ![tab] = deadline]
      /\ idTimer' = [idTimer EXCEPT ![tab] = timer]
  BY DEF Mount
<1> HIDE DEF deadline, timer
<1>3. idDeadline' \in [IdleTabs -> 0..NoTimer]
  BY <1>1, <1>2 DEF IdleTypeOK
<1>4. idTimer' \in [IdleTabs -> 0..NoTimer]
  BY <1>1, <1>2 DEF IdleTypeOK
<1>5. idWatched' \in [IdleTabs -> 0..MaxIdleTokens]
  BY DEF Mount, IdleTypeOK
<1>6. idEnded' \in [IdleTabs -> BOOLEAN]
  BY Zenon DEF Mount, IdleTypeOK
<1>7. idActive' \in [IdleTabs -> 0..MaxIdleClock]
  BY DEF Mount, IdleTypeOK
<1> QED BY <1>3, <1>4, <1>5, <1>6, <1>7

LEMMA ScheduleIsTyped ==
    ASSUME IdleTypeOK, NEW tab \in IdleTabs, NEW deadline \in 0..NoTimer,
           ScheduleIdle(tab, deadline)
    PROVE  /\ idTimer' \in [IdleTabs -> 0..NoTimer]
           /\ idEnded' \in [IdleTabs -> BOOLEAN]
<1> DEFINE timer == IF OwnsSession(tab) /\ deadline > idNow
                    THEN deadline ELSE NoTimer
           ended == idEnded[tab] \/ (OwnsSession(tab) /\ deadline <= idNow)
<1>1. timer \in 0..NoTimer
  BY DeadlinesFit DEF IdleTypeOK
<1>2. ended \in BOOLEAN
  OBVIOUS
<1>3. /\ idTimer' = [idTimer EXCEPT ![tab] = timer]
      /\ idEnded' = [idEnded EXCEPT ![tab] = ended]
  BY DEF ScheduleIdle
<1> HIDE DEF timer, ended
<1>4. idTimer' \in [IdleTabs -> 0..NoTimer]
  BY <1>1, <1>3 DEF IdleTypeOK
<1>5. idEnded' \in [IdleTabs -> BOOLEAN]
  BY <1>2, <1>3 DEF IdleTypeOK
<1> QED BY <1>4, <1>5

(* Every reachable state of the idle timers is well typed. *)
THEOREM IdleTypeCorrect == IdleSpec => []IdleTypeOK
<1>1. IdleInit => IdleTypeOK
  BY BoundsAre DEF IdleInit, IdleTypeOK
<1>2. ASSUME IdleTypeOK, [IdleNext]_idvars
      PROVE  IdleTypeOK'
  <2> USE <1>2
  <2>1. ASSUME NEW tab \in IdleTabs, SignIn(tab)
        PROVE  IdleTypeOK'
    <3>1. idIssued + 1 \in 0..MaxIdleTokens
      BY <2>1, BoundsAre DEF IdleTypeOK, SignIn
    <3> QED BY <2>1, <3>1, MountIsTyped DEF IdleTypeOK, SignIn
  <2>2. ASSUME NEW tab \in IdleTabs, OpenTab(tab)
        PROVE  IdleTypeOK'
    BY <2>2, MountIsTyped DEF IdleTypeOK, OpenTab
  <2>3. ASSUME NEW tab \in IdleTabs, UseTab(tab)
        PROVE  IdleTypeOK'
    <3>1. idNow + IdleLimit \in 0..NoTimer
      BY DeadlinesFit DEF IdleTypeOK
    <3>2. /\ idTimer' \in [IdleTabs -> 0..NoTimer]
          /\ idEnded' \in [IdleTabs -> BOOLEAN]
      BY <2>3, <3>1, ScheduleIsTyped DEF UseTab
    <3>3. idDeadline' \in [IdleTabs -> 0..NoTimer]
      BY <2>3, <3>1 DEF UseTab, IdleTypeOK
    <3>4. idActive' \in [IdleTabs -> 0..MaxIdleClock]
      BY <2>3 DEF UseTab, IdleTypeOK
    <3> QED BY <2>3, <3>2, <3>3, <3>4 DEF IdleTypeOK, UseTab
  <2>4. ASSUME NEW tab \in IdleTabs, IdleTimerFires(tab) \/ ComesToFront(tab)
        PROVE  IdleTypeOK'
    <3>1. idDeadline[tab] \in 0..NoTimer
      BY DEF IdleTypeOK
    <3>2. /\ idTimer' \in [IdleTabs -> 0..NoTimer]
          /\ idEnded' \in [IdleTabs -> BOOLEAN]
      BY <2>4, <3>1, ScheduleIsTyped DEF IdleTimerFires, ComesToFront
    <3> QED BY <2>4, <3>2 DEF IdleTypeOK, IdleTimerFires, ComesToFront
  <2>5. ASSUME NEW tab \in IdleTabs, EndOfIdleSession(tab)
        PROVE  IdleTypeOK'
    BY <2>5, BoundsAre DEF IdleTypeOK, EndOfIdleSession
  <2>6. ASSUME NEW tab \in IdleTabs, HearOfToken(tab)
        PROVE  IdleTypeOK'
    BY <2>6, MountIsTyped DEF IdleTypeOK, HearOfToken
  <2>7. ASSUME NEW tab \in IdleTabs, FreezeOrWake(tab)
        PROVE  IdleTypeOK'
    BY <2>7 DEF IdleTypeOK, FreezeOrWake
  <2>8. CASE IdleTick
    BY <2>8, BoundsAre DEF IdleTypeOK, IdleTick
  <2>9. CASE UNCHANGED idvars
    BY <2>9 DEF IdleTypeOK, idvars
  <2> QED
    BY <2>1, <2>2, <2>3, <2>4, <2>5, <2>6, <2>7, <2>8, <2>9 DEF IdleNext
<1> QED BY <1>1, <1>2, PTL DEF IdleSpec

----------------------------------------------------------------------------
(* Tokens are new when they are installed, so a token a tab no longer      *)
(* finds in place never comes back to it; the deadline counts from the     *)
(* tab's last use; and the tab that owns the session has a timer for it.   *)
TokensAreIssued ==
    idToken <= idIssued /\ \A tab \in IdleTabs : idWatched[tab] <= idIssued
DeadlineOf(tab) ==
    idWatched[tab] # 0 => idDeadline[tab] = idActive[tab] + IdleLimit
TimerOf(tab) == OwnsSession(tab) => idTimer[tab] = idDeadline[tab]
IdleInv ==
    /\ TokensAreIssued
    /\ \A tab \in IdleTabs : DeadlineOf(tab) /\ TimerOf(tab)

LEMMA MountSetsTimer ==
    ASSUME IdleTypeOK, NEW tab \in IdleTabs, NEW token \in 0..MaxIdleTokens,
           Mount(tab, token)
    PROVE  /\ DeadlineOf(tab)' /\ TimerOf(tab)'
           /\ \A t \in IdleTabs \ {tab} :
                 UNCHANGED <<idWatched[t], idEnded[t], idDeadline[t],
                             idTimer[t], idActive[t]>>
           /\ idWatched'[tab] = token
  BY DEF Mount, IdleTypeOK, DeadlineOf, TimerOf, OwnsSession

LEMMA ScheduleSetsTimer ==
    ASSUME IdleTypeOK, NEW tab \in IdleTabs, NEW deadline,
           ScheduleIdle(tab, deadline), UNCHANGED <<idToken, idWatched>>,
           idDeadline'[tab] = deadline, deadline \in Nat
    PROVE  /\ TimerOf(tab)'
           /\ \A t \in IdleTabs \ {tab} : UNCHANGED <<idEnded[t], idTimer[t]>>
           /\ idEnded'[tab] /\ ~idEnded[tab] =>
                OwnsSession(tab) /\ deadline <= idNow
<1>1. idEnded'[tab] = (idEnded[tab] \/ (OwnsSession(tab) /\ deadline <= idNow))
  BY DEF ScheduleIdle, IdleTypeOK
<1>2. idTimer'[tab] = IF OwnsSession(tab) /\ deadline > idNow
                      THEN deadline ELSE NoTimer
  BY DEF ScheduleIdle, IdleTypeOK
<1>3. \A t \in IdleTabs \ {tab} : UNCHANGED <<idEnded[t], idTimer[t]>>
  BY DEF ScheduleIdle, IdleTypeOK
<1>4. idEnded'[tab] /\ ~idEnded[tab] => OwnsSession(tab) /\ deadline <= idNow
  BY <1>1
<1>5. idNow \in Nat /\ idEnded[tab] \in BOOLEAN
  BY BoundsAre DEF IdleTypeOK
<1>6. TimerOf(tab)'
  <2>1. SUFFICES ASSUME OwnsSession(tab)'
                 PROVE  idTimer'[tab] = deadline
    BY DEF TimerOf
  <2>2. ~idEnded'[tab]
    BY <2>1 DEF OwnsSession
  <2>3. ~idEnded[tab] /\ ~(OwnsSession(tab) /\ deadline <= idNow)
    BY <1>1, <1>5, <2>2
  <2>4. OwnsSession(tab)
    BY <2>1, <2>3 DEF OwnsSession
  <2>5. deadline > idNow
    BY <1>5, <2>3, <2>4
  <2> QED BY <1>2, <2>4, <2>5
<1> QED BY <1>3, <1>4, <1>6

LEMMA IdleStep ==
    ASSUME IdleTypeOK, IdleInv, [IdleNext]_idvars
    PROVE  IdleInv'
<1> USE DEF IdleInv
<1>1. ASSUME NEW tab \in IdleTabs, SignIn(tab)
      PROVE  IdleInv'
  <2>1. /\ idIssued \in Nat /\ idIssued' = idIssued + 1
        /\ idToken' = idIssued + 1 /\ idIssued + 1 \in 0..MaxIdleTokens
        /\ Mount(tab, idIssued + 1)
    BY <1>1, BoundsAre DEF SignIn, IdleTypeOK
  <2>2. TokensAreIssued'
    BY <2>1, MountSetsTimer DEF TokensAreIssued, IdleTypeOK
  <2>3. ASSUME NEW t \in IdleTabs \ {tab}
        PROVE  DeadlineOf(t)' /\ TimerOf(t)'
    <3>1. UNCHANGED <<idWatched[t], idDeadline[t], idActive[t]>>
      BY <2>1, MountSetsTimer
    <3>2. idWatched'[t] # idToken'
      BY <2>1, <3>1 DEF TokensAreIssued, IdleTypeOK
    <3> QED BY <3>1, <3>2 DEF DeadlineOf, TimerOf, OwnsSession
  <2> QED BY <2>1, <2>2, <2>3, MountSetsTimer
<1>2. ASSUME NEW tab \in IdleTabs, OpenTab(tab) \/ HearOfToken(tab)
      PROVE  IdleInv'
  <2>1. /\ Mount(tab, idToken) /\ idToken \in 0..MaxIdleTokens
        /\ UNCHANGED <<idToken, idIssued>>
    BY <1>2 DEF OpenTab, HearOfToken, IdleTypeOK
  <2>2. TokensAreIssued'
    BY <2>1, MountSetsTimer DEF TokensAreIssued
  <2>3. ASSUME NEW t \in IdleTabs \ {tab}
        PROVE  DeadlineOf(t)' /\ TimerOf(t)'
    BY <2>1, MountSetsTimer DEF DeadlineOf, TimerOf, OwnsSession
  <2> QED BY <2>1, <2>2, <2>3, MountSetsTimer
<1>3. ASSUME NEW tab \in IdleTabs, UseTab(tab)
      PROVE  IdleInv'
  <2>1. /\ ScheduleIdle(tab, idNow + IdleLimit)
        /\ idNow + IdleLimit \in Nat
        /\ UNCHANGED <<idToken, idIssued, idWatched>>
        /\ idDeadline'[tab] = idNow + IdleLimit /\ idActive'[tab] = idNow
        /\ \A t \in IdleTabs \ {tab} : UNCHANGED <<idDeadline[t], idActive[t]>>
    BY <1>3, BoundsAre DEF UseTab, IdleTypeOK
  <2>2. TokensAreIssued'
    BY <2>1 DEF TokensAreIssued
  <2>3. \A t \in IdleTabs : DeadlineOf(t)'
    BY <2>1 DEF DeadlineOf
  <2>4. \A t \in IdleTabs : TimerOf(t)'
    BY <2>1, ScheduleSetsTimer DEF TimerOf, OwnsSession
  <2> QED BY <2>2, <2>3, <2>4
<1>4. ASSUME NEW tab \in IdleTabs, IdleTimerFires(tab) \/ ComesToFront(tab)
      PROVE  IdleInv'
  <2>1. /\ ScheduleIdle(tab, idDeadline[tab]) /\ idDeadline[tab] \in Nat
        /\ UNCHANGED <<idToken, idIssued, idWatched, idDeadline, idActive>>
    BY <1>4, BoundsAre DEF IdleTimerFires, ComesToFront, IdleTypeOK
  <2>2. TokensAreIssued' /\ \A t \in IdleTabs : DeadlineOf(t)'
    BY <2>1 DEF TokensAreIssued, DeadlineOf
  <2>3. \A t \in IdleTabs : TimerOf(t)'
    BY <2>1, ScheduleSetsTimer DEF TimerOf, OwnsSession
  <2> QED BY <2>2, <2>3
<1>5. ASSUME NEW tab \in IdleTabs, EndOfIdleSession(tab)
      PROVE  IdleInv'
  <2>1. TokensAreIssued'
    BY <1>5 DEF TokensAreIssued, EndOfIdleSession, IdleTypeOK
  <2>2. \A t \in IdleTabs : DeadlineOf(t)'
    BY <1>5 DEF DeadlineOf, EndOfIdleSession, IdleTypeOK
  <2>3. \A t \in IdleTabs : ~OwnsSession(t)'
    BY <1>5 DEF EndOfIdleSession, OwnsSession
  <2> QED BY <2>1, <2>2, <2>3 DEF TimerOf
<1>6. ASSUME NEW tab \in IdleTabs, FreezeOrWake(tab)
      PROVE  IdleInv'
  BY <1>6 DEF FreezeOrWake, TokensAreIssued, DeadlineOf, TimerOf, OwnsSession
<1>7. CASE IdleTick
  BY <1>7 DEF IdleTick, TokensAreIssued, DeadlineOf, TimerOf, OwnsSession
<1>8. CASE UNCHANGED idvars
  BY <1>8 DEF idvars, TokensAreIssued, DeadlineOf, TimerOf, OwnsSession
<1> QED
  BY <1>1, <1>2, <1>3, <1>4, <1>5, <1>6, <1>7, <1>8 DEF IdleNext

(* A tab ends a session as idle only after its own limit, and only the     *)
(* session it was loaded with; and no time passes over a tab that runs,    *)
(* owns its session and is over its limit.                                 *)
THEOREM IdleEndsOnTime == IdleSpec => IdleIsTimely
<1>1. IdleInit => IdleInv
  BY IdleAssumption DEF IdleInit, IdleInv, TokensAreIssued, DeadlineOf,
                        TimerOf, OwnsSession
<1>2. ASSUME IdleTypeOK, IdleInv, [IdleNext]_idvars, NEW tab \in IdleTabs,
             idEnded'[tab], ~idEnded[tab]
      PROVE  idNow - idActive[tab] >= IdleLimit /\ idToken = idWatched[tab]
  <2> USE <1>2
  <2>1. ASSUME NEW t \in IdleTabs,
               SignIn(t) \/ OpenTab(t) \/ HearOfToken(t)
        PROVE  FALSE
    <3>1. idEnded' = [idEnded EXCEPT ![t] = FALSE]
      BY <2>1 DEF SignIn, OpenTab, HearOfToken, Mount
    <3> QED BY <3>1 DEF IdleTypeOK
  <2>2. ASSUME NEW t \in IdleTabs, UseTab(t)
        PROVE  FALSE
    <3>1. idNow + IdleLimit > idNow
      BY BoundsAre DEF IdleTypeOK
    <3>2. /\ ScheduleIdle(t, idNow + IdleLimit)
          /\ idNow + IdleLimit \in Nat /\ UNCHANGED <<idToken, idWatched>>
          /\ idDeadline'[t] = idNow + IdleLimit
      BY <2>2, BoundsAre DEF UseTab, IdleTypeOK
    <3>3. t = tab
      BY <3>2, ScheduleSetsTimer
    <3>4. idNow + IdleLimit <= idNow
      BY <3>2, <3>3, ScheduleSetsTimer
    <3> QED BY <3>1, <3>4, BoundsAre DEF IdleTypeOK
  <2>3. ASSUME NEW t \in IdleTabs, IdleTimerFires(t) \/ ComesToFront(t)
        PROVE  idNow - idActive[tab] >= IdleLimit /\ idToken = idWatched[tab]
    <3>1. /\ ScheduleIdle(t, idDeadline[t]) /\ idDeadline[t] \in Nat
          /\ UNCHANGED <<idToken, idWatched, idDeadline>>
      BY <2>3, BoundsAre DEF IdleTimerFires, ComesToFront, IdleTypeOK
    <3>2. t = tab /\ OwnsSession(tab) /\ idDeadline[tab] <= idNow
      BY <3>1, ScheduleSetsTimer
    <3>3. idDeadline[tab] = idActive[tab] + IdleLimit
      BY <3>2 DEF IdleInv, DeadlineOf, OwnsSession
    <3> QED BY <3>2, <3>3, BoundsAre DEF OwnsSession, IdleTypeOK
  <2>4. CASE UNCHANGED idEnded
    BY <2>4
  <2> QED
    BY <2>1, <2>2, <2>3, <2>4
       DEF IdleNext, EndOfIdleSession, FreezeOrWake, IdleTick, idvars
<1>3. ASSUME IdleTypeOK, IdleInv, [IdleNext]_idvars, NEW tab \in IdleTabs,
             idNow' # idNow, idAwake[tab], OwnsSession(tab)
      PROVE  idNow' - idActive[tab] <= IdleLimit
  <2>1. IdleTick
    BY <1>3 DEF IdleNext, idvars, SignIn, OpenTab, UseTab, IdleTimerFires,
                ComesToFront, EndOfIdleSession, HearOfToken, FreezeOrWake
  <2>2. idDeadline[tab] > idNow /\ idNow' = idNow + 1
    BY <1>3, <2>1 DEF IdleTick, IdleInv, TimerOf
  <2>3. idDeadline[tab] = idActive[tab] + IdleLimit
    BY <1>3 DEF IdleInv, DeadlineOf, OwnsSession
  <2> QED BY <1>3, <2>2, <2>3, BoundsAre DEF IdleTypeOK
<1>4. IdleTypeOK /\ IdleInv /\ [IdleNext]_idvars => [IdleStepIsTimely]_idvars
  BY <1>2, <1>3 DEF IdleStepIsTimely
<1> QED
  BY <1>1, <1>4, IdleTypeCorrect, IdleStep, PTL DEF IdleSpec, IdleIsTimely

-----------------------------------------------------------------------------
(* The log.  What is shown is one stretch of a view's lines, from where the*)
(* reader began, each once: a cursor names the last line of its page for   *)
(* good, so a page asked for twice, late or from the cache is the same page.*)

(* A response is a full page, or what is left of the file; one to a cursor *)
(* ends where the cursor says, whenever it was read.                       *)
IsPage(response) ==
    /\ response.from = IF response.above > LogPageSize
                       THEN response.above - LogPageSize ELSE 1
    /\ response.key.cursor # 0 => response.above = response.key.cursor

(* The cursor of the key is where the lines shown end, or the page before  *)
(* it has been added to them: a page is never added twice.                 *)
AddedOrNext ==
    lpKey.cursor # 0 =>
       \/ lpCursor = lpKey.cursor
       \/ /\ lpApplied \in LogResponse /\ lpApplied.key = lpKey
          /\ IsPage(lpApplied)

LogInv ==
    /\ LogPagingTypeOK
    /\ lpKey.token <= lpClicks
    /\ \A response \in lpCache : IsPage(response)
    /\ OneStretch
    /\ AddedOrNext

LEMMA PageBounds ==
    ASSUME NEW response \in LogResponse, IsPage(response)
    PROVE  /\ response.from <= response.above
           /\ response.from > 1 => response.from < response.above
           /\ NextCursor(response) \in Cursors
           /\ NextCursor(response) # 0 =>
                 /\ response.from < response.above
                 /\ NextCursor(response) = response.from
  BY LogAssumption DEF LogResponse, IsPage, NextCursor, Cursors

LEMMA OfOnePage ==
    ASSUME NEW a \in LogResponse, NEW b \in LogResponse, a.key = b.key,
           a.key.cursor # 0, IsPage(a), IsPage(b)
    PROVE  a = b
  BY DEF LogResponse, IsPage

LEMMA FunctionsAreSequences ==
    ASSUME NEW S, NEW n \in Nat, NEW f \in [1..n -> S]
    PROVE  f \in Seq(S) /\ Len(f) = n
  OBVIOUS

(* The lines of a page, on its own: one stretch from the page's top.       *)
LEMMA LinesAre ==
    ASSUME NEW response \in LogResponse, IsPage(response)
    PROVE  LET lines == LinesOf(response)
               n == response.above - response.from
           IN /\ lines \in Seq(LogViews \X (1..MaxLogLines))
              /\ Len(lines) = n /\ n \in Nat
              /\ \A i \in 1..n :
                    lines[i] = <<response.key.view, response.above - i>>
<1> DEFINE n == response.above - response.from
           lines == LinesOf(response)
<1>1. /\ n \in Nat /\ response.above \in 1..(MaxLogLines + 1)
      /\ response.from \in 1..(MaxLogLines + 1) /\ response.key.view \in LogViews
  BY PageBounds DEF LogResponse, LogKey
<1>2. \A i \in 1..n : response.above - i \in 1..MaxLogLines
  BY <1>1, LogAssumption
<1>3. lines = [i \in 1..n |-> <<response.key.view, response.above - i>>]
  BY DEF LinesOf
<1>4. lines \in [1..n -> LogViews \X (1..MaxLogLines)]
  BY <1>1, <1>2, <1>3
<1>5. lines \in Seq(LogViews \X (1..MaxLogLines)) /\ Len(lines) = n
  <2> HIDE DEF lines, n
  <2> QED BY <1>1, <1>4, FunctionsAreSequences
<1> QED BY <1>1, <1>3, <1>5

IsStretch(lines) ==
    \A i \in 1..(Len(lines) - 1) : /\ lines[i + 1][1] = lines[i][1]
                                   /\ lines[i + 1][2] + 1 = lines[i][2]

LEMMA PageIsStretch ==
    ASSUME NEW response \in LogResponse, IsPage(response)
    PROVE  IsStretch(LinesOf(response))
<1> DEFINE lines == LinesOf(response)
           n == response.above - response.from
<1>1. /\ Len(lines) = n /\ n \in Nat
      /\ \A i \in 1..n : lines[i] = <<response.key.view, response.above - i>>
  BY LinesAre
<1>2. response.above \in Nat
  BY DEF LogResponse
<1> SUFFICES ASSUME NEW i \in 1..(Len(lines) - 1)
             PROVE  /\ lines[i + 1][1] = lines[i][1]
                    /\ lines[i + 1][2] + 1 = lines[i][2]
  BY DEF IsStretch
<1>3. i \in 1..n /\ i + 1 \in 1..n
  BY <1>1
<1>4. /\ lines[i] = <<response.key.view, response.above - i>>
      /\ lines[i + 1] = <<response.key.view, response.above - (i + 1)>>
  BY <1>1, <1>3
<1> HIDE DEF lines, n
<1> QED BY <1>2, <1>3, <1>4

LEMMA JoinedAre ==
    ASSUME NEW S, NEW s \in Seq(S), NEW t \in Seq(S)
    PROVE  /\ s \o t \in Seq(S)
           /\ Len(s \o t) = Len(s) + Len(t)
           /\ \A i \in 1..Len(s) : (s \o t)[i] = s[i]
           /\ \A i \in (Len(s) + 1)..(Len(s) + Len(t)) :
                 (s \o t)[i] = t[i - Len(s)]
           /\ Len(t) > 0 => (s \o t)[Len(s \o t)] = t[Len(t)]
<1>1. Len(s) \in Nat /\ Len(t) \in Nat
  BY LenProperties
<1>2. /\ s \o t \in Seq(S) /\ Len(s \o t) = Len(s) + Len(t)
      /\ \A i \in 1..Len(s) + Len(t) :
            (s \o t)[i] = IF i <= Len(s) THEN s[i] ELSE t[i - Len(s)]
  BY ConcatProperties
<1>3. \A i \in 1..Len(s) : (s \o t)[i] = s[i]
  BY <1>1, <1>2
<1>4. \A i \in (Len(s) + 1)..(Len(s) + Len(t)) : (s \o t)[i] = t[i - Len(s)]
  BY <1>1, <1>2
<1>5. ASSUME Len(t) > 0
      PROVE  (s \o t)[Len(s \o t)] = t[Len(t)]
  <2> DEFINE i == Len(s) + Len(t)
  <2>1. i \in 1..Len(s) + Len(t) /\ ~(i <= Len(s)) /\ i - Len(s) = Len(t)
    BY <1>1, <1>5
  <2>2. Len(s \o t) = i
    BY <1>2
  <2> HIDE DEF i
  <2>3. (s \o t)[i] = t[i - Len(s)]
    BY <1>2, <2>1
  <2> QED BY <2>1, <2>2, <2>3
<1> QED BY <1>2, <1>3, <1>4, <1>5

(* Lines with a page added that begins right below them.                   *)
LEMMA AddedPageIsStretch ==
    ASSUME NEW shown \in Seq(LogViews \X (1..MaxLogLines)), IsStretch(shown),
           NEW response \in LogResponse, IsPage(response), shown # <<>>,
           shown[Len(shown)] = <<response.key.view, response.above>>
    PROVE  IsStretch(shown \o LinesOf(response))
<1> DEFINE cells == LogViews \X (1..MaxLogLines)
           lines == LinesOf(response)
           n == response.above - response.from
           k == Len(shown)
           all == shown \o lines
<1>1. /\ lines \in Seq(cells)
      /\ Len(lines) = n /\ n \in Nat
      /\ \A i \in 1..n : lines[i] = <<response.key.view, response.above - i>>
  BY LinesAre
<1>2. k \in Nat /\ k > 0 /\ response.above \in Nat
  BY EmptySeq DEF LogResponse
<1>a. shown \in Seq(cells)
  OBVIOUS
<1> HIDE DEF cells, lines, n
<1>3. /\ Len(all) = k + n
      /\ \A i \in 1..k : all[i] = shown[i]
      /\ \A i \in (k + 1)..(k + n) : all[i] = lines[i - k]
  <2>1. shown \in Seq(cells) /\ lines \in Seq(cells)
    BY <1>a, <1>1
  <2>2. /\ Len(shown \o lines) = Len(shown) + Len(lines)
        /\ \A i \in 1..Len(shown) : (shown \o lines)[i] = shown[i]
        /\ \A i \in (Len(shown) + 1)..(Len(shown) + Len(lines)) :
              (shown \o lines)[i] = lines[i - Len(shown)]
    BY ONLY <2>1, JoinedAre, Zenon
  <2> QED BY <2>2, <1>1
<1>4. shown[k] = <<response.key.view, response.above>>
  OBVIOUS
<1>5. \A i \in 1..(k - 1) : /\ shown[i + 1][1] = shown[i][1]
                            /\ shown[i + 1][2] + 1 = shown[i][2]
  BY DEF IsStretch
<1> HIDE DEF lines, n, k, all
<1> SUFFICES ASSUME NEW i \in 1..(Len(all) - 1)
             PROVE  /\ all[i + 1][1] = all[i][1]
                    /\ all[i + 1][2] + 1 = all[i][2]
  BY DEF IsStretch, all, lines
<1>6. CASE i < k
  <2>1. i \in 1..(k - 1) /\ i \in 1..k /\ i + 1 \in 1..k
    BY <1>1, <1>2, <1>6
  <2> QED BY <1>3, <1>5, <2>1
<1>7. CASE i >= k
  <2> DEFINE view == response.key.view
             above == response.above
  <2>0. k \in Int /\ n \in Int /\ i \in Int /\ i <= k + n - 1
    <3>1. k \in Int /\ n \in Int /\ Len(all) = k + n
      BY <1>1, <1>2, <1>3
    <3>2. i \in 1..(Len(all) - 1)
      OBVIOUS
    <3> QED BY ONLY <3>1, <3>2
  <2>1. i + 1 \in (k + 1)..(k + n) /\ i + 1 - k \in 1..n
    BY <1>1, <1>2, <1>7, <2>0
  <2>2. all[i + 1] = <<view, above - (i + 1 - k)>>
    <3>1. all[i + 1] = lines[i + 1 - k]
      <4>1. /\ \A j \in (k + 1)..(k + n) : all[j] = lines[j - k]
            /\ i + 1 \in (k + 1)..(k + n)
        BY <1>3, <2>1
      <4>2. all[i + 1] = lines[(i + 1) - k]
        BY ONLY <4>1, Zenon
      <4>3. (i + 1) - k = i + 1 - k
        BY <1>1, <1>2
      <4> QED BY ONLY <4>2, <4>3, Zenon
    <3>2. /\ \A j \in 1..n : lines[j] = <<view, above - j>>
          /\ i + 1 - k \in 1..n
      BY <1>1, <2>1
    <3>3. lines[i + 1 - k] = <<view, above - (i + 1 - k)>>
      BY ONLY <3>2, Zenon
    <3> QED BY ONLY <3>1, <3>3, Zenon
  <2>3. all[i] = <<view, above - (i - k)>>
    <3>1. CASE i = k
      <4>1. i \in 1..k /\ above - (i - k) = above
        BY <1>2, <3>1
      <4> QED BY <1>3, <1>4, <3>1, <4>1
    <3>2. CASE i > k
      <4>1. i \in (k + 1)..(k + n) /\ i - k \in 1..n
        BY ONLY <2>0, <3>2
      <4> QED BY <1>1, <1>3, <4>1
    <3> QED BY <1>2, <1>7, <3>1, <3>2
  <2>4. above - (i + 1 - k) + 1 = above - (i - k)
    BY <1>1, <1>2, <1>3
  <2> HIDE DEF view, above
  <2> QED BY <2>2, <2>3, <2>4
<1> QED BY <1>1, <1>2, <1>3, <1>6, <1>7

LEMMA StretchIs ==
    OneStretch <=>
      /\ IsStretch(lpShown)
      /\ lpCursor # 0 => /\ lpShown # <<>>
                         /\ lpShown[Len(lpShown)] = <<lpKey.view, lpCursor>>
  BY Zenon DEF OneStretch, IsStretch

(* What is shown after a page has been folded in, and where it ends.       *)
LEMMA PageIsFoldedIn ==
    ASSUME NEW shown \in Seq(LogViews \X (1..MaxLogLines)), IsStretch(shown),
           NEW response \in LogResponse, IsPage(response),
           response.key.cursor # 0 =>
              /\ shown # <<>>
              /\ shown[Len(shown)] = <<response.key.view, response.above>>
    PROVE  LET all == IF response.key.cursor = 0 THEN LinesOf(response)
                      ELSE shown \o LinesOf(response)
           IN /\ all \in Seq(LogViews \X (1..MaxLogLines))
              /\ IsStretch(all)
              /\ NextCursor(response) # 0 =>
                    /\ all # <<>>
                    /\ all[Len(all)] = <<response.key.view, NextCursor(response)>>
<1> DEFINE cells == LogViews \X (1..MaxLogLines)
           lines == LinesOf(response)
           n == response.above - response.from
           all == IF response.key.cursor = 0 THEN lines ELSE shown \o lines
           next == NextCursor(response)
           view == response.key.view
<1>1. /\ lines \in Seq(cells)
      /\ Len(lines) = n /\ n \in Nat
      /\ \A i \in 1..n : lines[i] = <<view, response.above - i>>
  BY LinesAre
<1>2. shown \in Seq(cells) /\ Len(shown) \in Nat
  BY LenProperties
<1>3. next # 0 => n > 0 /\ response.above - n = next
  BY PageBounds DEF LogResponse
<1>4. IsStretch(all)
  BY PageIsStretch, AddedPageIsStretch
<1> HIDE DEF cells, lines, n, next, view
<1>5. all \in Seq(cells)
  BY <1>1, <1>2, JoinedAre
<1>6. ASSUME next # 0
      PROVE  all # <<>> /\ all[Len(all)] = <<view, next>>
  <2>1. n \in 1..n /\ lines[n] = <<view, next>>
    BY <1>1, <1>3, <1>6
  <2>2. CASE response.key.cursor = 0
    BY <1>1, <1>3, <1>6, <2>1, <2>2, EmptySeq
  <2>3. CASE response.key.cursor # 0
    <3>1. all = shown \o lines
      BY <2>3
    <3>2. /\ Len(all) = Len(shown) + n /\ all[Len(all)] = lines[Len(lines)]
      <4>1. shown \in Seq(cells) /\ lines \in Seq(cells)
        BY <1>1, <1>2
      <4>2. /\ Len(shown \o lines) = Len(shown) + Len(lines)
            /\ Len(lines) > 0 =>
                  (shown \o lines)[Len(shown \o lines)] = lines[Len(lines)]
        BY ONLY <4>1, JoinedAre, Zenon
      <4> QED BY <1>1, <1>3, <1>6, <3>1, <4>2
    <3>3. all # <<>>
      BY <1>2, <1>3, <1>1, <1>6, <1>5, <3>2, EmptySeq
    <3> QED BY <1>1, <2>1, <3>2, <3>3
  <2> QED BY <2>2, <2>3
<1> QED BY <1>4, <1>5, <1>6 DEF cells, lines, next, view

(* What a render needs to be told so that the invariant holds after it.    *)
LEMMA RenderKeepsLog ==
    ASSUME LogInv, NEW key \in LogKey, NEW cache \in SUBSET LogResponse,
           NEW fetching \in SUBSET LogKey, NEW cursor \in Cursors,
           NEW more \in BOOLEAN, NEW loading \in BOOLEAN,
           Render(key, cache, fetching, cursor, more, loading),
           \A response \in cache : IsPage(response),
           cursor # 0 => cursor = lpCursor /\ key.view = lpKey.view,
           key.cursor # 0 => /\ cursor = lpCursor /\ key.view = lpKey.view
                             /\ key = lpKey \/ key.cursor = lpCursor,
           lpClicks' \in 0..MaxLogClicks, key.token <= lpClicks'
    PROVE  LogInv'
<1>1. /\ lpKey' = key /\ lpLines' = lpLines
      /\ lpCache' \in SUBSET LogResponse /\ lpFetching' \in SUBSET LogKey
      /\ \A response \in lpCache' : IsPage(response)
  BY DEF Render
<1>2. /\ LogPagingTypeOK /\ OneStretch /\ AddedOrNext /\ IsStretch(lpShown)
      /\ lpShown \in Seq(LogViews \X (1..MaxLogLines))
  BY StretchIs DEF LogInv, LogPagingTypeOK
<1>3. CASE \E response \in Cached(cache, key) :
              /\ IsNew(response, lpApplied)
              /\ lpApplied' = response
              /\ lpShown' = IF key.cursor = 0 THEN LinesOf(response)
                            ELSE lpShown \o LinesOf(response)
              /\ lpCursor' = NextCursor(response)
              /\ lpMore' = (response.from > 1)
              /\ lpLoading' = FALSE
  <2>1. PICK response \in Cached(cache, key) :
           /\ IsNew(response, lpApplied)
           /\ lpApplied' = response
           /\ lpShown' = IF key.cursor = 0 THEN LinesOf(response)
                         ELSE lpShown \o LinesOf(response)
           /\ lpCursor' = NextCursor(response)
           /\ lpMore' = (response.from > 1)
           /\ lpLoading' = FALSE
    BY Zenon, <1>3
  <2>2. /\ response \in LogResponse /\ IsPage(response) /\ response.key = key
    BY DEF Cached
  <2>3. response.key.cursor # 0 =>
           /\ lpShown # <<>>
           /\ lpShown[Len(lpShown)] = <<response.key.view, response.above>>
    <3> SUFFICES ASSUME key.cursor # 0
                 PROVE  /\ lpShown # <<>>
                        /\ lpShown[Len(lpShown)] = <<key.view, response.above>>
      BY <2>2
    <3>1. lpCursor = key.cursor
      <4>1. CASE key = lpKey
        <5>1. ~(/\ lpApplied \in LogResponse /\ lpApplied.key = lpKey
                /\ IsPage(lpApplied))
          BY <2>1, <2>2, <4>1, OfOnePage DEF IsNew
        <5> QED BY <1>2, <4>1, <5>1 DEF AddedOrNext
      <4> QED BY <4>1
    <3>2. response.above = key.cursor
      BY <2>2 DEF IsPage
    <3> QED BY <1>2, <3>1, <3>2, StretchIs
  <2> DEFINE all == IF response.key.cursor = 0 THEN LinesOf(response)
                    ELSE lpShown \o LinesOf(response)
  <2>4. /\ all \in Seq(LogViews \X (1..MaxLogLines))
        /\ IsStretch(all)
        /\ NextCursor(response) # 0 =>
              /\ all # <<>>
              /\ all[Len(all)] = <<response.key.view, NextCursor(response)>>
    BY <1>2, <2>2, <2>3, PageIsFoldedIn
  <2>5. /\ lpShown' = all /\ NextCursor(response) \in Cursors
    BY <2>1, <2>2, PageBounds
  <2> HIDE DEF all
  <2>6. OneStretch'
    <3>1. /\ lpShown' = all /\ lpKey'.view = response.key.view
          /\ lpCursor' = NextCursor(response)
      BY <1>1, <2>1, <2>2, <2>5
    <3>2. IsStretch(lpShown') /\ (lpCursor' # 0 =>
             /\ lpShown' # <<>>
             /\ lpShown'[Len(lpShown')] = <<lpKey'.view, lpCursor'>>)
      BY <2>4, <3>1
    <3> QED BY <3>2, Zenon DEF OneStretch, IsStretch
  <2>7. AddedOrNext'
    BY <1>1, <2>1, <2>2 DEF AddedOrNext
  <2>8. LogPagingTypeOK'
    <3>1. lpShown' \in Seq(LogViews \X (1..MaxLogLines))
      BY <2>4, <2>5
    <3>2. lpCursor' \in Cursors /\ lpMore' \in BOOLEAN /\ lpLoading' \in BOOLEAN
      <4>1. (response.from > 1) \in BOOLEAN
        BY <2>2 DEF LogResponse
      <4>2. lpMore' \in BOOLEAN
        BY <2>1, <4>1, Zenon
      <4> QED BY <2>1, <2>5, <4>2
    <3>3. lpApplied' \in LogResponse \cup {NoResponse}
      BY <2>1, <2>2
    <3> QED BY <1>1, <1>2, <3>1, <3>2, <3>3 DEF LogPagingTypeOK
  <2> QED BY <1>1, <2>6, <2>7, <2>8 DEF LogInv
<1>4. CASE /\ lpCursor' = cursor /\ lpMore' = more
           /\ lpLoading' = IF lpKey \in lpFetching /\ key \notin fetching
                           THEN FALSE ELSE loading
           /\ UNCHANGED <<lpApplied, lpShown>>
  <2>1. LogPagingTypeOK'
    BY <1>1, <1>2, <1>4 DEF LogPagingTypeOK
  <2>2. OneStretch'
    BY <1>1, <1>2, <1>4 DEF OneStretch
  <2>3. AddedOrNext'
    BY <1>1, <1>2, <1>4 DEF AddedOrNext
  <2> QED BY <1>1, <2>1, <2>2, <2>3 DEF LogInv
<1> QED BY <1>3, <1>4 DEF Render

LEMMA AskKeepsLog ==
    ASSUME LogInv, NEW key \in LogKey, NEW cursor \in Cursors,
           NEW more \in BOOLEAN, NEW loading \in BOOLEAN,
           Ask(key, cursor, more, loading),
           cursor # 0 => cursor = lpCursor /\ key.view = lpKey.view,
           key.cursor # 0 => cursor = lpCursor /\ key.cursor = lpCursor
                             /\ key.view = lpKey.view,
           key.token <= lpClicks + 1
    PROVE  LogInv'
<1> DEFINE due == key # lpKey /\ (key.auto \/ Cached(lpCache, key) = {})
           fetching == lpFetching \cup (IF due THEN {key} ELSE {})
<1>1. /\ lpCache \in SUBSET LogResponse /\ fetching \in SUBSET LogKey
      /\ \A response \in lpCache : IsPage(response)
      /\ lpClicks \in 0..MaxLogClicks
  BY DEF LogInv, LogPagingTypeOK
<1>2. /\ lpClicks' = lpClicks + 1 /\ lpClicks < MaxLogClicks
      /\ Render(key, lpCache, fetching, cursor, more, loading)
  BY DEF Ask
<1>3. lpClicks' \in 0..MaxLogClicks /\ key.token <= lpClicks'
  BY <1>1, <1>2, LogAssumption
<1> HIDE DEF fetching
<1> QED BY <1>1, <1>2, <1>3, RenderKeepsLog

LEMMA AnswersArePages ==
    ASSUME LogPagingTypeOK, NEW key \in LogKey
    PROVE  LogPage(key) \in LogResponse /\ IsPage(LogPage(key))
<1> DEFINE above == IF key.cursor = 0 THEN lpLines[key.view] + 1
                    ELSE key.cursor
           from == IF above > LogPageSize THEN above - LogPageSize ELSE 1
<1>1. lpLines[key.view] \in 0..MaxLogLines /\ key.cursor \in 0..MaxLogLines
  BY DEF LogPagingTypeOK, LogKey, Cursors
<1>2. above \in 1..(MaxLogLines + 1)
  BY <1>1, LogAssumption
<1>3. from \in 1..(MaxLogLines + 1)
  BY <1>2, LogAssumption
<1>4. LogPage(key) = [key |-> key, above |-> above, from |-> from]
  BY DEF LogPage
<1>5. key.cursor # 0 => above = key.cursor
  OBVIOUS
<1>6. from = IF above > LogPageSize THEN above - LogPageSize ELSE 1
  OBVIOUS
<1> HIDE DEF above, from
<1> QED BY <1>2, <1>3, <1>4, <1>5, <1>6 DEF LogResponse, IsPage

LEMMA LogStep == LogInv /\ [LogPagingNext]_lpvars => LogInv'
<1> SUFFICES ASSUME LogInv, [LogPagingNext]_lpvars
             PROVE  LogInv'
  OBVIOUS
<1>0. /\ LogPagingTypeOK /\ lpKey \in LogKey /\ lpKey.token <= lpClicks
      /\ lpClicks \in 0..MaxLogClicks /\ lpCursor \in Cursors /\ 0 \in Cursors
      /\ lpMore \in BOOLEAN /\ lpLoading \in BOOLEAN
      /\ lpCache \in SUBSET LogResponse /\ lpFetching \in SUBSET LogKey
      /\ \A response \in lpCache : IsPage(response)
  BY LogAssumption DEF LogInv, LogPagingTypeOK, Cursors
<1>f. lpKey \in [view : LogViews, cursor : Cursors, token : 0..MaxLogClicks,
                 auto : BOOLEAN]
  BY <1>0 DEF LogKey
<1>t. lpKey.token <= lpClicks + 1
  BY <1>0, <1>f
<1>1. ASSUME NEW view \in LogViews, ApplyKeyword(view)
      PROVE  LogInv'
  <2> DEFINE key == [lpKey EXCEPT !.view = view, !.cursor = 0]
  <2>1. /\ key \in LogKey /\ key.cursor = 0 /\ key.token = lpKey.token
    BY <1>0, <1>f DEF LogKey
  <2>2. Ask(key, 0, FALSE, lpLoading)
    BY <1>1 DEF ApplyKeyword, CursorAfterStartingOver
  <2>3. key.token <= lpClicks + 1
    BY <1>0, <1>f, <2>1
  <2> HIDE DEF key
  <2> QED BY <1>0, <2>1, <2>2, <2>3, AskKeepsLog
<1>2. ASSUME NEW view \in LogViews, SelectFile(view)
      PROVE  LogInv'
  <2> DEFINE key == [view |-> view, cursor |-> 0, token |-> lpKey.token + 1,
                     auto |-> FALSE]
  <2>1. Ask(key, 0, FALSE, lpLoading)
    BY <1>2 DEF SelectFile, CursorAfterStartingOver
  <2>2. lpKey.token + 1 \in 0..MaxLogClicks /\ lpKey.token + 1 <= lpClicks + 1
    BY <1>0, <1>f, <2>1, LogAssumption DEF Ask
  <2>3. /\ key \in LogKey /\ key.cursor = 0 /\ key.token <= lpClicks + 1
    BY <1>0, <2>2 DEF LogKey
  <2> HIDE DEF key
  <2> QED BY <1>0, <2>1, <2>3, AskKeepsLog
<1>3. ASSUME RefreshLog
      PROVE  LogInv'
  <2> DEFINE key == [lpKey EXCEPT !.cursor = 0, !.token = @ + 1]
  <2>1. Ask(key, 0, FALSE, lpLoading)
    BY <1>3 DEF RefreshLog, CursorAfterStartingOver
  <2>2. lpKey.token + 1 \in 0..MaxLogClicks /\ lpKey.token + 1 <= lpClicks + 1
    BY <1>0, <1>f, <2>1, LogAssumption DEF Ask
  <2>3. /\ key \in LogKey /\ key.cursor = 0 /\ key.token <= lpClicks + 1
    BY <1>0, <1>f, <2>2 DEF LogKey
  <2> HIDE DEF key
  <2> QED BY <1>0, <2>1, <2>3, AskKeepsLog
<1>4. ASSUME ToggleLiveTail
      PROVE  LogInv'
  <2> DEFINE key == [lpKey EXCEPT !.cursor = 0, !.auto = ~@]
  <2>1. /\ key \in LogKey /\ key.cursor = 0 /\ key.token <= lpClicks + 1
        /\ key.view = lpKey.view
    <3>1. key.token = lpKey.token /\ key.cursor = 0 /\ key.view = lpKey.view
      BY <1>f
    <3>2. key \in LogKey
      BY <1>0, <1>f DEF LogKey
    <3> HIDE DEF key
    <3> QED BY <1>t, <3>1, <3>2
  <2>2. \/ Ask(key, 0, FALSE, lpLoading)
        \/ Ask(key, lpCursor, lpMore, lpLoading)
    BY <1>4 DEF ToggleLiveTail, CursorAfterStartingOver
  <2> HIDE DEF key
  <2>3. CASE Ask(key, 0, FALSE, lpLoading)
    BY <1>0, <2>1, <2>3, AskKeepsLog
  <2>4. CASE Ask(key, lpCursor, lpMore, lpLoading)
    BY <1>0, <2>1, <2>4, AskKeepsLog
  <2> QED BY <2>2, <2>3, <2>4
<1>5. ASSUME LoadMore
      PROVE  LogInv'
  <2> DEFINE key == [lpKey EXCEPT !.cursor = lpCursor, !.auto = FALSE]
  <2>1. /\ key \in LogKey /\ key.cursor = lpCursor /\ key.token <= lpClicks + 1
        /\ key.view = lpKey.view
    <3>1. key.token = lpKey.token /\ key.cursor = lpCursor /\ key.view = lpKey.view
      BY <1>f
    <3>2. key \in LogKey
      BY <1>0, <1>f DEF LogKey
    <3> HIDE DEF key
    <3> QED BY <1>t, <3>1, <3>2
  <2>2. Ask(key, lpCursor, lpMore, TRUE)
    BY <1>5 DEF LoadMore
  <2> HIDE DEF key
  <2> QED BY <1>0, <2>1, <2>2, AskKeepsLog
<1>6. ASSUME PollTail
      PROVE  LogInv'
  <2>1. lpFetching \cup {lpKey} \in SUBSET LogKey
    BY <1>0
  <2>2. Render(lpKey, lpCache, lpFetching \cup {lpKey}, lpCursor, lpMore,
               lpLoading)
    BY <1>6 DEF PollTail
  <2>3. lpClicks' = lpClicks
    BY <1>6 DEF PollTail
  <2> QED BY <1>0, <2>1, <2>2, <2>3, RenderKeepsLog
<1>7. ASSUME NEW key \in lpFetching, FetchLogEnds(key)
      PROVE  LogInv'
  <2> DEFINE answered == (lpCache \ Cached(lpCache, key)) \cup {LogPage(key)}
             left == lpFetching \ {key}
  <2>1. left \in SUBSET LogKey /\ key \in LogKey
    BY <1>0
  <2>2. /\ answered \in SUBSET LogResponse
        /\ \A response \in answered : IsPage(response)
    BY <1>0, <2>1, AnswersArePages
  <2>3. lpClicks' = lpClicks
    BY <1>7 DEF FetchLogEnds
  <2>4. \/ Render(lpKey, answered, left, lpCursor, lpMore, lpLoading)
        \/ Render(lpKey, lpCache, left, lpCursor, lpMore, lpLoading)
    BY <1>7 DEF FetchLogEnds
  <2> HIDE DEF answered, left
  <2>5. CASE Render(lpKey, answered, left, lpCursor, lpMore, lpLoading)
    BY <1>0, <2>1, <2>2, <2>3, <2>5, RenderKeepsLog
  <2>6. CASE Render(lpKey, lpCache, left, lpCursor, lpMore, lpLoading)
    BY <1>0, <2>1, <2>3, <2>6, RenderKeepsLog
  <2> QED BY <2>4, <2>5, <2>6
<1>8. ASSUME NEW view \in LogViews, LogGrows(view)
      PROVE  LogInv'
  <2>1. lpLines' \in [LogViews -> 0..MaxLogLines]
    BY <1>0, <1>8, LogAssumption DEF LogGrows, LogPagingTypeOK
  <2> QED BY <2>1, <1>8 DEF LogGrows, LogInv, LogPagingTypeOK, OneStretch,
                            AddedOrNext
<1>9. CASE UNCHANGED lpvars
  BY <1>9 DEF lpvars, LogInv, LogPagingTypeOK, OneStretch, AddedOrNext
<1> QED BY <1>1, <1>2, <1>3, <1>4, <1>5, <1>6, <1>7, <1>8, <1>9
        DEF LogPagingNext

LEMMA LogStart == LogPagingInit => LogInv
<1> SUFFICES ASSUME LogPagingInit PROVE LogInv
  OBVIOUS
<1>1. lpKey \in LogKey /\ lpKey.cursor = 0 /\ lpKey.token = 0
  <2>1. PICK view \in LogViews :
           lpKey = [view |-> view, cursor |-> 0, token |-> 0, auto |-> FALSE]
    BY DEF LogPagingInit
  <2>2. 0 \in Cursors /\ 0 \in 0..MaxLogClicks
    BY LogAssumption DEF Cursors
  <2> QED BY <2>1, <2>2 DEF LogKey
<1>2. lpShown = <<>> /\ lpShown \in Seq(LogViews \X (1..MaxLogLines))
  BY EmptySeq DEF LogPagingInit
<1>3. LogPagingTypeOK
  <2>1. 0 \in Cursors /\ 0 \in 0..MaxLogClicks
    BY LogAssumption DEF Cursors
  <2> QED BY <1>1, <1>2, <2>1 DEF LogPagingInit, LogPagingTypeOK
<1> QED BY <1>1, <1>2, <1>3
        DEF LogPagingInit, LogInv, OneStretch, AddedOrNext

THEOREM LogIsTyped == LogPagingSpec => []LogPagingTypeOK
<1>1. LogInv => LogPagingTypeOK
  BY DEF LogInv
<1> QED BY <1>1, LogStart, LogStep, PTL DEF LogPagingSpec

THEOREM LogIsOneStretch == LogPagingSpec => []OneStretch
<1>1. LogInv => OneStretch
  BY DEF LogInv
<1> QED BY <1>1, LogStart, LogStep, PTL DEF LogPagingSpec
=============================================================================
