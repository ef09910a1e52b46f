-------------------------- MODULE ReconcileProofs --------------------------
(***************************************************************************)
(* Theorems about Reconcile, for every number of writes, page instances    *)
(* and intervals: in every case, type correctness, that no chain waits in  *)
(* vain and that an abandoned chain stops and claims nothing; and, when no *)
(* page reconciles silently, that the dialog stays locked until its write  *)
(* settles, that reports are real, that they stay on their page, and that  *)
(* an operator who stays gets one; and that reports are real beside silent *)
(* chains, too, if nobody leaves a page in the middle of a request.        *)
(***************************************************************************)
EXTENDS Reconcile, TLAPS

LEMMA NoDialogType == NoDialog \in Dialog
BY BoundsAssumption DEF NoDialog, Dialog

LEMMA LockedType ==
    ASSUME TypeOK, NEW o \in Ops
    PROVE  /\ Locked(o) \in Dialog
           /\ Locked(o).shows = dialog.shows
           /\ Locked(o).page = dialog.page
           /\ Locked(o).op = o
           /\ Locked(o).busy = TRUE
<1>1. dialog \in Dialog /\ o \in 0..MaxOps
  BY BoundsAssumption DEF TypeOK, Ops
<1> QED BY <1>1 DEF Locked, Dialog

LEMMA SaysType ==
    ASSUME TypeOK, NEW o \in Ops, NEW m \in Messages
    PROVE  /\ Says(m, o) \in Dialog
           /\ Says(m, o).shows = m
           /\ Says(m, o).op = o
           /\ Says(m, o).page = home[o]
           /\ Says(m, o).busy = FALSE
<1>1. home[o] \in 0..MaxPages /\ o \in 0..MaxOps
  BY BoundsAssumption DEF TypeOK, Ops
<1> QED BY <1>1 DEF Says, Dialog

(* The dialog after a handler has spoken or has closed it. *)
DialogOK(d) ==
    /\ d \in Dialog
    /\ d.shows = "form" => d.page \in Pages
    /\ d.shows \in Messages => d.op \in Ops

LEMMA ReleasedType == TypeOK => DialogOK(Released)
<1> SUFFICES ASSUME TypeOK PROVE DialogOK(Released)
  OBVIOUS
<1>1. NoDialog.shows = "nothing" /\ "nothing" \notin Messages
  BY DEF NoDialog, Messages, Reports
<1> QED BY <1>1, NoDialogType DEF Released, DialogOK, TypeOK

LEMMA MessageType ==
    ASSUME TypeOK, NEW o \in Ops, NEW m \in Messages
    PROVE  DialogOK(Says(m, o))
<1>1. m # "form"
  BY DEF Messages, Reports
<1> QED BY <1>1, SaysType DEF DialogOK

LEMMA WordingType ==
    ASSUME NEW o \in Ops, NEW outcome
    PROVE  Wording(o, outcome) \in Reports /\ Wording(o, outcome) \in Messages
BY DEF Wording, Messages, Reports

(* A refetch: somebody's fetch is in flight, and what each chain waits for *)
(* is well typed.                                                          *)
LEMMA ReadStartsType ==
    ASSUME TypeOK, NEW o \in Ops, ReadStarts(o)
    PROVE  /\ query' \in [reader : 0..MaxOps,
                          sees : {"idle", "unread"} \union Rows]
           /\ read' \in [Ops -> Listed \union {"waiting"}]
<1>1. o \in 0..MaxOps
  BY BoundsAssumption DEF Ops
<1> QED BY <1>1 DEF ReadStarts, TypeOK

LEMMA RowBecomesType ==
    ASSUME TypeOK, NEW r \in Rows, NEW a, RowBecomes(r, a)
    PROVE  row' \in Rows /\ since' \in [Ops -> SUBSET Rows]
BY DEF RowBecomes, TypeOK

LEMMA ReconcileType ==
    ASSUME TypeOK, NEW o \in Ops, phase[o] = "sent",
           NEW manner \in {"report", "silent", "blind"}, Reconcile(o, manner),
           DialogOK(dialog'), told' \subseteq Ops
    PROVE  TypeOK'
<1>1. home[o] \in Pages /\ o \in 0..MaxOps
  BY BoundsAssumption DEF TypeOK, Ops
<1>2. latest' \in [Pages -> 0..MaxOps]
  BY <1>1 DEF Reconcile, TypeOK
<1>3. /\ abandoned' \subseteq Ops
      /\ phase' \in [Ops -> {"unused", "sent", "reading", "resting", "done"}]
      /\ how' \in [Ops -> {"report", "silent", "blind"}]
  BY DEF Reconcile, TypeOK
<1>4. \A p \in Ops : phase'[p] # "unused" => home'[p] \in Pages
  BY <1>1 DEF Reconcile, TypeOK
<1>5. ReadStarts(o)
  BY DEF Reconcile
<1> QED
  BY <1>2, <1>3, <1>4, <1>5, ReadStartsType
     DEF Reconcile, gateway, TypeOK, DialogOK

LEMMA SettleType ==
    ASSUME TypeOK, NEW o \in Ops, phase[o] # "unused",
           NEW outcome \in {"confirmed", "pending"}, Settle(o, outcome)
    PROVE  TypeOK'
<1>1. DialogOK(dialog') /\ told' \subseteq Ops
  BY ReleasedType, MessageType, WordingType DEF Settle, TypeOK
<1>2. \A p \in Ops : phase'[p] # "unused" => home'[p] \in Pages
  BY DEF Settle, TypeOK
<1> QED BY <1>1, <1>2 DEF Settle, gateway, TypeOK, DialogOK

LEMMA InitType == Init => TypeOK
<1> SUFFICES ASSUME Init PROVE TypeOK
  OBVIOUS
<1>1. dialog \in Dialog /\ dialog.shows = "nothing"
  BY NoDialogType DEF Init, NoDialog
<1>2. page \in Pages
  BY BoundsAssumption DEF Init, Pages
<1> QED
  BY <1>1, <1>2, BoundsAssumption DEF Init, TypeOK, Rows, Listed, Messages, Reports

LEMMA StepType == TypeOK /\ [Next]_vars => TypeOK'
<1> SUFFICES ASSUME TypeOK, [Next]_vars PROVE TypeOK'
  OBVIOUS
<1>1. CASE OpenPopUp
  <2>1. dialog' \in Dialog
    BY <1>1, BoundsAssumption DEF OpenPopUp, Dialog, TypeOK, Pages
  <2>2. dialog'.shows = "form" /\ dialog'.page \in Pages
    BY <1>1 DEF OpenPopUp, TypeOK
  <2> QED
    BY <1>1, <2>1, <2>2
       DEF OpenPopUp, TypeOK, handlers, gateway, Messages, Reports
<1>2. CASE Finish
  <2>1. dialog' \in Dialog /\ dialog'.shows = "nothing"
    BY <1>2, NoDialogType DEF Finish, NoDialog
  <2> QED
    BY <1>2, <2>1 DEF Finish, TypeOK, handlers, gateway, Messages, Reports
<1>3. CASE Leave
  <2>1. page' \in Pages /\ abandoned' \subseteq Ops
    BY <1>3, BoundsAssumption DEF Leave, TypeOK, Pages
  <2> QED BY <1>3, <2>1 DEF Leave, TypeOK, handlers, gateway
<1>4. CASE Background
  <2>1. query' \in [reader : 0..MaxOps, sees : {"idle", "unread"} \union Rows]
    BY <1>4, BoundsAssumption DEF Background
  <2> QED BY <1>4, <2>1 DEF Background, TypeOK, handlers, gateway
<1>5. CASE ServeList
  <2>1. query' \in [reader : 0..MaxOps, sees : {"idle", "unread"} \union Rows]
    BY <1>5 DEF ServeList, TypeOK
  <2> QED BY <1>5, <2>1 DEF ServeList, TypeOK, handlers, gateway
<1>6. ASSUME NEW l \in Listed, ListArrives(l) PROVE TypeOK'
  <2>1. query' \in [reader : 0..MaxOps, sees : {"idle", "unread"} \union Rows]
    BY <1>6, BoundsAssumption DEF ListArrives, Idle
  <2>2. read' \in [Ops -> Listed \union {"waiting"}]
    BY <1>6 DEF ListArrives, TypeOK
  <2> QED BY <1>6, <2>1, <2>2 DEF ListArrives, TypeOK, handlers, gateway
<1>7. CASE Edit
  <2>1. row' \in Rows /\ since' \in [Ops -> SUBSET Rows]
    BY <1>7, RowBecomesType DEF Edit
  <2> QED BY <1>7, <2>1 DEF Edit, TypeOK, handlers
<1>8. ASSUME NEW o \in Ops, HandleYes(o) PROVE TypeOK'
  <2>1. /\ dialog' \in Dialog
        /\ dialog'.shows = "form" /\ dialog'.page = dialog.page
        /\ dialog.page \in Pages
    BY <1>8, LockedType DEF HandleYes, TypeOK
  <2>2. /\ phase' \in [Ops -> {"unused", "sent", "reading", "resting", "done"}]
        /\ wants' \in [Ops -> Rows]
    BY <1>8 DEF HandleYes, TypeOK
  <2>3. /\ home' \in [Ops -> 0..MaxPages]
        /\ \A p \in Ops : phase'[p] # "unused" => home'[p] \in Pages
    <3>1. dialog.page \in 0..MaxPages
      BY <2>1, BoundsAssumption DEF Pages
    <3> QED BY <1>8, <2>1, <3>1 DEF HandleYes, TypeOK
  <2> QED
    BY <1>8, <2>1, <2>2, <2>3
       DEF HandleYes, TypeOK, gateway, Messages, Reports
<1>9. ASSUME NEW o \in Ops, Accept(o) PROVE TypeOK'
  <2>1. wants[o] \in Rows /\ row \in Rows
    BY DEF TypeOK
  <2>2. row' \in Rows /\ since' \in [Ops -> SUBSET Rows]
    BY <1>9, <2>1, RowBecomesType DEF Accept
  <2>3. reply' \in [Ops -> {"none", "accepted", "refused"}] /\ pending' \subseteq Ops
    BY <1>9 DEF Accept, TypeOK
  <2> QED BY <1>9, <2>2, <2>3 DEF Accept, TypeOK
<1>10. ASSUME NEW o \in Ops, Refuse(o) PROVE TypeOK'
  BY <1>10 DEF Refuse, TypeOK, gateway
<1>11. ASSUME NEW o \in Ops, Apply(o) PROVE TypeOK'
  <2>1. wants[o] \in Rows
    BY DEF TypeOK
  <2>2. row' \in Rows /\ since' \in [Ops -> SUBSET Rows]
    BY <1>11, <2>1, RowBecomesType DEF Apply
  <2> QED BY <1>11, <2>2 DEF Apply, TypeOK, handlers
<1>12. ASSUME NEW o \in Ops, Report(o) PROVE TypeOK'
  <2>1. DialogOK(dialog') /\ told' \subseteq Ops
    BY <1>12 DEF Report, TypeOK, DialogOK
  <2> QED BY <1>12, <2>1, ReconcileType DEF Report
<1>13. ASSUME NEW o \in Ops, ReconcileSilently(o) PROVE TypeOK'
  <2>1. "own" \in Messages
    BY DEF Messages
  <2>2. DialogOK(dialog') /\ told' \subseteq Ops
    BY <1>13, <2>1, MessageType
       DEF ReconcileSilently, OwnMessage, PagePopUp, TypeOK, DialogOK
  <2>3. PICK manner \in {"silent", "blind"} : Reconcile(o, manner)
    BY <1>13 DEF ReconcileSilently
  <2>4. phase[o] = "sent"
    BY <1>13 DEF ReconcileSilently
  <2> QED BY <2>2, <2>3, <2>4, ReconcileType
<1>14. ASSUME NEW o \in Ops, ShowError(o) PROVE TypeOK'
  <2>1. "own" \in Messages
    BY DEF Messages
  <2>2. DialogOK(dialog') /\ told' \subseteq Ops
    BY <1>14, <2>1, MessageType, ReleasedType
       DEF ShowError, OwnMessage, PagePopUp, TypeOK
  <2>3. \A p \in Ops : phase'[p] # "unused" => home'[p] \in Pages
    BY <1>14 DEF ShowError, TypeOK
  <2> QED BY <1>14, <2>2, <2>3 DEF ShowError, TypeOK, DialogOK, gateway
<1>15. ASSUME NEW o \in Ops,
              ConfirmBlindly(o) \/ Confirm(o) \/ GiveUp(o) \/ Abandon(o)
       PROVE  TypeOK'
  <2>1. phase[o] # "unused"
    BY <1>15 DEF ConfirmBlindly, Confirm, GiveUp, Abandon, Answered
  <2>2. Settle(o, "confirmed") \/ Settle(o, "pending")
    BY <1>15 DEF ConfirmBlindly, Confirm, GiveUp, Abandon
  <2> QED BY <2>1, <2>2, SettleType
<1>16. ASSUME NEW o \in Ops, Sleep(o) PROVE TypeOK'
  <2>1. left' \in [Ops -> 0..Intervals]
    BY <1>16, BoundsAssumption DEF Sleep, BudgetSpent, TypeOK
  <2>2. /\ phase' \in [Ops -> {"unused", "sent", "reading", "resting", "done"}]
        /\ \A p \in Ops : phase'[p] # "unused" => home'[p] \in Pages
    BY <1>16 DEF Sleep, Answered, TypeOK
  <2> QED BY <1>16, <2>1, <2>2 DEF Sleep, TypeOK, gateway
<1>17. ASSUME NEW o \in Ops, ReadAgain(o) PROVE TypeOK'
  <2>1. /\ phase' \in [Ops -> {"unused", "sent", "reading", "resting", "done"}]
        /\ \A p \in Ops : phase'[p] # "unused" => home'[p] \in Pages
    BY <1>17 DEF ReadAgain, TypeOK
  <2>2. ReadStarts(o)
    BY <1>17 DEF ReadAgain
  <2> QED BY <1>17, <2>1, <2>2, ReadStartsType DEF ReadAgain, TypeOK, gateway
<1>18. CASE UNCHANGED vars
  BY <1>18 DEF vars, handlers, gateway, TypeOK
<1> QED
  BY <1>1, <1>2, <1>3, <1>4, <1>5, <1>6, <1>7, <1>8, <1>9, <1>10, <1>11, <1>12,
     <1>13, <1>14, <1>15, <1>16, <1>17, <1>18 DEF Next, Step

(* Every reachable state is well typed: a locked dialog, a message and a   *)
(* fetch are always of a write there is, and no chain reads more often     *)
(* than its schedule says.                                                 *)
THEOREM TypeCorrect == Spec => []TypeOK
BY InitType, StepType, PTL DEF Spec

-----------------------------------------------------------------------------
(***************************************************************************)
(* In every case.                                                          *)
(***************************************************************************)

(* The steps of a handler that settles, and of one that starts a chain.    *)
LEMMA Settles ==
    ASSUME NEW o \in Ops,
           ConfirmBlindly(o) \/ Confirm(o) \/ GiveUp(o) \/ Abandon(o)
    PROVE  /\ \E outcome \in {"confirmed", "pending"} : Settle(o, outcome)
           /\ phase[o] \in {"reading", "resting"}
BY DEF ConfirmBlindly, Confirm, GiveUp, Abandon, Answered

LEMMA Starts ==
    ASSUME NEW o \in Ops, Report(o) \/ ReconcileSilently(o)
    PROVE  /\ \E manner \in {"report", "silent", "blind"} : Reconcile(o, manner)
           /\ phase[o] = "sent"
BY DEF Report, ReconcileSilently

(* NobodyWaitsInVain is inductive: a cancelled fetch answers its caller.   *)
LEMMA StepWaits ==
    TypeOK /\ NobodyWaitsInVain /\ [Next]_vars => NobodyWaitsInVain'
<1> SUFFICES ASSUME TypeOK, NobodyWaitsInVain, [Next]_vars
             PROVE  NobodyWaitsInVain'
  OBVIOUS
<1> USE DEF NobodyWaitsInVain
<1>1. CASE OpenPopUp \/ Finish \/ Leave \/ Edit
  BY <1>1 DEF OpenPopUp, Finish, Leave, Edit, handlers
<1>2. CASE Background
  BY <1>2 DEF Background, Idle, handlers
<1>3. CASE ServeList
  BY <1>3 DEF ServeList, handlers, TypeOK, Rows
<1>4. ASSUME NEW l \in Listed, ListArrives(l) PROVE NobodyWaitsInVain'
  BY <1>4 DEF ListArrives, handlers, TypeOK, Listed, Rows
<1>5. ASSUME NEW o \in Ops,
             HandleYes(o) \/ Accept(o) \/ Refuse(o) \/ Apply(o) \/ ShowError(o)
      PROVE  NobodyWaitsInVain'
  BY <1>5 DEF HandleYes, Accept, Refuse, Apply, ShowError, handlers, TypeOK
<1>6. ASSUME NEW o \in Ops, ReadStarts(o),
             \A p \in Ops \ {o} : phase'[p] = phase[p]
      PROVE  NobodyWaitsInVain'
  BY <1>6 DEF ReadStarts, TypeOK, Listed, Rows
<1>7. ASSUME NEW o \in Ops, Report(o) \/ ReconcileSilently(o)
      PROVE  NobodyWaitsInVain'
  <2>1. ReadStarts(o) /\ \A p \in Ops \ {o} : phase'[p] = phase[p]
    BY <1>7, Starts DEF Reconcile, TypeOK
  <2> QED BY <1>6, <2>1
<1>8. ASSUME NEW o \in Ops,
             ConfirmBlindly(o) \/ Confirm(o) \/ GiveUp(o) \/ Abandon(o)
      PROVE  NobodyWaitsInVain'
  BY <1>8, Settles DEF Settle, TypeOK
<1>9. ASSUME NEW o \in Ops, Sleep(o) PROVE NobodyWaitsInVain'
  BY <1>9 DEF Sleep, TypeOK
<1>10. ASSUME NEW o \in Ops, ReadAgain(o) PROVE NobodyWaitsInVain'
  <2>1. ReadStarts(o) /\ \A p \in Ops \ {o} : phase'[p] = phase[p]
    BY <1>10 DEF ReadAgain, TypeOK
  <2> QED BY <1>6, <2>1
<1>11. CASE UNCHANGED vars
  BY <1>11 DEF vars, handlers
<1> QED
  BY <1>1, <1>2, <1>3, <1>4, <1>5, <1>7, <1>8, <1>9, <1>10, <1>11 DEF Next, Step

(* refetch leaves nobody waiting: whatever chains and background reads     *)
(* cancel each other's fetches, a chain that waits will be answered.       *)
THEOREM ChainsAreAnswered == Spec => []NobodyWaitsInVain
<1>1. Init => NobodyWaitsInVain
  BY DEF Init, NobodyWaitsInVain
<1> QED BY <1>1, TypeCorrect, StepWaits, PTL DEF Spec

LEMMA StepPages == TypeOK /\ PagesInOrder /\ [Next]_vars => PagesInOrder'
<1> SUFFICES ASSUME TypeOK, PagesInOrder, [Next]_vars PROVE PagesInOrder'
  OBVIOUS
<1> USE DEF PagesInOrder
<1>0. NoDialog.page <= page /\ page \in Nat
  BY BoundsAssumption DEF NoDialog, TypeOK, Pages
<1>1. CASE OpenPopUp \/ Finish
  BY <1>0, <1>1 DEF OpenPopUp, Finish, handlers
<1>2. CASE Leave
  <2>1. dialog.page \in Nat /\ \A o \in Ops : home[o] \in Nat
    BY BoundsAssumption DEF TypeOK, Dialog
  <2> QED BY <1>0, <1>2, <2>1 DEF Leave, handlers
<1>3. CASE Background \/ ServeList \/ Edit \/ \E l \in Listed : ListArrives(l)
  BY <1>3 DEF Background, ServeList, Edit, ListArrives, handlers
<1>4. ASSUME NEW o \in Ops, HandleYes(o) PROVE PagesInOrder'
  <2>1. dialog'.page = dialog.page
    BY <1>4, LockedType DEF HandleYes
  <2> QED BY <1>4, <2>1 DEF HandleYes, TypeOK
<1>5. ASSUME NEW o \in Ops, Accept(o) \/ Refuse(o) \/ Apply(o) \/ Report(o)
                             \/ Sleep(o) \/ ReadAgain(o)
      PROVE  PagesInOrder'
  <2>1. UNCHANGED <<page, dialog, home>>
    BY <1>5
       DEF Accept, Refuse, Apply, Report, Reconcile, Sleep, ReadAgain, handlers
  <2> QED BY <2>1
<1>6. ASSUME NEW o \in Ops, UNCHANGED <<page, home>>,
             \/ dialog' = dialog
             \/ dialog' = Released
             \/ \E m \in Messages : dialog' = Says(m, o)
      PROVE  PagesInOrder'
  <2>1. dialog'.page <= page
    <3>1. CASE dialog' \in {dialog, Released}
      BY <1>0, <1>6, <3>1 DEF Released
    <3>2. ASSUME NEW m \in Messages, dialog' = Says(m, o)
          PROVE  dialog'.page <= page
      BY <3>2, SaysType
    <3> QED BY <1>6, <3>1, <3>2
  <2> QED BY <1>6, <2>1
<1>7. ASSUME NEW o \in Ops, ReconcileSilently(o) \/ ShowError(o)
      PROVE  PagesInOrder'
  <2>1. "own" \in Messages
    BY DEF Messages
  <2> QED
    BY <1>6, <1>7, <2>1
       DEF ReconcileSilently, ShowError, OwnMessage, PagePopUp, Reconcile
<1>8. ASSUME NEW o \in Ops,
             ConfirmBlindly(o) \/ Confirm(o) \/ GiveUp(o) \/ Abandon(o)
      PROVE  PagesInOrder'
  BY <1>6, <1>8, Settles, WordingType DEF Settle
<1>9. CASE UNCHANGED vars
  BY <1>9 DEF vars, handlers
<1> QED
  BY <1>1, <1>2, <1>3, <1>4, <1>5, <1>7, <1>8, <1>9 DEF Next, Step

LEMMA StepLatest ==
    TypeOK /\ LatestIsOfItsPage /\ [Next]_vars => LatestIsOfItsPage'
<1> SUFFICES ASSUME TypeOK, LatestIsOfItsPage, [Next]_vars
             PROVE  LatestIsOfItsPage'
  OBVIOUS
<1> USE DEF LatestIsOfItsPage
<1>1. CASE OpenPopUp \/ Finish \/ Leave \/ Edit \/ Background \/ ServeList
           \/ \E l \in Listed : ListArrives(l)
  BY <1>1 DEF OpenPopUp, Finish, Leave, Edit, Background, ServeList, ListArrives,
              handlers
<1>2. ASSUME NEW o \in Ops, HandleYes(o) PROVE LatestIsOfItsPage'
  BY <1>2 DEF HandleYes, TypeOK
<1>3. ASSUME NEW o \in Ops, Accept(o) \/ Refuse(o) \/ Apply(o)
      PROVE  LatestIsOfItsPage'
  BY <1>3 DEF Accept, Refuse, Apply, handlers
<1>4. ASSUME NEW o \in Ops, phase'[o] \in {"resting", "reading", "done"},
             phase' = [phase EXCEPT ![o] = phase'[o]], UNCHANGED <<home, latest>>
      PROVE  LatestIsOfItsPage'
  BY <1>4 DEF TypeOK
<1>5. ASSUME NEW o \in Ops, ShowError(o) \/ Sleep(o) \/ ReadAgain(o)
      PROVE  LatestIsOfItsPage'
  BY <1>4, <1>5 DEF ShowError, Sleep, ReadAgain, TypeOK
<1>6. ASSUME NEW o \in Ops,
             ConfirmBlindly(o) \/ Confirm(o) \/ GiveUp(o) \/ Abandon(o)
      PROVE  LatestIsOfItsPage'
  BY <1>4, <1>6, Settles DEF Settle, TypeOK
<1>7. ASSUME NEW o \in Ops, Report(o) \/ ReconcileSilently(o)
      PROVE  LatestIsOfItsPage'
  <2>1. PICK manner \in {"report", "silent", "blind"} : Reconcile(o, manner)
    BY <1>7, Starts
  <2> QED BY <2>1 DEF Reconcile, TypeOK
<1>8. CASE UNCHANGED vars
  BY <1>8 DEF vars, handlers
<1> QED
  BY <1>1, <1>2, <1>3, <1>5, <1>6, <1>7, <1>8 DEF Next, Step

(* An aborted chain stays in the past: pages and chains are never reused.  *)
LEMMA StepAbandoned ==
    TypeOK /\ ChainInv /\ [Next]_vars => AbandonedIsPast'
<1> SUFFICES ASSUME TypeOK, ChainInv, [Next]_vars PROVE AbandonedIsPast'
  OBVIOUS
<1> USE DEF ChainInv, AbandonedIsPast
<1>0. page \in Nat /\ \A o \in Ops : home[o] \in Nat
  BY BoundsAssumption DEF TypeOK, Pages
<1>1. CASE OpenPopUp \/ Finish \/ Edit \/ Background \/ ServeList
           \/ \E l \in Listed : ListArrives(l)
  BY <1>1 DEF OpenPopUp, Finish, Edit, Background, ServeList, ListArrives, handlers
<1>2. CASE Leave
  <2>1. \A o \in Ops : Running(o) /\ latest[page] = o => home[o] < page'
    BY <1>0, <1>2 DEF Leave, LatestIsOfItsPage, TypeOK
  <2>2. \A o \in Ops : home[o] < page => home[o] < page'
    BY <1>0, <1>2 DEF Leave
  <2> QED BY <1>2, <2>1, <2>2 DEF Leave, Running, handlers, TypeOK
<1>3. ASSUME NEW o \in Ops, HandleYes(o) PROVE AbandonedIsPast'
  BY <1>3 DEF HandleYes, TypeOK
<1>4. ASSUME NEW o \in Ops, Accept(o) \/ Refuse(o) \/ Apply(o)
      PROVE  AbandonedIsPast'
  BY <1>4 DEF Accept, Refuse, Apply, handlers
<1>5. ASSUME NEW o \in Ops, phase'[o] \in {"resting", "reading", "done"},
             phase' = [phase EXCEPT ![o] = phase'[o]],
             UNCHANGED <<page, home, latest, abandoned>>
      PROVE  AbandonedIsPast'
  BY <1>5 DEF TypeOK
<1>6. ASSUME NEW o \in Ops, ShowError(o) \/ Sleep(o) \/ ReadAgain(o)
      PROVE  AbandonedIsPast'
  BY <1>5, <1>6 DEF ShowError, Sleep, ReadAgain, TypeOK
<1>7. ASSUME NEW o \in Ops,
             ConfirmBlindly(o) \/ Confirm(o) \/ GiveUp(o) \/ Abandon(o)
      PROVE  AbandonedIsPast'
  BY <1>5, <1>7, Settles DEF Settle, TypeOK
<1>8. ASSUME NEW o \in Ops, Report(o) \/ ReconcileSilently(o)
      PROVE  AbandonedIsPast'
  <2>1. PICK manner \in {"report", "silent", "blind"} : Reconcile(o, manner)
    BY <1>8, Starts
  <2>2. phase[o] = "sent" /\ home[o] \in Pages
    BY <1>8, Starts DEF TypeOK
  <2>3. ASSUME NEW p \in abandoned'
        PROVE  /\ phase'[p] \notin {"unused", "sent"}
               /\ home'[p] < page' \/ latest'[home'[p]] # p
    <3>1. CASE p \in abandoned
      <4>1. p # o
        BY <2>2, <3>1
      <4> QED BY <2>1, <2>2, <3>1, <4>1 DEF Reconcile, TypeOK
    <3>2. CASE p \in Ops /\ Running(p) /\ latest[home[o]] = p
      <4>1. p # o /\ home[p] = home[o]
        BY <2>2, <3>2 DEF Running, LatestIsOfItsPage
      <4> QED BY <2>1, <2>2, <3>2, <4>1 DEF Reconcile, Running, TypeOK
    <3> QED BY <2>1, <3>1, <3>2 DEF Reconcile
  <2> QED BY <2>3
<1>9. CASE UNCHANGED vars
  BY <1>9 DEF vars, handlers
<1> QED
  BY <1>1, <1>2, <1>3, <1>4, <1>6, <1>7, <1>8, <1>9 DEF Next, Step

LEMMA InitChain == Init => ChainInv
<1> SUFFICES ASSUME Init PROVE ChainInv
  OBVIOUS
<1>1. PagesInOrder
  BY DEF Init, PagesInOrder, NoDialog
<1>2. LatestIsOfItsPage /\ AbandonedIsPast
  BY BoundsAssumption DEF Init, LatestIsOfItsPage, AbandonedIsPast, Ops
<1> QED BY <1>1, <1>2 DEF ChainInv

LEMMA StepChain == TypeOK /\ ChainInv /\ [Next]_vars => ChainInv'
BY StepPages, StepLatest, StepAbandoned DEF ChainInv

(* Pages and chains are numbered for good: what was aborted is past.       *)
THEOREM ChainInvariant == Spec => [](TypeOK /\ ChainInv)
<1>1. TypeOK /\ ChainInv /\ [Next]_vars => (TypeOK /\ ChainInv)'
  BY StepType, StepChain
<1> QED BY <1>1, InitType, InitChain, PTL DEF Spec

LEMMA StepStops ==
    ASSUME TypeOK, ChainInv, [Next]_vars, NEW o \in abandoned,
           phase'[o] # phase[o]
    PROVE  phase'[o] = "done"
<1>1. o \in Ops /\ phase[o] \notin {"unused", "sent"}
  BY DEF ChainInv, AbandonedIsPast, TypeOK
<1>2. CASE OpenPopUp \/ Finish \/ Leave \/ Edit \/ Background \/ ServeList
           \/ \E l \in Listed : ListArrives(l)
  BY <1>2 DEF OpenPopUp, Finish, Leave, Edit, Background, ServeList, ListArrives,
              handlers
<1>3. ASSUME NEW p \in Ops, Accept(p) \/ Refuse(p) \/ Apply(p)
      PROVE  phase'[o] = "done"
  BY <1>3 DEF Accept, Refuse, Apply, handlers
<1>4. ASSUME NEW p \in Ops, phase[p] \in {"unused", "sent"},
             \E to : phase' = [phase EXCEPT ![p] = to]
      PROVE  phase'[o] = "done"
  BY <1>1, <1>4 DEF TypeOK
<1>5. ASSUME NEW p \in Ops, HandleYes(p) \/ ShowError(p)
      PROVE  phase'[o] = "done"
  BY <1>4, <1>5 DEF HandleYes, ShowError
<1>6. ASSUME NEW p \in Ops, Report(p) \/ ReconcileSilently(p)
      PROVE  phase'[o] = "done"
  BY <1>4, <1>6, Starts DEF Reconcile
<1>7. ASSUME NEW p \in Ops,
             ConfirmBlindly(p) \/ Confirm(p) \/ GiveUp(p) \/ Abandon(p)
      PROVE  phase'[o] = "done"
  BY <1>1, <1>7, Settles DEF Settle, TypeOK
<1>8. ASSUME NEW p \in Ops, Sleep(p) \/ ReadAgain(p)
      PROVE  phase'[o] = "done"
  BY <1>1, <1>8 DEF Sleep, ReadAgain, Aborted, TypeOK
<1>9. CASE UNCHANGED vars
  BY <1>9 DEF vars, handlers
<1> QED
  BY <1>2, <1>3, <1>5, <1>6, <1>7, <1>8, <1>9 DEF Next, Step

(* reconcile looks at its signal after every await: a chain that was       *)
(* superseded or unmounted neither sleeps nor reads again.                 *)
THEOREM AbandonedChainsStop == Spec => AbandonedStops
<1>1. TypeOK /\ ChainInv /\ [Next]_vars =>
        [\A o \in abandoned : phase'[o] # phase[o] => phase'[o] = "done"]_vars
  BY StepStops
<1> QED BY <1>1, ChainInvariant, PTL DEF Spec, AbandonedStops

(* A confirmed chain has resolved, and only a running one is ever aborted. *)
ConfirmedIsDone ==
    \A o \in Ops : claimed[o] = "confirmed" =>
        phase[o] = "done" /\ (how[o] = "blind" \/ o \notin abandoned)

LEMMA StepConfirmed ==
    ASSUME TypeOK, ChainInv, ConfirmedIsDone, [Next]_vars
    PROVE  ConfirmedIsDone'
<1> USE DEF ConfirmedIsDone
<1>1. CASE OpenPopUp \/ Finish \/ Background \/ ServeList \/ Edit
           \/ \E l \in Listed : ListArrives(l)
  BY <1>1 DEF OpenPopUp, Finish, Background, ServeList, ListArrives, Edit, handlers
<1>2. CASE Leave
  BY <1>2 DEF Leave, Running, handlers
<1>3. ASSUME NEW o \in Ops, Accept(o) \/ Refuse(o) \/ Apply(o)
      PROVE  ConfirmedIsDone'
  BY <1>3 DEF Accept, Refuse, Apply, handlers
<1>4. ASSUME NEW o \in Ops, phase[o] # "done", \E to : phase' = [phase EXCEPT ![o] = to],
             UNCHANGED <<claimed, how, abandoned>>
      PROVE  ConfirmedIsDone'
  BY <1>4 DEF TypeOK
<1>5. ASSUME NEW o \in Ops, HandleYes(o) \/ ShowError(o) \/ Sleep(o) \/ ReadAgain(o)
      PROVE  ConfirmedIsDone'
  <2>1. phase[o] # "done"
    BY <1>5 DEF HandleYes, ShowError, Sleep, Answered, ReadAgain
  <2> QED BY <1>4, <1>5, <2>1 DEF HandleYes, ShowError, Sleep, ReadAgain
<1>6. ASSUME NEW o \in Ops, Report(o) \/ ReconcileSilently(o)
      PROVE  ConfirmedIsDone'
  <2>1. PICK manner \in {"report", "silent", "blind"} : Reconcile(o, manner)
    BY <1>6, Starts
  <2>2. ASSUME NEW p \in Ops, claimed'[p] = "confirmed"
        PROVE  phase'[p] = "done" /\ (how'[p] = "blind" \/ p \notin abandoned')
    <3>1. claimed[p] = "confirmed" /\ p # o
      BY <1>6, <2>1, <2>2, Starts DEF Reconcile
    <3>2. phase[p] = "done" /\ ~Running(p)
      BY <3>1 DEF Running
    <3> QED BY <2>1, <3>1, <3>2 DEF Reconcile, TypeOK
  <2> QED BY <2>2
<1>7. ASSUME NEW o \in Ops,
             ConfirmBlindly(o) \/ Confirm(o) \/ GiveUp(o) \/ Abandon(o)
      PROVE  ConfirmedIsDone'
  <2>1. PICK outcome \in {"confirmed", "pending"} : Settle(o, outcome)
    BY <1>7, Settles
  <2>2. claimed'[o] = "confirmed" => how[o] = "blind" \/ o \notin abandoned
    BY <1>7 DEF ConfirmBlindly, Confirm, GiveUp, Abandon, Settle, Aborted, TypeOK
  <2> QED BY <2>1, <2>2 DEF Settle, TypeOK
<1>8. CASE UNCHANGED vars
  BY <1>8 DEF vars, handlers
<1> QED
  BY <1>1, <1>2, <1>3, <1>5, <1>6, <1>7, <1>8 DEF Next, Step

(* reconcile looks at its signal before it looks at what it has read: the  *)
(* late read of a superseded or unmounted chain confirms nothing.          *)
THEOREM AbandonedChainsClaimNothing == Spec => []AbandonedNeverConfirms
<1>1. Init => ConfirmedIsDone
  BY DEF Init, ConfirmedIsDone
<1>2. TypeOK /\ ChainInv /\ ConfirmedIsDone /\ [Next]_vars => ConfirmedIsDone'
  BY StepConfirmed
<1>3. TypeOK /\ ConfirmedIsDone => AbandonedNeverConfirms
  BY DEF ConfirmedIsDone, AbandonedNeverConfirms, TypeOK
<1> QED BY <1>1, <1>2, <1>3, ChainInvariant, PTL DEF Spec

(* Whatever a chain that may still report has read, the gateway held after *)
(* it accepted the write.                                                  *)
ReportedReadsAreRecent ==
    \A o \in Ops : /\ phase[o] = "reading" /\ how[o] = "report"
                   /\ o \notin abandoned /\ read[o] \in Rows
                   => read[o] \in since[o]

(* What is reported.  An abandoned chain never is: the page that could say *)
(* it is gone or has a later chain.                                        *)
LEMMA SettlesTruly ==
    ASSUME TypeOK, ChainInv, ReportedReadsAreRecent, NEW o \in Ops,
           ConfirmBlindly(o) \/ Confirm(o) \/ GiveUp(o) \/ Abandon(o)
    PROVE  \/ /\ MayReport(o)
              /\ \E w \in Reports :
                    /\ dialog' = Says(w, o)
                    /\ w = "success" => wants[o] \in since[o]
                    /\ w = "notYet" => since[o] \ {wants[o]} # {}
              /\ told' = told \union {o}
           \/ /\ ~MayReport(o)
              /\ dialog' = Released
              /\ told' = told
<1>1. wants[o] \in Rows
  BY DEF TypeOK
<1>2. Answered(o) /\ MayReport(o) /\ ~Aborted(o) /\ read[o] \in Rows
        => read[o] \in since[o]
  BY DEF ReportedReadsAreRecent, Answered, MayReport, Aborted
<1>3. CASE ConfirmBlindly(o)
  BY <1>3 DEF ConfirmBlindly, MayReport, Settle
<1>4. CASE Confirm(o)
  <2>1. (MayReport(o) => wants[o] \in since[o]) /\ Settle(o, "confirmed")
    BY <1>1, <1>2, <1>4 DEF Confirm
  <2>2. Wording(o, "confirmed") = "success"
    BY DEF Wording
  <2> QED BY <2>1, <2>2 DEF Settle, Reports
<1>5. CASE GiveUp(o)
  <2>1. Settle(o, "pending") /\ Answered(o) /\ ~Aborted(o) /\ read[o] # wants[o]
    BY <1>5 DEF GiveUp
  <2>2. CASE read[o] = "none"
    <3>1. Wording(o, "pending") = "unread"
      BY <2>2 DEF Wording
    <3> QED BY <2>1, <3>1 DEF Settle, Reports
  <2>3. CASE read[o] # "none"
    <3>1. Wording(o, "pending") = "notYet"
      BY <2>3 DEF Wording
    <3>2. read[o] \in Rows
      BY <2>1, <2>3 DEF Answered, TypeOK, Listed
    <3> QED BY <1>2, <2>1, <3>1, <3>2 DEF Settle, Reports
  <2> QED BY <2>2, <2>3
<1>6. CASE Abandon(o)
  <2>1. home[o] < page \/ latest[home[o]] # o
    BY <1>6 DEF Abandon, Aborted, ChainInv, AbandonedIsPast
  <2>2. ~MayReport(o)
    BY <2>1, BoundsAssumption DEF MayReport, TypeOK, Pages
  <2> QED BY <1>6, <2>2 DEF Abandon, Settle
<1> QED BY <1>3, <1>4, <1>5, <1>6

(* Nothing else changes the rows that writes have seen but by adding one,  *)
(* and a report on the screen is of a write that is not submitted again.   *)
LEMMA StepReal ==
    ASSUME TypeOK, ChainInv, ReportedReadsAreRecent, ReportsAreReal, [Next]_vars
    PROVE  ReportsAreReal'
<1> USE DEF ReportsAreReal
<1>0. dialog.shows \in {"success", "notYet"} => dialog.op \in Ops
  BY DEF TypeOK, Messages, Reports
<1>1. ASSUME dialog' = dialog, wants' = wants,
             \A o \in Ops : since[o] \subseteq since'[o]
      PROVE  ReportsAreReal'
  BY <1>0, <1>1
<1>2. ASSUME dialog' = dialog, wants' = wants, since' = since
      PROVE  ReportsAreReal'
  BY <1>2
<1>3. ASSUME dialog'.shows \notin {"success", "notYet"} PROVE ReportsAreReal'
  BY <1>3
<1>4. CASE OpenPopUp \/ Finish
  BY <1>3, <1>4 DEF OpenPopUp, Finish, NoDialog
<1>5. CASE Leave \/ Background \/ ServeList \/ \E l \in Listed : ListArrives(l)
  BY <1>2, <1>5 DEF Leave, Background, ServeList, ListArrives, handlers, gateway
<1>6. ASSUME NEW r \in Rows, NEW acc, RowBecomes(r, acc)
      PROVE  \A o \in Ops : since[o] \subseteq since'[o]
  BY <1>6 DEF RowBecomes
<1>7. CASE Edit
  BY <1>1, <1>6, <1>7 DEF Edit, handlers
<1>8. ASSUME NEW o \in Ops, Accept(o) \/ Apply(o) PROVE ReportsAreReal'
  <2>1. wants[o] \in Rows /\ row \in Rows
    BY DEF TypeOK
  <2>2. \A p \in Ops : since[p] \subseteq since'[p]
    BY <1>6, <1>8, <2>1 DEF Accept, Apply
  <2> QED BY <1>1, <1>8, <2>2 DEF Accept, Apply, handlers
<1>9. ASSUME NEW o \in Ops, Refuse(o) \/ Report(o) \/ Sleep(o) \/ ReadAgain(o)
      PROVE  ReportsAreReal'
  BY <1>2, <1>9 DEF Refuse, Report, Reconcile, Sleep, ReadAgain, gateway
<1>10. ASSUME NEW o \in Ops, HandleYes(o) PROVE ReportsAreReal'
  BY <1>3, <1>10, LockedType DEF HandleYes
<1>11. ASSUME dialog' = Released, wants' = wants, since' = since
       PROVE  ReportsAreReal'
  <2>1. dialog' = dialog \/ dialog'.shows = "nothing"
    BY <1>11 DEF Released, NoDialog
  <2> QED BY <1>2, <1>3, <1>11, <2>1
<1>12. ASSUME NEW o \in Ops, ShowError(o) PROVE ReportsAreReal'
  <2>1. CASE OwnMessage(o)
    <3>1. "own" \in Messages
      BY DEF Messages
    <3>2. Says("own", o).shows = "own"
      BY <3>1, SaysType
    <3> QED BY <1>3, <2>1, <3>2 DEF OwnMessage
  <2>2. CASE dialog' = Released
    BY <1>11, <1>12, <2>2 DEF ShowError, gateway
  <2> QED BY <1>12, <2>1, <2>2 DEF ShowError
<1>13. ASSUME NEW o \in Ops,
              ConfirmBlindly(o) \/ Confirm(o) \/ GiveUp(o) \/ Abandon(o)
       PROVE  ReportsAreReal'
  <2>1. wants' = wants /\ since' = since
    BY <1>13, Settles DEF Settle, gateway
  <2>2. CASE dialog' = Released
    BY <1>11, <2>1, <2>2
  <2>3. ASSUME NEW w \in Reports, dialog' = Says(w, o),
               w = "success" => wants[o] \in since[o],
               w = "notYet" => since[o] \ {wants[o]} # {}
        PROVE  ReportsAreReal'
    <3>0. w \in Messages
      BY DEF Messages
    <3>1. Says(w, o).shows = w /\ Says(w, o).op = o
      BY <3>0, SaysType
    <3>2. dialog'.shows = w /\ dialog'.op = o
      BY <2>3, <3>1
    <3> QED BY <2>1, <2>3, <3>2
  <2> QED BY <1>13, <2>2, <2>3, SettlesTruly
<1>14. ASSUME NEW o \in Ops, ReconcileSilently(o) PROVE ReportsAreReal'
  <2>1. wants' = wants /\ since' = since
    BY <1>14 DEF ReconcileSilently, Reconcile, gateway
  <2>2. dialog' = dialog \/ dialog' = Says("own", o)
    BY <1>14 DEF ReconcileSilently, OwnMessage
  <2>3. Says("own", o).shows = "own"
    BY DEF Says
  <2> QED BY <1>2, <1>3, <2>1, <2>2, <2>3
<1>15. CASE UNCHANGED vars
  BY <1>2, <1>15 DEF vars, handlers, gateway
<1> QED
  BY <1>4, <1>5, <1>7, <1>8, <1>9, <1>10, <1>12, <1>13, <1>14, <1>15
     DEF Next, Step

-----------------------------------------------------------------------------
(***************************************************************************)
(* The plain case.  The locked dialog is what keeps writes apart: while    *)
(* one runs nobody can submit another, so nothing supersedes its chain,    *)
(* and no chain cancels its reads.                                         *)
(***************************************************************************)
Plain == ~SilentPaths

LEMMA RunningUnsettled == \A o \in Ops : Running(o) => Unsettled(o)
BY DEF Running, Unsettled

(* The writes that run are at most one.                                    *)
LEMMA OneUnsettled ==
    ASSUME OneWriteAtATime, NEW o \in Ops, Unsettled(o),
           NEW p \in Ops, Unsettled(p)
    PROVE  p = o
BY DEF OneWriteAtATime

LEMMA StepOneWrite ==
    ASSUME Plain, TypeOK, ChainInv, OneWriteAtATime, [Next]_vars
    PROVE  OneWriteAtATime'
<1> USE DEF OneWriteAtATime
<1>1. CASE OpenPopUp \/ Finish
  <2>1. ~dialog.busy
    BY <1>1 DEF OpenPopUp, Finish, NoDialog
  <2> QED
    BY <1>1, <2>1 DEF OpenPopUp, Finish, handlers, Unsettled, Running
<1>2. CASE Leave \/ Edit
  BY <1>2 DEF Leave, Edit, handlers, Unsettled, Running
<1>3. CASE Background \/ ServeList \/ \E l \in Listed : ListArrives(l)
  <2>1. \/ query'.reader = 0
        \/ query'.reader = query.reader /\ read' = read
    BY <1>3 DEF Background, ServeList, ListArrives, Idle, TypeOK
  <2> QED
    BY <1>3, <2>1 DEF Background, ServeList, ListArrives, handlers, Unsettled, Running
<1>4. ASSUME NEW o \in Ops, HandleYes(o) PROVE OneWriteAtATime'
  <2>1. \A p \in Ops : ~Unsettled(p) /\ ~Running(p)
    BY <1>4, RunningUnsettled DEF HandleYes
  <2>2. dialog'.busy /\ dialog'.op = o
    BY <1>4, LockedType DEF HandleYes
  <2>3. \A p \in Ops : /\ ~Running(p)'
                       /\ Unsettled(p)' => p = o
    BY <1>4, <2>1 DEF HandleYes, Unsettled, Running, TypeOK
  <2>4. query.reader # 0 => phase[query.reader] = "reading" /\ query.reader \in Ops
    BY BoundsAssumption DEF TypeOK, Ops
  <2>5. query'.reader = 0
    BY <1>4, <2>1, <2>4 DEF HandleYes, Unsettled
  <2> QED BY <1>4, <2>2, <2>3, <2>5 DEF HandleYes
<1>5. ASSUME NEW o \in Ops, Accept(o) \/ Refuse(o) PROVE OneWriteAtATime'
  <2>1. \A p \in Ops : Running(p) => reply'[p] = reply[p]
    BY <1>5 DEF Accept, Refuse, Running, TypeOK
  <2> QED BY <1>5, <2>1 DEF Accept, Refuse, Unsettled, Running, gateway
<1>6. ASSUME NEW o \in Ops, Apply(o) PROVE OneWriteAtATime'
  BY <1>6 DEF Apply, handlers, Unsettled, Running
<1>7. ASSUME NEW o \in Ops, Report(o) PROVE OneWriteAtATime'
  <2>1. Unsettled(o) /\ Reconcile(o, "report") /\ dialog' = dialog /\ home[o] \in Pages
    BY <1>7 DEF Report, Unsettled, TypeOK
  <2>2. /\ \A p \in Ops : how'[p] = "report"
        /\ phase'[o] = "reading" /\ latest'[home'[o]] = o /\ reply'[o] = "accepted"
        /\ query'.reader = o /\ read'[o] = "waiting"
    BY <1>7, <2>1 DEF Report, Reconcile, ReadStarts, TypeOK
  <2>3. \A p \in Ops : Unsettled(p)' => p = o
    BY <2>1, OneUnsettled DEF Reconcile, Unsettled, TypeOK
  <2>4. \A p \in Ops : Running(p)' => p = o
    BY <2>3, RunningUnsettled DEF Running, Unsettled
  <2> QED BY <2>1, <2>2, <2>3, <2>4
<1>8. ASSUME NEW o \in Ops, phase[o] \in {"sent", "reading", "resting"},
             phase' = [phase EXCEPT ![o] = "done"],
             query.reader # o,
             UNCHANGED <<how, home, latest, reply, read, query>>
      PROVE  OneWriteAtATime'
  <2>1. \A p \in Ops : ~Unsettled(p)' /\ ~Running(p)'
    BY <1>8, OneUnsettled DEF Unsettled, Running, TypeOK
  <2>2. query.reader # 0 => phase[query.reader] = "reading" /\ query.reader \in Ops
    BY BoundsAssumption DEF TypeOK, Ops
  <2> QED BY <1>8, <2>1, <2>2 DEF TypeOK
<1>9. ASSUME NEW o \in Ops, ShowError(o) PROVE OneWriteAtATime'
  <2>1. query.reader # o
    BY <1>9 DEF ShowError, Ops
  <2> QED BY <1>8, <1>9, <2>1 DEF ShowError
<1>10. ASSUME NEW o \in Ops,
              ConfirmBlindly(o) \/ Confirm(o) \/ GiveUp(o) \/ Abandon(o)
       PROVE  OneWriteAtATime'
  <2>1. query.reader # o
    BY <1>10 DEF ConfirmBlindly, Confirm, GiveUp, Abandon, Answered, Ops
  <2> QED BY <1>8, <1>10, <2>1, Settles DEF Settle
<1>11. ASSUME NEW o \in Ops, Sleep(o) PROVE OneWriteAtATime'
  <2>1. phase[o] = "reading" /\ query.reader # o
    BY <1>11 DEF Sleep, Answered, Ops
  <2>2. \A p \in Ops : /\ Unsettled(p)' => Unsettled(p)
                       /\ Running(p)' => Running(p)
    BY <1>11, <2>1 DEF Sleep, Unsettled, Running, TypeOK
  <2>3. query.reader # 0 => query.reader \in Ops
    BY BoundsAssumption DEF TypeOK, Ops
  <2> QED BY <1>11, <2>1, <2>2, <2>3 DEF Sleep, gateway, TypeOK
<1>12. ASSUME NEW o \in Ops, ReadAgain(o) PROVE OneWriteAtATime'
  <2>1. \A p \in Ops : /\ Unsettled(p)' => Unsettled(p)
                       /\ Running(p)' => Running(p)
    BY <1>12 DEF ReadAgain, Unsettled, Running, TypeOK
  <2>2. phase'[o] = "reading" /\ query'.reader = o /\ read'[o] = "waiting"
    BY <1>12 DEF ReadAgain, ReadStarts, TypeOK
  <2> QED BY <1>12, <2>1, <2>2 DEF ReadAgain
<1>13. ASSUME NEW o \in Ops, ReconcileSilently(o) PROVE OneWriteAtATime'
  BY <1>13 DEF ReconcileSilently, Plain
<1>14. CASE UNCHANGED vars
  BY <1>14 DEF vars, handlers, Unsettled, Running
<1> QED
  BY <1>1, <1>2, <1>3, <1>4, <1>5, <1>6, <1>7, <1>9, <1>10, <1>11, <1>12, <1>13,
     <1>14 DEF Next, Step

(* Nobody cancels a chain's read: a refetch finds no chain's fetch in      *)
(* flight.                                                                 *)
LEMMA NobodyCancelled ==
    ASSUME TypeOK, OneWriteAtATime, NEW o \in Ops, Unsettled(o),
           phase[o] # "reading"
    PROVE  query.reader = 0
<1>1. query.reader # 0 => query.reader \in Ops
  BY BoundsAssumption DEF TypeOK, Ops
<1>2. query.reader # 0 => Unsettled(query.reader)
  BY DEF OneWriteAtATime, Unsettled
<1> QED BY <1>1, <1>2, OneUnsettled DEF OneWriteAtATime

(* A read is of the gateway as it was when the read was served, which is   *)
(* after its write was accepted; the list's cache answers nobody.          *)
LEMMA StepRecent ==
    ASSUME Plain, TypeOK, OneWriteAtATime, ReadsAreRecent, [Next]_vars
    PROVE  ReadsAreRecent'
<1> USE DEF ReadsAreRecent
<1>1. CASE OpenPopUp \/ Finish \/ Leave
  BY <1>1 DEF OpenPopUp, Finish, Leave, handlers, gateway
<1>2. CASE Background
  BY <1>2, BoundsAssumption DEF Background, handlers, gateway, Ops, Rows
<1>3. CASE ServeList
  <2>1. /\ query'.reader = query.reader /\ query'.sees = row
        /\ query.reader # 0 => reply[query.reader] = "accepted"
    BY <1>3, BoundsAssumption
       DEF ServeList, TypeOK, OneWriteAtATime, Running, Ops
  <2>2. \A o \in Ops : o # 0
    BY DEF Ops
  <2> QED BY <1>3, <2>1, <2>2 DEF ServeList, handlers, gateway
<1>4. ASSUME NEW l \in Listed, ListArrives(l) PROVE ReadsAreRecent'
  <2>1. query'.sees \notin Rows
    BY <1>4 DEF ListArrives, Idle, Rows
  <2>2. l \in Rows => l = query.sees
    BY <1>4 DEF ListArrives, Rows
  <2>3. \A o \in Ops : read'[o] = IF o = query.reader THEN l ELSE read[o]
    BY <1>4 DEF ListArrives
  <2> QED BY <1>4, <2>1, <2>2, <2>3 DEF ListArrives, handlers, gateway
<1>5. ASSUME NEW r \in Rows, NEW acc, RowBecomes(r, acc),
             \A o \in Ops : reply'[o] = "accepted" => o \in acc,
             UNCHANGED <<query, phase, read>>
      PROVE  ReadsAreRecent'
  <2>1. \A o \in Ops : since[o] \subseteq since'[o]
    BY <1>5 DEF RowBecomes
  <2>2. \A o \in Ops : reply'[o] = "accepted" => row' \in since'[o]
    BY <1>5 DEF RowBecomes
  <2> QED BY <1>5, <2>1, <2>2
<1>6. CASE Edit
  BY <1>5, <1>6 DEF Edit, Accepted, handlers
<1>7. ASSUME NEW o \in Ops, Accept(o) PROVE ReadsAreRecent'
  <2>1. \A p \in Ops : reply'[p] = "accepted" => p \in Accepted \union {o}
    BY <1>7 DEF Accept, Accepted, TypeOK
  <2>2. wants[o] \in Rows /\ row \in Rows
    BY DEF TypeOK
  <2> QED BY <1>5, <1>7, <2>1, <2>2 DEF Accept
<1>8. ASSUME NEW o \in Ops, Apply(o) PROVE ReadsAreRecent'
  <2>1. wants[o] \in Rows
    BY DEF TypeOK
  <2> QED BY <1>5, <1>8, <2>1 DEF Apply, Accepted, handlers
<1>9. ASSUME NEW o \in Ops, HandleYes(o) \/ ShowError(o) \/ Sleep(o)
      PROVE  ReadsAreRecent'
  <2>1. \A p \in Ops : phase'[p] = "reading" => phase[p] = "reading"
    BY <1>9 DEF HandleYes, ShowError, Sleep, TypeOK
  <2> QED BY <1>9, <2>1 DEF HandleYes, ShowError, Sleep, gateway
<1>10. ASSUME NEW o \in Ops, Refuse(o) PROVE ReadsAreRecent'
  <2>1. \A p \in Ops : reply'[p] = "accepted" => reply[p] = "accepted"
    BY <1>10 DEF Refuse, TypeOK
  <2> QED BY <1>10, <2>1 DEF Refuse, gateway
<1>11. ASSUME NEW o \in Ops,
              ConfirmBlindly(o) \/ Confirm(o) \/ GiveUp(o) \/ Abandon(o)
       PROVE  ReadsAreRecent'
  <2>1. \A p \in Ops : phase'[p] = "reading" => phase[p] = "reading"
    BY <1>11, Settles DEF Settle, TypeOK
  <2> QED BY <1>11, <2>1, Settles DEF Settle, gateway
<1>12. ASSUME NEW o \in Ops, ReadStarts(o), query.reader = 0,
              \A p \in Ops \ {o} : phase'[p] = phase[p],
              UNCHANGED <<reply, row, since>>
       PROVE  ReadsAreRecent'
  <2>1. query'.sees \notin Rows
    BY <1>12 DEF ReadStarts, Rows
  <2>2. \A p \in Ops : read'[p] = IF p = o THEN "waiting" ELSE read[p]
    BY <1>12 DEF ReadStarts, Ops
  <2> QED BY <1>12, <2>1, <2>2 DEF Rows
<1>13. ASSUME NEW o \in Ops, Report(o) \/ ReadAgain(o) PROVE ReadsAreRecent'
  <2>1. query.reader = 0
    BY <1>13, NobodyCancelled DEF Report, ReadAgain, Unsettled
  <2>2. /\ ReadStarts(o) /\ UNCHANGED <<reply, row, since>>
        /\ \A p \in Ops \ {o} : phase'[p] = phase[p]
    BY <1>13 DEF Report, Reconcile, ReadAgain, gateway, TypeOK
  <2> QED BY <1>12, <2>1, <2>2
<1>14. ASSUME NEW o \in Ops, ReconcileSilently(o) PROVE ReadsAreRecent'
  BY <1>14 DEF ReconcileSilently, Plain
<1>15. CASE UNCHANGED vars
  BY <1>15 DEF vars, handlers, gateway
<1> QED
  BY <1>1, <1>2, <1>3, <1>4, <1>6, <1>7, <1>8, <1>9, <1>10, <1>11, <1>13, <1>14,
     <1>15 DEF Next, Step

LEMMA InitPlain == Init => PlainInv
<1> SUFFICES ASSUME Init PROVE PlainInv
  OBVIOUS
<1>1. OneWriteAtATime
  BY DEF Init, OneWriteAtATime, Unsettled, Running
<1>2. ReadsAreRecent
  BY DEF Init, ReadsAreRecent, Ops, Rows
<1> QED BY <1>1, <1>2 DEF PlainInv

LEMMA PlainReads == PlainInv => ReportedReadsAreRecent
BY DEF PlainInv, ReadsAreRecent, ReportedReadsAreRecent

(* Whoever leaves is on another page for good, and a chain that runs is    *)
(* its page's latest: on the page of its write it may report.              *)
LEMMA StepTold ==
    ASSUME Plain, TypeOK, ChainInv, PlainInv, ToldUnlessLeft, [Next]_vars
    PROVE  ToldUnlessLeft'
<1> USE DEF ToldUnlessLeft
<1>1. CASE OpenPopUp \/ Finish \/ Background \/ ServeList \/ Edit
           \/ \E l \in Listed : ListArrives(l)
  BY <1>1 DEF OpenPopUp, Finish, Background, ServeList, ListArrives, Edit, handlers
<1>2. CASE Leave
  <2>1. \A o \in Ops : home[o] # page'
    BY <1>2, BoundsAssumption DEF Leave, ChainInv, PagesInOrder, TypeOK, Pages
  <2> QED BY <1>2, <2>1 DEF Leave, handlers
<1>3. ASSUME NEW o \in Ops, HandleYes(o) PROVE ToldUnlessLeft'
  BY <1>3 DEF HandleYes, TypeOK
<1>4. ASSUME NEW o \in Ops, Accept(o) \/ Refuse(o) \/ Apply(o)
      PROVE  ToldUnlessLeft'
  BY <1>4 DEF Accept, Refuse, Apply, handlers
<1>5. ASSUME NEW o \in Ops, Report(o) \/ Sleep(o) \/ ReadAgain(o)
      PROVE  ToldUnlessLeft'
  BY <1>5 DEF Report, Reconcile, Sleep, ReadAgain, TypeOK
<1>6. ASSUME NEW o \in Ops, o \in told' \/ home[o] # page, told \subseteq told',
             phase' = [phase EXCEPT ![o] = "done"], UNCHANGED <<home, page>>
      PROVE  ToldUnlessLeft'
  BY <1>6 DEF TypeOK
<1>7. ASSUME NEW o \in Ops, ShowError(o) PROVE ToldUnlessLeft'
  <2>1. told \subseteq told' /\ (o \in told' \/ home[o] # page)
    BY <1>7 DEF ShowError, OwnMessage, PagePopUp
  <2> QED BY <1>6, <1>7, <2>1 DEF ShowError
<1>8. ASSUME NEW o \in Ops,
             ConfirmBlindly(o) \/ Confirm(o) \/ GiveUp(o) \/ Abandon(o)
      PROVE  ToldUnlessLeft'
  <2>1. how[o] = "report" /\ latest[home[o]] = o
    BY <1>8, Settles DEF PlainInv, OneWriteAtATime, Running
  <2>2. home[o] = page => MayReport(o)
    BY <2>1 DEF MayReport
  <2>3. told \subseteq told' /\ (o \in told' \/ home[o] # page)
    BY <1>8, <2>2, Settles DEF Settle
  <2> QED BY <1>6, <1>8, <2>3, Settles DEF Settle
<1>9. ASSUME NEW o \in Ops, ReconcileSilently(o) PROVE ToldUnlessLeft'
  BY <1>9 DEF ReconcileSilently, Plain
<1>10. CASE UNCHANGED vars
  BY <1>10 DEF vars, handlers
<1> QED
  BY <1>1, <1>2, <1>3, <1>4, <1>5, <1>7, <1>8, <1>9, <1>10 DEF Next, Step

(* A report replaces the locked dialog of its own write, on its own page.  *)
LEMMA StepHome ==
    ASSUME Plain, TypeOK, ChainInv, PlainInv, [Next]_vars,
           dialog'.shows \in Reports, dialog' # dialog
    PROVE  home[dialog'.op] = page /\ (dialog.busy => dialog.op = dialog'.op)
<1> DEFINE Goal == home[dialog'.op] = page /\ (dialog.busy => dialog.op = dialog'.op)
<1>1. dialog' # NoDialog /\ dialog' # Released
  BY DEF NoDialog, Released, Reports
<1>2. CASE OpenPopUp \/ Finish
  BY <1>1, <1>2 DEF OpenPopUp, Finish, Reports
<1>3. CASE Leave \/ Background \/ ServeList \/ Edit
           \/ \E l \in Listed : ListArrives(l)
  BY <1>3 DEF Leave, Background, ServeList, ListArrives, Edit
<1>4. ASSUME NEW o \in Ops,
             Accept(o) \/ Refuse(o) \/ Apply(o) \/ Report(o) \/ Sleep(o)
             \/ ReadAgain(o)
      PROVE  Goal
  BY <1>4 DEF Accept, Refuse, Apply, Report, Sleep, ReadAgain
<1>5. ASSUME NEW o \in Ops, HandleYes(o) PROVE Goal
  <2>1. dialog'.shows = "form"
    BY <1>5, LockedType DEF HandleYes
  <2> QED BY <2>1 DEF Reports
<1>6. ASSUME NEW o \in Ops, ShowError(o) PROVE Goal
  <2>1. dialog' = Says("own", o) /\ "own" \in Messages
    BY <1>1, <1>6 DEF ShowError, OwnMessage, Messages
  <2>2. dialog'.shows = "own"
    BY <2>1, SaysType
  <2> QED BY <2>2 DEF Reports
<1>7. ASSUME NEW o \in Ops,
             ConfirmBlindly(o) \/ Confirm(o) \/ GiveUp(o) \/ Abandon(o)
      PROVE  Goal
  <2>1. PICK w \in Reports : dialog' = Says(w, o)
    BY <1>1, <1>7, PlainReads, SettlesTruly
  <2>2. w \in Messages
    BY DEF Messages
  <2>3. dialog'.op = o
    BY <2>1, <2>2, SaysType
  <2>4. MayReport(o)
    BY <1>1, <1>7, PlainReads, SettlesTruly
  <2>5. Unsettled(o)
    BY <1>7, Settles DEF Unsettled
  <2> QED BY <2>3, <2>4, <2>5 DEF MayReport, PlainInv, OneWriteAtATime
<1>8. ASSUME NEW o \in Ops, ReconcileSilently(o) PROVE Goal
  BY <1>8 DEF ReconcileSilently, Plain
<1>9. CASE UNCHANGED vars
  BY <1>9 DEF vars
<1> QED
  BY <1>2, <1>3, <1>4, <1>5, <1>6, <1>7, <1>8, <1>9 DEF Next, Step

-----------------------------------------------------------------------------
(* The theorems of the plain case. *)

(* One write at a time, whose reads are of a gateway that has accepted it: *)
(* the invariant the theorems below rest on.                               *)
THEOREM PlainInvariant == Plain /\ Spec => [](TypeOK /\ ChainInv /\ PlainInv)
<1> SUFFICES ASSUME Plain PROVE Spec => [](TypeOK /\ ChainInv /\ PlainInv)
  OBVIOUS
<1>1. TypeOK /\ ChainInv /\ PlainInv /\ [Next]_vars => PlainInv'
  BY StepOneWrite, StepRecent DEF PlainInv
<1> QED BY <1>1, InitPlain, ChainInvariant, PTL DEF Spec

(* handleYes leaves the dialog up and locked until the write has settled:  *)
(* the form cannot be submitted twice, nor another one opened meanwhile.   *)
THEOREM DialogStaysLocked == Plain /\ Spec => []DialogStaysUp
<1>1. PlainInv => DialogStaysUp
  BY DEF PlainInv, OneWriteAtATime, DialogStaysUp
<1> QED BY <1>1, PlainInvariant, PTL

(* report says of a write only what a read of the gateway, issued after    *)
(* the gateway accepted it, has shown.                                     *)
THEOREM ReportsAreTrue == Plain /\ Spec => []ReportsAreReal
<1> SUFFICES ASSUME Plain PROVE Spec => []ReportsAreReal
  OBVIOUS
<1>1. Init => ReportsAreReal
  BY DEF Init, ReportsAreReal, NoDialog
<1>2. TypeOK /\ ChainInv /\ PlainInv /\ ReportsAreReal /\ [Next]_vars
        => ReportsAreReal'
  BY StepReal, PlainReads
<1> QED BY <1>1, <1>2, PlainInvariant, PTL DEF Spec

(* Whoever stays on the page of a write is told how it ended.              *)
THEOREM OperatorIsTold == Plain /\ Spec => []ToldUnlessLeft
<1> SUFFICES ASSUME Plain PROVE Spec => []ToldUnlessLeft
  OBVIOUS
<1>1. Init => ToldUnlessLeft
  BY DEF Init, ToldUnlessLeft
<1>2. TypeOK /\ ChainInv /\ PlainInv /\ ToldUnlessLeft /\ [Next]_vars
        => ToldUnlessLeft'
  BY StepTold
<1> QED BY <1>1, <1>2, PlainInvariant, PTL DEF Spec

(* A report resurrects no dialog on another page and overwrites no other   *)
(* write's.                                                                *)
THEOREM ReportsKeepToTheirPage == Plain /\ Spec => ReportsStayHome
<1> SUFFICES ASSUME Plain PROVE Spec => ReportsStayHome
  OBVIOUS
<1>1. TypeOK /\ ChainInv /\ PlainInv /\ [Next]_vars =>
        [dialog'.shows \in Reports /\ dialog' # dialog =>
            /\ home[dialog'.op] = page
            /\ dialog.busy => dialog.op = dialog'.op]_vars
  BY StepHome
<1> QED BY <1>1, PlainInvariant, PTL DEF Spec, ReportsStayHome

-----------------------------------------------------------------------------
(***************************************************************************)
(* With pages that reconcile silently.  Chains supersede and cancel each   *)
(* other, but each page has one that is not abandoned, and as long as      *)
(* nobody leaves a page in the middle of a form or of a request, that page *)
(* is the one shown: a read that is cancelled is of a chain that cannot    *)
(* report any more.                                                        *)
(***************************************************************************)

(* Whoever leaves a page leaves no form there that could still be sent,    *)
(* and no write that has not been answered.                                *)
StaysToSubmit ==
    page' # page => /\ dialog.shows = "form" => dialog.busy
                    /\ \A o \in Ops : phase[o] # "sent"

Current(o) == Running(o) /\ o \notin abandoned

(* What runs and is not abandoned is its page's latest chain; who has a    *)
(* fetch in flight waits for it; only what was accepted is to be reported. *)
CurrentIsLatest == \A o \in Ops : Current(o) => latest[home[o]] = o
FetchIsAwaited ==
    \A o \in Ops : query.reader = o => phase[o] = "reading" /\ read[o] = "waiting"
ReportsAccepted ==
    \A o \in Ops : Running(o) /\ how[o] = "report" => reply[o] = "accepted"

RunsInv == CurrentIsLatest /\ FetchIsAwaited /\ ReportsAccepted

(* What may still be sent, was sent, or runs is of the page shown.         *)
CurrentIsHere ==
    /\ dialog.shows = "form" /\ ~dialog.busy => dialog.page = page
    /\ \A o \in Ops : phase[o] = "sent" \/ Current(o) => home[o] = page

(* What a chain that may report has read, or will be answered, the gateway *)
(* held after it accepted the write.                                       *)
CurrentReadsAreRecent ==
    /\ \A o \in Ops : reply[o] = "accepted" => row \in since[o]
    /\ \A o \in Ops : query.reader = o /\ query.sees \in Rows
                      /\ reply[o] = "accepted" => query.sees \in since[o]
    /\ ReportedReadsAreRecent

SilentInv == RunsInv /\ CurrentIsHere /\ CurrentReadsAreRecent

(* A chain that starts supersedes its page's; nothing else of a chain that *)
(* goes on changes.                                                        *)
LEMMA ChainStarts ==
    ASSUME TypeOK, NEW o \in Ops, Report(o) \/ ReconcileSilently(o)
    PROVE  /\ phase[o] = "sent" /\ phase'[o] = "reading"
           /\ \A p \in Ops \ {o} : phase'[p] = phase[p] /\ how'[p] = how[p]
           /\ home[o] \in Pages /\ latest'[home[o]] = o
           /\ \A p \in Pages \ {home[o]} : latest'[p] = latest[p]
           /\ abandoned' = abandoned \union {p \in Ops : Running(p)
                                                  /\ latest[home[o]] = p}
           /\ how'[o] = "report" => reply[o] = "accepted"
           /\ ReadStarts(o)
           /\ UNCHANGED <<page, home, wants, reply, gateway>>
<1>1. PICK manner \in {"report", "silent", "blind"} :
        /\ Reconcile(o, manner)
        /\ manner = "report" => reply[o] = "accepted"
  BY DEF Report, ReconcileSilently
<1>2. phase[o] = "sent"
  BY Starts
<1>3. home[o] \in Pages
  BY <1>2 DEF TypeOK
<1> QED BY <1>1, <1>2, <1>3 DEF Reconcile, TypeOK

(* A refetch: one fetch is in flight, awaited by its caller alone.         *)
LEMMA ReadStartsAwaited ==
    ASSUME NEW o \in Ops, ReadStarts(o), phase'[o] = "reading"
    PROVE  /\ query'.reader = o /\ query'.sees = "unread"
           /\ read'[o] = "waiting"
           /\ \A p \in Ops \ {o} : query.reader # p => read'[p] = read[p]
           /\ FetchIsAwaited'
BY DEF ReadStarts, FetchIsAwaited

LEMMA StepRuns ==
    ASSUME TypeOK, ChainInv, RunsInv, [Next]_vars
    PROVE  RunsInv'
<1> USE DEF RunsInv, CurrentIsLatest, FetchIsAwaited, ReportsAccepted, Current
<1>1. CASE OpenPopUp \/ Finish \/ Leave \/ Edit
  BY <1>1 DEF OpenPopUp, Finish, Leave, Edit, handlers, Running
<1>2. CASE Background \/ ServeList \/ \E l \in Listed : ListArrives(l)
  <2>1. /\ query'.reader = 0 \/ (query'.reader = query.reader /\ read' = read)
        /\ UNCHANGED <<phase, how, reply, home, latest, abandoned>>
    BY <1>2 DEF Background, ServeList, ListArrives, Idle, handlers, TypeOK
  <2>2. \A o \in Ops : o # 0
    BY DEF Ops
  <2> QED BY <2>1, <2>2 DEF Running
<1>3. ASSUME NEW o \in Ops, HandleYes(o) \/ Accept(o) \/ Refuse(o)
      PROVE  RunsInv'
  <2>1. /\ phase[o] \in {"unused", "sent"}
        /\ \A p \in Ops : phase'[p] = IF p = o THEN "sent" ELSE phase[p]
        /\ \A p \in Ops \ {o} : home'[p] = home[p] /\ reply'[p] = reply[p]
        /\ UNCHANGED <<query, read, how, latest, abandoned>>
    BY <1>3 DEF HandleYes, Accept, Refuse, TypeOK
  <2> QED BY <2>1 DEF Running
<1>4. ASSUME NEW o \in Ops, Apply(o) PROVE RunsInv'
  BY <1>4 DEF Apply, handlers, Running
<1>5. ASSUME NEW o \in Ops, Report(o) \/ ReconcileSilently(o)
      PROVE  RunsInv'
  <2>1. FetchIsAwaited'
    BY <1>5, ChainStarts, ReadStartsAwaited
  <2>2. ReportsAccepted'
    BY <1>5, ChainStarts DEF Running
  <2>3. ASSUME NEW p \in Ops, Current(p)' PROVE latest'[home'[p]] = p
    <3>1. CASE p = o
      BY <1>5, <3>1, ChainStarts
    <3>2. CASE p # o
      <4>1. Running(p) /\ p \notin abandoned /\ home'[p] = home[p]
        BY <1>5, <2>3, <3>2, ChainStarts DEF Running
      <4>2. latest[home[p]] = p /\ home[p] \in Pages
        BY <4>1 DEF Running, TypeOK
      <4>3. home[p] # home[o]
        BY <1>5, <2>3, <4>1, <4>2, ChainStarts
      <4> QED BY <1>5, <4>1, <4>2, <4>3, ChainStarts
    <3> QED BY <3>1, <3>2
  <2> HIDE DEF FetchIsAwaited, ReportsAccepted
  <2> QED BY <2>1, <2>2, <2>3
<1>6. ASSUME NEW o \in Ops, query.reader # o,
             \A p \in Ops \ {o} : phase'[p] = phase[p],
             phase'[o] = "resting" => phase[o] = "reading",
             phase'[o] # "reading",
             UNCHANGED <<query, read, how, reply, home, latest, abandoned>>
      PROVE  RunsInv'
  BY <1>6 DEF Running
<1>7. ASSUME NEW o \in Ops,
             \/ ShowError(o) \/ Sleep(o) \/ ConfirmBlindly(o) \/ Confirm(o)
             \/ GiveUp(o) \/ Abandon(o)
      PROVE  RunsInv'
  <2>1. query.reader # o
    BY <1>7 DEF ShowError, Sleep, ConfirmBlindly, Confirm, GiveUp, Abandon, Answered
  <2>2. CASE ShowError(o)
    BY <1>6, <2>1, <2>2 DEF ShowError, TypeOK
  <2>3. CASE Sleep(o)
    BY <1>6, <2>1, <2>3 DEF Sleep, Answered, TypeOK
  <2>4. CASE ConfirmBlindly(o) \/ Confirm(o) \/ GiveUp(o) \/ Abandon(o)
    BY <1>6, <2>1, <2>4, Settles DEF Settle, TypeOK
  <2> QED BY <1>7, <2>2, <2>3, <2>4
<1>8. ASSUME NEW o \in Ops, ReadAgain(o) PROVE RunsInv'
  <2>1. /\ \A p \in Ops : Running(p)' = Running(p)
        /\ ReadStarts(o) /\ phase'[o] = "reading"
    BY <1>8 DEF ReadAgain, Running, TypeOK
  <2>2. FetchIsAwaited'
    BY <2>1, ReadStartsAwaited
  <2> HIDE DEF FetchIsAwaited
  <2> QED BY <1>8, <2>1, <2>2 DEF ReadAgain
<1>9. CASE UNCHANGED vars
  BY <1>9 DEF vars, handlers, Running
<1> QED
  BY <1>1, <1>2, <1>3, <1>4, <1>5, <1>7, <1>8, <1>9 DEF Next, Step

(* Leaving a page abandons what runs there.                                *)
LEMMA StepHere ==
    ASSUME TypeOK, ChainInv, RunsInv, CurrentIsHere, [Next]_vars,
           [StaysToSubmit]_vars
    PROVE  CurrentIsHere'
<1> USE DEF CurrentIsHere, Current
<1>1. CASE OpenPopUp \/ Finish
  BY <1>1 DEF OpenPopUp, Finish, NoDialog, handlers, Running
<1>2. CASE Leave
  <2>1. page' # page /\ vars' # vars
    BY <1>2, BoundsAssumption DEF Leave, TypeOK, Pages, vars
  <2>2. \A o \in Ops : ~(phase[o] = "sent" \/ Current(o))'
    BY <1>2, <2>1
       DEF Leave, StaysToSubmit, RunsInv, CurrentIsLatest, handlers, Running
  <2> QED BY <1>2, <2>1, <2>2 DEF Leave, StaysToSubmit
<1>3. CASE Edit \/ Background \/ ServeList \/ \E l \in Listed : ListArrives(l)
  BY <1>3 DEF Edit, Background, ServeList, ListArrives, handlers, Running
<1>4. ASSUME NEW o \in Ops, HandleYes(o) PROVE CurrentIsHere'
  <2>1. dialog'.busy /\ page' = page /\ abandoned' = abandoned
    BY <1>4, LockedType DEF HandleYes
  <2>2. dialog.page = page
    BY <1>4 DEF HandleYes
  <2>3. \A p \in Ops : /\ home'[p] = IF p = o THEN page ELSE home[p]
                       /\ phase'[p] = IF p = o THEN "sent" ELSE phase[p]
    BY <1>4, <2>2 DEF HandleYes, TypeOK
  <2> QED BY <2>1, <2>3 DEF Running
<1>5. ASSUME NEW o \in Ops, Accept(o) \/ Refuse(o) \/ Apply(o)
      PROVE  CurrentIsHere'
  BY <1>5 DEF Accept, Refuse, Apply, handlers, Running
<1>6. ASSUME NEW o \in Ops, phase[o] = "sent" \/ Current(o) \/ phase'[o] = "done",
             \A p \in Ops \ {o} : phase'[p] = phase[p],
             UNCHANGED <<page, home>>, abandoned \subseteq abandoned',
             phase'[o] # "sent",
             \/ dialog' = dialog
             \/ dialog'.shows # "form"
      PROVE  CurrentIsHere'
  BY <1>6 DEF Running
<1>7. ASSUME NEW o \in Ops, NEW m \in Messages, dialog' = Says(m, o)
      PROVE  dialog'.shows # "form"
  <2>1. m # "form"
    BY DEF Messages, Reports
  <2> QED BY <1>7, <2>1, SaysType
<1>8. Released = dialog \/ Released.shows # "form"
  BY DEF Released, NoDialog
<1>9. "own" \in Messages /\ Reports \subseteq Messages
  BY DEF Messages
<1>10. ASSUME NEW o \in Ops, Report(o) \/ ReconcileSilently(o)
       PROVE  CurrentIsHere'
  <2>1. dialog' = dialog \/ dialog'.shows # "form"
    BY <1>7, <1>9, <1>10 DEF Report, ReconcileSilently, OwnMessage
  <2>2. /\ phase[o] = "sent" /\ phase'[o] # "sent"
        /\ \A p \in Ops \ {o} : phase'[p] = phase[p]
        /\ UNCHANGED <<page, home>> /\ abandoned \subseteq abandoned'
    BY <1>10, ChainStarts
  <2> QED BY <1>6, <2>1, <2>2
<1>11. ASSUME NEW o \in Ops, ShowError(o) PROVE CurrentIsHere'
  <2>1. dialog' = dialog \/ dialog'.shows # "form"
    BY <1>7, <1>8, <1>9, <1>11 DEF ShowError, OwnMessage
  <2> QED BY <1>6, <1>11, <2>1 DEF ShowError, TypeOK
<1>12. ASSUME NEW o \in Ops,
              ConfirmBlindly(o) \/ Confirm(o) \/ GiveUp(o) \/ Abandon(o)
       PROVE  CurrentIsHere'
  <2>1. PICK outcome \in {"confirmed", "pending"} : Settle(o, outcome)
    BY <1>12, Settles
  <2>2. dialog' = dialog \/ dialog'.shows # "form"
    BY <1>7, <1>8, <1>9, <2>1, WordingType DEF Settle
  <2> QED BY <1>6, <2>1, <2>2 DEF Settle, TypeOK
<1>13. ASSUME NEW o \in Ops, Sleep(o) \/ ReadAgain(o) PROVE CurrentIsHere'
  BY <1>6, <1>13 DEF Sleep, ReadAgain, Answered, Aborted, Running, TypeOK
<1>14. CASE UNCHANGED vars
  BY <1>14 DEF vars, handlers, Running
<1> QED
  BY <1>1, <1>2, <1>3, <1>4, <1>5, <1>10, <1>11, <1>12, <1>13, <1>14
     DEF Next, Step

(* There is one chain, at most, that is not abandoned.                     *)
LEMMA OneCurrent ==
    ASSUME RunsInv, CurrentIsHere, NEW o \in Ops, Current(o),
           NEW p \in Ops, Current(p)
    PROVE  p = o
BY DEF RunsInv, CurrentIsLatest, CurrentIsHere

(* The chain whose fetch a refetch cancels is abandoned by then.           *)
LEMMA CancelledIsAbandoned ==
    ASSUME TypeOK, RunsInv, CurrentIsHere, NEW o \in Ops,
           Report(o) \/ ReconcileSilently(o) \/ ReadAgain(o),
           NEW p \in Ops, query.reader = p, p # o
    PROVE  p \in abandoned'
<1>1. Running(p)
  BY DEF RunsInv, FetchIsAwaited, Running
<1>2. CASE p \in abandoned
  BY <1>2, ChainStarts DEF ReadAgain
<1>3. CASE p \notin abandoned
  <2>1. Current(p) /\ home[p] = page /\ latest[page] = p
    BY <1>1, <1>3 DEF Current, CurrentIsHere, RunsInv, CurrentIsLatest
  <2>2. CASE Report(o) \/ ReconcileSilently(o)
    <3>1. home[o] = page
      BY <2>2, Starts DEF CurrentIsHere
    <3> QED BY <1>1, <2>1, <2>2, <3>1, ChainStarts
  <2>3. CASE ReadAgain(o)
    <3>1. Current(o)
      BY <2>3 DEF ReadAgain, Current, Running, Aborted
    <3> QED BY <2>1, <3>1, OneCurrent
  <2> QED BY <2>2, <2>3
<1> QED BY <1>2, <1>3

LEMMA StepCurrentReads ==
    ASSUME TypeOK, RunsInv, CurrentIsHere, CurrentReadsAreRecent, [Next]_vars
    PROVE  CurrentReadsAreRecent'
<1> USE DEF CurrentReadsAreRecent, ReportedReadsAreRecent
<1>0. \A o \in Ops : o # 0
  BY DEF Ops
<1>1. CASE OpenPopUp \/ Finish \/ Leave
  BY <1>1 DEF OpenPopUp, Finish, Leave, handlers, gateway
<1>2. CASE Background
  BY <1>0, <1>2 DEF Background, handlers, gateway
<1>3. CASE ServeList
  <2>1. query'.reader = query.reader /\ query'.sees = row
    BY <1>3 DEF ServeList, TypeOK
  <2> QED BY <1>3, <2>1 DEF ServeList, handlers, gateway
<1>4. ASSUME NEW l \in Listed, ListArrives(l) PROVE CurrentReadsAreRecent'
  <2>1. query'.sees \notin Rows
    BY <1>4 DEF ListArrives, Idle, Rows
  <2>2. l \in Rows => l = query.sees
    BY <1>4 DEF ListArrives, Rows
  <2>3. \A o \in Ops : read'[o] = IF o = query.reader THEN l ELSE read[o]
    BY <1>4 DEF ListArrives
  <2>4. \A o \in Ops : phase[o] = "reading" /\ how[o] = "report"
                         => reply[o] = "accepted"
    BY DEF RunsInv, ReportsAccepted, Running
  <2> QED BY <1>4, <2>1, <2>2, <2>3, <2>4 DEF ListArrives, handlers, gateway
<1>5. ASSUME NEW r \in Rows, NEW acc, RowBecomes(r, acc),
             \A o \in Ops : reply'[o] = "accepted" => o \in acc,
             \A o \in Ops : query.reader = o => reply'[o] = reply[o],
             UNCHANGED <<query, phase, how, abandoned, read>>
      PROVE  CurrentReadsAreRecent'
  <2>1. \A o \in Ops : since[o] \subseteq since'[o]
    BY <1>5 DEF RowBecomes
  <2>2. \A o \in Ops : reply'[o] = "accepted" => row' \in since'[o]
    BY <1>5 DEF RowBecomes
  <2> QED BY <1>5, <2>1, <2>2
<1>6. CASE Edit
  BY <1>5, <1>6 DEF Edit, Accepted, handlers
<1>7. ASSUME NEW o \in Ops, Accept(o) PROVE CurrentReadsAreRecent'
  <2>1. \A p \in Ops : reply'[p] = "accepted" => p \in Accepted \union {o}
    BY <1>7 DEF Accept, Accepted, TypeOK
  <2>2. wants[o] \in Rows /\ row \in Rows
    BY DEF TypeOK
  <2>3. query.reader # o
    BY <1>7 DEF Accept, RunsInv, FetchIsAwaited
  <2>4. \A p \in Ops : query.reader = p => reply'[p] = reply[p]
    BY <1>7, <2>3 DEF Accept, TypeOK
  <2> QED BY <1>5, <1>7, <2>1, <2>2, <2>4 DEF Accept
<1>8. ASSUME NEW o \in Ops, Apply(o) PROVE CurrentReadsAreRecent'
  <2>1. wants[o] \in Rows
    BY DEF TypeOK
  <2> QED BY <1>5, <1>8, <2>1 DEF Apply, Accepted, handlers
<1>9. ASSUME NEW o \in Ops, HandleYes(o) \/ ShowError(o) \/ Sleep(o)
      PROVE  CurrentReadsAreRecent'
  <2>1. \A p \in Ops : phase'[p] = "reading" => phase[p] = "reading"
    BY <1>9 DEF HandleYes, ShowError, Sleep, TypeOK
  <2> QED BY <1>9, <2>1 DEF HandleYes, ShowError, Sleep, gateway
<1>10. ASSUME NEW o \in Ops, Refuse(o) PROVE CurrentReadsAreRecent'
  <2>1. \A p \in Ops : reply'[p] = "accepted" => reply[p] = "accepted"
    BY <1>10 DEF Refuse, TypeOK
  <2> QED BY <1>10, <2>1 DEF Refuse, gateway
<1>11. ASSUME NEW o \in Ops,
              ConfirmBlindly(o) \/ Confirm(o) \/ GiveUp(o) \/ Abandon(o)
       PROVE  CurrentReadsAreRecent'
  <2>1. \A p \in Ops : phase'[p] = "reading" => phase[p] = "reading"
    BY <1>11, Settles DEF Settle, TypeOK
  <2> QED BY <1>11, <2>1, Settles DEF Settle, gateway
<1>12. ASSUME NEW o \in Ops, ReadStarts(o), phase'[o] = "reading",
              \A p \in Ops \ {o} : phase'[p] = phase[p] /\ how'[p] = how[p],
              \A p \in Ops \ {o} : query.reader = p => p \in abandoned',
              abandoned \subseteq abandoned',
              UNCHANGED <<reply, row, since>>
       PROVE  CurrentReadsAreRecent'
  <2>1. /\ query'.sees = "unread" /\ read'[o] = "waiting"
        /\ \A p \in Ops \ {o} : query.reader # p => read'[p] = read[p]
    BY <1>12, ReadStartsAwaited
  <2>2. "unread" \notin Rows /\ "waiting" \notin Rows
    BY DEF Rows
  <2> QED BY <1>12, <2>1, <2>2
<1>13. ASSUME NEW o \in Ops, Report(o) \/ ReconcileSilently(o) \/ ReadAgain(o)
       PROVE  CurrentReadsAreRecent'
  <2>1. \A p \in Ops \ {o} : query.reader = p => p \in abandoned'
    BY <1>13, CancelledIsAbandoned
  <2>2. CASE Report(o) \/ ReconcileSilently(o)
    BY <1>12, <2>1, <2>2, ChainStarts DEF gateway
  <2>3. CASE ReadAgain(o)
    BY <1>12, <2>1, <2>3 DEF ReadAgain, gateway, TypeOK
  <2> QED BY <1>13, <2>2, <2>3
<1>14. CASE UNCHANGED vars
  BY <1>14 DEF vars, handlers, gateway
<1> QED
  BY <1>1, <1>2, <1>3, <1>4, <1>6, <1>7, <1>8, <1>9, <1>10, <1>11, <1>13, <1>14
     DEF Next, Step

LEMMA InitSilent == Init => SilentInv
<1> SUFFICES ASSUME Init PROVE SilentInv
  OBVIOUS
<1>1. RunsInv
  BY DEF Init, RunsInv, CurrentIsLatest, FetchIsAwaited, ReportsAccepted,
         Current, Running, Ops
<1>2. CurrentIsHere
  BY DEF Init, CurrentIsHere, Current, Running, NoDialog
<1>3. CurrentReadsAreRecent
  BY DEF Init, CurrentReadsAreRecent, ReportedReadsAreRecent, Ops
<1> QED BY <1>1, <1>2, <1>3 DEF SilentInv

(* With chains that supersede each other and cancel each other's reads,    *)
(* report still says only what a read of the gateway has shown that was    *)
(* issued after it had accepted the write, as long as nobody leaves a page *)
(* in the middle of a form or a request.                                   *)
THEOREM ReportsAreTrueBesideSilentChains ==
    Spec /\ [][StaysToSubmit]_vars => []ReportsAreReal
<1>1. Init => SilentInv /\ ReportsAreReal
  BY InitSilent DEF Init, ReportsAreReal, NoDialog
<1>2. TypeOK /\ ChainInv /\ SilentInv /\ [Next]_vars /\ [StaysToSubmit]_vars
        => SilentInv'
  BY StepRuns, StepHere, StepCurrentReads DEF SilentInv
<1>3. SilentInv => ReportedReadsAreRecent
  BY DEF SilentInv, CurrentReadsAreRecent
<1>4. TypeOK /\ ChainInv /\ ReportedReadsAreRecent /\ ReportsAreReal /\ [Next]_vars
        => ReportsAreReal'
  BY StepReal
<1> QED BY <1>1, <1>2, <1>3, <1>4, ChainInvariant, PTL DEF Spec

(* In particular with the one page instance that nobody leaves.            *)
THEOREM ReportsAreTrueOnOnePage == MaxPages = 1 /\ Spec => []ReportsAreReal
<1> SUFFICES ASSUME MaxPages = 1 PROVE Spec => []ReportsAreReal
  OBVIOUS
<1>1. TypeOK /\ TypeOK' => [StaysToSubmit]_vars
  <2>1. TypeOK /\ TypeOK' => page' = page
    BY DEF TypeOK, Pages
  <2> QED BY <2>1 DEF StaysToSubmit
<1> QED BY <1>1, TypeCorrect, ReportsAreTrueBesideSilentChains, PTL
=============================================================================
