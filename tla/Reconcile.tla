----------------------------- MODULE Reconcile -----------------------------
(***************************************************************************)
(* A write from a page of the console: the one dialog of the application   *)
(* (PopUp, popupHook), the bounded re-reading of the list until the write  *)
(* shows (useReconciler), what the operator is told (useReconcileReporter) *)
(* and the query all reads share, against a gateway that applies what it   *)
(* accepted later, or never.                                               *)
(*                                                                         *)
(* A page instance lives from mount to unmount; `page` numbers them, and   *)
(* every instance shows the same list.  The list is abstracted to one row, *)
(* present or absent, and a write to the state it wants the row in.        *)
(***************************************************************************)
EXTENDS Naturals

CONSTANTS
    MaxOps,       \* bound: writes submitted
    MaxPages,     \* bound: page instances
    Intervals,    \* the sleeps of a chain of reads (the code: 4)
    SilentPaths   \* pages show a message of their own and reconcile behind it

ASSUME BoundsAssumption == /\ MaxOps \in Nat \ {0}
                           /\ MaxPages \in Nat \ {0}
                           /\ Intervals \in Nat
ASSUME SilentAssumption == SilentPaths \in BOOLEAN

Ops    == 1..MaxOps
Pages  == 1..MaxPages
Rows   == {"present", "absent"}
Listed == Rows \union {"none"}       \* "none": not read, or the read failed

(* What the dialog says of a write. *)
Reports  == {"success", "notYet", "unread"}
Messages == Reports \union {"own"}      \* "own": the page's, before any read

Dialog == [shows : {"nothing", "form"} \union Messages, op : 0..MaxOps,
           page : 0..MaxPages, busy : BOOLEAN]

VARIABLES
    page,       \* the page instance on the screen
    dialog,     \* is_open_popup_atom
    phase,      \* write: where its handler is
    home,       \* write: the page instance it was submitted in
    wants,      \* write: the row it asks for
    reply,      \* write: what the gateway answered
    how,        \* write: whether its chain reports, and has a predicate
    left,       \* write: sleeps its chain has left
    read,       \* write: what the refetch it awaits resolved to
    claimed,    \* write: what its chain resolved to
    abandoned,  \* writes whose chain was aborted
    latest,     \* page instance: the write of its latest chain
    query,      \* the fetch in flight, and whose refetch it answers
    listed,     \* the query's result
    row,        \* gateway: the row
    pending,    \* gateway: accepted writes that have not taken effect
    since,      \* write: the rows there have been since it was accepted
    told        \* writes the operator was told the outcome of

handlers == <<phase, home, wants, reply, how, left, claimed>>
gateway  == <<row, pending, since>>
vars == <<page, dialog, handlers, read, abandoned, latest, query, listed,
          gateway, told>>

NoDialog == [shows |-> "nothing", op |-> 0, page |-> 0, busy |-> FALSE]
Says(message, o) ==
    [shows |-> message, op |-> o, page |-> home[o], busy |-> FALSE]
Idle == [reader |-> 0, sees |-> "idle"]

TypeOK ==
    /\ page \in Pages
    /\ dialog \in Dialog
    /\ dialog.shows = "form" => dialog.page \in Pages
    /\ dialog.shows \in Messages => dialog.op \in Ops
    /\ phase \in [Ops -> {"unused", "sent", "reading", "resting", "done"}]
    /\ home \in [Ops -> 0..MaxPages]
    /\ \A o \in Ops : phase[o] # "unused" => home[o] \in Pages
    /\ wants \in [Ops -> Rows]
    /\ reply \in [Ops -> {"none", "accepted", "refused"}]
    /\ how \in [Ops -> {"report", "silent", "blind"}]
    /\ left \in [Ops -> 0..Intervals]
    /\ read \in [Ops -> Listed \union {"waiting"}]
    /\ claimed \in [Ops -> {"nothing", "confirmed", "pending"}]
    /\ abandoned \subseteq Ops
    /\ latest \in [Pages -> 0..MaxOps]
    /\ query \in [reader : 0..MaxOps, sees : {"idle", "unread"} \union Rows]
    /\ listed \in Listed
    /\ row \in Rows
    /\ pending \subseteq Ops
    /\ since \in [Ops -> SUBSET Rows]
    /\ told \subseteq Ops

Init ==
    /\ page = 1
    /\ dialog = NoDialog
    /\ phase = [o \in Ops |-> "unused"]
    /\ home = [o \in Ops |-> 0]
    /\ wants = [o \in Ops |-> "present"]
    /\ reply = [o \in Ops |-> "none"]
    /\ how = [o \in Ops |-> "report"]
    /\ left = [o \in Ops |-> Intervals]
    /\ read = [o \in Ops |-> "none"]
    /\ claimed = [o \in Ops |-> "nothing"]
    /\ abandoned = {}
    /\ latest = [p \in Pages |-> 0]
    /\ query = [reader |-> 0, sees |-> "unread"]     \* the first load
    /\ listed = "none"
    /\ row \in Rows
    /\ pending = {}
    /\ since = [o \in Ops |-> {}]
    /\ told = {}

----------------------------------------------------------------------------
(* The operator. *)

(* Add, Edit, Delete...: a page opens its dialog.  It is modal. *)
OpenPopUp ==
    /\ dialog = NoDialog
    /\ dialog' = [shows |-> "form", op |-> 0, page |-> page, busy |-> FALSE]
    /\ UNCHANGED <<page, handlers, read, abandoned, latest, query, listed,
                   gateway, told>>

(* finish: Cancel, Escape, or the OK of a message. *)
Finish ==
    /\ dialog # NoDialog
    /\ ~dialog.busy
    /\ dialog' = NoDialog
    /\ UNCHANGED <<page, handlers, read, abandoned, latest, query, listed,
                   gateway, told>>

(* Mutant of Locked: the dialog is closed first, as it once was.           *)
ClosedFirst(o) == NoDialog

(* The dialog while the handler of write o runs. *)
Locked(o) == [dialog EXCEPT !.op = o, !.busy = TRUE]

(* handleYes of a form, up to the call its handler makes. *)
HandleYes(o) ==
    /\ dialog.shows = "form"
    /\ ~dialog.busy
    /\ phase[o] = "unused"
    /\ \A p \in Ops : p < o => phase[p] # "unused"
    /\ dialog' = Locked(o)
    /\ phase' = [phase EXCEPT ![o] = "sent"]
    /\ home' = [home EXCEPT ![o] = dialog.page]
    /\ \E r \in Rows : wants' = [wants EXCEPT ![o] = r]
    /\ UNCHANGED <<page, reply, how, left, claimed, read, abandoned, latest,
                   query, listed, gateway, told>>

Running(o) == phase[o] \in {"reading", "resting"}

(* The operator leaves (the browser's Back; the dialog is not part of the  *)
(* page) and another page instance is mounted: unmounting aborts the chain *)
(* of the reconciler's controllerRef.                                      *)
Leave ==
    /\ page < MaxPages
    /\ page' = page + 1
    /\ abandoned' = abandoned \union {o \in Ops : Running(o) /\ latest[page] = o}
    /\ UNCHANGED <<dialog, handlers, read, latest, query, listed, gateway, told>>

----------------------------------------------------------------------------
(* The query of the list. *)

(* Mutant of ReadStarts: the caller of the cancelled fetch waits on.       *)
ReadForgetsCaller(o) ==
    /\ query' = [reader |-> o, sees |-> "unread"]
    /\ read' = [read EXCEPT ![o] = "waiting"]

(* Mutant of ReadStarts: a fetch in flight answers the refetch as well.    *)
ReadJoins(o) ==
    /\ query' = [reader |-> o,
                 sees |-> IF query.sees = "idle" THEN "unread" ELSE query.sees]
    /\ read' = [read EXCEPT ![o] = "waiting"]

(* refetch: a fetch in flight is cancelled, its first load too, and its    *)
(* caller gets the result the query had; a new fetch starts.               *)
ReadStarts(o) ==
    /\ query' = [reader |-> o, sees |-> "unread"]
    /\ read' = [p \in Ops |-> IF p = o THEN "waiting"
                              ELSE IF p = query.reader THEN listed
                              ELSE read[p]]

(* The page is mounted, focused or online again. *)
Background ==
    /\ query = Idle
    /\ query' = [reader |-> 0, sees |-> "unread"]
    /\ UNCHANGED <<page, dialog, handlers, read, abandoned, latest, listed,
                   gateway, told>>

(* The gateway reads the list ... *)
ServeList ==
    /\ query.sees = "unread"
    /\ query' = [query EXCEPT !.sees = row]
    /\ UNCHANGED <<page, dialog, handlers, read, abandoned, latest, listed,
                   gateway, told>>

(* ... and its answer arrives, or the fetch fails. *)
ListArrives(l) ==
    /\ query.sees # "idle"
    /\ l \in {query.sees, "none"} \ {"unread"}
    /\ listed' = l
    /\ read' = [o \in Ops |-> IF o = query.reader THEN l ELSE read[o]]
    /\ query' = Idle
    /\ UNCHANGED <<page, dialog, handlers, abandoned, latest, gateway, told>>

----------------------------------------------------------------------------
(* The gateway and the other operators. *)

(* The row becomes r; `accepted` writes have seen it. *)
RowBecomes(r, accepted) ==
    /\ row' = r
    /\ since' = [o \in Ops |-> IF o \in accepted THEN since[o] \union {r}
                                                 ELSE since[o]]

Accepted == {o \in Ops : reply[o] = "accepted"}

(* A write is accepted: it takes effect at once or later. *)
Accept(o) ==
    /\ phase[o] = "sent"
    /\ reply[o] = "none"
    /\ reply' = [reply EXCEPT ![o] = "accepted"]
    /\ \/ /\ RowBecomes(wants[o], Accepted \union {o})
          /\ UNCHANGED pending
       \/ /\ RowBecomes(row, Accepted \union {o})
          /\ pending' = pending \union {o}
    /\ UNCHANGED <<page, dialog, phase, home, wants, how, left, claimed, read,
                   abandoned, latest, query, listed, told>>

Refuse(o) ==
    /\ phase[o] = "sent"
    /\ reply[o] = "none"
    /\ reply' = [reply EXCEPT ![o] = "refused"]
    /\ UNCHANGED <<page, dialog, phase, home, wants, how, left, claimed, read,
                   abandoned, latest, query, listed, gateway, told>>

(* An accepted write takes effect; the gateway may also lose it. *)
Apply(o) ==
    /\ o \in pending
    /\ pending' = pending \ {o}
    /\ RowBecomes(wants[o], Accepted)
    /\ UNCHANGED <<page, dialog, handlers, read, abandoned, latest, query,
                   listed, told>>

(* Another operator changes the row. *)
Edit ==
    /\ \E r \in Rows \ {row} : RowBecomes(r, Accepted)
    /\ UNCHANGED <<page, dialog, handlers, read, abandoned, latest, query,
                   listed, pending, told>>

----------------------------------------------------------------------------
(* The handler of a write, from its answer on. *)

(* reconcile: the chain before it in this page instance is superseded, and *)
(* the first read starts.                                                  *)
Reconcile(o, manner) ==
    /\ phase' = [phase EXCEPT ![o] = "reading"]
    /\ how' = [how EXCEPT ![o] = manner]
    /\ abandoned' = abandoned \union {p \in Ops : Running(p)
                                                  /\ latest[home[o]] = p}
    /\ latest' = [latest EXCEPT ![home[o]] = o]
    /\ ReadStarts(o)
    /\ UNCHANGED <<page, home, wants, reply, left, claimed, listed, gateway>>

(* An accepted write: the dialog stays locked and the chain reports. *)
Report(o) ==
    /\ phase[o] = "sent"
    /\ reply[o] = "accepted"
    /\ Reconcile(o, "report")
    /\ UNCHANGED <<dialog, told>>

(* handleYes is done: it closes whatever dialog is busy then. *)
Released == IF dialog.busy THEN NoDialog ELSE dialog

(* The page's own error popup: it shows while the page is mounted.         *)
PagePopUp(o) == told' = IF home[o] = page THEN told \union {o} ELSE told

(* A message of the page in the dialog. *)
OwnMessage(o) == dialog' = Says("own", o) /\ told' = told \union {o}

(* The page says its piece first - the one-time key, a refusal, which of   *)
(* several deletions failed - and reconciles behind it.                    *)
ReconcileSilently(o) ==
    /\ SilentPaths
    /\ phase[o] = "sent"
    /\ reply[o] # "none"
    /\ \/ OwnMessage(o)
       \/ PagePopUp(o) /\ UNCHANGED dialog
    /\ \E manner \in {"silent", "blind"} : Reconcile(o, manner)

(* A refusal, or an answer that was lost: an error, and no reading. *)
ShowError(o) ==
    /\ phase[o] = "sent"
    /\ reply[o] # "none"
    /\ phase' = [phase EXCEPT ![o] = "done"]
    /\ \/ OwnMessage(o)
       \/ PagePopUp(o) /\ dialog' = Released
    /\ UNCHANGED <<page, home, wants, reply, how, left, claimed, read,
                   abandoned, latest, query, listed, gateway>>

(* Mutant of MayReport: the generation counts the report itself as later.  *)
MayReportIfSuperseded(o) ==
    how[o] = "report" /\ home[o] = page /\ latest[home[o]] # o

(* Mutant of MayReport: mounted and generation are not looked at.          *)
MayReportAnywhere(o) == how[o] = "report"

(* report: still mounted, and no chain of this page has started since. *)
MayReport(o) == how[o] = "report" /\ home[o] = page /\ latest[home[o]] = o

(* Mutant of Wording: a failed last read is not told from an empty one.    *)
WordingBlind(o, outcome) == IF outcome = "confirmed" THEN "success" ELSE "notYet"

(* The report of a chain that resolved to outcome. *)
Wording(o, outcome) ==
    IF outcome = "confirmed" THEN "success"
    ELSE IF read[o] = "none" THEN "unread" ELSE "notYet"

(* The chain of o resolves, and the report follows. *)
Settle(o, outcome) ==
    /\ phase' = [phase EXCEPT ![o] = "done"]
    /\ claimed' = [claimed EXCEPT ![o] = outcome]
    /\ \/ /\ MayReport(o)
          /\ dialog' = Says(Wording(o, outcome), o)
          /\ told' = told \union {o}
       \/ /\ ~MayReport(o)
          /\ dialog' = Released
          /\ UNCHANGED told
    /\ UNCHANGED <<page, home, wants, reply, how, left, read, abandoned, latest,
                   query, listed, gateway>>

(* Mutant of Aborted: the signal is not looked at after a read.            *)
NeverAborted(o) == FALSE
Aborted(o) == o \in abandoned

(* Mutant of BudgetSpent: the chain is not bounded.                        *)
BudgetIgnored(o) == FALSE

(* Every interval of the schedule has been slept. *)
BudgetSpent(o) == left[o] = 0

(* Mutant of Answered: a read that failed resolves to nothing.             *)
AnsweredWithData(o) == phase[o] = "reading" /\ read[o] \in Rows
Answered(o) == phase[o] = "reading" /\ read[o] # "waiting"

(* A chain without a predicate ends with its first read. *)
ConfirmBlindly(o) ==
    /\ Answered(o)
    /\ how[o] = "blind"
    /\ Settle(o, "confirmed")

Confirm(o) ==
    /\ Answered(o)
    /\ how[o] # "blind" /\ ~Aborted(o)
    /\ read[o] = wants[o]
    /\ Settle(o, "confirmed")

(* The last read did not show the write. *)
GiveUp(o) ==
    /\ Answered(o)
    /\ how[o] # "blind" /\ ~Aborted(o)
    /\ read[o] # wants[o]
    /\ BudgetSpent(o)
    /\ Settle(o, "pending")

(* Aborted, after a read or during a sleep. *)
Abandon(o) ==
    /\ \/ Answered(o) /\ how[o] # "blind"
       \/ phase[o] = "resting"
    /\ Aborted(o)
    /\ Settle(o, "pending")

Sleep(o) ==
    /\ Answered(o)
    /\ how[o] # "blind" /\ ~Aborted(o)
    /\ read[o] # wants[o]
    /\ ~BudgetSpent(o)
    /\ phase' = [phase EXCEPT ![o] = "resting"]
    /\ left' = [left EXCEPT ![o] = @ - 1]
    /\ UNCHANGED <<page, dialog, home, wants, reply, how, claimed, read,
                   abandoned, latest, query, listed, gateway, told>>

ReadAgain(o) ==
    /\ phase[o] = "resting"
    /\ ~Aborted(o)
    /\ phase' = [phase EXCEPT ![o] = "reading"]
    /\ ReadStarts(o)
    /\ UNCHANGED <<page, dialog, home, wants, reply, how, left, claimed,
                   abandoned, latest, listed, gateway, told>>

----------------------------------------------------------------------------
Step(o) ==
    \/ HandleYes(o) \/ Accept(o) \/ Refuse(o) \/ Apply(o)
    \/ Report(o) \/ ReconcileSilently(o) \/ ShowError(o)
    \/ ConfirmBlindly(o) \/ Confirm(o) \/ GiveUp(o) \/ Abandon(o)
    \/ Sleep(o) \/ ReadAgain(o)

Next ==
    \/ OpenPopUp \/ Finish \/ Leave
    \/ Background \/ ServeList \/ \E l \in Listed : ListArrives(l)
    \/ Edit
    \/ \E o \in Ops : Step(o)

Spec == Init /\ [][Next]_vars

(***************************************************************************)
(* Every call settles, a timer that is armed fires, and a handler whose    *)
(* await has settled goes on.  Nothing is assumed of operators.            *)
(***************************************************************************)
Fairness ==
    /\ WF_vars(\E l \in Listed : ListArrives(l))
    /\ \A o \in Ops :
          /\ WF_vars(Accept(o) \/ Refuse(o))
          /\ WF_vars(Report(o) \/ ReconcileSilently(o) \/ ShowError(o))
          /\ WF_vars(ConfirmBlindly(o) \/ Confirm(o) \/ GiveUp(o) \/ Abandon(o)
                     \/ Sleep(o))
          /\ WF_vars(ReadAgain(o))

FairSpec == Spec /\ Fairness

----------------------------------------------------------------------------
(* Properties. *)

Unsettled(o) == phase[o] \in {"sent", "reading", "resting"}

(* The dialog stays up, locked, until the write submitted in it settles:   *)
(* nobody can submit again, or start something else, while it runs         *)
(* (handleYes: "The dialog stays up ... until the action settles").        *)
DialogStaysUp ==
    \A o \in Ops : Unsettled(o) /\ (phase[o] = "sent" \/ how[o] = "report") =>
        dialog.busy /\ dialog.op = o

(* A success was read at the gateway after the write was accepted; "has    *)
(* not appeared yet" is said only of a gateway that, at some moment since, *)
(* did not show it, never of a list nobody read (report, fromQueryRefetch, *)
(* the refetch of useQueryInstanceData).                                   *)
ReportsAreReal ==
    /\ dialog.shows = "success" => wants[dialog.op] \in since[dialog.op]
    /\ dialog.shows = "notYet"  => since[dialog.op] \ {wants[dialog.op]} # {}

(* A chain that waits for a read has a fetch in flight that will answer    *)
(* it: a refetch that cancels another one's fetch leaves nobody waiting    *)
(* for ever behind a locked dialog.                                        *)
NobodyWaitsInVain ==
    \A o \in Ops : phase[o] = "reading" /\ read[o] = "waiting" =>
        query.reader = o /\ query.sees # "idle"

(* An operator who stays on the page is told how every write ended. *)
ToldUnlessLeft ==
    \A o \in Ops : phase[o] = "done" => o \in told \/ home[o] # page

(* A report opens on the page of its write only, and never over the        *)
(* dialog of another one (report: "It must not resurrect a popup on        *)
(* another page or overwrite a newer operation's result").                 *)
ReportsStayHome ==
    [][dialog'.shows \in Reports /\ dialog' # dialog =>
          /\ home[dialog'.op] = page
          /\ dialog.busy => dialog.op = dialog'.op]_vars

(* A chain that was superseded or unmounted neither sleeps nor reads again:*)
(* all it does is resolve (reconcile's checks of its signal).              *)
AbandonedStops ==
    [][\A o \in abandoned : phase'[o] # phase[o] => phase'[o] = "done"]_vars

(* A chain with a predicate that was superseded or unmounted claims no     *)
(* confirmation, whatever its late reads show (useReconciler: "it may      *)
(* never claim confirmation").  One without returns before it looks.       *)
AbandonedNeverConfirms ==
    \A o \in abandoned : how[o] # "blind" => claimed[o] # "confirmed"

(***************************************************************************)
(* What the proofs of these rest on: first in every case, then when no     *)
(* page reconciles silently.                                               *)
(***************************************************************************)

(* Page instances are numbered as they come. *)
PagesInOrder ==
    /\ \A o \in Ops : home[o] <= page
    /\ dialog.page <= page

(* A page's latest chain is of a write submitted and answered there. *)
LatestIsOfItsPage ==
    \A p \in Pages, o \in Ops : latest[p] = o =>
        home[o] = p /\ phase[o] \notin {"unused", "sent"}

(* An aborted chain had started, and its page is gone or has another one.  *)
AbandonedIsPast ==
    \A o \in abandoned : /\ phase[o] \notin {"unused", "sent"}
                         /\ home[o] < page \/ latest[home[o]] # o

(* The invariant that holds in every case. *)
ChainInv == PagesInOrder /\ LatestIsOfItsPage /\ AbandonedIsPast

(* A write that runs has the locked dialog, its page's latest chain, and   *)
(* the gateway's acceptance; the fetch in flight, if a chain's, is its own.*)
OneWriteAtATime ==
    /\ \A o \in Ops : how[o] = "report"
    /\ \A o \in Ops : Unsettled(o) => dialog.busy /\ dialog.op = o
    /\ \A o \in Ops : Running(o) => latest[home[o]] = o /\ reply[o] = "accepted"
    /\ query.reader # 0 => /\ phase[query.reader] = "reading"
                           /\ read[query.reader] = "waiting"

(* Whatever a chain has read or will be answered, the gateway held after   *)
(* it accepted the write.                                                  *)
ReadsAreRecent ==
    /\ \A o \in Ops : reply[o] = "accepted" => row \in since[o]
    /\ \A o \in Ops : query.reader = o /\ query.sees \in Rows
                        => query.sees \in since[o]
    /\ \A o \in Ops : phase[o] = "reading" /\ read[o] \in Rows
                        => read[o] \in since[o]

(* The invariant of the plain case. *)
PlainInv == OneWriteAtATime /\ ReadsAreRecent

(* Every write settles: no dialog stays locked for ever. *)
EveryWriteSettles == \A o \in Ops : phase[o] = "sent" ~> phase[o] = "done"
=============================================================================
