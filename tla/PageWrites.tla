---------------------------- MODULE PageWrites -----------------------------
(***************************************************************************)
(* The pages that show a list and write to it.  Each is its query of the   *)
(* list, the rows the operator has ticked, and a handful of handlers that  *)
(* send their requests and then tidy up: clear the ticks, read the list    *)
(* again at once, a second later, or not at all.  The catalogue says, page *)
(* by page, what the handlers do; the actions are what all pages share     *)
(* (DataTable, useQueryInstanceData, the modal dialog).                    *)
(*                                                                         *)
(* A row is its identity.  Other operators write to the same list, and a   *)
(* change may show later than it is answered: what rows a read brings is   *)
(* left open, and only how recent it is is followed.                       *)
(***************************************************************************)
EXTENDS Naturals, FiniteSets

CONSTANTS
    PageRows,        \* identities a row of the list may have
    MaxPageWrites    \* bound: handlers that end with a change confirmed

ASSUME PageWritesAssumption == MaxPageWrites \in Nat \ {0}

----------------------------------------------------------------------------
(***************************************************************************)
(* The catalogue.  A handler                                               *)
(*   acts    removes its targets, or puts them;                            *)
(*   on      each ticked row, the one ticked row, the row whose button it  *)
(*           is, or whatever a form names;                                 *)
(*   then    reads the list again: later (setTimeout, 1 s), now, or when   *)
(*           its Success message is acknowledged;                          *)
(*   rereads the failures after which it reads the list at once;           *)
(*   clears  the ticks on success, always or never;                        *)
(*   stops   at the first failure (Promise.all over calls that throw).     *)
(***************************************************************************)
Failures == {"gone", "conflict", "refused", "unknown"}

Handler(acts, on, then, clears) ==
    [acts |-> acts, on |-> on, then |-> then, rereads |-> {},
     clears |-> clears, stops |-> FALSE]

DeletesEach(then) == Handler("delete", "each", then, "success")
DeletesOne(then)  == Handler("delete", "one", then, "success")
Adds(then)        == Handler("put", "form", then, "success")
Edits(then)       == Handler("put", "one", then, "success")
Rereads(handler, kinds) == [handler EXCEPT !.rereads = kinds]
Clears(handler, when)   == [handler EXCEPT !.clears = when]

(* A page: rows are ticked by a stable key or by their place in the list,  *)
(* the list is of an instance or of OAM, and its handlers may look again,  *)
(* when they are submitted, whether the list is still to be trusted.       *)
Page(handlers) == [keyed |-> TRUE, of |-> "instance", rechecks |-> FALSE,
                   handlers |-> handlers]
Indexed(handlers) == [Page(handlers) EXCEPT !.keyed = FALSE]

(* Network. *)
RoutePage          == Page({DeletesEach("later"), Adds("later")})
FDBPage            == Page({DeletesEach("later"), Adds("later")})
IPPage             == Page({DeletesEach("later"), Edits("later")})
DeviceNeighborPage == Page({DeletesEach("later"), Adds("later")})
BFDPage            == Page({DeletesEach("later"), Adds("later")})
VLANPage           == Page({DeletesEach("later"), Adds("later")})
VLANMembers        == Page({DeletesEach("now"), Adds("now")})
VXLANPage          == Page({DeletesEach("now"), Adds("now")})
VXLANPeers         == Page({Handler("delete", "row", "now", "never"),
                            Handler("put", "form", "now", "never")})
BGPNeighborPage    == Page({DeletesEach("now"), Adds("now")})
BGPDefinedSetPage  == Page({DeletesEach("now"), Adds("now")})
BGPDefinitionPage  == Page({DeletesOne("now"), Adds("now")})
BGPApplyPage       == Page({Handler("put", "form", "now", "never"),
                            Handler("delete", "form", "now", "never")})

(* Traffic. *)
MirrorPage      == Page({DeletesEach("later"), Adds("later")})
QoSPage         == Page({DeletesEach("later"), Adds("later")})
SNICertificates == Page({DeletesEach("later"), Adds("later")})
FirewallPage    == Page({Rereads(DeletesEach("now"), Failures),
                         Rereads(Adds("now"), Failures)})
IPFilterPage    == Page({Rereads(DeletesEach("now"), Failures), Adds("now")})
EndpointPage    == Page({DeletesEach("now"), Adds("now"), Edits("now")})
SecurityRatePage == Page({Clears(Edits("now"), "never"),
                          Clears(DeletesOne("now"), "never")})

(* IPsec.  The certificates are ticked by their index. *)
IPsecTunnelPage ==
    Page({DeletesOne("later"), Adds("later"), Edits("later")})
IPsecCertificatePage == Indexed({DeletesOne("later"), Adds("later")})
IPsecCAPage          == Indexed({DeletesOne("later"), Adds("later")})

(* AI. *)
AIApiKeyPage ==
    Page({DeletesEach("now"), Adds("now"),
          Rereads(Clears(Edits("now"), "always"), Failures)})
AIObjectivesPage ==
    Page({Rereads(DeletesOne("now"), {"gone", "unknown"}),
          Rereads(Adds("now"), {"unknown"}),
          Rereads(Edits("now"), {"unknown"})})
JWTAuthProfilePage ==
    Page({Rereads(DeletesOne("now"), {"conflict"}), Adds("now"), Edits("now")})
TenantLimits == Page({Adds("now"), Edits("now")})
UserLimits ==
    Page({Clears(Adds("now"), "always"), Clears(Edits("now"), "always"),
          Clears(DeletesOne("now"), "always")})
LimitDefaults ==
    Page({Clears(Adds("now"), "always"), Clears(Edits("now"), "always"),
          Clears(DeletesOne("now"), "always")})

(* Maintenance, status and OAM. *)
SnapshotPage ==
    [Page({DeletesOne("now"), Adds("now")}) EXCEPT !.rechecks = TRUE]
HAPage == Indexed({Clears(Edits("now"), "never")})
UserManagementPage ==
    [Page({[DeletesEach("now") EXCEPT !.stops = TRUE], Adds("now"),
           Edits("now")}) EXCEPT !.of = "oam"]
InstancePage ==
    [Page({Handler("put", "row", "acknowledged", "never"),
           Handler("delete", "row", "now", "never"),
           Handler("put", "form", "now", "never")}) EXCEPT !.of = "oam"]

Catalogue ==
    {RoutePage, FDBPage, IPPage, DeviceNeighborPage, BFDPage, VLANPage,
     VLANMembers, VXLANPage, VXLANPeers, BGPNeighborPage, BGPDefinedSetPage,
     BGPDefinitionPage, BGPApplyPage, MirrorPage, QoSPage, SNICertificates,
     FirewallPage, IPFilterPage, EndpointPage, SecurityRatePage,
     IPsecTunnelPage, IPsecCertificatePage, IPsecCAPage, AIApiKeyPage,
     AIObjectivesPage, JWTAuthProfilePage, TenantLimits, UserLimits,
     LimitDefaults, SnapshotPage, HAPage, UserManagementPage, InstancePage}

Handlers == UNION {p.handlers : p \in Catalogue}
NoHandler == Handler("nothing", "none", "never", "never")

----------------------------------------------------------------------------
VARIABLES
    pgPage,     \* the page shown
    pgShown,    \* the query's result: how good, which rows, and after how
                \* many confirmed handlers they were read
    pgQuery,    \* the fetch in flight: not yet read by the gateway, or read
                \* after so many confirmed handlers
    pgTimers,   \* setTimeouts that will read the list again
    pgTicked,   \* selected_rows
    pgDialog,   \* the dialog: confirmation or form, its handler and targets
    pgDone,     \* handlers that ended with a change confirmed
    pgFresh,    \* history: rows ticked since the page's last success
    pgUnsure    \* history: rows of lost answers, no list read since

pgvars == <<pgPage, pgShown, pgQuery, pgTimers, pgTicked, pgDialog, pgDone,
            pgFresh, pgUnsure>>

Idle    == [sees |-> "idle", at |-> 0]
Unread  == [sees |-> "unread", at |-> 0]
NoDialog == [shows |-> "nothing", handler |-> NoHandler, targets |-> {}]

PagesTypeOK ==
    /\ pgPage \in Catalogue
    /\ pgShown \in [kind : {"loading", "data", "stale", "failed"},
                    rows : SUBSET PageRows, at : 0..MaxPageWrites]
    /\ pgQuery \in [sees : {"idle", "unread", "list"}, at : 0..MaxPageWrites]
    /\ pgTimers \in 0..MaxPageWrites
    /\ pgTicked \subseteq PageRows
    /\ pgDialog \in [shows : {"nothing", "asks", "waits", "tells"},
                     handler : Handlers \union {NoHandler},
                     targets : SUBSET PageRows]
    /\ pgDialog.shows # "nothing" => pgDialog.handler \in pgPage.handlers
    /\ pgDone \in 0..MaxPageWrites
    /\ pgDialog.shows \in {"asks", "waits"} => pgDone < MaxPageWrites
    /\ pgTimers <= pgDone
    /\ pgFresh \subseteq PageRows
    /\ pgUnsure \subseteq PageRows

PagesInit ==
    /\ pgPage \in Catalogue
    /\ pgShown = [kind |-> "loading", rows |-> {}, at |-> 0]
    /\ pgQuery = Unread
    /\ pgTimers = 0
    /\ pgTicked = {}
    /\ pgDialog = NoDialog
    /\ pgDone = 0
    /\ pgFresh = {}
    /\ pgUnsure = {}

----------------------------------------------------------------------------
(* The query of the list. *)

(* Mutant of RefetchStarts: a refetch is answered by the fetch in flight.  *)
RefetchJoins == pgQuery' = IF pgQuery = Idle THEN Unread ELSE pgQuery

(* A refetch cancels the fetch in flight and starts another.  That of a    *)
(* list never loaded goes on in its place, unless the wrapper of the       *)
(* instance's queries cancelled it.                                        *)
RefetchStarts ==
    LET goesOn == /\ pgPage.of = "oam"
                  /\ pgQuery # Idle
                  /\ pgShown.kind \in {"loading", "failed"}
    IN  pgQuery' = IF goesOn THEN pgQuery ELSE Unread

(* The page is focused or online again: a fetch in flight will do. *)
PageFocused ==
    /\ pgQuery = Idle
    /\ pgQuery' = Unread
    /\ UNCHANGED <<pgPage, pgShown, pgTimers, pgTicked, pgDialog, pgDone,
                   pgFresh, pgUnsure>>

(* The 1 s after a write are over. *)
PageTimer ==
    /\ pgTimers > 0
    /\ pgTimers' = pgTimers - 1
    /\ RefetchStarts
    /\ UNCHANGED <<pgPage, pgShown, pgTicked, pgDialog, pgDone, pgFresh,
                   pgUnsure>>

(* handleRefresh: the operator reads the list again. *)
RefreshPage ==
    /\ pgDialog = NoDialog
    /\ pgTicked' = {}
    /\ RefetchStarts
    /\ UNCHANGED <<pgPage, pgShown, pgTimers, pgDialog, pgDone, pgFresh,
                   pgUnsure>>

(* The gateway reads its rows ... *)
ServePage ==
    /\ pgQuery = Unread
    /\ pgQuery' = [sees |-> "list", at |-> pgDone]
    /\ pgUnsure' = {}
    /\ UNCHANGED <<pgPage, pgShown, pgTimers, pgTicked, pgDialog, pgDone,
                   pgFresh>>

(* ... and the page shows them.  The grid drops the ticks of rows that are *)
(* gone, as long as it is drawn; ticks by index now mean the rows at those *)
(* places.                                                                 *)
PageLoads ==
    /\ pgQuery.sees = "list"
    /\ \E rows \in SUBSET PageRows :
          /\ pgShown' = [kind |-> "data", rows |-> rows, at |-> pgQuery.at]
          /\ IF pgPage.keyed
                THEN pgTicked' \in {pgTicked, pgTicked \intersect rows}
                ELSE /\ pgTicked' \in SUBSET rows
                     /\ Cardinality(pgTicked') <= Cardinality(pgTicked)
    /\ pgQuery' = Idle
    /\ UNCHANGED <<pgPage, pgTimers, pgDialog, pgDone, pgFresh, pgUnsure>>

(* A fetch fails: what was shown is stale. *)
PageFails ==
    /\ pgQuery # Idle
    /\ pgQuery' = Idle
    /\ pgShown' = [pgShown EXCEPT !.kind =
                     IF @ \in {"loading", "failed"} THEN "failed" ELSE "stale"]
    /\ UNCHANGED <<pgPage, pgTimers, pgTicked, pgDialog, pgDone, pgFresh,
                   pgUnsure>>

----------------------------------------------------------------------------
(* The operator. *)

Tick(r) ==
    /\ pgDialog = NoDialog
    /\ r \in pgShown.rows
    /\ \/ /\ r \notin pgTicked
          /\ pgTicked' = pgTicked \union {r}
          /\ pgFresh' = pgFresh \union {r}
       \/ /\ pgTicked' = pgTicked \ {r}
          /\ pgFresh' = pgFresh \ {r}
    /\ UNCHANGED <<pgPage, pgShown, pgQuery, pgTimers, pgDialog, pgDone,
                   pgUnsure>>

(* selectedItems: the rows of the list that are ticked. *)
SelectedItems == pgTicked \intersect pgShown.rows

(* What handler h may be asked to act on: row actions need a list that is  *)
(* current, Add one that is not stale.                                     *)
MayTarget(h, s) ==
    /\ s # {}
    /\ \/ h.on = "each" /\ s = SelectedItems /\ pgShown.kind = "data"
       \/ h.on = "one"  /\ s = SelectedItems /\ pgShown.kind = "data"
                        /\ Cardinality(s) = 1
       \/ h.on = "row"  /\ s \subseteq pgShown.rows /\ Cardinality(s) = 1
       \/ h.on = "form" /\ Cardinality(s) = 1
                        /\ IF pgPage.rechecks THEN pgShown.kind = "data"
                                              ELSE pgShown.kind # "stale"

(* Delete, Edit, Add: the confirmation or the form opens, modal, with the  *)
(* rows that are selected in this render.                                  *)
AskPage(h) ==
    /\ pgDialog = NoDialog
    /\ pgDone < MaxPageWrites
    /\ \E s \in SUBSET PageRows :
          /\ MayTarget(h, s)
          /\ pgDialog' = [shows |-> "asks", handler |-> h, targets |-> s]
    /\ UNCHANGED <<pgPage, pgShown, pgQuery, pgTimers, pgTicked, pgDone,
                   pgFresh, pgUnsure>>

(* Cancel; or the message of an instance's update is dismissed, whose OK   *)
(* is what reads the instances again.                                      *)
DismissPage ==
    /\ \/ pgDialog.shows = "asks" /\ UNCHANGED pgQuery
       \/ pgDialog.shows = "tells" /\ (RefetchStarts \/ UNCHANGED pgQuery)
    /\ pgDialog' = NoDialog
    /\ UNCHANGED <<pgPage, pgShown, pgTimers, pgTicked, pgDone, pgFresh,
                   pgUnsure>>

(* A submitted handler whose page looks again does nothing on a list that  *)
(* has gone stale since.                                                   *)
GivesUp == pgPage.rechecks /\ pgShown.kind # "data"

(* Delete or Apply is pressed: the requests are sent, in parallel. *)
SubmitPage ==
    /\ pgDialog.shows = "asks"
    /\ pgDialog' = IF GivesUp THEN NoDialog
                              ELSE [pgDialog EXCEPT !.shows = "waits"]
    /\ UNCHANGED <<pgPage, pgShown, pgQuery, pgTimers, pgTicked, pgDone,
                   pgFresh, pgUnsure>>

----------------------------------------------------------------------------
(* The handler, from the answers on.  `given` are the kinds of answer its  *)
(* requests had.                                                           *)

(* Some of the changes are confirmed; where one failure stops it, all. *)
Succeeds(given) == IF pgDialog.handler.stops THEN given = {"confirmed"}
                                             ELSE "confirmed" \in given

(* Mutant of DropsTicks: the ticks are cleared by deletions only, the rows *)
(* of an edit stay ticked.                                                 *)
DropsTicksOfDeleted(given) ==
    pgDialog.handler.acts = "delete" /\ Succeeds(given)

DropsTicks(given) ==
    \/ pgDialog.handler.clears = "always"
    \/ pgDialog.handler.clears = "success" /\ Succeeds(given)

(* How the list is read again. *)
ReadsAgain(given) ==
    LET h == pgDialog.handler
        rereads == ~Succeeds(given) /\ given \intersect h.rereads # {}
        is(when) == Succeeds(given) /\ h.then = when
    IN  /\ IF is("now") \/ rereads THEN RefetchStarts ELSE UNCHANGED pgQuery
        /\ pgTimers' = IF is("later") THEN pgTimers + 1 ELSE pgTimers
        /\ pgDialog' = IF is("acknowledged")
                          THEN [pgDialog EXCEPT !.shows = "tells"]
                          ELSE NoDialog

(* Every request is answered: done, refused in some way, or the answer is  *)
(* lost.  (Promise.all over calls that throw ends with the first failure,  *)
(* and the answers it has not seen go nowhere.)                            *)
SettlePage ==
    /\ pgDialog.shows = "waits"
    /\ \E answers \in [pgDialog.targets -> {"confirmed"} \union Failures] :
          LET given == {answers[r] : r \in pgDialog.targets}
          IN  /\ ReadsAgain(given)
              /\ pgTicked' = IF DropsTicks(given) THEN {} ELSE pgTicked
              /\ pgFresh' = IF Succeeds(given) THEN {} ELSE pgFresh
              /\ pgDone' = IF "confirmed" \in given THEN pgDone + 1 ELSE pgDone
              /\ pgUnsure' = pgUnsure \union
                    {r \in pgDialog.targets : answers[r] = "unknown"}
    /\ UNCHANGED <<pgPage, pgShown>>

PagesNext ==
    \/ PageFocused \/ PageTimer \/ RefreshPage
    \/ ServePage \/ PageLoads \/ PageFails
    \/ DismissPage \/ SubmitPage \/ SettlePage
    \/ \E r \in PageRows : Tick(r)
    \/ \E h \in pgPage.handlers : AskPage(h)

PagesSpec == PagesInit /\ [][PagesNext]_pgvars

----------------------------------------------------------------------------
(***************************************************************************)
(* Properties.                                                             *)
(***************************************************************************)

(* Pages whose handlers read the list again after every success and wait   *)
(* for all their requests, over a query that cancels its first load.       *)
(* UserManagementPage and InstancePage are not.                            *)
CatchesUp(p) == /\ p.of = "instance"
                /\ \A h \in p.handlers : ~h.stops /\ h.then \in {"now", "later"}

(* A list will be read that is of after the last confirmed change. *)
ReadIsOwed == \/ pgTimers > 0
              \/ pgQuery = Unread
              \/ pgQuery.sees = "list" /\ pgQuery.at = pgDone

(* Once a handler has ended with changes confirmed, the page shows a list  *)
(* read after them, says that the list is out of date, or is reading it    *)
(* (common.ts: "issued before the write, so the new row never appeared").  *)
ListCatchesUp ==
    CatchesUp(pgPage) =>
        \/ pgShown.at = pgDone
        \/ pgShown.kind \in {"stale", "failed"}
        \/ ReadIsOwed

(* Pages that tick by key and clear the ticks on every success. *)
Tidy(p) == p.keyed /\ \A h \in p.handlers : h.clears \in {"success", "always"}

(* A Delete is of rows the operator ticked since the page's last success   *)
(* (selectionAfterMutation.test.tsx: "A row stays selected only until the  *)
(* next successful write"): no row the page has edited, deleted or         *)
(* replaced in between rides along.  A row that somebody else removed and  *)
(* created anew while its tick was kept does; so do ticks on a page whose  *)
(* write failed in part and that counts as no success.                     *)
NothingRidesAlong ==
    Tidy(pgPage) /\ pgDialog.shows \in {"asks", "waits"}
      /\ pgDialog.handler.acts = "delete"
      /\ pgDialog.handler.on \in {"each", "one"}
        => pgDialog.targets \subseteq pgFresh

(* A change whose answer was lost is read back before anything is sent     *)
(* again (opResult.ts: "it may have been applied, so the state must be     *)
(* read back before anything is sent again").                              *)
UnknownIsReadBack ==
    pgDialog.shows = "waits" => pgDialog.targets \intersect pgUnsure = {}

(* What the proofs of these two rest on: a fetch from before the last      *)
(* confirmed change is followed by another, and every tick is recent.      *)
OldReadsAreFollowed ==
    CatchesUp(pgPage) /\ pgQuery.sees = "list" /\ pgQuery.at # pgDone
        => pgTimers > 0
TicksAreFresh == Tidy(pgPage) => pgTicked \subseteq pgFresh
=============================================================================
