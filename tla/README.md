# Verification of loxilb-ui

loxilb-ui is the browser console of loxilb and of its inference gateway: a
React application that signs an operator in at OAM (the control plane), reads
and writes the configuration of the gateways OAM knows, and shows their
telemetry. Nearly all of its hazards come from one fact: every action is a
remote call whose answer may be late, lost, doubled or about something else by
the time it arrives, while the operator, other tabs and other operators go on.
This directory holds TLA+ models of the parts where that matters, the TLC runs
that check them and the TLAPS proofs about them.

Source paths below are relative to `src/` of the repository; repository files
outside the application are written with their directory (`scripts/...`).

## The system: inventory

| Component | State it keeps | Operations | Correct when |
| --- | --- | --- | --- |
| Session (`session/`, `App.tsx`, `LoginPage.tsx`, `ProfileMenu.tsx`) | the token and the persisted query cache in localStorage, shared by all tabs; per page: the `terminating` guard, the watcher's captured token, `ended`, idle and expiry timers | sign in, sign out, idle, expiry, storage event, teardown (purge, scrub, navigate), page load, self-rename | one teardown per session; nothing of an ended session stays in the browser or reaches the next one; a session in use is timed |
| Fetcher (`connector/fetcher`, `connector/oam`) | the cached session probe | attach the stored token, classify a 401 (inline, expire, verify), probe OAM | a 401 ends the session it is about and no other |
| Restore wizard (`components/snapshot`, `connector/oam/snapshotApi.ts`) | target, step, two dry-runs, ticked domains, commit outcome; refs `runRef`, `commitInFlightRef`, `committedRef` | open, dry-run, toggle, dry-run a selection, commit, undo, close | a configuration is replaced only after a dry-run of exactly what is sent has passed; one commit at a time; an answer is shown under the target it is about |
| Reconciliation and the dialog (`hooks/query/reconcile.ts`, `reconcileReport.ts`, `common.ts`, `components/modal/PopUp.tsx`) | the one dialog of the application; per page, the latest chain of re-reads, a generation and a mounted flag; the list's query | submit, reconcile after a write, abort, supersede, report, dismiss | nobody submits again while a write runs; a report is of something read since the write was accepted and opens on its own page only; every write settles |
| Operation results (`opResult.ts`, `opResultAdapter.ts`, `utils/retryAfter.ts`) | none (pure) | map a transport outcome to confirmed, denied, unknown, ... | a mutation is reported as confirmed only if the server said so; an outcome that may have been applied is never reported as refused |
| Load-balancer rule editing (`pages/traffic/LBRulePage.tsx`) | the gateway's rules, the selected row as it was read, what the form holds | one of five strategies by server and rule: merge-patch, replace, re-POST, delete and create, another rule | what is said of the rule was so; a whole-rule write takes back nothing others had changed before it was built |
| Pages that list and write (`pages/...`, `components/table/DataTable.tsx`, `components/state/pageState.ts`) | the list and how good it is, ticks, dialog, timers that read again | tick, add, edit, delete, refresh, read again after a write | a list from before a write does not stay; a Delete is of rows just ticked; a lost answer is read back |
| Settings that are read back (`pages/maintenance`, `components/audit`, certificates) | the setting, the page's poll of it, the form | write, read back, say what was read | what is said to be read back was held since the write was sent |
| Confirmation predicates (`hooks/query/confirmPredicates.ts`, `lbRuleApplied.ts`) | none (pure) | compare what a write asked with what was read back, by kind of write | a read confirms a write exactly when the gateway holds what was asked |
| Log paging (`hooks/useInstanceLogPaging.ts`) | lines pasted together, query key, cursor, live tail | load older, keyword, file, refresh, live | no line twice, none missing, none of another file or keyword |
| Observability (`observability/`, telemetry hooks) | the ring of snapshots, the instance it is of | poll, restart, switch instance | a rate is of requests that were counted |
| Snapshots page (`pages/maintenance/SnapshotPage.tsx`) | the list of snapshots | take, upload, pin, delete, restore | a snapshot asked to be pinned is pinned or reported |
| Set-up (`SetupHandler.tsx`, `docker-entrypoint.sh`, `ssl-setup.sh`) | the API base URL, the web server's configuration | first run, TLS set-up | the entry point refuses a half-configured TLS |
| Recovery package (`scripts/recovery/snapshot_db_package.py`) | databases of the source and of new clusters, a sealed package | export, restore (seven commands) | nobody else's database is touched; restored API keys are never live where the public may connect |
| Views, forms, styles, locales, generated API client and types, end-to-end tests | - | rendering and I/O | not modelled |

The parts interact through three things: localStorage (session, query client
and every tab), the query client (every hook and page), and the fetcher (every
call). A sign-in writes the token and loads a page; the page restores the
persisted cache, and each query sends the token stored at that moment; a 401
may call back into the teardown; the teardown purges the query client and the
stores and loads the login page; other tabs follow through storage events.

## Modules

| Module | What it models | Checked by |
| --- | --- | --- |
| `Session` | the session's life in several tabs, with the 401 handling of the fetcher and the query cache | TLC, TLAPS |
| `VerifiedRestore` | the abstract promise of the restore wizard | refined by `RestoreWizard` |
| `RestoreWizard` | the restore wizard, OAM and the gateway behind it, other operators | TLC, TLAPS |
| `Reconcile` | a write from a page: the dialog, the chain of re-reads, the report, the shared query, the gateway | TLC, TLAPS |
| `PageWrites` | 33 pages and panels that show a list and write to it: a catalogue entry each, and what they share | TLC, TLAPS |
| `LBRuleEdit` | editing a load-balancer rule, with lost and late writes and other operators | TLC, TLAPS |
| `ReadBack` | five forms that write a setting and read it back | TLC, TLAPS |
| `OpResults` | what an operation is said to have done, over its two hops | TLC, TLAPS |
| `IdleWatch` | the idle timers of several tabs, with a clock | TLC, TLAPS |
| `RecoveredDatabases` | the abstract promise of the recovery package | refined by `RecoveryRestore` |
| `RecoveryRestore` | concurrent restores of an authentication database | TLC, TLAPS |
| `Confirmations` | what each kind of read-back says of a write, over how the gateway stores and serves fields | TLC, TLAPS |
| `LogPaging` | reading a growing log backwards | TLC, TLAPS |
| `CounterRates` | rates from snapshots of counters | TLC, TLAPS |
| `MCSession`, `MCRestoreWizard`, `MCReconcile`, `MCParts` | instances for TLC, with their symmetry sets; `MCParts` is of the nine detailed modules from `PageWrites` on | |
| `SessionProofs`, `RestoreWizardProofs`, `ReconcileProofs`, `OpenPageProofs` (`PageWrites`, `IdleWatch` and `LogPaging`), `AnswersProofs` (`LBRuleEdit`, `ReadBack`, `OpResults` and `Confirmations`), `CounterRatesProofs`, `PartsProofs` (`MCParts`), `RecoveryProofs` | the theorems | TLAPS |

The detailed modules are independent of each other: the code they model shares
no state but the session, which every one of them would see only as "the page is
gone" (`Leave` in `RestoreWizard` and `Reconcile`, a page load in `Session`).
They are therefore not composed into one product. `MCParts` puts nine of them
beside each other, and a behaviour moves one: since no part reads what another
writes, that explores each part entirely, and no interleaving that is left out
could show more.

### How the state and the actions correspond to the code

**Session.** A tab is a JavaScript process. `stored` and `cache` are the two
localStorage entries; `page`, `mem`, `requests`, `probe`, `asking`, `watch`,
`ended`, `terminating`, `purging` are the module state, query client, watcher and
in-flight work of one page load, and `NewPage` starts all of them over. Data is
abstracted to the session it was read under. Every stretch of a handler between
two awaits is one action: `TerminateSession` up to its first await, `Scrub` the
rest; `SignOut` and `SignOutSettled`; `AnswerVerify` and `ProbeAnswer`;
`RenameSelf`, `Relogin`, `ReloginFails` and `ForcedRelogin`. A storage event is
queued by `StoreToken` and reads the token when `OnStorage` runs.

**RestoreWizard.** A run is a value of `runRef`: an opening of the dialog or an
undo inside it. Calls and answers are sets of records tagged with their run, so
they are late, lost and reordered at will. `Tick`, `DryRunPicked`, `Continue`,
`RestoreNow`, `Undo`, `Close` are the handlers, `DryRunAnswer`, `PickedAnswer`,
`CommitAnswer`, `UndoAnswer` what follows their awaits, `Drop` the answer of a
run that is over; what the component derives at each render (`Components`,
`PickedNow`, `CanContinue`) is an operator. `ServeDryRun`, `RefuseCommit`,
`ServeCommit`, `TimeOut` are OAM and the gateway as the wizard's code relies on
them: a backend may or may not know `components` (`selective`), a commit may
succeed, stop, roll back or fail to, and its answer may be lost before or after.

**Reconcile.** `dialog` is `is_open_popup_atom`; `HandleYes` submits the form it
shows and locks it; `Report`, `ReconcileSilently` and `ShowError` are the three
ways a page's handler goes on from its answer; `Reconcile` starts a chain, which
`ReadAgain`s and `Sleep`s until it `Confirm`s, `GiveUp`s or is `Abandon`ed;
`Settle` is the report with `handleYes`'s own ending. `query` is the one fetch of
the list in flight and `ReadStarts` the refetch that cancels it, giving its
caller what the query held. The list is one row and a write asks for it to be
present or absent; `since` records the rows there were since a write was
accepted, which is what a report must be about.

**PageWrites.** The pages are written alike, so what differs is data: a `Page` says
whether rows are ticked by key or by place, whose list it is, and what each
`Handler` does with its targets, its answers and its ticks, and when it reads
again. The actions are the shared machinery: `Tick` and `SelectedItems` are the
table's selection, `PageLoads` and `PageFails` the query with the table's own
clean-up of ticks, `RefetchStarts` the wrapper of `hooks/query/common.ts` that
cancels a fetch under way (a query of OAM lacks it for its first load),
`AskPage`, `SubmitPage`, `DismissPage` the modal dialog, and `SettlePage` the
handler from its answers on: one answer per row, so any of several deletes may
fail or be lost. A row is its identity; what a read brings is left open, and only
which confirmed writes it came after is followed.

**LBRuleEdit.** A rule is four members, each of which holds what it held when the
row was selected, what this operator entered or what somebody else put there.
`Strategy` is `selectLBEditStrategy`; `SubmitEdit` the form, `ReadTheRule` the
re-reads, `PrepareReplace`, `AnswerRebuild` and `PrepareReconcile` what is built on
them, `ConfirmWrite` and `ObserveRule` what is said. After a replace that met a
conflict the page says that the rule does not hold the submitted values, in the same
words whether it was read or not; the model keeps the two apart ("does not hold" and
"does not hold, unread"), since only the first can be held to a read. `Lands` is the server: a POST
on a rule that is there is refused unless it differs in its endpoints alone.

**ReadBack.** A `ReadingForm` says after which outcomes a form reads back, which
it believes, whether it keeps the input, and whether the read is a refetch of the
page's poll. `rbSince` is what the gateway has held since the write was sent.

**OpResults.** `FromSimpleResponse`, `FromRead` and `FromNetworkError` are
`opResultAdapter.ts`; the actions around them are the two hops, either of which
may give up before, while or after the gateway acts.

**IdleWatch.** `Mount` is the effect of `useSessionWatch`, `ScheduleIdle` its timer,
`UseTab`, `ComesToFront`, `HearOfToken` its listeners. Tabs freeze and wake, and
`IdleTick` does not pass a due timer of a tab that runs.

**RecoveryRestore.** A run sends the seven commands of `restore` in `CommandAfter`'s
order; each is carried out, fails, or times out and may still be running when the
tool has ended. `CREATE DATABASE` is the lock that runs have between them.

**Confirmations.** `Confirms` is the predicate a page hands to its reconciliation:
`IsTheRow` chooses the row, `SameField` compares a field as its kind says. The
tables (`RuleFields` for `LB_FIELD_CONFIRMATION`, `TenantFields` and so on) name one
field of a body for each kind its family has. `Stores` and `Serves` are the gateway
as the predicates' comments and tables describe it: what a field left out or a zero
does to the row, and which spellings of a value a read may bring.

**LogPaging.** `lpKey` is `queryOptions`, the key of the query; `Render` is the
effects after a render; every control asks for a key and says what becomes of the
cursor. The log grows under it, and a tail is refetched. A reload token only grows,
so what is cached or being fetched under an earlier one is dropped (`StillAsked`).

**CounterRates.** `RenderRates` keeps the ring; what is shown is computed from its
last two entries for every group of series, by both ways the code has
(`groupRates`, `partitionRate`).

### Scenarios: the plain case and what breaks it

Some things operators and browsers do break properties the code otherwise keeps.
Each model has them as a constant, so that the properties are checked and proved
without them and their effect is shown by runs of its own.

- `Session`, `Scenarios`: `selfRename` (an administrator changes their own user
  name), `loginOverLive` (a login page left open is used while another tab is
  signed in), `slowTabs` (a tab runs a pending storage event or finishes a
  teardown later than the operator's next action elsewhere). The plain case is
  `{}`: a person is slower than the browser's event loop.
- `RestoreWizard`, `Scenarios`: `partialSnapshots` (snapshots do not all cover
  the same domains), `unreadableAnswers` (a commit's 200 answer comes without a
  readable body).
- `Reconcile`, `SilentPaths`: pages show a message of their own and reconcile
  behind it (the one-time API key, a failed deletion among several).

## Runs

| Run | Bounds | What it shows |
| --- | --- | --- |
| `session_plain` | 2 tabs, 2 sessions, 1 request per tab, 1 reload | in the plain case no page shows another session's data (`NoForeignData`), nothing stays behind on the login page (`NoResidue`), every session in use is timed (`SessionIsWatched`), and the inductive invariant behind them holds (`SessionInv`) |
| `session_all` | 1 tab, 2 sessions, 2 requests, every scenario | a page whose teardown is over stays empty whatever else happens (`EndedPageStaysEmpty`) |
| `session_live` | 2 tabs, 1 session, `slowTabs` | a session OAM ended leaves the browser; signing out anywhere signs out every tab |
| `session_residue` | 1 tab, `selfRename` | **violated** `NoResidue` |
| `wizard_plain` | 2 domains, 2 runs, 1 dry-run of a selection each | the result step is honest (`OutcomeIsHonest`); an undo aims at its restore (`UndoAimsAtItsRestore`) and keeps to its domains (`UndoKeepsToItsDomains`) |
| `wizard_all` | 2 domains, 1 run, 2 overlapping dry-runs of selections, every scenario | a commit replaces exactly what is ticked (`ReplacesWhatIsTicked`) and what the gateway has passed (`RestoreInv`); the wizard implements `VerifiedRestore` (`KeepsPromise`); no dialog is stuck in the step that cannot be dismissed (`CommittingEnds`), no spinner turns for ever (`DryRunSettles`) |
| `wizard_unreadable` | 1 run, `unreadableAnswers` | **violated** `OutcomeIsHonest` |
| `reconcile_plain` | 2 writes, 2 page instances, 1 interval | the dialog stays locked until its write settles (`DialogStaysUp`), reports stay at home (`ReportsStayHome`), who stays is told (`ToldUnlessLeft`), every write settles (`EveryWriteSettles`), and the inductive invariant holds (`PlainInv`), from which reports are real |
| `reconcile_silent` | 2 writes, 1 page instance, 1 interval, `SilentPaths` | with chains that supersede each other: reports are real, nobody waits in vain (`NobodyWaitsInVain`), abandoned chains stop (`AbandonedStops`) and claim nothing (`AbandonedNeverConfirms`) |
| `reconcile_closed` | 2 writes, `SilentPaths` | **violated** `DialogStaysUp` |
| `parts` | pages: 2 rows, 2 writes; rule editing: 2 submits, 1 step of others; read-backs: 2 changes, 2 by others; logs: 2 views, 3 lines, pages of 1, 3 clicks; recovery: 2 runs, 2 names, 2 clusters; rates: 2 instances, 2 series, 3 requests, 3 ticks; results: 2 operations; idle: 2 tabs, 3 tokens, limit 2, clock 5; confirmations: every kind of write, two fields of its body | pages catch up with their writes (`ListCatchesUp`) and deletes take nothing along (`NothingRidesAlong`); what is said of a rule was so (`LBSaysWhatHeld`; but for "does not hold" said unread, see Findings) and nothing of others is taken back (`KeepsOthersWork`); read-backs are real (`SaysWhatItRead`); a log shown is one stretch (`OneStretch`); restored keys are quarantined (`KeysQuarantined`) and restores keep the promise (`KeepsThePromise`); rates are traffic (`RatesAreTraffic`); what is said to be refused is not done (`RefusedIsNotDone`); idle sessions end on time (`IdleIsTimely`); a read confirms a write exactly when it is in effect (`ConfirmsExactly`) |
| `pages_unread` | 2 rows, 2 writes | **violated** `UnknownIsReadBack` |

Deadlock is checked in every run but the two of `MCParts`, where counters of
submits, clicks and ticks run out by their bounds. Every property of a passing run is also shown
to fail on a mutated definition (a guard dropped, a swapped comparison, a reset
left out); the mutants stand beside the definitions they mutate.

### Why the bounds are enough

- Session: the hazards are between two tabs, or between a session and its
  successor in one tab; two of each show every pair. A second reload or request
  adds a copy of one that is there: `session_all` has two requests for the
  answers that meet each other in one tab (parallel 401s, a pending probe). Where
  a session follows a session in two tabs at once the proofs take over.
- RestoreWizard: an undo is a second run; an undo of an undo treats the second
  as the first. Two domains make all, some and none of the boxes differ, and
  overlapping but different selections. Two dry-runs of selections in one run
  are what overtaking takes. A dialog closed and opened again during the read of
  an undo takes three; that is left to the theorem (`UndoFindsItsRestore`).
- Reconcile: superseding takes two writes, leaving takes two page instances. The
  schedule of the code has four intervals; a chain's decisions depend only on
  whether one is left.

- PageWrites: a row that rides along needs one write that leaves it ticked and a
  second that takes it; two rows make a partly failed Delete.
- LBRuleEdit: a late write takes a first submit whose answer is lost and a second
  that reads in between; `KeepsOthersWork` takes one step of somebody else.
- ReadBack, OpResults: a second change meets the late end of the first.
- LogPaging: three lines in pages of one are two cursors past the newest page, and
  a view to come from and one to go to.
- Confirmations: a field is compared by itself, but for the rule's mode, which decides
  whether another is compared; two fields are every such pair.
- RecoveryRestore: two runs meet in a database; a third meets one of them. A second
  name and cluster is the database that must not be touched.
- CounterRates: a rate is of two snapshots; a third tick is a gap longer than
  `MaxGap` or a snapshot that leaves the ring.
- IdleWatch: with a limit of 2, a clock of 5 sees a tab idle out, a new sign-in and
  its own limit; three tokens let a tab miss one.

### Fairness

Only what the browser or the network does on its own is fair, and only weakly:
a navigation completes, purges settle, a queued storage event is dispatched, a
call settles (a lost one as an error: `request_restore_snapshot` turns a thrown
fetch into an answer), an armed timer fires, a handler whose await has settled
goes on. Nothing is assumed of operators, nor that the gateway ever applies what
it accepted. `EndedSessionLeavesBrowser` rests on the expiry timer and
`EveryTabFollows` on storage events; `SignOutSettled` is fair although
`request_logout` has no timeout, because a browser ends every fetch.
`EveryWriteSettles` is stated for what is sent: a form nobody submits may stay.

## Proofs

The theorems hold for every set of tabs, tokens and domains and every value of
the bounds; the assumptions are those of the modules' ASSUMEs (`NoToken` is no
token, bounds are natural numbers, scenarios are known ones).

**Session.** `TypeCorrect` and `TornDownPagesStayEmpty` in every scenario. In the
plain case `PlainInvariant` shows `SessionInv` inductive, and `NoForeignDataShown`
and `NoResidueLeft` follow from it; each of the three scenarios breaks both. They are not
inductive: that a page shows only its own session's data depends on what other
tabs hold and will write into the cache. The strengthening says that a tab which
holds data works under the stored session *or* has an event or a teardown coming
that will empty it (`DataIsCurrentOrDoomed`), that the persisted cache is the
stored session's or still some tab's (`CacheIsTraced`), and that a page on its
way out, or torn down, holds nothing any more. `SessionAlwaysWatched` needs less and
holds unless somebody renames themselves, with slow tabs and login pages left open:
an app page's own token is the stored one, or an event or a teardown is coming to it
(`AppIsTimedOrDoomed`), since whoever changes the token queues an event everywhere.

**RestoreWizard.** `PassesAreReal` shows `RestoreInv` inductive in every scenario:
what is shown as passed, the gateway has passed for this target and selection;
every answer speaks of its call as the backend understood it; a commit is the
only one of its run and verified. Type correctness carries part of the weight:
each answer is taken by the handler of its own call. `CommitsAreAsTicked` adds that
the dry-run which sets the ticks has one answer and has had it before a commit is
sent. `UndoFindsItsRestore` follows a restore along its way: what is shown as done
the gateway took up, a restore taken up aimed as it was sent, and an undo reads
back just that. `ResultsAreHonest` assumes that every 200 answer has a readable body.
Its invariant (`HonestInv`) follows each commit from the request to the step that
shows its result: an answer that says done is of a run that replaced what it aimed at,
one that says nothing was done is of a run that replaced nothing and has no request left
(`IsTrueOf`), and what is ticked stays what the run shown aimed at.
`OnlyUnreachedMisleads` is the same without the assumption, for every other thing the step may say: unreadable answers mislead in just one way.
`UndosKeepToTheirDomains` assumes that snapshots cover the same domains: then a restore
without a selection of its own aimed at all of them (`WholeIsAll`). `WizardKeepsPromise`
maps the gateway's `config`, `validated` and `restored` to `VerifiedRestore` and
shows that each step is a dry-run, a restore of something verified and not yet
restored in this run, another operator's edit, or a stutter.

**Reconcile.** In every case, silent paths included: `TypeCorrect`;
`ChainsAreAnswered` (`NobodyWaitsInVain` is inductive: a cancelled fetch answers
its caller, and the one that replaces it has a caller); `ChainInvariant` (pages
and chains are numbered for good: an aborted chain's page is gone or has another
one), from which `AbandonedChainsStop` and `AbandonedChainsClaimNothing`. With no
silent reconciliation `PlainInvariant` shows that the locked dialog keeps writes
apart (`OneWriteAtATime`), so that nothing supersedes a chain or cancels its
reads and a read is always of a gateway that has accepted the write
(`ReadsAreRecent`). `DialogStaysLocked`, `ReportsAreTrue`, `OperatorIsTold` and
`ReportsKeepToTheirPage` follow. With silent paths the dialog does not keep writes
apart, but `SilentInv` takes its place: a page's one chain that is not abandoned is its
latest (`CurrentIsLatest`) and of the page shown (`CurrentIsHere`), so that a read
which is cancelled, and answered from the cache, is of a chain that cannot report any
more. `ReportsAreTrueBesideSilentChains` needs for it that nobody leaves a page in the
middle of a form or of a request (`StaysToSubmit`); `ReportsAreTrueOnOnePage` is what
`reconcile_silent` checks. Without it a chain that starts on a page already left is
nobody's to abort, and TLC finds a report taken from the cache.

**PageWrites.** `ListsCatchUp`: with `OldReadsAreFollowed`, a fetch that the gateway
has answered from before the last confirmed write has a timer behind it that will
read again. `DeletesTakeNothingAlong`: with `TicksAreFresh`, whatever is ticked was
ticked since the page's own last success. That is all it says: a row that somebody
else removed and created anew under a kept tick, with no success of the page in
between, is deleted along. Neither property is inductive: both speak of what
is shown, and the next render may be of a fetch, or of ticks, they do not mention.

**LBRuleEdit.** `ReportsAreTrue`: `ReportInv` carries from the send to the report that
what the server holds, and what has been read since, is in `lbSeen`, and that a
delete is always followed by its create. A conflict after which the rule was read is
said to hold the values or not to, and each is of that read (`AlreadyHolds`); the
report after a read that failed is left out by `LBSaysWhatHeld`, and so by the theorem.
`OthersWorkIsKept`: `WritesInv` says of
every write, on its way, waiting for a delete, or lost and late, that it carries
what others had changed when it was built; so whenever it lands it takes nothing
back. Both hold for any number of submits, other operators' steps and late writes.

**ReadBack and OpResults.** `ReadBackIsTrue`: a fetch under way in the reading phase
began after the write was sent. `RefusalsAreReal`: an answer that will be read as a
refusal comes from a hop that has not let the request pass.

**Confirmations.** `ReadsConfirmExactly`: for each way of storing a field, being the
same and being left as it is by the same write are one (`FieldIsExact`); a row that
agrees on its mode decides rightly whether the fullproxy fields are looked at
(`RowIsExact`). What is assumed is how the gateway stores and serves.

**IdleWatch.** `IdleEndsOnTime`: a deadline is the limit after the last use, a timer
is never past it, and a tab that owns its session has one.

**RecoveryRestore.** `KeysAreQuarantined` and `RecoveryKeepsThePromise` rest on an
invariant about the commands that may still run: who owns a database was the one
run whose CREATE succeeded, every run that is past it, or has a command in it,
works on its own, and loading comes after revoking. The refinement maps a
database to its standing with the run that made it, and each step to a step of
`RecoveredDatabases` or a stutter.

**LogPaging.** `LogIsOneStretch`: a cursor names the last line of its page for good, so
that page is the same one however often and however late it is read (`IsPage`); and the
key's cursor is where the lines shown end, unless its page has just been added to them
(`AddedOrNext`). So no page is added twice, and each begins where the last one ended.

**CounterRates.** `ShownRatesAreTraffic`: against its counters now, a snapshot has
forgotten no request, and no counter has gained more since than there were requests
(`IsPast`); the two snapshots of a rate stand to each other in the same way (`Follows`).
That what holds of every series holds of the sum over a finite group (`SumsKeepOrder`) is
shown without induction over an operator: a least group for which it failed would lose a
series and fail still (strict inclusion of finite sets is well-founded).

**All nine parts.** `PartsProofs` shows that a behaviour of `PartsSpec`, which moves one
part at a time, is one of each part (`PartsBehave`); from that and the parts' theorems
follow `PartsTypeCorrect`, `PartsKeepTheirPromises` and `PartsStepAsPromised`: the
properties of the run `parts`, for every value of the constants.

With this every invariant and action property of the passing runs is stated by a
theorem, under the hypotheses the run has or weaker ones. Only model-checked is
liveness, which under fairness is out of the prover's reach:
`EndedSessionLeavesBrowser`, `EveryTabFollows`, `CommittingEnds`, `DryRunSettles` and
`EveryWriteSettles`. What the `violation` runs show is of course not proved; the
theorems of the same properties carry the hypothesis that leaves the cause out.

## Findings

Runs:

- **Renaming one's own account leaves data behind** (`session_residue`,
  `pages/managers/UserManagementPage.tsx:377`): the page removes the token by hand
  instead of calling `terminateSession`; the query cache survives on the login
  page.
- **A commit answered without a readable body is shown as never having reached
  the gateway** (`wizard_unreadable`, `connector/oam/snapshotApi.ts:130`).
- **A silently reconciling write closes the locked dialog of the next one**
  (`reconcile_closed`, `components/modal/PopUp.tsx:78`): `handleYes` closes
  whatever dialog is busy, its own or not. The next form can then be submitted
  again while its first submission runs; a result that comes later can also
  overwrite the one-time display of an API key.
- **A change whose answer was lost can be sent again unread** (`pages_unread`,
  `pages/network/RoutePage.tsx:63`): when every request of a write failed, most pages
  show the failure and return, lost answers included, with the rows still ticked
  and Delete enabled; `connector/fetcher/opResult.ts:13` says the state "must be read
  back before anything is sent again". `FirewallPage`, the deletion of `IPFilterPage`
  and `AIObjectivesPage` do read it.

Also met, with no run of their own:

- A peer can confirm somebody else's write, against the comment at
  `hooks/query/confirmPredicates.ts:30`: `lbRuleAppeared` (the check on upstream
  loxilb) and `endpointAppeared` compare only the discriminators that were sent, so
  one sent with none is confirmed by a sibling that has a host or a name, and an
  update of an endpoint by its having been there before (`EndpointPage.tsx:189`).
  `ConfirmsExactly` makes the exception by name.
- After a replace answered 409 the rule page says that "the rule does not hold the
  submitted values" whenever it did not see that it does, also when the read failed
  and `rows` is undefined (`LBRulePage.tsx:498`, `:509`), against its own comment at
  `:497`, "Read the rule back before saying anything about it". The rule may hold them
  all along: another operator makes the same change after the re-read (or an earlier
  submit of one's own arrives late), the gateway finds nothing to change and answers
  409, the read fails, and the operator is sent back to the form. Every step is in
  `LBRuleEdit` and the report is its own (`"does not hold, unread"`). Held to the claim
  `LBSaysWhatHeld` makes of `"does not hold"`, it fails after eight states with one
  submit and one step of another operator, which is why the property names it as left
  out. After any other answer a read that failed is said to have failed.
- A zero the gateway replaces by a default (`inactiveTimeOut`), a `fullproxyOnly`
  field on a rule of another mode and the skipped fields are confirmed unread.
- The token a self-rename installs is watched by no timer of the running page:
  with `selfRename`, `SessionIsWatched` fails (`useSessionWatch.ts:30`, `:35`).
- A 401 that OAM marks as its own ends whatever session is stored when it
  arrives (`connector/fetcher/fetcher_base.ts:243`), although the unmarked one
  compares tokens first (`:174`).
- With `partialSnapshots`, `UndoKeepsToItsDomains` fails: an undo of a restore of
  a whole document ticks every domain of the pre-restore snapshot, which may
  cover more (`components/snapshot/RestoreWizard.tsx:499`).
- A chain without a predicate resolves `confirmed` after its first read, aborted
  or not (`hooks/query/reconcile.ts:126`), against the comment at `:95`;
  `AbandonedNeverConfirms` is therefore stated for chains with one.
- A login page used over a live session restores that session's cache
  (`pages/LoginPage.tsx:78`; `NoForeignData` fails with `loginOverLive`), and a write
  answered after its page was left starts reads nobody aborts
  (`hooks/query/reconcile.ts:112`).
- Reading again after a write: a query of OAM does not cancel its first load
  (`hooks/query/common.ts`), `AIObjectivesPage.tsx:111` goes around `fromQueryRefetch`,
  the Users page rejects at the first failed delete and then neither reads nor clears
  (`UserManagementPage.tsx:192`), and `InstanceCard` reads only when its message is
  acknowledged. `CatchesUp` names the pages `ListCatchesUp` is of. The second a page
  waits before it reads again may be too short for the gateway.
- Ticks by place act on the row that is there now (`IPsecCertificatePage.tsx:72`,
  `:117`; `HAPage.tsx:36`), and a dialog left open over a failed refresh acts on
  stale data on every page but Snapshots (`DataTable.tsx:95`).
- Edits that write a whole row revert what others changed in it meanwhile; the rule
  page reads it again first, the others do not.
- Rule editing on upstream loxilb: a re-read that fails only reaches the console;
  a rule others removed is created anew from the selected row
  (`LBRulePage.tsx:568`); after a delete and a failed create the rule is gone and the
  dialog says that the update failed; "updated" means that a rule of that identity
  is there.
- Maintenance: "not entered" and "not ended" are said of a lost answer too, and what
  is then read back is ignored (`MaintenancePage.tsx:104`).
- Log paging: "Load older" is gone for good when a keyword, Live or a reset leaves
  the key as it was; one that follows a failed one can leave its spinner on; and
  turning Live off may show a page cached before it.
- Activity in one tab does not extend the deadline of another, and activity just
  after a wake extends a deadline that has passed (`session/useSessionWatch.ts:52`).

## What is not modelled, and why

- Time, but in `IdleWatch` and `CounterRates`: elsewhere a timer may fire whenever it
  is armed.
- Handlers of the listed pages that end in another way: rotating a key, resetting
  rates, tunnel actions, adding addresses, pinning and scheduling snapshots. Adding a
  rule and deleting several are not in `LBRuleEdit`, `export` not in `RecoveryRestore`.
- In `Confirmations`, fields of a body that are stored and compared alike stand for one
  another, and prefixes, band triples and trimmed names are two spellings of a value.
- In `LBRuleEdit` an identity names one rule. The re-read on upstream loxilb matches
  address, port and protocol only (`LBRulePage.tsx:569`), so it may pick a sibling that
  differs in its host or name; siblings are in `Confirmations`, not here.
- In `ReadBack` a late write arrives as the value the form sends; two sends of one form
  differ by nothing else.
- In `CounterRates` counters are finite: the parser and the verdicts are pure
  functions of one exposition, covered by the unit tests beside them.
- A double click on the Yes button of the dialog: the dialog is locked and
  rendered synchronously, which `PopUp.test.tsx` covers. A page's own error popup
  (`useErrorPopup`) is abstracted to whether the operator was told.
- In `Reconcile` a silent chain of a page that was left shares the query with the
  page shown, and each can cancel the other's reads. With no time in the model
  every one of a chain's reads may be cancelled by coincidence (TLC finds it, and
  `ReportsAreTrueBesideSilentChains` shows what it takes), so the runs with
  silent paths have one page instance, and those with two have no silent path
  where reports are checked.
- Wording, layout, forms, validation, charts and locales: no state that outlives a
  render, nothing concurrent.
- The generated API client and its types (`api/gen`), about half of the lines of the
  implementation: declarations without behaviour. With the connectors' one-line
  requests and the markup of the pages they are why the models stand for a small
  share of all lines.
- `docker-entrypoint.sh` and `ssl-setup.sh`: they run once and either start the
  web server or stop.

## Plan

Done: `Session`, `VerifiedRestore` and `RestoreWizard`, `Reconcile`, `PageWrites`,
`LBRuleEdit`, `ReadBack`, `OpResults`, `IdleWatch`, `RecoveredDatabases` and
`RecoveryRestore`, `LogPaging`, `CounterRates`, `Confirmations`; theorems about all of
them, and about the nine parts beside each other.

To come, in this order:

1. The snapshots page (`SnapshotPage.tsx:165`): taking, pinning and scheduling.
2. Deleting several rules (`LBRulePage.tsx:219`) and adding one in `LBRuleEdit`.
3. `export` of the recovery package, and a crash of the container.
4. The fetcher's error pages, and a property of late 401s (`fetcher_base.ts:243`).
