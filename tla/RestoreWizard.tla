---------------------------- MODULE RestoreWizard ----------------------------
(***************************************************************************)
(* The snapshot restore wizard, the OAM and gateway it drives, and other   *)
(* operators of the same instance.                                         *)
(*                                                                         *)
(* A run is one target of the wizard: an opening of the dialog, or an undo *)
(* inside it (a value of runRef in one mounted wizard).  An answer belongs *)
(* to a run.  A configuration is a value per domain; a snapshot holds one  *)
(* for the domains it covers.  `components` left out of a request and an   *)
(* empty list mean the same to the gateway, every domain: both are {}.     *)
(***************************************************************************)
EXTENDS Naturals, FiniteSets

CONSTANTS
    Domains,     \* configuration domains of an instance
    MaxRuns,     \* bound: targets of the wizard
    MaxPicks,    \* bound: dry-runs of a selection within a run
    Scenarios    \* what the servers do beyond the plain case

(***************************************************************************)
(* "partialSnapshots":  snapshots do not all cover the same domains        *)
(* "unreadableAnswers": a 200 answer to a commit may arrive without a body *)
(*                      or with one that cannot be parsed                  *)
(***************************************************************************)
KnownScenarios == {"partialSnapshots", "unreadableAnswers"}

ASSUME BoundsAssumption == MaxRuns \in Nat \ {0} /\ MaxPicks \in Nat
ASSUME ScenariosAssumption == Scenarios \subseteq KnownScenarios

Runs      == 1..MaxRuns
Snapshots == 0..MaxRuns   \* 0 is the operator's; r was taken by run r's commit
Values    == {"saved", "other"}
NoDomains == {}

Request == [kind : {"dryRun", "pickedDryRun", "commit", "read"}, run : Runs,
            snap : Snapshots, domains : SUBSET Domains, pick : 0..MaxPicks,
            awaited : BOOLEAN]

Outcomes == {"ok", "rolledBack", "rollbackFailed", "incomplete",
             "unconfirmed", "unreached", "unknown"}

DryRunVerdicts == {"pass", "refused"}
ReadResults    == {"found", "missing"}

(* What is said fits what was asked. *)
SaysTo(kind) == CASE kind = "commit" -> Outcomes
                  [] kind = "read"   -> ReadResults
                  [] OTHER           -> DryRunVerdicts

Answer == {a \in [to : Request, says : DryRunVerdicts \union ReadResults
                                         \union Outcomes,
                  plan : SUBSET Domains, components : SUBSET Domains] :
               a.says \in SaysTo(a.to.kind)}

VARIABLES
    step,        \* "closed", or the step the dialog shows
    run,         \* runRef: the latest target; 0 before the first
    snap,        \* target.snapshot
    undo,        \* the run whose restore the target undoes; 0 if none
    wanted,      \* target.undo.components
    full,        \* the dry-run of the whole document
    plan,        \* planDomains of its outcome
    checked,     \* the ticked domains
    picked,      \* the dry-run of a selection, kept with that selection
    inFlight,    \* commitInFlightRef
    unrendered,  \* "Restore Now" was clicked and is still on the screen
    sent,        \* the domains the commit was sent for
    outcome,     \* what the result step says of the commit
    undoing,     \* undoLoading
    requests,    \* on their way to OAM
    answers,     \* on their way to the browser
    selective,   \* OAM and gateway know `components`
    config,      \* the gateway: the value of each domain
    content,     \* OAM: what each snapshot holds
    covers,      \* OAM: the domains each snapshot covers
    validated,   \* dry-runs the gateway passed
    restored,    \* runs whose commit the gateway took up
    aimed,       \* the domains each of them was for
    replaced     \* the domains each of them did replace

wizard == <<step, run, snap, undo, wanted, full, plan, checked, picked,
            inFlight, unrendered, sent, outcome, undoing>>
servers == <<selective, config, content, covers, validated, restored, aimed,
             replaced>>
vars == <<wizard, requests, answers, servers>>

NotPicked == [domains |-> NoDomains, pick |-> 0, state |-> "none"]

TypeOK ==
    /\ step \in {"closed", "dry-run", "confirm", "committing", "result"}
    /\ run \in 0..MaxRuns
    /\ run = 0 => step = "closed" /\ ~unrendered
    /\ snap \in Snapshots
    /\ undo \in 0..MaxRuns
    /\ wanted \subseteq Domains
    /\ full \in {"loading", "pass", "refused"}
    /\ plan \subseteq Domains
    /\ checked \subseteq Domains
    /\ picked \in [domains : SUBSET Domains, pick : 0..MaxPicks,
                   state : {"none", "loading", "pass", "refused",
                            "otherDomains"}]
    /\ inFlight \in BOOLEAN /\ unrendered \in BOOLEAN /\ undoing \in BOOLEAN
    /\ sent \subseteq Domains
    /\ outcome \in Outcomes \union {"none"}
    /\ requests \subseteq Request
    /\ answers \subseteq Answer
    /\ selective \in BOOLEAN
    /\ config \in [Domains -> Values]
    /\ content \in [Snapshots -> [Domains -> Values]]
    /\ covers \in [Snapshots -> SUBSET Domains]
    /\ validated \subseteq [run : Runs, snap : Snapshots,
                            domains : SUBSET Domains]
    /\ restored \subseteq Runs
    /\ aimed \in [Runs -> SUBSET Domains]
    /\ replaced \in [Runs -> SUBSET Domains]

Coverages == IF "partialSnapshots" \in Scenarios THEN SUBSET Domains
                                                 ELSE {Domains}

Init ==
    /\ step = "closed" /\ run = 0 /\ snap = 0 /\ undo = 0
    /\ wanted = NoDomains /\ full = "loading" /\ plan = {} /\ checked = {}
    /\ picked = NotPicked /\ inFlight = FALSE /\ unrendered = FALSE
    /\ sent = NoDomains /\ outcome = "none" /\ undoing = FALSE
    /\ requests = {} /\ answers = {}
    /\ selective \in BOOLEAN
    /\ config = [d \in Domains |-> "other"]
    /\ content = [s \in Snapshots |-> [d \in Domains |-> "saved"]]
    /\ covers \in [Snapshots -> Coverages]
    /\ validated = {} /\ restored = {}
    /\ aimed = [r \in Runs |-> {}]
    /\ replaced = [r \in Runs |-> {}]

----------------------------------------------------------------------------
(* What the wizard derives from its state at every render. *)

(* restoreSelection: whether the ticked boxes are all, some or none of the *)
(* listed domains.                                                         *)
Ticked == plan \intersect checked
SelectsAll == plan = {} \/ Ticked = plan

(* Mutant of SelectsSome: an empty selection is sent like any other.       *)
SelectsAnyPart == ~SelectsAll
SelectsSome == ~SelectsAll /\ Ticked # {}

(* The list a request carries. *)
Components == IF SelectsSome THEN Ticked ELSE NoDomains

(* Mutant of PickedNow: any dry-run of a selection counts.                 *)
PickedAtAll == SelectsSome /\ picked.state # "none"

(* The dry-run kept is the one of the domains ticked now. *)
PickedNow ==
    SelectsSome /\ picked.state # "none" /\ picked.domains = Components

CanContinue ==
    /\ full = "pass"
    /\ \/ SelectsAll
       \/ PickedNow /\ picked.state = "pass"

(* Mutant of AnswersSelection: what the answer is about is not looked at.  *)
AnswersAnything(a) == TRUE

(* answersSelection: the answer is about the domains sent, and no others.  *)
AnswersSelection(a) ==
    a.to.domains # NoDomains =>
        a.components = a.to.domains /\ a.plan = a.to.domains

ToRequest(kind, r, s, ds, pick) ==
    [kind |-> kind, run |-> r, snap |-> s, domains |-> ds, pick |-> pick,
     awaited |-> TRUE]

(* The effect of a new target: everything of the last run is reset, and    *)
(* the whole document is dry-run.                                          *)
NewTarget(s, u, ds) ==
    /\ run < MaxRuns
    /\ run' = run + 1
    /\ step' = "dry-run" /\ snap' = s /\ undo' = u /\ wanted' = ds
    /\ full' = "loading" /\ plan' = {} /\ checked' = {}
    /\ picked' = NotPicked /\ inFlight' = FALSE /\ unrendered' = FALSE
    /\ sent' = NoDomains /\ outcome' = "none" /\ undoing' = FALSE
    /\ requests' = requests \union
                      {ToRequest("dryRun", run + 1, s, NoDomains, 0)}

----------------------------------------------------------------------------
(* The operator. *)

(* Restore... on a snapshot of the list: the page mounts a wizard.         *)
Open ==
    /\ step = "closed"
    /\ \E s \in {0} \union restored : NewTarget(s, 0, NoDomains)
    /\ UNCHANGED <<answers, servers>>

(* The wizard is unmounted and its state is gone. *)
Unmount ==
    /\ step' = "closed" /\ snap' = 0 /\ undo' = 0 /\ wanted' = NoDomains
    /\ full' = "loading" /\ plan' = {} /\ checked' = {}
    /\ picked' = NotPicked /\ inFlight' = FALSE /\ unrendered' = FALSE
    /\ sent' = NoDomains /\ outcome' = "none" /\ undoing' = FALSE
    /\ UNCHANGED <<run, requests, answers, servers>>

(* handleDialogClose: not while a commit is under way. *)
Close ==
    /\ step \notin {"closed", "committing"}
    /\ Unmount

(* The page goes away with its wizard: a navigation, the session's end.    *)
Leave ==
    /\ step = "committing"
    /\ Unmount

(* handleToggle, and the plan's select-all box. *)
Tick(ds) ==
    /\ step = "dry-run"
    /\ full = "pass"
    /\ \/ \E d \in plan : ds = (checked \ {d}) \union ({d} \ checked)
       \/ ds \in {plan, {}}
    /\ checked' = ds
    /\ UNCHANGED <<step, run, snap, undo, wanted, full, plan, picked, inFlight,
                   unrendered, sent, outcome, undoing, requests, answers,
                   servers>>

(* handlePickedDryRun. *)
DryRunPicked ==
    /\ step = "dry-run"
    /\ full = "pass"
    /\ SelectsSome
    /\ ~PickedNow
    /\ picked.pick < MaxPicks
    /\ picked' = [domains |-> Components, pick |-> picked.pick + 1,
                  state |-> "loading"]
    /\ requests' = requests \union
                      {ToRequest("pickedDryRun", run, snap, Components,
                                 picked.pick + 1)}
    /\ UNCHANGED <<step, run, snap, undo, wanted, full, plan, checked, inFlight,
                   unrendered, sent, outcome, undoing, answers, servers>>

Continue ==
    /\ step = "dry-run"
    /\ CanContinue
    /\ step' = "confirm"
    /\ UNCHANGED <<run, snap, undo, wanted, full, plan, checked, picked,
                   inFlight, unrendered, sent, outcome, undoing, requests,
                   answers, servers>>

(* Mutant of MayCommit: the ref that guards against a double click gone.   *)
MayCommitAgain == (step = "confirm" \/ unrendered) /\ CanContinue

(* handleCommit's guards; a second click may come before the next render.  *)
MayCommit ==
    /\ step = "confirm" \/ unrendered
    /\ ~inFlight
    /\ CanContinue

(* handleCommit up to its await.  The instance name has been typed.        *)
RestoreNow ==
    /\ MayCommit
    /\ inFlight' = TRUE
    /\ unrendered' = (step = "confirm")
    /\ step' = "committing"
    /\ sent' = Components
    /\ requests' = requests \union
                      {ToRequest("commit", run, snap, Components, 0)}
    /\ UNCHANGED <<run, snap, undo, wanted, full, plan, checked, picked,
                   outcome, undoing, answers, servers>>

Render ==
    /\ unrendered
    /\ unrendered' = FALSE
    /\ UNCHANGED <<step, run, snap, undo, wanted, full, plan, checked, picked,
                   inFlight, sent, outcome, undoing, requests, answers, servers>>

(* A commit that changed the instance, or may have, can be undone.         *)
CanUndo == step = "result" /\ outcome \in {"ok", "rollbackFailed"}

(* Mutant of PreRestoreId: the snapshot that was restored is read again.   *)
RestoredId == snap

(* pre_restore_snapshot_id of the commit's outcome. *)
PreRestoreId == run

(* handleUndo up to its await: the pre-restore snapshot is read.           *)
Undo ==
    /\ CanUndo
    /\ ~undoing
    /\ undoing' = TRUE
    /\ requests' = requests \union {ToRequest("read", run, PreRestoreId, sent, 0)}
    /\ UNCHANGED <<step, run, snap, undo, wanted, full, plan, checked, picked,
                   inFlight, unrendered, sent, outcome, answers, servers>>

----------------------------------------------------------------------------
(* Answers reach the wizard; those of another run are dropped. *)

Current(a) == step # "closed" /\ a.to.run = run

Drop(a) ==
    /\ a \in answers
    /\ ~Current(a)
    /\ answers' = answers \ {a}
    /\ UNCHANGED <<wizard, requests, servers>>

(* Mutant of InitiallyTicked: an undo offers every listed domain.          *)
AllTicked(listed) == listed

(* An undo starts from the domains of the restore it undoes. *)
InitiallyTicked(listed) ==
    IF undo # 0 /\ wanted # NoDomains THEN listed \intersect wanted ELSE listed

DryRunAnswer(a) ==
    /\ a \in answers
    /\ Current(a)
    /\ a.to.kind = "dryRun"
    /\ \/ /\ a.says = "pass"
          /\ full' = "pass"
          /\ plan' = a.plan
          /\ checked' = InitiallyTicked(a.plan)
       \/ /\ a.says = "refused"
          /\ full' = "refused"
          /\ UNCHANGED <<plan, checked>>
    /\ answers' = answers \ {a}
    /\ UNCHANGED <<step, run, snap, undo, wanted, picked, inFlight, unrendered,
                   sent, outcome, undoing, requests, servers>>

(* The answer is kept only beside the selection it was asked for.          *)
PickedAnswer(a) ==
    /\ a \in answers
    /\ Current(a)
    /\ a.to.kind = "pickedDryRun"
    /\ LET verdict == IF a.says = "refused" THEN "refused"
                      ELSE IF AnswersSelection(a) THEN "pass"
                      ELSE "otherDomains"
       IN  picked' = IF picked.pick = a.to.pick
                     THEN [picked EXCEPT !.state = verdict]
                     ELSE picked
    /\ answers' = answers \ {a}
    /\ UNCHANGED <<step, run, snap, undo, wanted, full, plan, checked, inFlight,
                   unrendered, sent, outcome, undoing, requests, servers>>

(* Mutant of AnswersCommit: any answer of the run is taken for it.         *)
AnswersRun(a) == a.to.run = run
AnswersCommit(a) == a.to.kind = "commit"

(* Mutant of Shown: commitUnknown is not kept.                             *)
ShownAsFailure(a) == IF a.says = "unknown" THEN "unreached" ELSE a.says

(* classifyCommitResult, with commitUnknown beside it. *)
Shown(a) == a.says

CommitAnswer(a) ==
    /\ a \in answers
    /\ Current(a)
    /\ AnswersCommit(a)
    /\ outcome' = Shown(a)
    /\ step' = "result"
    /\ unrendered' = FALSE
    /\ answers' = answers \ {a}
    /\ UNCHANGED <<run, snap, undo, wanted, full, plan, checked, picked,
                   inFlight, sent, undoing, requests, servers>>

(* handleUndo after its await: the pre-restore snapshot is the new target. *)
(* At the bound MaxRuns the read counts as failed.                         *)
UndoAnswer(a) ==
    /\ a \in answers
    /\ Current(a)
    /\ a.to.kind = "read"
    /\ answers' = answers \ {a}
    /\ \/ /\ a.says = "found"
          /\ NewTarget(a.to.snap, run, a.to.domains)
       \/ /\ a.says = "missing" \/ run = MaxRuns
          /\ undoing' = FALSE
          /\ UNCHANGED <<step, run, snap, undo, wanted, full, plan, checked,
                         picked, inFlight, unrendered, sent, outcome, requests>>
    /\ UNCHANGED servers

----------------------------------------------------------------------------
(* OAM and the gateway, as the wizard's code relies on them. *)

(* The domains a restore request is about, on this backend. *)
Effective(m) ==
    IF selective /\ m.domains # NoDomains
    THEN m.domains \intersect covers[m.snap]
    ELSE covers[m.snap]

Reply(m, says) ==
    [to |-> m, says |-> says, plan |-> Effective(m),
     components |-> IF selective THEN m.domains ELSE NoDomains]

(* Mutant of Answers: a fetch that throws rejects into the page.           *)
AnswersUnlessThrown(m, says) ==
    answers' = IF m.awaited /\ says \notin {"unknown", "refused"}
               THEN answers \union {Reply(m, says)} ELSE answers

(* What becomes of a call always reaches its caller, if one still waits.   *)
Answers(m, says) ==
    answers' = IF m.awaited THEN answers \union {Reply(m, says)} ELSE answers

(* A dry-run passes, or is refused, or its request or answer is lost. *)
ServeDryRun(m) ==
    /\ m \in requests
    /\ m.kind \in {"dryRun", "pickedDryRun"}
    /\ requests' = requests \ {m}
    /\ \/ /\ validated' = validated \union
                {[run |-> m.run, snap |-> m.snap, domains |-> Effective(m)]}
          /\ Answers(m, "pass")
       \/ /\ Answers(m, "refused")
          /\ UNCHANGED validated
    /\ UNCHANGED <<wizard, selective, config, content, covers, restored,
                   aimed, replaced>>

ServeRead(m) ==
    /\ m \in requests
    /\ m.kind = "read"
    /\ requests' = requests \ {m}
    /\ \E says \in {"found", "missing"} : Answers(m, says)
    /\ UNCHANGED <<wizard, servers>>

(* How a commit's answer reads in the browser: as given, with a status and *)
(* a body that do not agree, lost on the way - or without a readable body, *)
(* which the wizard takes for a refusal before the gateway.                *)
Heard(said) ==
    {said, "unknown"} \union
    (IF said \in {"ok", "rolledBack", "incomplete"} THEN {"unconfirmed"}
                                                   ELSE {}) \union
    (IF "unreadableAnswers" \in Scenarios THEN {"unreached"} ELSE {})

(* OAM refuses the commit, or the request is lost: nothing happens.        *)
RefuseCommit(m) ==
    /\ m \in requests
    /\ m.kind = "commit"
    /\ requests' = requests \ {m}
    /\ \E says \in {"unreached", "unknown"} : Answers(m, says)
    /\ UNCHANGED <<wizard, servers>>

(* OAM takes the pre-restore snapshot and the gateway carries the commit   *)
(* out, stops before applying it, or fails and rolls back - or cannot.     *)
ServeCommit(m) ==
    /\ m \in requests
    /\ m.kind = "commit"
    /\ requests' = requests \ {m}
    /\ restored' = restored \union {m.run}
    /\ content' = [content EXCEPT ![m.run] = config]
    /\ aimed' = [aimed EXCEPT ![m.run] = Effective(m)]
    /\ \E said \in {"ok", "rolledBack", "rollbackFailed", "incomplete"} :
          /\ \E ds \in CASE said = "ok" -> {Effective(m)}
                         [] said = "rollbackFailed" -> SUBSET Effective(m)
                         [] OTHER -> {{}} :
                /\ config' = [d \in Domains |-> IF d \in ds
                                                THEN content[m.snap][d]
                                                ELSE config[d]]
                /\ replaced' = [replaced EXCEPT ![m.run] = ds]
          /\ \E says \in Heard(said) : Answers(m, says)
    /\ UNCHANGED <<wizard, selective, covers, validated>>

(* The hop gives up on a commit that is still being carried out. *)
TimeOut(m) ==
    /\ m \in requests
    /\ m.kind = "commit"
    /\ m.awaited
    /\ requests' = (requests \ {m}) \union {[m EXCEPT !.awaited = FALSE]}
    /\ Answers(m, "unknown")
    /\ UNCHANGED <<wizard, servers>>

(* Another operator changes a domain. *)
Edit(d) ==
    /\ config' = [config EXCEPT ![d] = "other"]
    /\ UNCHANGED <<wizard, requests, answers, selective, content, covers,
                   validated, restored, aimed, replaced>>

----------------------------------------------------------------------------
Operator ==
    \/ Open \/ Close \/ Leave
    \/ \E ds \in SUBSET Domains : Tick(ds)
    \/ DryRunPicked \/ Continue \/ RestoreNow \/ Undo

Deliver ==
    \E a \in answers :
        Drop(a) \/ DryRunAnswer(a) \/ PickedAnswer(a) \/ CommitAnswer(a)
            \/ UndoAnswer(a)

Serve ==
    \E m \in requests :
        ServeDryRun(m) \/ ServeRead(m) \/ RefuseCommit(m) \/ ServeCommit(m)

Next ==
    \/ Operator \/ Render \/ Deliver \/ Serve
    \/ \E m \in requests : TimeOut(m)
    \/ \E d \in Domains : Edit(d)

Spec == Init /\ [][Next]_vars

(* Every call settles: request_restore_snapshot turns a thrown fetch into  *)
(* an answer, and what is answered is delivered.                           *)
FairSpec == Spec /\ WF_vars(Serve) /\ WF_vars(Deliver)

----------------------------------------------------------------------------
(* Properties. *)

(* A commit under way replaces the ticked domains and no others, on a      *)
(* backend that knows `components` as on one that ignores it (handleCommit,*)
(* answersSelection: "the answer is about the domains that were sent").    *)
ReplacesWhatIsTicked ==
    \A m \in requests :
        m.kind = "commit" /\ m.run = run /\ step # "closed"
            => Effective(m) = Ticked

(* The result step never says that nothing happened of a commit that       *)
(* changed the instance or still may, nor that a restore succeeded that    *)
(* did not (CommitPanel: "A commit that timed out or lost its connection   *)
(* may have restored - do not say it failed").                             *)
OutcomeIsHonest ==
    step = "result" =>
        /\ outcome = "ok" => run \in restored /\ replaced[run] = Ticked
        /\ outcome \in {"unreached", "incomplete", "rolledBack"} =>
              /\ replaced[run] = {}
              /\ \A m \in requests : ~(m.kind = "commit" /\ m.run = run)

(* An undo aims at the snapshot taken just before the restore it undoes,   *)
(* and at all the domains that restore was for (handleUndo).               *)
UndoAimsAtItsRestore ==
    undo # 0 /\ step # "closed" =>
        /\ undo < run /\ undo \in restored /\ snap = undo
        /\ wanted = NoDomains \/ aimed[undo] = wanted

(* What an undo has ticked when its dry-run arrives are domains of the     *)
(* restore it undoes ("for the same domains", handleUndo): by default it   *)
(* reverts nobody else's changes to other domains.                         *)
UndoKeepsToItsDomains ==
    [][\A a \in answers : DryRunAnswer(a) /\ a.says = "pass" /\ undo # 0
          => checked' \subseteq aimed[undo]]_vars

(***************************************************************************)
(* The invariant behind them.                                              *)
(***************************************************************************)

Passed(r, s, ds) == [run |-> r, snap |-> s, domains |-> ds] \in validated

(* What the wizard shows as passed, the gateway passed, for this target.   *)
ShownPassIsReal ==
    step # "closed" =>
        /\ full = "pass" => plan = covers[snap] /\ Passed(run, snap, plan)
        /\ picked.state = "pass" =>
              /\ selective /\ picked.domains \subseteq covers[snap]
              /\ Passed(run, snap, picked.domains)

Calls == requests \union {a.to : a \in answers}

(* A call belongs to a run there was; the latest run's is for its target   *)
(* and, the latest dry-run of a selection, for that selection.             *)
CallsBelong ==
    \A m \in Calls :
        /\ m.run <= run
        /\ m.kind = "dryRun" => m.domains = NoDomains
        /\ m.kind = "pickedDryRun" => m.domains # NoDomains
        /\ m.run = run /\ step # "closed" =>
              /\ m.snap = (IF m.kind = "read" THEN run ELSE snap)
              /\ m.kind = "pickedDryRun" =>
                    /\ m.pick <= picked.pick
                    /\ m.pick = picked.pick => m.domains = picked.domains

(* An answer speaks of its call as the backend understood it, and one that *)
(* says pass of a dry-run the gateway passed.                              *)
AnswersAreReal ==
    \A a \in answers :
        /\ a.plan = Effective(a.to)
        /\ a.components = IF selective THEN a.to.domains ELSE NoDomains
        /\ a.says = "pass" => Passed(a.to.run, a.to.snap, a.plan)

(* A commit is sent once per run, and for what a dry-run of that run has   *)
(* verified; from then on the run is in flight.                            *)
CommitsAreVerified ==
    /\ \A m \in requests : m.kind = "commit" =>
          /\ m.run \notin restored
          /\ Passed(m.run, m.snap, Effective(m))
          /\ m.run = run /\ step # "closed" => inFlight
          /\ \A n \in requests : n.kind = "commit" /\ n.run = m.run => n = m
    /\ \A r \in restored : r <= run
    /\ run \in restored /\ step # "closed" => inFlight
    /\ unrendered => inFlight /\ step = "committing"

RestoreInv ==
    ShownPassIsReal /\ CallsBelong /\ AnswersAreReal /\ CommitsAreVerified

(* The wizard and its servers keep the promise of VerifiedRestore.         *)
Promise == INSTANCE VerifiedRestore WITH passed <- validated, used <- restored

KeepsPromise == Promise!Spec

(* The dialog that cannot be dismissed does end: a commit that is sent     *)
(* gets a result, or the page is gone.                                     *)
CommittingEnds == step = "committing" ~> step # "committing"

(* A dry-run spinner stops, whatever becomes of the call.                  *)
DryRunSettles ==
    step = "dry-run" /\ (full = "loading" \/ picked.state = "loading")
        ~> \/ step # "dry-run"
           \/ full # "loading" /\ picked.state # "loading"
=============================================================================
