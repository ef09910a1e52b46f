------------------------ MODULE RestoreWizardProofs ------------------------
(***************************************************************************)
(* Theorems about RestoreWizard, for every set of domains, every bound and *)
(* every scenario: type correctness, the inductive invariant that ties     *)
(* what the wizard shows to what the gateway has passed, that a commit     *)
(* replaces what is ticked, that an undo aims at the restore it undoes,    *)
(* and that the wizard and its servers implement VerifiedRestore.          *)
(***************************************************************************)
EXTENDS RestoreWizard, TLAPS

LEMMA ComponentsType == TypeOK => Components \in SUBSET Domains
BY DEF TypeOK, Components, Ticked, NoDomains

LEMMA EffectiveType ==
    ASSUME TypeOK, NEW m \in Request
    PROVE  Effective(m) \in SUBSET Domains
BY DEF TypeOK, Effective, Request

LEMMA ReplyType ==
    ASSUME TypeOK, NEW m \in Request, NEW says \in SaysTo(m.kind)
    PROVE  Reply(m, says) \in Answer
<1>1. Effective(m) \in SUBSET Domains
  BY EffectiveType
<1>2. (IF selective THEN m.domains ELSE NoDomains) \in SUBSET Domains
  BY DEF Request, NoDomains
<1> QED BY <1>1, <1>2 DEF Reply, Answer, SaysTo

(* An answer on its way back is well formed, whatever it says.             *)
LEMMA AnswersType ==
    ASSUME TypeOK, NEW m \in requests, NEW says \in SaysTo(m.kind), Answers(m, says)
    PROVE  answers' \subseteq Answer
<1>1. Reply(m, says) \in Answer
  BY ReplyType DEF TypeOK
<1> QED BY <1>1 DEF Answers, TypeOK

LEMMA RequestType ==
    ASSUME NEW kind \in {"dryRun", "pickedDryRun", "commit", "read"},
           NEW r \in Runs, NEW s \in Snapshots, NEW ds \in SUBSET Domains,
           NEW pick \in 0..MaxPicks
    PROVE  ToRequest(kind, r, s, ds, pick) \in Request
BY DEF ToRequest, Request

LEMMA NotPickedType ==
    NotPicked \in [domains : SUBSET Domains, pick : 0..MaxPicks,
                   state : {"none", "loading", "pass", "refused",
                            "otherDomains"}]
BY BoundsAssumption DEF NotPicked, NoDomains

(* A new target leaves the wizard and the calls well typed. *)
LEMMA NewTargetType ==
    ASSUME TypeOK, NEW s \in Snapshots, NEW u \in 0..MaxRuns,
           NEW ds \in SUBSET Domains, NewTarget(s, u, ds),
           answers' \subseteq answers, UNCHANGED servers
    PROVE  TypeOK'
<1> USE BoundsAssumption
<1>1. run + 1 \in Runs
  BY DEF NewTarget, TypeOK, Runs
<1>2. 0 \in 0..MaxPicks /\ NoDomains \in SUBSET Domains
  BY DEF NoDomains
<1>3. ToRequest("dryRun", run + 1, s, NoDomains, 0) \in Request
  BY <1>1, <1>2, RequestType
<1>4. requests' \subseteq Request
  BY <1>3 DEF NewTarget, TypeOK
<1>5. /\ run' \in 0..MaxRuns
      /\ run' # 0
  BY <1>1, <1>2 DEF NewTarget, Runs
<1> QED BY <1>2, <1>4, <1>5, NotPickedType DEF NewTarget, TypeOK, servers

LEMMA UnmountType == TypeOK /\ Unmount => TypeOK'
<1> SUFFICES ASSUME TypeOK, Unmount PROVE TypeOK'
  OBVIOUS
<1>1. /\ 0 \in Snapshots /\ 0 \in 0..MaxRuns
      /\ picked' \in [domains : SUBSET Domains, pick : 0..MaxPicks,
                      state : {"none", "loading", "pass", "refused",
                               "otherDomains"}]
  BY BoundsAssumption, NotPickedType DEF Unmount, Snapshots
<1> QED BY <1>1 DEF Unmount, TypeOK, servers, NoDomains

LEMMA InitType == Init => TypeOK
<1> SUFFICES ASSUME Init PROVE TypeOK
  OBVIOUS
<1>1. 0 \in Snapshots /\ 0 \in 0..MaxRuns
  BY BoundsAssumption DEF Snapshots
<1>2. Coverages \subseteq SUBSET Domains
  BY DEF Coverages
<1>3. picked \in [domains : SUBSET Domains, pick : 0..MaxPicks,
                 state : {"none", "loading", "pass", "refused",
                          "otherDomains"}]
  BY NotPickedType DEF Init
<1>4. covers \in [Snapshots -> SUBSET Domains]
  BY <1>2 DEF Init
<1>5. /\ config \in [Domains -> Values]
      /\ content \in [Snapshots -> [Domains -> Values]]
      /\ aimed \in [Runs -> SUBSET Domains]
      /\ replaced \in [Runs -> SUBSET Domains]
  BY DEF Init, Values
<1> QED BY <1>1, <1>3, <1>4, <1>5 DEF Init, TypeOK, NoDomains

LEMMA StepType == TypeOK /\ [Next]_vars => TypeOK'
<1> SUFFICES ASSUME TypeOK, [Next]_vars PROVE TypeOK'
  OBVIOUS
<1> USE BoundsAssumption
<1>1. CASE Open
  <2>1. PICK s \in {0} \union restored : NewTarget(s, 0, NoDomains)
    BY <1>1 DEF Open
  <2>2. s \in Snapshots /\ 0 \in 0..MaxRuns /\ NoDomains \in SUBSET Domains
    BY DEF TypeOK, Snapshots, Runs, NoDomains
  <2> QED BY <1>1, <2>1, <2>2, NewTargetType DEF Open
<1>2. CASE Close
  BY <1>2, UnmountType DEF Close
<1>3. CASE Leave
  BY <1>3, UnmountType DEF Leave
<1>4. ASSUME NEW ds \in SUBSET Domains, Tick(ds) PROVE TypeOK'
  BY <1>4 DEF Tick, TypeOK, servers
<1>5. CASE DryRunPicked
  <2>1. Components \in SUBSET Domains
    BY ComponentsType
  <2>2. picked.pick + 1 \in 0..MaxPicks
    BY <1>5 DEF DryRunPicked, TypeOK
  <2>3. run \in Runs
    BY <1>5 DEF DryRunPicked, TypeOK, Runs
  <2> QED BY <1>5, <2>1, <2>2, <2>3, RequestType DEF DryRunPicked, TypeOK, servers
<1>6. CASE Continue
  BY <1>6 DEF Continue, TypeOK, servers
<1>7. CASE RestoreNow
  <2>1. Components \in SUBSET Domains
    BY ComponentsType
  <2>2. run \in Runs /\ 0 \in 0..MaxPicks
    BY <1>7 DEF RestoreNow, MayCommit, TypeOK, Runs
  <2>3. requests' \subseteq Request
    BY <1>7, <2>1, <2>2, RequestType DEF RestoreNow, TypeOK
  <2> QED
    BY <1>7, <2>1, <2>2, <2>3 DEF RestoreNow, TypeOK, servers, Runs
<1>8. CASE Undo
  <2>1. run \in Runs /\ run \in Snapshots /\ 0 \in 0..MaxPicks
    BY <1>8 DEF Undo, CanUndo, TypeOK, Runs, Snapshots
  <2>2. requests' \subseteq Request
    BY <1>8, <2>1, RequestType DEF Undo, PreRestoreId, TypeOK
  <2> QED BY <1>8, <2>2 DEF Undo, TypeOK, servers
<1>9. CASE Render
  BY <1>9 DEF Render, TypeOK, servers
<1>10. ASSUME NEW a \in answers, Drop(a) PROVE TypeOK'
  BY <1>10 DEF Drop, TypeOK, wizard, servers
<1>11. ASSUME NEW a \in answers, DryRunAnswer(a) PROVE TypeOK'
  <2>1. a.plan \in SUBSET Domains
    BY DEF TypeOK, Answer
  <2>2. full' \in {"loading", "pass", "refused"}
        /\ plan' \subseteq Domains /\ checked' \subseteq Domains
    BY <1>11, <2>1 DEF DryRunAnswer, InitiallyTicked, TypeOK
  <2> QED BY <1>11, <2>2 DEF DryRunAnswer, TypeOK, servers
<1>12. ASSUME NEW a \in answers, PickedAnswer(a) PROVE TypeOK'
  <2>1. PICK v \in {"refused", "pass", "otherDomains"} :
          picked' = IF picked.pick = a.to.pick
                    THEN [picked EXCEPT !.state = v] ELSE picked
    BY <1>12 DEF PickedAnswer
  <2>2. picked' \in [domains : SUBSET Domains, pick : 0..MaxPicks,
                     state : {"none", "loading", "pass", "refused",
                              "otherDomains"}]
    BY <2>1 DEF TypeOK
  <2> QED BY <1>12, <2>2 DEF PickedAnswer, TypeOK, servers
<1>13. ASSUME NEW a \in answers, CommitAnswer(a) PROVE TypeOK'
  <2>1. a.to.kind = "commit"
    BY <1>13 DEF CommitAnswer, AnswersCommit
  <2>2. outcome' \in Outcomes
    BY <1>13, <2>1 DEF CommitAnswer, Shown, TypeOK, Answer, SaysTo
  <2> QED BY <1>13, <2>2 DEF CommitAnswer, Current, TypeOK, servers
<1>14. ASSUME NEW a \in answers, UndoAnswer(a) PROVE TypeOK'
  <2>1. a.to.snap \in Snapshots /\ a.to.domains \in SUBSET Domains
    BY DEF TypeOK, Answer, Request
  <2>2. CASE NewTarget(a.to.snap, run, a.to.domains)
    <3>1. run \in 0..MaxRuns
      BY DEF TypeOK
    <3> QED BY <1>14, <2>1, <2>2, <3>1, NewTargetType DEF UndoAnswer
  <2>3. CASE undoing' = FALSE /\ UNCHANGED
              <<step, run, snap, undo, wanted, full, plan, checked, picked,
                inFlight, unrendered, sent, outcome, requests>>
    BY <1>14, <2>3 DEF UndoAnswer, TypeOK, servers
  <2> QED BY <1>14, <2>2, <2>3 DEF UndoAnswer
<1>15. ASSUME NEW m \in requests, ServeDryRun(m) PROVE TypeOK'
  <2>1. answers' \subseteq Answer
    BY <1>15, AnswersType DEF ServeDryRun, SaysTo, DryRunVerdicts
  <2>2. validated' \subseteq [run : Runs, snap : Snapshots,
                              domains : SUBSET Domains]
    <3>1. m \in Request
      BY DEF TypeOK
    <3>2. [run |-> m.run, snap |-> m.snap, domains |-> Effective(m)]
            \in [run : Runs, snap : Snapshots, domains : SUBSET Domains]
      BY <3>1, EffectiveType DEF Request
    <3> QED BY <1>15, <3>2 DEF ServeDryRun, TypeOK
  <2> QED BY <1>15, <2>1, <2>2 DEF ServeDryRun, TypeOK, wizard
<1>16. ASSUME NEW m \in requests, ServeRead(m) PROVE TypeOK'
  <2>1. answers' \subseteq Answer
    BY <1>16, AnswersType DEF ServeRead, SaysTo, ReadResults
  <2> QED BY <1>16, <2>1 DEF ServeRead, TypeOK, wizard, servers
<1>17. ASSUME NEW m \in requests, RefuseCommit(m) PROVE TypeOK'
  <2>1. answers' \subseteq Answer
    BY <1>17, AnswersType DEF RefuseCommit, SaysTo, Outcomes
  <2> QED BY <1>17, <2>1 DEF RefuseCommit, TypeOK, wizard, servers
<1>18. ASSUME NEW m \in requests, ServeCommit(m) PROVE TypeOK'
  <2>1. m \in Request /\ Effective(m) \in SUBSET Domains
    BY EffectiveType DEF TypeOK
  <2>2. PICK says \in Outcomes : Answers(m, says)
    BY <1>18 DEF ServeCommit, Heard, Outcomes
  <2>3. answers' \subseteq Answer
    BY <1>18, <2>2, AnswersType DEF ServeCommit, SaysTo
  <2>4. PICK ds \in SUBSET Effective(m) :
          /\ config' = [d \in Domains |-> IF d \in ds
                                          THEN content[m.snap][d]
                                          ELSE config[d]]
          /\ replaced' = [replaced EXCEPT ![m.run] = ds]
    BY <1>18 DEF ServeCommit
  <2>5. content[m.snap] \in [Domains -> Values]
    BY <2>1 DEF TypeOK, Request
  <2>6. config' \in [Domains -> Values]
    BY <2>4, <2>5 DEF TypeOK
  <2>7. replaced' \in [Runs -> SUBSET Domains]
    BY <2>1, <2>4 DEF TypeOK
  <2>8. aimed' \in [Runs -> SUBSET Domains]
    BY <1>18, <2>1 DEF ServeCommit, TypeOK
  <2>9. content' \in [Snapshots -> [Domains -> Values]]
    BY <1>18 DEF ServeCommit, TypeOK
  <2>10. restored' \subseteq Runs
    BY <1>18, <2>1 DEF ServeCommit, TypeOK, Request
  <2> QED
    BY <1>18, <2>3, <2>6, <2>7, <2>8, <2>9, <2>10
       DEF ServeCommit, TypeOK, wizard
<1>19. ASSUME NEW m \in requests, TimeOut(m) PROVE TypeOK'
  <2>1. answers' \subseteq Answer
    BY <1>19, AnswersType DEF TimeOut, SaysTo, Outcomes
  <2>2. [m EXCEPT !.awaited = FALSE] \in Request
    BY DEF TypeOK, Request
  <2>3. requests' \subseteq Request
    BY <1>19, <2>2 DEF TimeOut, TypeOK
  <2> QED BY <1>19, <2>1, <2>3 DEF TimeOut, TypeOK, wizard, servers
<1>20. ASSUME NEW d \in Domains, Edit(d) PROVE TypeOK'
  <2>1. config' \in [Domains -> Values]
    BY <1>20 DEF Edit, TypeOK, Values
  <2> QED BY <1>20, <2>1 DEF Edit, TypeOK, wizard
<1>21. CASE UNCHANGED vars
  BY <1>21 DEF vars, wizard, servers, TypeOK
<1> QED
  BY <1>1, <1>2, <1>3, <1>4, <1>5, <1>6, <1>7, <1>8, <1>9, <1>10, <1>11,
     <1>12, <1>13, <1>14, <1>15, <1>16, <1>17, <1>18, <1>19, <1>20, <1>21
     DEF Next, Operator, Deliver, Serve

(* Every reachable state is well typed: an answer is taken by the handler  *)
(* of its call and every result has its wording (RestoreWizard).           *)
THEOREM TypeCorrect == Spec => []TypeOK
BY InitType, StepType, PTL DEF Spec

----------------------------------------------------------------------------
(* The inductive invariant. *)

LEMMA InitRestoreInv == Init => RestoreInv
BY DEF Init, RestoreInv, ShownPassIsReal, CallsBelong, Calls, AnswersAreReal,
       CommitsAreVerified, NotPicked

(* What the backend is and what a snapshot covers never change. *)
LEMMA EffectiveStable ==
    ASSUME UNCHANGED <<selective, covers>>, NEW m
    PROVE  Effective(m)' = Effective(m)
BY DEF Effective

(* Steps that only take answers away, or add the answer to a call, keep    *)
(* the answers true.                                                       *)
LEMMA AnswersStayReal ==
    ASSUME AnswersAreReal, UNCHANGED <<selective, covers>>,
           validated \subseteq validated', NEW m, NEW says,
           answers' \subseteq answers \union {Reply(m, says)},
           says = "pass" => Passed(m.run, m.snap, Effective(m))'
    PROVE  AnswersAreReal'
<1> SUFFICES ASSUME NEW a \in answers'
             PROVE  /\ a.plan = Effective(a.to)'
                    /\ a.components =
                         IF selective' THEN a.to.domains ELSE NoDomains
                    /\ a.says = "pass" => Passed(a.to.run, a.to.snap, a.plan)'
  BY DEF AnswersAreReal
<1>1. CASE a \in answers
  BY <1>1, EffectiveStable DEF AnswersAreReal, Passed
<1>2. CASE a = Reply(m, says)
  <2>1. /\ a.to = m /\ a.says = says /\ a.plan = Effective(m)
        /\ a.components = IF selective THEN m.domains ELSE NoDomains
    BY <1>2 DEF Reply
  <2>2. Effective(a.to)' = Effective(m)
    BY <2>1, EffectiveStable
  <2>3. Effective(m)' = Effective(m)
    BY EffectiveStable
  <2> QED BY <2>1, <2>2, <2>3 DEF Passed
<1> QED BY <1>1, <1>2

LEMMA AnswersTakenStayReal ==
    ASSUME AnswersAreReal, UNCHANGED <<selective, covers>>,
           validated \subseteq validated', answers' \subseteq answers
    PROVE  AnswersAreReal'
<1> SUFFICES ASSUME NEW a \in answers'
             PROVE  /\ a.plan = Effective(a.to)'
                    /\ a.components =
                         IF selective' THEN a.to.domains ELSE NoDomains
                    /\ a.says = "pass" => Passed(a.to.run, a.to.snap, a.plan)'
  BY DEF AnswersAreReal
<1> QED BY EffectiveStable DEF AnswersAreReal, Passed

(* A step of the servers: a call goes, or goes on unawaited, and may get   *)
(* an answer.                                                              *)
LEMMA ServersKeepCalls ==
    ASSUME CallsBelong, UNCHANGED wizard, NEW m \in requests, NEW says,
           m \in Request,
           requests' \subseteq requests \union {[m EXCEPT !.awaited = FALSE]},
           Answers(m, says)
    PROVE  CallsBelong'
<1> DEFINE late == [m EXCEPT !.awaited = FALSE]
<1>1. /\ late.run = m.run /\ late.snap = m.snap /\ late.kind = m.kind
      /\ late.domains = m.domains /\ late.pick = m.pick
  BY DEF Request
<1>2. Calls' \subseteq Calls \union {late}
  BY DEF Calls, Answers, Reply
<1>3. m \in Calls
  BY DEF Calls
<1> HIDE DEF late
<1> QED BY <1>1, <1>2, <1>3 DEF CallsBelong, wizard

(* A step of the operator or a delivery that adds no call and leaves the   *)
(* target and its selection alone. *)
LEMMA WizardKeepsCalls ==
    ASSUME CallsBelong, UNCHANGED <<run, snap, requests>>,
           answers' \subseteq answers,
           step' = "closed" \/ step # "closed",
           step' = "closed" \/ UNCHANGED <<picked>>
    PROVE  CallsBelong'
<1>1. Calls' \subseteq Calls
  BY DEF Calls
<1> QED BY <1>1 DEF CallsBelong

(* So does one that sends no commit and does not reopen the wizard.        *)
LEMMA WizardKeepsCommits ==
    ASSUME CommitsAreVerified,
           UNCHANGED <<run, selective, covers, validated, restored>>,
           \A m \in requests' : m.kind = "commit" => m \in requests,
           \/ step' = "closed" /\ ~unrendered'
           \/ /\ step # "closed" /\ inFlight' = inFlight
              /\ unrendered' => inFlight' /\ step' = "committing"
    PROVE  CommitsAreVerified'
<1>1. \A m \in requests' : Effective(m)' = Effective(m)
  BY EffectiveStable
<1> QED BY <1>1 DEF CommitsAreVerified, Passed

(* A new target starts with nothing shown, nothing in flight and no call   *)
(* but its dry-run. *)
LEMMA NewTargetInv ==
    ASSUME TypeOK, RestoreInv, NEW s, NEW u, NEW ds, NewTarget(s, u, ds),
           answers' \subseteq answers, UNCHANGED servers
    PROVE  RestoreInv'
<1> DEFINE q == ToRequest("dryRun", run + 1, s, NoDomains, 0)
<1>1. run \in Nat /\ run' = run + 1
  BY BoundsAssumption DEF NewTarget, TypeOK
<1>2. /\ q.kind = "dryRun" /\ q.run = run' /\ q.snap = s
      /\ q.domains = NoDomains
  BY <1>1 DEF ToRequest
<1>3. requests' = requests \union {q} /\ snap' = s
  BY DEF NewTarget
<1> HIDE DEF q
<1>4. ShownPassIsReal'
  BY DEF NewTarget, NotPicked, ShownPassIsReal
<1>5. CallsBelong'
  <2>1. Calls' \subseteq Calls \union {q}
    BY <1>3 DEF Calls
  <2>2. \A m \in Calls : m.run \in Nat /\ m.run <= run
    <3>1. Calls \subseteq Request
      BY DEF Calls, TypeOK, Answer
    <3> QED BY <3>1 DEF RestoreInv, CallsBelong, Request, Runs
  <2> QED BY <1>1, <1>2, <1>3, <2>1, <2>2 DEF CallsBelong, RestoreInv
<1>6. AnswersAreReal'
  BY AnswersTakenStayReal DEF RestoreInv, servers
<1>7. CommitsAreVerified'
  <2>1. \A m \in requests' : m.kind = "commit" => m \in requests
    BY <1>2, <1>3
  <2>2. \A m \in requests : m.run \in Nat /\ m.run <= run
    BY DEF RestoreInv, CallsBelong, Calls, TypeOK, Request, Runs
  <2>3. \A r \in restored : r \in Nat /\ r <= run
    BY DEF RestoreInv, CommitsAreVerified, TypeOK, Runs
  <2>4. \A m \in requests : Effective(m)' = Effective(m)
    BY EffectiveStable DEF servers
  <2>5. validated' = validated /\ restored' = restored /\ ~unrendered'
    BY DEF servers, NewTarget
  <2> QED
    BY <1>1, <2>1, <2>2, <2>3, <2>4, <2>5
       DEF RestoreInv, CommitsAreVerified, Passed
<1> QED BY <1>4, <1>5, <1>6, <1>7 DEF RestoreInv

LEMMA UnmountInv == RestoreInv /\ Unmount => RestoreInv'
<1> SUFFICES ASSUME RestoreInv, Unmount PROVE RestoreInv'
  OBVIOUS
<1>1. ShownPassIsReal'
  BY DEF Unmount, ShownPassIsReal
<1>2. CallsBelong'
  BY WizardKeepsCalls DEF Unmount, CallsBelong, Calls, RestoreInv
<1>3. AnswersAreReal'
  BY AnswersTakenStayReal DEF Unmount, RestoreInv, servers
<1>4. CommitsAreVerified'
  BY WizardKeepsCommits DEF Unmount, RestoreInv, servers
<1> QED BY <1>1, <1>2, <1>3, <1>4 DEF RestoreInv

(* What the wizard may continue with, the gateway has passed. *)
LEMMA ContinueIsVerified ==
    ASSUME TypeOK, ShownPassIsReal, step # "closed", CanContinue,
           NEW m, m.snap = snap, m.domains = Components
    PROVE  Passed(run, snap, Effective(m))
<1>1. CASE SelectsAll
  BY <1>1 DEF ShownPassIsReal, CanContinue, Components, SelectsSome, Effective
<1>2. CASE PickedNow /\ picked.state = "pass" /\ SelectsSome
  <2>1. Components = picked.domains /\ Components # NoDomains
    BY <1>2 DEF PickedNow, Components, SelectsSome, NoDomains
  <2>2. selective /\ picked.domains \subseteq covers[snap]
    BY <1>2 DEF ShownPassIsReal
  <2>3. Effective(m) = picked.domains
    BY <2>1, <2>2 DEF Effective
  <2> QED BY <1>2, <2>3 DEF ShownPassIsReal
<1> QED BY <1>1, <1>2 DEF CanContinue, PickedNow

LEMMA OperatorKeepsInv ==
    ASSUME TypeOK, RestoreInv, Operator
    PROVE  RestoreInv'
<1>1. CASE Open
  BY <1>1, NewTargetInv DEF Open
<1>2. CASE Close \/ Leave
  BY <1>2, UnmountInv DEF Close, Leave
<1>3. ASSUME NEW ds, Tick(ds) PROVE RestoreInv'
  <2>1. ShownPassIsReal'
    BY <1>3 DEF Tick, servers, RestoreInv, ShownPassIsReal, Passed
  <2>2. CallsBelong'
    BY <1>3, WizardKeepsCalls DEF Tick, RestoreInv
  <2>3. AnswersAreReal'
    BY <1>3, AnswersTakenStayReal DEF Tick, servers, RestoreInv
  <2>4. CommitsAreVerified'
    BY <1>3, WizardKeepsCommits
       DEF Tick, servers, RestoreInv, CommitsAreVerified
  <2> QED BY <2>1, <2>2, <2>3, <2>4 DEF RestoreInv
<1>4. CASE DryRunPicked
  <2> DEFINE q == ToRequest("pickedDryRun", run, snap, Components,
                            picked.pick + 1)
  <2>1. /\ q.kind = "pickedDryRun" /\ q.run = run /\ q.snap = snap
        /\ q.domains = Components /\ q.pick = picked.pick + 1
    BY DEF ToRequest
  <2>2. requests' = requests \union {q}
    BY <1>4 DEF DryRunPicked
  <2> HIDE DEF q
  <2>3. /\ picked'.domains = Components /\ picked'.pick = picked.pick + 1
        /\ picked'.state = "loading"
    BY <1>4 DEF DryRunPicked
  <2>4. Components # NoDomains
    BY <1>4 DEF DryRunPicked, SelectsSome, Components, NoDomains
  <2>5. ShownPassIsReal'
    BY <1>4, <2>3
       DEF DryRunPicked, servers, RestoreInv, ShownPassIsReal, Passed
  <2>6. CallsBelong'
    <3>1. Calls' = Calls \union {q}
      BY <1>4, <2>2 DEF DryRunPicked, Calls
    <3>2. picked.pick \in Nat /\ \A m \in Calls : m.pick \in Nat
      BY BoundsAssumption DEF TypeOK, Calls, Answer, Request
    <3>3. run' = run /\ snap' = snap /\ step' = step /\ run \in Nat
      BY <1>4, BoundsAssumption DEF DryRunPicked, TypeOK
    <3> QED
      BY <2>1, <2>3, <2>4, <3>1, <3>2, <3>3 DEF RestoreInv, CallsBelong
  <2>7. AnswersAreReal'
    BY <1>4, AnswersTakenStayReal DEF DryRunPicked, servers, RestoreInv
  <2>8. CommitsAreVerified'
    BY <1>4, <2>1, <2>2, WizardKeepsCommits
       DEF DryRunPicked, servers, RestoreInv, CommitsAreVerified
  <2> QED BY <2>5, <2>6, <2>7, <2>8 DEF RestoreInv
<1>5. CASE Continue
  <2>1. ShownPassIsReal'
    BY <1>5 DEF Continue, servers, RestoreInv, ShownPassIsReal, Passed
  <2>2. CallsBelong'
    BY <1>5, WizardKeepsCalls DEF Continue, RestoreInv
  <2>3. AnswersAreReal'
    BY <1>5, AnswersTakenStayReal DEF Continue, servers, RestoreInv
  <2>4. CommitsAreVerified'
    BY <1>5, WizardKeepsCommits
       DEF Continue, servers, RestoreInv, CommitsAreVerified
  <2> QED BY <2>1, <2>2, <2>3, <2>4 DEF RestoreInv
<1>6. CASE RestoreNow
  <2> DEFINE q == ToRequest("commit", run, snap, Components, 0)
  <2>1. /\ q.kind = "commit" /\ q.run = run /\ q.snap = snap
        /\ q.domains = Components
    BY DEF ToRequest
  <2>2. requests' = requests \union {q} /\ inFlight'
    BY <1>6 DEF RestoreNow
  <2> HIDE DEF q
  <2>3. step = "confirm" /\ ~inFlight /\ CanContinue
    BY <1>6 DEF RestoreNow, MayCommit, RestoreInv, CommitsAreVerified
  <2>4. Passed(run, snap, Effective(q))
    BY <2>1, <2>3, ContinueIsVerified DEF RestoreInv
  <2>5. ShownPassIsReal'
    BY <1>6, <2>3 DEF RestoreNow, servers, RestoreInv, ShownPassIsReal, Passed
  <2>6. CallsBelong'
    <3>1. Calls' = Calls \union {q}
      BY <1>6, <2>2 DEF RestoreNow, Calls
    <3>2. run \in Nat
      BY BoundsAssumption DEF TypeOK
    <3> QED
      BY <1>6, <2>1, <2>3, <3>1, <3>2 DEF RestoreNow, RestoreInv, CallsBelong
  <2>7. AnswersAreReal'
    BY <1>6, AnswersTakenStayReal DEF RestoreNow, servers, RestoreInv
  <2>8. CommitsAreVerified'
    <3>1. run \notin restored
      BY <2>3 DEF RestoreInv, CommitsAreVerified
    <3>2. \A m \in requests : m.kind = "commit" => m.run # run
      BY <2>3 DEF RestoreInv, CommitsAreVerified
    <3>3. /\ UNCHANGED <<run, selective, covers, validated, restored>>
          /\ step' = "committing"
      BY <1>6 DEF RestoreNow, servers
    <3>4. \A m \in requests' : Effective(m)' = Effective(m)
      BY <3>3, EffectiveStable
    <3> QED
      BY <2>1, <2>2, <2>4, <3>1, <3>2, <3>3, <3>4
         DEF RestoreInv, CommitsAreVerified, Passed
  <2> QED BY <2>5, <2>6, <2>7, <2>8 DEF RestoreInv
<1>7. CASE Undo
  <2> DEFINE q == ToRequest("read", run, PreRestoreId, sent, 0)
  <2>1. /\ q.kind = "read" /\ q.run = run /\ q.snap = run
    BY DEF ToRequest, PreRestoreId
  <2>2. requests' = requests \union {q}
    BY <1>7 DEF Undo
  <2> HIDE DEF q
  <2>3. step = "result"
    BY <1>7 DEF Undo, CanUndo
  <2>4. ShownPassIsReal'
    BY <1>7 DEF Undo, servers, RestoreInv, ShownPassIsReal, Passed
  <2>5. CallsBelong'
    <3>1. Calls' = Calls \union {q}
      BY <1>7, <2>2 DEF Undo, Calls
    <3>2. run \in Nat
      BY BoundsAssumption DEF TypeOK
    <3> QED BY <1>7, <2>1, <3>1, <3>2 DEF Undo, RestoreInv, CallsBelong
  <2>6. AnswersAreReal'
    BY <1>7, AnswersTakenStayReal DEF Undo, servers, RestoreInv
  <2>7. CommitsAreVerified'
    BY <1>7, <2>1, <2>2, <2>3, WizardKeepsCommits
       DEF Undo, servers, RestoreInv, CommitsAreVerified
  <2> QED BY <2>4, <2>5, <2>6, <2>7 DEF RestoreInv
<1> QED BY <1>1, <1>2, <1>3, <1>4, <1>5, <1>6, <1>7 DEF Operator

LEMMA DeliverKeepsInv ==
    ASSUME TypeOK, RestoreInv, NEW a \in answers,
           \/ Drop(a) \/ DryRunAnswer(a) \/ PickedAnswer(a)
           \/ CommitAnswer(a) \/ UndoAnswer(a)
    PROVE  RestoreInv'
<1>1. CASE Drop(a)
  <2>1. ShownPassIsReal'
    BY <1>1 DEF Drop, wizard, servers, RestoreInv, ShownPassIsReal, Passed
  <2>2. CallsBelong'
    BY <1>1 DEF Drop, wizard, RestoreInv, CallsBelong, Calls
  <2>3. AnswersAreReal'
    BY <1>1, AnswersTakenStayReal DEF Drop, servers, RestoreInv
  <2>4. CommitsAreVerified'
    <3>1. \A m \in requests : Effective(m)' = Effective(m)
      BY <1>1, EffectiveStable DEF Drop, servers
    <3> QED
      BY <1>1, <3>1
         DEF Drop, wizard, servers, RestoreInv, CommitsAreVerified, Passed
  <2> QED BY <2>1, <2>2, <2>3, <2>4 DEF RestoreInv
<1>2. CASE DryRunAnswer(a)
  <2>1. a.to \in Calls /\ a.to.run = run /\ step # "closed"
    BY <1>2 DEF Calls, DryRunAnswer, Current
  <2>2. a.to.snap = snap /\ a.to.domains = NoDomains
    BY <1>2, <2>1 DEF RestoreInv, CallsBelong, DryRunAnswer
  <2>3. a.says = "pass" => a.plan = covers[snap] /\ Passed(run, snap, a.plan)
    BY <2>1, <2>2 DEF RestoreInv, AnswersAreReal, Effective
  <2>4. ShownPassIsReal'
    BY <1>2, <2>3
       DEF DryRunAnswer, servers, RestoreInv, ShownPassIsReal, Passed
  <2>5. CallsBelong'
    BY <1>2, <2>1, WizardKeepsCalls DEF DryRunAnswer, RestoreInv
  <2>6. AnswersAreReal'
    BY <1>2, AnswersTakenStayReal DEF DryRunAnswer, servers, RestoreInv
  <2>7. CommitsAreVerified'
    BY <1>2, <2>1, WizardKeepsCommits
       DEF DryRunAnswer, servers, RestoreInv, CommitsAreVerified
  <2> QED BY <2>4, <2>5, <2>6, <2>7 DEF RestoreInv
<1>3. CASE PickedAnswer(a)
  <2>1. /\ a.to \in Calls /\ a.to.run = run /\ step # "closed"
        /\ a.to.kind = "pickedDryRun"
    BY <1>3 DEF Calls, PickedAnswer, Current
  <2>2. a.says \in DryRunVerdicts
    BY <2>1 DEF TypeOK, Answer, SaysTo
  <2>3. /\ a.to.snap = snap /\ a.to.domains # NoDomains
        /\ a.to.pick = picked.pick => a.to.domains = picked.domains
    BY <2>1 DEF RestoreInv, CallsBelong
  <2>4. PICK v \in {"refused", "pass", "otherDomains"} :
          /\ picked' = IF picked.pick = a.to.pick
                       THEN [picked EXCEPT !.state = v] ELSE picked
          /\ v = "pass" => a.says # "refused" /\ AnswersSelection(a)
    <3> DEFINE verdict == IF a.says = "refused" THEN "refused"
                          ELSE IF AnswersSelection(a) THEN "pass"
                          ELSE "otherDomains"
    <3>1. picked' = IF picked.pick = a.to.pick
                    THEN [picked EXCEPT !.state = verdict] ELSE picked
      BY <1>3 DEF PickedAnswer
    <3>2. /\ verdict \in {"refused", "pass", "otherDomains"}
          /\ verdict = "pass" => a.says # "refused" /\ AnswersSelection(a)
      OBVIOUS
    <3> HIDE DEF verdict
    <3> QED BY <3>1, <3>2
  <2>5. /\ picked'.domains = picked.domains /\ picked'.pick = picked.pick
        /\ \/ picked'.state = picked.state
           \/ picked.pick = a.to.pick /\ picked'.state = v
    BY <2>4 DEF TypeOK
  <2>6. ASSUME v = "pass", picked.pick = a.to.pick
        PROVE  /\ selective /\ picked.domains \subseteq covers[snap]
               /\ Passed(run, snap, picked.domains)
    <3>1. /\ a.says = "pass" /\ a.components = picked.domains
          /\ a.plan = picked.domains /\ picked.domains # NoDomains
      BY <2>2, <2>3, <2>4, <2>6 DEF AnswersSelection, DryRunVerdicts
    <3>2. /\ selective /\ Effective(a.to) = a.plan
          /\ Passed(run, snap, picked.domains)
      BY <2>1, <2>3, <3>1 DEF RestoreInv, AnswersAreReal
    <3> QED BY <2>3, <3>1, <3>2 DEF Effective
  <2>7. ShownPassIsReal'
    BY <1>3, <2>1, <2>5, <2>6
       DEF PickedAnswer, servers, RestoreInv, ShownPassIsReal, Passed
  <2>8. CallsBelong'
    <3>1. Calls' \subseteq Calls
      BY <1>3 DEF PickedAnswer, Calls
    <3> QED BY <1>3, <2>5, <3>1 DEF PickedAnswer, RestoreInv, CallsBelong
  <2>9. AnswersAreReal'
    BY <1>3, AnswersTakenStayReal DEF PickedAnswer, servers, RestoreInv
  <2>10. CommitsAreVerified'
    BY <1>3, <2>1, WizardKeepsCommits
       DEF PickedAnswer, servers, RestoreInv, CommitsAreVerified
  <2> QED BY <2>7, <2>8, <2>9, <2>10 DEF RestoreInv
<1>4. CASE CommitAnswer(a)
  <2>1. step # "closed"
    BY <1>4 DEF CommitAnswer, Current
  <2>2. ShownPassIsReal'
    BY <1>4, <2>1
       DEF CommitAnswer, servers, RestoreInv, ShownPassIsReal, Passed
  <2>3. CallsBelong'
    BY <1>4, <2>1, WizardKeepsCalls DEF CommitAnswer, RestoreInv
  <2>4. AnswersAreReal'
    BY <1>4, AnswersTakenStayReal DEF CommitAnswer, servers, RestoreInv
  <2>5. CommitsAreVerified'
    BY <1>4, <2>1, WizardKeepsCommits DEF CommitAnswer, servers, RestoreInv
  <2> QED BY <2>2, <2>3, <2>4, <2>5 DEF RestoreInv
<1>5. CASE UndoAnswer(a) /\ NewTarget(a.to.snap, run, a.to.domains)
  BY <1>5, NewTargetInv DEF UndoAnswer
<1>6. CASE /\ UndoAnswer(a)
           /\ UNCHANGED <<step, run, snap, undo, wanted, full, plan, checked,
                          picked, inFlight, unrendered, sent, outcome, requests>>
  <2>1. step # "closed"
    BY <1>6 DEF UndoAnswer, Current
  <2>2. ShownPassIsReal'
    BY <1>6 DEF UndoAnswer, servers, RestoreInv, ShownPassIsReal, Passed
  <2>3. CallsBelong'
    BY <1>6, <2>1, WizardKeepsCalls DEF UndoAnswer, RestoreInv
  <2>4. AnswersAreReal'
    BY <1>6, AnswersTakenStayReal DEF UndoAnswer, servers, RestoreInv
  <2>5. CommitsAreVerified'
    BY <1>6, <2>1, WizardKeepsCommits
       DEF UndoAnswer, servers, RestoreInv, CommitsAreVerified
  <2> QED BY <2>2, <2>3, <2>4, <2>5 DEF RestoreInv
<1> QED BY <1>1, <1>2, <1>3, <1>4, <1>5, <1>6 DEF UndoAnswer

LEMMA ServersKeepInv ==
    ASSUME TypeOK, RestoreInv, NEW m \in requests,
           \/ ServeDryRun(m) \/ ServeRead(m) \/ RefuseCommit(m)
           \/ ServeCommit(m) \/ TimeOut(m)
    PROVE  RestoreInv'
<1> USE DEF wizard, servers
<1> DEFINE late == [m EXCEPT !.awaited = FALSE]
<1>1. m \in Request
  BY DEF TypeOK
<1>2. /\ late.run = m.run /\ late.snap = m.snap /\ late.kind = m.kind
      /\ late.domains = m.domains
  BY <1>1 DEF Request
<1>3. /\ UNCHANGED wizard /\ UNCHANGED <<selective, covers>>
      /\ validated \subseteq validated'
      /\ requests' \subseteq (requests \ {m}) \union {late}
      /\ m.kind # "commit" \/ ~TimeOut(m) => requests' \subseteq requests \ {m}
  BY DEF ServeDryRun, ServeRead, RefuseCommit, ServeCommit, TimeOut
<1>4. PICK says : /\ Answers(m, says)
                  /\ says = "pass" => Passed(m.run, m.snap, Effective(m))'
  <2>1. UNCHANGED <<selective, covers>> => Effective(m)' = Effective(m)
    BY EffectiveStable
  <2>2. CASE ServeDryRun(m)
    BY <1>3, <2>1, <2>2 DEF ServeDryRun, Passed
  <2>3. CASE ServeRead(m) \/ RefuseCommit(m) \/ TimeOut(m)
    BY <2>3 DEF ServeRead, RefuseCommit, TimeOut
  <2>4. CASE ServeCommit(m)
    BY <2>4 DEF ServeCommit, Heard
  <2> QED BY <2>2, <2>3, <2>4
<1>5. ShownPassIsReal'
  BY <1>3 DEF RestoreInv, ShownPassIsReal, Passed
<1>6. CallsBelong'
  BY <1>1, <1>3, <1>4, ServersKeepCalls DEF RestoreInv
<1>7. AnswersAreReal'
  BY <1>3, <1>4, AnswersStayReal DEF RestoreInv, Answers
<1>8. CommitsAreVerified'
  <2> HIDE DEF late
  <2>1. /\ \A n \in requests : Effective(n)' = Effective(n)
        /\ Effective(late)' = Effective(m)
    BY <1>2, <1>3, EffectiveStable DEF Effective
  <2>2. CASE ServeCommit(m)
    <3>1. /\ restored' = restored \union {m.run} /\ m.kind = "commit"
          /\ requests' = requests \ {m} /\ m.run <= run
      BY <2>2 DEF ServeCommit, RestoreInv, CallsBelong, Calls
    <3>2. \A n \in requests' : n.kind = "commit" => n.run # m.run
      BY <3>1 DEF RestoreInv, CommitsAreVerified
    <3> QED
      BY <1>3, <2>1, <3>1, <3>2 DEF RestoreInv, CommitsAreVerified, Passed
  <2>3. CASE ~ServeCommit(m)
    <3>1. restored' = restored
      BY <2>3 DEF ServeDryRun, ServeRead, RefuseCommit, TimeOut
    <3>2. \A n \in requests' :
             \/ n \in requests \ {m}
             \/ n = late
      BY <1>3
    <3> QED
      BY <1>2, <1>3, <2>1, <3>1, <3>2
         DEF RestoreInv, CommitsAreVerified, Passed
  <2> QED BY <2>2, <2>3
<1> QED BY <1>5, <1>6, <1>7, <1>8 DEF RestoreInv

LEMMA StepRestoreInv == TypeOK /\ RestoreInv /\ [Next]_vars => RestoreInv'
<1> SUFFICES ASSUME TypeOK, RestoreInv, [Next]_vars PROVE RestoreInv'
  OBVIOUS
<1>1. CASE Render \/ (\E d \in Domains : Edit(d)) \/ UNCHANGED vars
  <2>1. /\ UNCHANGED <<step, run, snap, full, plan, picked, inFlight, requests,
                       answers, selective, covers, validated, restored>>
        /\ unrendered' => unrendered
    BY <1>1 DEF Render, Edit, vars, wizard, servers
  <2>2. \A m \in requests : Effective(m)' = Effective(m)
    BY <2>1, EffectiveStable
  <2>3. ShownPassIsReal'
    BY <2>1 DEF RestoreInv, ShownPassIsReal, Passed
  <2>4. CallsBelong'
    BY <2>1 DEF RestoreInv, CallsBelong, Calls
  <2>5. AnswersAreReal'
    BY <2>1, AnswersTakenStayReal DEF RestoreInv
  <2>6. CommitsAreVerified'
    BY <2>1, <2>2 DEF RestoreInv, CommitsAreVerified, Passed
  <2> QED BY <2>3, <2>4, <2>5, <2>6 DEF RestoreInv
<1>2. CASE Operator
  BY <1>2, OperatorKeepsInv
<1>3. CASE Deliver
  BY <1>3, DeliverKeepsInv DEF Deliver
<1>4. CASE Serve \/ \E m \in requests : TimeOut(m)
  BY <1>4, ServersKeepInv DEF Serve
<1> QED BY <1>1, <1>2, <1>3, <1>4 DEF Next

(* Whatever the servers, other operators and the network do: a pass that   *)
(* the wizard shows is one the gateway gave for the target and the domains *)
(* shown, and a commit on its way is the only one of its run and is for    *)
(* what a dry-run of that run has passed (handleCommit, answersSelection). *)
THEOREM PassesAreReal == Spec => []RestoreInv
<1>1. TypeOK /\ RestoreInv /\ [Next]_vars => (TypeOK /\ RestoreInv)'
  BY StepType, StepRestoreInv
<1>2. Init => TypeOK /\ RestoreInv
  BY InitType, InitRestoreInv
<1> QED BY <1>1, <1>2, PTL DEF Spec

----------------------------------------------------------------------------
(* A commit replaces what is ticked: the ticks stand still once it is sent,*)
(* because the dry-run that sets them has one answer and has had it.       *)

IsDryRun(m) == m.kind = "dryRun" /\ m.run = run

DryRunOnce ==
    /\ \A m, n \in requests : IsDryRun(m) /\ IsDryRun(n) => m = n
    /\ \A a, b \in answers : IsDryRun(a.to) /\ IsDryRun(b.to) => a = b
    /\ \A m \in requests, a \in answers : ~(IsDryRun(m) /\ IsDryRun(a.to))
    /\ \A m \in Calls : IsDryRun(m) => full = "loading"

CommitIsTicked ==
    \A m \in requests :
        m.kind = "commit" /\ m.run = run /\ step # "closed" =>
            /\ Effective(m) = Ticked
            /\ full = "pass" /\ step \in {"committing", "result"}

(* Calls and answers that are taken, or added but no dry-run of this run.  *)
LEMMA DryRunsDwindle ==
    ASSUME DryRunOnce, run' = run,
           \A m \in requests' : IsDryRun(m) => m \in requests,
           \A a \in answers' : IsDryRun(a.to) => a \in answers,
           full' = full \/ \A m \in Calls' : ~IsDryRun(m)
    PROVE  DryRunOnce'
<1>1. \A m : IsDryRun(m)' <=> IsDryRun(m)
  BY DEF IsDryRun
<1>2. \A m \in Calls' : IsDryRun(m) => m \in Calls
  BY DEF Calls
<1> QED BY <1>1, <1>2 DEF DryRunOnce

(* What may be sent is about what is ticked, on this backend. *)
LEMMA ContinueIsTicked ==
    ASSUME TypeOK, ShownPassIsReal, step # "closed", CanContinue,
           NEW m, m.snap = snap, m.domains = Components
    PROVE  Effective(m) = Ticked
<1>1. CASE SelectsAll
  <2>1. Components = NoDomains
    BY <1>1 DEF Components, SelectsSome
  <2>2. Effective(m) = plan
    BY <2>1 DEF Effective, ShownPassIsReal, CanContinue
  <2> QED BY <1>1, <2>2 DEF SelectsAll, Ticked
<1>2. CASE PickedNow /\ picked.state = "pass"
  <2>1. /\ Components = picked.domains /\ Components # NoDomains
        /\ Components = Ticked
    BY <1>2 DEF PickedNow, Components, SelectsSome, NoDomains
  <2>2. selective /\ picked.domains \subseteq covers[snap]
    BY <1>2 DEF ShownPassIsReal
  <2> QED BY <2>1, <2>2 DEF Effective
<1> QED BY <1>1, <1>2 DEF CanContinue

(* Steps that leave the ticks alone and send no commit. *)
LEMMA TicksStand ==
    ASSUME CommitIsTicked, UNCHANGED <<run, full, plan, checked, selective, covers>>,
           \A m \in requests' : m.kind = "commit" => m \in requests,
           step # "closed", step' = step \/ step' = "result"
    PROVE  CommitIsTicked'
<1>1. \A m \in requests' : Effective(m)' = Effective(m)
  BY EffectiveStable
<1>2. Ticked' = Ticked
  BY DEF Ticked
<1> QED BY <1>1, <1>2 DEF CommitIsTicked

(* Steps of a wizard in which no commit is on its way. *)
LEMMA NoCommitNoTicks ==
    ASSUME \A m \in requests' : ~(m.kind = "commit" /\ m.run = run' /\ step' # "closed")
    PROVE  CommitIsTicked'
BY DEF CommitIsTicked

LEMMA CallsOfThePast ==
    ASSUME TypeOK, RestoreInv, NEW m \in Calls
    PROVE  m.run # run + 1
<1>1. m \in Request
  BY DEF Calls, TypeOK, Answer
<1>2. m.run <= run /\ m.run \in Nat /\ run \in Nat
  BY <1>1, BoundsAssumption DEF RestoreInv, CallsBelong, Request, Runs, TypeOK
<1> QED BY <1>2

LEMMA NewTargetTicks ==
    ASSUME TypeOK, RestoreInv, NEW s, NEW u, NEW ds, NewTarget(s, u, ds),
           answers' \subseteq answers
    PROVE  DryRunOnce' /\ CommitIsTicked'
<1> DEFINE q == ToRequest("dryRun", run + 1, s, NoDomains, 0)
<1>1. q.kind = "dryRun" /\ q.run = run + 1
  BY DEF ToRequest
<1>2. /\ run' = run + 1 /\ full' = "loading"
      /\ requests' = requests \union {q}
  BY DEF NewTarget
<1> HIDE DEF q
<1>3. \A m \in requests : m.run # run'
  BY <1>2, CallsOfThePast DEF Calls
<1>4. \A a \in answers' : a.to.run # run'
  BY <1>2, CallsOfThePast DEF Calls
<1>5. DryRunOnce'
  BY <1>2, <1>3, <1>4 DEF DryRunOnce, IsDryRun
<1>6. CommitIsTicked'
  BY <1>1, <1>2, <1>3, NoCommitNoTicks
<1> QED BY <1>5, <1>6

LEMMA OperatorKeepsTicks ==
    ASSUME TypeOK, RestoreInv, DryRunOnce, CommitIsTicked, Operator
    PROVE  DryRunOnce' /\ CommitIsTicked'
<1>1. CASE Open
  BY <1>1, NewTargetTicks DEF Open
<1>2. CASE Close \/ Leave
  <2>1. /\ UNCHANGED <<run, requests, answers>>
        /\ step' = "closed" /\ full' = "loading"
    BY <1>2 DEF Close, Leave, Unmount
  <2>2. DryRunOnce'
    BY <2>1 DEF DryRunOnce, IsDryRun, Calls
  <2> QED BY <2>1, <2>2, NoCommitNoTicks
<1>3. CASE (\E ds \in SUBSET Domains : Tick(ds)) \/ Continue
  <2>1. /\ step = "dry-run" /\ UNCHANGED <<run, full, requests, answers>>
    BY <1>3 DEF Tick, Continue
  <2>2. DryRunOnce'
    BY <2>1, DryRunsDwindle
  <2>3. CommitIsTicked'
    BY <2>1, NoCommitNoTicks DEF CommitIsTicked
  <2> QED BY <2>2, <2>3
<1>4. CASE DryRunPicked
  <2> DEFINE q == ToRequest("pickedDryRun", run, snap, Components, picked.pick + 1)
  <2>1. q.kind = "pickedDryRun"
    BY DEF ToRequest
  <2>2. /\ step = "dry-run" /\ UNCHANGED <<run, step, full, answers>>
        /\ requests' = requests \union {q}
    BY <1>4 DEF DryRunPicked
  <2> HIDE DEF q
  <2>3. DryRunOnce'
    BY <2>1, <2>2, DryRunsDwindle DEF IsDryRun
  <2>4. CommitIsTicked'
    BY <2>1, <2>2, NoCommitNoTicks DEF CommitIsTicked
  <2> QED BY <2>3, <2>4
<1>5. CASE RestoreNow
  <2>0. PICK q : q = ToRequest("commit", run, snap, Components, 0)
    OBVIOUS
  <2>1. /\ q.kind = "commit" /\ q.run = run /\ q.snap = snap
        /\ q.domains = Components
    BY <2>0 DEF ToRequest
  <2>2. /\ UNCHANGED <<run, full, plan, checked, selective, covers, answers>>
        /\ requests' = requests \union {q} /\ step' = "committing"
    BY <1>5, <2>0 DEF RestoreNow, servers
  <2>3. DryRunOnce'
    BY <2>1, <2>2, DryRunsDwindle DEF IsDryRun
  <2>4. ~inFlight /\ CanContinue /\ step # "closed"
    BY <1>5 DEF RestoreNow, MayCommit, RestoreInv, CommitsAreVerified
  <2>5. \A m \in requests : ~(m.kind = "commit" /\ m.run = run)
    BY <2>4 DEF RestoreInv, CommitsAreVerified
  <2>6. Effective(q) = Ticked /\ full = "pass"
    BY <2>1, <2>4, ContinueIsTicked DEF RestoreInv, CanContinue
  <2>7. Effective(q)' = Effective(q) /\ Ticked' = Ticked
    BY <2>2, EffectiveStable DEF Ticked
  <2>8. CommitIsTicked'
    BY <2>1, <2>2, <2>5, <2>6, <2>7 DEF CommitIsTicked
  <2> QED BY <2>3, <2>8
<1>6. CASE Undo
  <2> DEFINE q == ToRequest("read", run, PreRestoreId, sent, 0)
  <2>1. q.kind = "read"
    BY DEF ToRequest
  <2>2. /\ UNCHANGED <<run, step, full, plan, checked, selective, covers, answers>>
        /\ requests' = requests \union {q} /\ step # "closed"
    BY <1>6 DEF Undo, CanUndo, servers
  <2> HIDE DEF q
  <2>3. DryRunOnce'
    BY <2>1, <2>2, DryRunsDwindle DEF IsDryRun
  <2>4. CommitIsTicked'
    BY <2>1, <2>2, TicksStand
  <2> QED BY <2>3, <2>4
<1> QED BY <1>1, <1>2, <1>3, <1>4, <1>5, <1>6 DEF Operator

LEMMA DeliverKeepsTicks ==
    ASSUME TypeOK, RestoreInv, DryRunOnce, CommitIsTicked, NEW a \in answers,
           \/ Drop(a) \/ DryRunAnswer(a) \/ PickedAnswer(a)
           \/ CommitAnswer(a) \/ UndoAnswer(a)
    PROVE  DryRunOnce' /\ CommitIsTicked'
<1>1. CASE Drop(a)
  <2>1. /\ UNCHANGED <<run, step, full, plan, checked, selective, covers, requests>>
        /\ answers' \subseteq answers
    BY <1>1 DEF Drop, wizard, servers
  <2>2. DryRunOnce'
    BY <2>1, DryRunsDwindle
  <2>3. step = "closed" => CommitIsTicked'
    BY <2>1, NoCommitNoTicks
  <2>4. step # "closed" => CommitIsTicked'
    BY <2>1, TicksStand
  <2> QED BY <2>2, <2>3, <2>4
<1>2. CASE DryRunAnswer(a)
  <2>1. /\ IsDryRun(a.to) /\ step # "closed" /\ a.to \in Calls
        /\ UNCHANGED <<run, step, requests>> /\ answers' = answers \ {a}
    BY <1>2 DEF DryRunAnswer, Current, IsDryRun, Calls
  <2>2. full = "loading"
    BY <2>1 DEF DryRunOnce
  <2>3. \A m \in Calls' : ~IsDryRun(m)
    BY <2>1 DEF DryRunOnce, Calls
  <2>4. DryRunOnce'
    BY <2>1, <2>3, DryRunsDwindle
  <2>5. CommitIsTicked'
    BY <2>1, <2>2, NoCommitNoTicks DEF CommitIsTicked
  <2> QED BY <2>4, <2>5
<1>3. CASE PickedAnswer(a) \/ CommitAnswer(a)
  <2>1. /\ UNCHANGED <<run, full, plan, checked, selective, covers, requests>>
        /\ step # "closed" /\ (step' = step \/ step' = "result")
        /\ answers' \subseteq answers
    BY <1>3 DEF PickedAnswer, CommitAnswer, Current, servers
  <2> QED BY <2>1, DryRunsDwindle, TicksStand
<1>4. CASE UndoAnswer(a) /\ NewTarget(a.to.snap, run, a.to.domains)
  BY <1>4, NewTargetTicks DEF UndoAnswer
<1>5. CASE /\ UndoAnswer(a)
           /\ UNCHANGED <<step, run, snap, undo, wanted, full, plan, checked,
                          picked, inFlight, unrendered, sent, outcome, requests>>
  <2>1. /\ UNCHANGED <<run, step, full, plan, checked, selective, covers, requests>>
        /\ step # "closed" /\ answers' \subseteq answers
    BY <1>5 DEF UndoAnswer, Current, servers
  <2> QED BY <2>1, DryRunsDwindle, TicksStand
<1> QED BY <1>1, <1>2, <1>3, <1>4, <1>5 DEF UndoAnswer

LEMMA ServersKeepTicks ==
    ASSUME TypeOK, DryRunOnce, CommitIsTicked, NEW m \in requests,
           \/ ServeDryRun(m) \/ ServeRead(m) \/ RefuseCommit(m)
           \/ ServeCommit(m) \/ TimeOut(m)
    PROVE  DryRunOnce' /\ CommitIsTicked'
<1> DEFINE late == [m EXCEPT !.awaited = FALSE]
<1>1. /\ late.kind = m.kind /\ late.run = m.run /\ late.snap = m.snap
      /\ late.domains = m.domains
  BY DEF TypeOK, Request
<1>2. /\ UNCHANGED <<run, step, full, plan, checked, selective, covers>>
      /\ \/ requests' = requests \ {m}
         \/ m.kind = "commit" /\ requests' = (requests \ {m}) \union {late}
  BY DEF ServeDryRun, ServeRead, RefuseCommit, ServeCommit, TimeOut, wizard, servers
<1>3. PICK says : Answers(m, says)
  BY DEF ServeDryRun, ServeRead, RefuseCommit, ServeCommit, TimeOut
<1>4. Reply(m, says).to = m
  BY DEF Reply
<1> HIDE DEF late
<1>5. answers' \subseteq answers \union {Reply(m, says)}
  BY <1>3 DEF Answers
<1>6. DryRunOnce'
  <2>1. \A n : IsDryRun(n)' <=> IsDryRun(n)
    BY <1>2 DEF IsDryRun
  <2>2. \A n \in requests' : IsDryRun(n) => n \in requests \ {m}
    BY <1>1, <1>2 DEF IsDryRun
  <2>3. CASE ~IsDryRun(m)
    BY <1>2, <1>4, <1>5, <2>2, <2>3, DryRunsDwindle
  <2>4. CASE IsDryRun(m)
    <3>1. full' = "loading" /\ \A n \in requests' : ~IsDryRun(n)
      BY <1>2, <2>2, <2>4 DEF DryRunOnce, Calls
    <3>2. \A b \in answers' : IsDryRun(b.to) => b = Reply(m, says)
      BY <1>5, <2>4 DEF DryRunOnce
    <3> QED BY <2>1, <3>1, <3>2 DEF DryRunOnce
  <2> QED BY <2>3, <2>4
<1>7. CommitIsTicked'
  <2>1. \A n \in requests : Effective(n)' = Effective(n)
    BY <1>2, EffectiveStable
  <2>2. Effective(late)' = Effective(m) /\ Ticked' = Ticked
    BY <1>1, <1>2 DEF Effective, Ticked
  <2> QED BY <1>1, <1>2, <2>1, <2>2 DEF CommitIsTicked
<1> QED BY <1>6, <1>7

LEMMA StepTicks ==
    ASSUME TypeOK, RestoreInv, DryRunOnce, CommitIsTicked, [Next]_vars
    PROVE  DryRunOnce' /\ CommitIsTicked'
<1>1. CASE Render \/ (\E d \in Domains : Edit(d)) \/ UNCHANGED vars
  <2>1. UNCHANGED <<run, step, full, plan, checked, selective, covers, requests,
                    answers>>
    BY <1>1 DEF Render, Edit, vars, wizard, servers
  <2>2. DryRunOnce'
    BY <2>1, DryRunsDwindle
  <2>3. step = "closed" => CommitIsTicked'
    BY <2>1, NoCommitNoTicks
  <2>4. step # "closed" => CommitIsTicked'
    BY <2>1, TicksStand
  <2> QED BY <2>2, <2>3, <2>4
<1>2. CASE Operator
  BY <1>2, OperatorKeepsTicks
<1>3. CASE Deliver
  BY <1>3, DeliverKeepsTicks DEF Deliver
<1>4. CASE Serve \/ \E m \in requests : TimeOut(m)
  BY <1>4, ServersKeepTicks DEF Serve
<1> QED BY <1>1, <1>2, <1>3, <1>4 DEF Next

LEMMA TicksAreInvariant == Spec => [](DryRunOnce /\ CommitIsTicked)
<1>1. Init => DryRunOnce /\ CommitIsTicked
  BY DEF Init, DryRunOnce, CommitIsTicked, Calls
<1>2. TypeOK /\ RestoreInv /\ DryRunOnce /\ CommitIsTicked /\ [Next]_vars
        => DryRunOnce' /\ CommitIsTicked'
  BY StepTicks
<1> QED BY <1>1, <1>2, TypeCorrect, PassesAreReal, PTL DEF Spec

(* handleCommit sends what is ticked at that moment, and on a backend that *)
(* knows `components` as on one that does not, that is what is replaced;   *)
(* nothing moves a tick while the commit is on its way.                    *)
THEOREM CommitsAreAsTicked == Spec => []ReplacesWhatIsTicked
<1>1. CommitIsTicked => ReplacesWhatIsTicked
  BY DEF CommitIsTicked, ReplacesWhatIsTicked
<1> QED BY <1>1, TicksAreInvariant, PTL

----------------------------------------------------------------------------
(* An undo aims at its restore.  What is shown as done was taken up by the *)
(* gateway; what was sent, it aimed at; and an undo reads back just that.  *)

DoneOutcomes == {"ok", "rollbackFailed"}

OutcomesAreReal ==
    /\ \A a \in answers : a.to.kind = "commit" /\ a.says \in DoneOutcomes
                            => a.to.run \in restored
    /\ outcome \in DoneOutcomes => step # "closed" /\ run \in restored

SentIsAimed ==
    /\ \A m \in requests : m.kind = "commit" =>
          /\ m.domains # NoDomains => Effective(m) = m.domains
          /\ m.run = run /\ step # "closed" => m.domains = sent
    /\ run \in restored /\ step # "closed" =>
          sent = NoDomains \/ aimed[run] = sent

ReadsAreOfRestores ==
    \A m \in Calls : m.kind = "read" /\ m.run = run /\ step # "closed" =>
        run \in restored /\ m.domains = sent

UndoInv ==
    /\ OutcomesAreReal
    /\ SentIsAimed
    /\ ReadsAreOfRestores
    /\ UndoAimsAtItsRestore

(* Steps of a wizard that is open, or closes, with the target and what was *)
(* sent for it as they were, and no call but old ones.                     *)
LEMMA UndoStands ==
    ASSUME UndoInv, UNCHANGED <<run, requests, servers>>,
           answers' \subseteq answers,
           \/ step' = "closed" /\ outcome' = "none"
           \/ /\ step # "closed" /\ step' # "closed"
              /\ UNCHANGED <<snap, undo, wanted, sent>>
              /\ outcome' \in DoneOutcomes => run \in restored
    PROVE  UndoInv'
<1> USE DEF servers
<1>1. OutcomesAreReal'
  BY DEF UndoInv, OutcomesAreReal, DoneOutcomes
<1>2. \A m \in requests : Effective(m)' = Effective(m)
  BY EffectiveStable
<1>3. SentIsAimed'
  BY <1>2 DEF UndoInv, SentIsAimed
<1>4. Calls' \subseteq Calls
  BY DEF Calls
<1>5. ReadsAreOfRestores'
  BY <1>4 DEF UndoInv, ReadsAreOfRestores
<1>6. UndoAimsAtItsRestore'
  BY DEF UndoInv, UndoAimsAtItsRestore
<1> QED BY <1>1, <1>3, <1>5, <1>6 DEF UndoInv

(* A new target: the operator's, or an undo of the run before it. *)
LEMMA NewTargetUndo ==
    ASSUME TypeOK, RestoreInv, UndoInv, NEW s, NEW u, NEW ds, NewTarget(s, u, ds),
           answers' \subseteq answers, UNCHANGED servers,
           \/ u = 0
           \/ /\ u = run /\ s = run /\ run \in restored
              /\ ds = NoDomains \/ aimed[run] = ds
    PROVE  UndoInv'
<1> DEFINE q == ToRequest("dryRun", run + 1, s, NoDomains, 0)
<1>1. q.kind = "dryRun"
  BY DEF ToRequest
<1>2. /\ run' = run + 1 /\ run \in Nat /\ outcome' = "none" /\ step' = "dry-run"
      /\ requests' = requests \union {q} /\ snap' = s /\ undo' = u /\ wanted' = ds
  BY BoundsAssumption DEF NewTarget, TypeOK
<1> HIDE DEF q
<1> USE DEF servers
<1>3. \A m \in Calls : m.run # run'
  BY <1>2, CallsOfThePast
<1>4. run' \notin restored
  <2>1. \A r \in restored : r \in Nat /\ r <= run
    BY DEF RestoreInv, CommitsAreVerified, TypeOK, Runs
  <2> QED BY <1>2, <2>1
<1>5. OutcomesAreReal'
  BY <1>2 DEF UndoInv, OutcomesAreReal, DoneOutcomes
<1>6. SentIsAimed'
  <2>1. \A m \in requests : Effective(m)' = Effective(m)
    BY EffectiveStable
  <2> QED BY <1>1, <1>2, <1>3, <1>4, <2>1 DEF UndoInv, SentIsAimed, Calls
<1>7. ReadsAreOfRestores'
  <2>1. Calls' \subseteq Calls \union {q}
    BY <1>2 DEF Calls
  <2> QED BY <1>1, <1>3, <2>1 DEF ReadsAreOfRestores
<1>8. UndoAimsAtItsRestore'
  BY <1>2 DEF UndoAimsAtItsRestore
<1> QED BY <1>5, <1>6, <1>7, <1>8 DEF UndoInv

LEMMA OperatorKeepsUndo ==
    ASSUME TypeOK, RestoreInv, UndoInv, Operator
    PROVE  UndoInv'
<1>1. CASE Open
  BY <1>1, NewTargetUndo DEF Open
<1>2. CASE Close \/ Leave
  BY <1>2, UndoStands DEF Close, Leave, Unmount
<1>3. CASE (\E ds \in SUBSET Domains : Tick(ds)) \/ Continue
  <2>1. outcome \in DoneOutcomes => run \in restored
    BY DEF UndoInv, OutcomesAreReal
  <2> QED BY <1>3, <2>1, UndoStands DEF Tick, Continue
<1>4. ASSUME NEW q, requests' = requests \union {q}, q.kind # "commit",
             q.kind = "read" => run \in restored /\ q.domains = sent,
             UNCHANGED <<run, step, snap, undo, wanted, sent, outcome, answers,
                         servers>>
      PROVE  UndoInv'
  <2> USE DEF servers
  <2>1. OutcomesAreReal' /\ UndoAimsAtItsRestore'
    BY <1>4 DEF UndoInv, OutcomesAreReal, UndoAimsAtItsRestore
  <2>2. \A m \in requests : Effective(m)' = Effective(m)
    BY <1>4, EffectiveStable
  <2>3. SentIsAimed'
    BY <1>4, <2>2 DEF UndoInv, SentIsAimed
  <2>4. Calls' = Calls \union {q}
    BY <1>4 DEF Calls
  <2>5. ReadsAreOfRestores'
    BY <1>4, <2>4 DEF UndoInv, ReadsAreOfRestores
  <2> QED BY <2>1, <2>3, <2>5 DEF UndoInv
<1>5. CASE DryRunPicked
  <2>1. PICK q : q = ToRequest("pickedDryRun", run, snap, Components,
                               picked.pick + 1)
    OBVIOUS
  <2>2. q.kind = "pickedDryRun"
    BY <2>1 DEF ToRequest
  <2> QED BY <1>4, <1>5, <2>1, <2>2 DEF DryRunPicked
<1>6. CASE Undo
  <2>1. PICK q : q = ToRequest("read", run, PreRestoreId, sent, 0)
    OBVIOUS
  <2>2. q.kind = "read" /\ q.domains = sent
    BY <2>1 DEF ToRequest
  <2>3. run \in restored
    BY <1>6 DEF Undo, CanUndo, UndoInv, OutcomesAreReal, DoneOutcomes
  <2> QED BY <1>4, <1>6, <2>1, <2>2, <2>3 DEF Undo
<1>7. CASE RestoreNow
  <2> USE DEF servers
  <2>1. PICK q : q = ToRequest("commit", run, snap, Components, 0)
    OBVIOUS
  <2>2. /\ q.kind = "commit" /\ q.run = run /\ q.snap = snap
        /\ q.domains = Components
    BY <2>1 DEF ToRequest
  <2>3. /\ requests' = requests \union {q} /\ sent' = Components
        /\ UNCHANGED <<run, snap, undo, wanted, outcome, answers, servers>>
        /\ step' = "committing"
    BY <1>7, <2>1 DEF RestoreNow
  <2>4. ~inFlight /\ CanContinue /\ step # "closed"
    BY <1>7 DEF RestoreNow, MayCommit, RestoreInv, CommitsAreVerified
  <2>5. /\ run \notin restored
        /\ \A m \in requests : ~(m.kind = "commit" /\ m.run = run)
    BY <2>4 DEF RestoreInv, CommitsAreVerified
  <2>6. Components # NoDomains => Effective(q) = Components
    <3>1. Effective(q) = Ticked
      BY <2>2, <2>4, ContinueIsTicked DEF RestoreInv
    <3> QED BY <3>1 DEF Components
  <2>7. Effective(q)' = Effective(q) /\ \A m \in requests : Effective(m)' = Effective(m)
    BY <2>3, EffectiveStable
  <2>8. OutcomesAreReal' /\ UndoAimsAtItsRestore'
    BY <2>3, <2>4, <2>5 DEF UndoInv, OutcomesAreReal, UndoAimsAtItsRestore
  <2>9. SentIsAimed'
    BY <2>2, <2>3, <2>5, <2>6, <2>7 DEF UndoInv, SentIsAimed
  <2>10. Calls' = Calls \union {q}
    BY <2>3 DEF Calls
  <2>11. ReadsAreOfRestores'
    BY <2>2, <2>3, <2>4, <2>5, <2>10 DEF UndoInv, ReadsAreOfRestores
  <2> QED BY <2>8, <2>9, <2>11 DEF UndoInv
<1> QED BY <1>1, <1>2, <1>3, <1>5, <1>6, <1>7 DEF Operator

LEMMA DeliverKeepsUndo ==
    ASSUME TypeOK, RestoreInv, UndoInv, NEW a \in answers,
           \/ Drop(a) \/ DryRunAnswer(a) \/ PickedAnswer(a)
           \/ CommitAnswer(a) \/ UndoAnswer(a)
    PROVE  UndoInv'
<1>0. outcome \in DoneOutcomes => step # "closed" /\ run \in restored
  BY DEF UndoInv, OutcomesAreReal
<1>1. CASE Drop(a)
  <2>1. UNCHANGED <<wizard, requests, servers>> /\ answers' \subseteq answers
    BY <1>1 DEF Drop
  <2>2. CASE step # "closed"
    BY <1>0, <2>1, <2>2, UndoStands DEF wizard
  <2>3. CASE step = "closed"
    <3>1. \A m \in requests : Effective(m)' = Effective(m)
      BY <2>1, EffectiveStable DEF servers
    <3> QED
      BY <2>1, <2>3, <3>1
         DEF wizard, servers, UndoInv, OutcomesAreReal, SentIsAimed,
             ReadsAreOfRestores, UndoAimsAtItsRestore
  <2> QED BY <2>2, <2>3
<1>2. CASE DryRunAnswer(a) \/ PickedAnswer(a)
  BY <1>0, <1>2, UndoStands DEF DryRunAnswer, PickedAnswer, Current
<1>3. CASE CommitAnswer(a)
  <2>1. outcome' \in DoneOutcomes => run \in restored
    BY <1>3 DEF CommitAnswer, AnswersCommit, Current, Shown, UndoInv, OutcomesAreReal
  <2> QED BY <1>3, <2>1, UndoStands DEF CommitAnswer, Current
<1>4. CASE UndoAnswer(a) /\ NewTarget(a.to.snap, run, a.to.domains)
  <2>1. /\ a.to \in Calls /\ a.to.kind = "read" /\ a.to.run = run
        /\ step # "closed"
    BY <1>4 DEF UndoAnswer, Current, Calls
  <2>2. a.to.snap = run
    BY <2>1 DEF RestoreInv, CallsBelong
  <2>3. run \in restored /\ a.to.domains = sent
    BY <2>1 DEF UndoInv, ReadsAreOfRestores
  <2>4. sent = NoDomains \/ aimed[run] = sent
    BY <2>1, <2>3 DEF UndoInv, SentIsAimed
  <2> QED BY <1>4, <2>2, <2>3, <2>4, NewTargetUndo DEF UndoAnswer
<1>5. CASE /\ UndoAnswer(a)
           /\ UNCHANGED <<step, run, snap, undo, wanted, full, plan, checked,
                          picked, inFlight, unrendered, sent, outcome, requests>>
  BY <1>0, <1>5, UndoStands DEF UndoAnswer, Current
<1> QED BY <1>1, <1>2, <1>3, <1>4, <1>5 DEF UndoAnswer

LEMMA ServersKeepUndo ==
    ASSUME TypeOK, RestoreInv, UndoInv, NEW m \in requests,
           \/ ServeDryRun(m) \/ ServeRead(m) \/ RefuseCommit(m)
           \/ ServeCommit(m) \/ TimeOut(m)
    PROVE  UndoInv'
<1> USE DEF servers
<1> DEFINE late == [m EXCEPT !.awaited = FALSE]
<1>1. /\ late.kind = m.kind /\ late.run = m.run /\ late.snap = m.snap
      /\ late.domains = m.domains
  BY DEF TypeOK, Request
<1>2. /\ UNCHANGED wizard /\ UNCHANGED <<selective, covers>>
      /\ \/ requests' = requests \ {m}
         \/ m.kind = "commit" /\ requests' = (requests \ {m}) \union {late}
  BY DEF ServeDryRun, ServeRead, RefuseCommit, ServeCommit, TimeOut
<1>3. /\ restored \subseteq restored'
      /\ \A r \in restored : aimed'[r] = aimed[r]
      /\ \A r \in restored' \ restored :
            /\ m.kind = "commit" /\ m.run = r
            /\ aimed'[r] = Effective(m)
  <2>1. CASE ServeCommit(m)
    <3>1. m.run \in Runs /\ m.run \notin restored
      BY <2>1 DEF ServeCommit, RestoreInv, CommitsAreVerified, TypeOK, Request
    <3> QED BY <2>1, <3>1 DEF ServeCommit, TypeOK
  <2>2. CASE ~ServeCommit(m)
    BY <2>2 DEF ServeDryRun, ServeRead, RefuseCommit, TimeOut
  <2> QED BY <2>1, <2>2
<1>4. PICK says : /\ Answers(m, says)
                  /\ m.kind = "commit" /\ says \in DoneOutcomes
                        => m.run \in restored'
  <2>1. CASE ServeCommit(m)
    BY <2>1 DEF ServeCommit
  <2>2. CASE RefuseCommit(m) \/ TimeOut(m)
    BY <2>2 DEF RefuseCommit, TimeOut, DoneOutcomes
  <2>3. CASE ServeDryRun(m) \/ ServeRead(m)
    BY <2>3 DEF ServeDryRun, ServeRead
  <2> QED BY <2>1, <2>2, <2>3
<1>5. /\ Reply(m, says).to = m /\ Reply(m, says).says = says
      /\ answers' \subseteq answers \union {Reply(m, says)}
  BY <1>4 DEF Answers, Reply
<1> HIDE DEF late
<1>6. OutcomesAreReal'
  BY <1>2, <1>3, <1>4, <1>5 DEF wizard, UndoInv, OutcomesAreReal
<1>7. SentIsAimed'
  <2>1. /\ \A n \in requests : Effective(n)' = Effective(n)
        /\ Effective(late)' = Effective(m)
    BY <1>1, <1>2, EffectiveStable DEF Effective
  <2>2. run \in restored' /\ step # "closed" =>
           sent = NoDomains \/ aimed'[run] = sent
    BY <1>3 DEF UndoInv, SentIsAimed
  <2> QED BY <1>1, <1>2, <2>1, <2>2 DEF wizard, UndoInv, SentIsAimed
<1>8. ReadsAreOfRestores'
  <2>1. Calls' \subseteq Calls \union {late}
    BY <1>2, <1>5 DEF Calls
  <2>2. m \in Calls
    BY DEF Calls
  <2> QED
    BY <1>1, <1>2, <1>3, <2>1, <2>2 DEF wizard, UndoInv, ReadsAreOfRestores
<1>9. UndoAimsAtItsRestore'
  BY <1>2, <1>3 DEF wizard, UndoInv, UndoAimsAtItsRestore
<1> QED BY <1>6, <1>7, <1>8, <1>9 DEF UndoInv

LEMMA StepUndo ==
    ASSUME TypeOK, RestoreInv, UndoInv, [Next]_vars
    PROVE  UndoInv'
<1>1. CASE Render \/ (\E d \in Domains : Edit(d)) \/ UNCHANGED vars
  <2>1. UNCHANGED <<run, step, snap, undo, wanted, sent, outcome, selective,
                    covers, requests, answers, restored, aimed>>
    BY <1>1 DEF Render, Edit, vars, wizard, servers
  <2>2. \A m \in requests : Effective(m)' = Effective(m)
    BY <2>1, EffectiveStable
  <2> QED
    BY <2>1, <2>2
       DEF UndoInv, OutcomesAreReal, SentIsAimed, ReadsAreOfRestores, Calls,
           UndoAimsAtItsRestore
<1>2. CASE Operator
  BY <1>2, OperatorKeepsUndo
<1>3. CASE Deliver
  BY <1>3, DeliverKeepsUndo DEF Deliver
<1>4. CASE Serve \/ \E m \in requests : TimeOut(m)
  BY <1>4, ServersKeepUndo DEF Serve
<1> QED BY <1>1, <1>2, <1>3, <1>4 DEF Next

LEMMA UndoInvariant == Spec => []UndoInv
<1>1. Init => UndoInv
  BY DEF Init, UndoInv, OutcomesAreReal, SentIsAimed, ReadsAreOfRestores, Calls,
         UndoAimsAtItsRestore, DoneOutcomes
<1>2. TypeOK /\ RestoreInv /\ UndoInv /\ [Next]_vars => UndoInv'
  BY StepUndo
<1> QED BY <1>1, <1>2, TypeCorrect, PassesAreReal, PTL DEF Spec

(* handleUndo makes the pre-restore snapshot of the run it undoes the new  *)
(* target, with all the domains that run was for: whatever was closed,     *)
(* reopened or answered late meanwhile.                                    *)
THEOREM UndoFindsItsRestore == Spec => []UndoAimsAtItsRestore
<1>1. UndoInv => UndoAimsAtItsRestore
  BY DEF UndoInv
<1> QED BY <1>1, UndoInvariant, PTL

----------------------------------------------------------------------------
(* Refinement. *)

(* A commit the gateway takes up is a Restore of the promise.              *)
LEMMA CommitKeepsPromise ==
    ASSUME TypeOK, TypeOK', RestoreInv, NEW m \in requests, ServeCommit(m)
    PROVE  Promise!Next
<1> DEFINE p == [run |-> m.run, snap |-> m.snap, domains |-> Effective(m)]
<1>1. p \in validated /\ p.run \notin restored
  BY DEF ServeCommit, RestoreInv, CommitsAreVerified, Passed
<1>2. restored' = restored \union {p.run} /\ UNCHANGED validated
  BY DEF ServeCommit
<1>3. PICK ds \in SUBSET p.domains :
         config' = [d \in Domains |-> IF d \in ds THEN content[m.snap][d]
                                                  ELSE config[d]]
  BY DEF ServeCommit
<1>4. config' = [d \in Domains |-> IF d \in p.domains THEN config'[d]
                                                      ELSE config[d]]
  BY <1>3
<1>5. config' \in [Domains -> Values]
  BY DEF TypeOK
<1> HIDE DEF p
<1>6. PICK new \in [Domains -> Values] : new = config'
  BY <1>5
<1>7. Promise!Restore(p, new)
  BY <1>1, <1>2, <1>4, <1>6 DEF Promise!Restore
<1> QED BY <1>1, <1>7 DEF Promise!Next

LEMMA StepKeepsPromise ==
    ASSUME TypeOK, TypeOK', RestoreInv, [Next]_vars
    PROVE  Promise!Next \/ UNCHANGED <<config, validated, restored>>
<1>1. CASE Operator \/ Render \/ Deliver
  BY <1>1
     DEF Operator, Open, Close, Leave, Unmount, Tick, DryRunPicked, Continue,
         RestoreNow, Undo, Render, Deliver, Drop, DryRunAnswer, PickedAnswer,
         CommitAnswer, UndoAnswer, servers
<1>2. ASSUME NEW m \in requests, ServeDryRun(m)
      PROVE  Promise!Next \/ UNCHANGED <<config, validated, restored>>
  <2>1. Effective(m) \in SUBSET Domains /\ m \in Request
    BY EffectiveType DEF TypeOK
  <2>2. PICK p \in Promise!Passes :
          p = [run |-> m.run, snap |-> m.snap, domains |-> Effective(m)]
    BY <2>1 DEF Promise!Passes, Request
  <2>3. Promise!DryRun(p) \/ UNCHANGED <<config, validated, restored>>
    BY <1>2, <2>2 DEF ServeDryRun, Promise!DryRun
  <2> QED BY <2>3 DEF Promise!Next
<1>3. ASSUME NEW m \in requests, ServeRead(m) \/ RefuseCommit(m) \/ TimeOut(m)
      PROVE  UNCHANGED <<config, validated, restored>>
  BY <1>3 DEF ServeRead, RefuseCommit, TimeOut, servers
<1>4. ASSUME NEW m \in requests, ServeCommit(m) PROVE Promise!Next
  BY <1>4, CommitKeepsPromise
<1>5. ASSUME NEW d \in Domains, Edit(d) PROVE Promise!Next
  BY <1>5 DEF Edit, Promise!Edit, Promise!Next, Values
<1>6. CASE UNCHANGED vars
  BY <1>6 DEF vars, servers
<1> QED BY <1>1, <1>2, <1>3, <1>4, <1>5, <1>6 DEF Next, Serve

(* The wizard, with servers that know `components` or not, lost, late and  *)
(* unreadable answers and other operators beside it, implements            *)
(* VerifiedRestore: a configuration is replaced only where a dry-run of    *)
(* the same run has passed, and once per run (handleCommit).               *)
THEOREM WizardKeepsPromise == Spec => KeepsPromise
<1>1. Init => Promise!Init
  BY DEF Init, Promise!Init, Values
<1>2. TypeOK /\ TypeOK' /\ RestoreInv /\ [Next]_vars
        => [Promise!Next]_<<config, validated, restored>>
  BY StepKeepsPromise
<1> QED
  BY <1>1, <1>2, TypeCorrect, PassesAreReal, PTL
     DEF Spec, KeepsPromise, Promise!Spec

----------------------------------------------------------------------------
(* What the result step says is so.  An answer that says a commit is done, *)
(* or that nothing was done, stays true for as long as it is on its way or *)
(* shown: the gateway carries a run's commit out once, and no request of   *)
(* it is left when it is known to have done nothing.                       *)

NothingDone == {"rolledBack", "incomplete"} \union
               (IF "unreadableAnswers" \in Scenarios THEN {} ELSE {"unreached"})

IsTrueOf(said, r) ==
    /\ said = "ok" => r \in restored /\ replaced[r] = aimed[r]
    /\ said \in NothingDone =>
          /\ replaced[r] = {}
          /\ \A m \in requests : ~(m.kind = "commit" /\ m.run = r)

CommitAnswersAreTrue ==
    \A a \in answers : a.to.kind = "commit" =>
        /\ IsTrueOf(a.says, a.to.run)
        /\ a.to.run = run /\ step # "closed" => inFlight

ShownOutcomeIsTrue ==
    /\ step # "closed" => IsTrueOf(outcome, run)
    /\ outcome # "none" => step = "result"

(* The gateway changes an instance for the commits it took up, and for the *)
(* run shown it aimed at what is still ticked.                             *)
RestoredIsTicked ==
    /\ \A r \in Runs \ restored : replaced[r] = {}
    /\ run \in restored /\ step # "closed" =>
          /\ aimed[run] = Ticked
          /\ full = "pass" /\ step \in {"committing", "result"}

HonestInv == CommitAnswersAreTrue /\ ShownOutcomeIsTrue /\ RestoredIsTicked

LEMMA RunsAre ==
    ASSUME TypeOK
    PROVE  /\ run \in Nat
           /\ \A m \in Calls : m.run \in Runs
           /\ \A m \in requests : m \in Request
  BY BoundsAssumption DEF TypeOK, Calls, Request, Answer, Runs

(* Steps of the browser that send nothing, with the servers as they were.  *)
LEMMA HonestStands ==
    ASSUME HonestInv, UNCHANGED <<run, requests, servers>>,
           answers' \subseteq answers,
           \/ step' = "closed" /\ outcome' = "none"
           \/ /\ step # "closed" /\ step' # "closed"
              /\ UNCHANGED <<inFlight, outcome>>
              /\ outcome # "none" => step' = "result"
              /\ \/ run \notin restored
                 \/ /\ UNCHANGED <<plan, checked, full>>
                    /\ step' \in {"committing", "result"}
    PROVE  HonestInv'
<1> USE DEF servers
<1>1. \A said, r : IsTrueOf(said, r)' <=> IsTrueOf(said, r)
  BY DEF IsTrueOf
<1>2. CommitAnswersAreTrue'
  BY <1>1 DEF HonestInv, CommitAnswersAreTrue
<1>3. ShownOutcomeIsTrue'
  BY <1>1 DEF HonestInv, ShownOutcomeIsTrue
<1>4. RestoredIsTicked'
  BY DEF HonestInv, RestoredIsTicked, Ticked
<1> QED BY <1>2, <1>3, <1>4 DEF HonestInv

LEMMA NewTargetHonest ==
    ASSUME TypeOK, RestoreInv, HonestInv, NEW s, NEW u, NEW ds,
           NewTarget(s, u, ds), answers' \subseteq answers, UNCHANGED servers
    PROVE  HonestInv'
<1> DEFINE q == ToRequest("dryRun", run + 1, s, NoDomains, 0)
<1>1. q.kind = "dryRun"
  BY DEF ToRequest
<1>2. /\ run' = run + 1 /\ outcome' = "none" /\ step' = "dry-run"
      /\ requests' = requests \union {q}
  BY DEF NewTarget
<1> HIDE DEF q
<1> USE DEF servers
<1>3. \A m \in Calls : m.run # run'
  BY <1>2, CallsOfThePast
<1>4. run' \notin restored
  <2>1. \A r \in restored : r \in Nat /\ r <= run
    BY DEF RestoreInv, CommitsAreVerified, TypeOK, Runs
  <2> QED BY <1>2, <2>1, RunsAre
<1>5. \A said, r : IsTrueOf(said, r) => IsTrueOf(said, r)'
  BY <1>1, <1>2 DEF IsTrueOf
<1>6. CommitAnswersAreTrue'
  BY <1>3, <1>5 DEF HonestInv, CommitAnswersAreTrue, Calls
<1>7. ShownOutcomeIsTrue'
  <2>1. "none" # "ok" /\ "none" \notin NothingDone
    BY DEF NothingDone
  <2> QED BY <1>2, <2>1 DEF ShownOutcomeIsTrue, IsTrueOf
<1>8. RestoredIsTicked'
  BY <1>4 DEF HonestInv, RestoredIsTicked
<1> QED BY <1>6, <1>7, <1>8 DEF HonestInv

LEMMA OperatorKeepsHonest ==
    ASSUME TypeOK, RestoreInv, HonestInv, Operator
    PROVE  HonestInv'
<1>1. CASE Open
  BY <1>1, NewTargetHonest DEF Open
<1>2. CASE Close \/ Leave
  BY <1>2, HonestStands DEF Close, Leave, Unmount
<1>3. CASE (\E ds \in SUBSET Domains : Tick(ds)) \/ Continue
  <2>1. step = "dry-run" /\ run \notin restored /\ outcome = "none"
    BY <1>3 DEF Tick, Continue, HonestInv, ShownOutcomeIsTrue, RestoredIsTicked
  <2> QED BY <1>3, <2>1, HonestStands DEF Tick, Continue
<1>4. ASSUME NEW q, requests' = requests \union {q}, q.kind # "commit",
             UNCHANGED <<run, step, inFlight, outcome, plan, checked, full,
                         answers, servers>>
      PROVE  HonestInv'
  <2> USE DEF servers
  <2>1. \A said, r : IsTrueOf(said, r) => IsTrueOf(said, r)'
    BY <1>4 DEF IsTrueOf
  <2>2. CommitAnswersAreTrue' /\ ShownOutcomeIsTrue'
    BY <1>4, <2>1 DEF HonestInv, CommitAnswersAreTrue, ShownOutcomeIsTrue
  <2>3. RestoredIsTicked'
    BY <1>4 DEF HonestInv, RestoredIsTicked, Ticked
  <2> QED BY <2>2, <2>3 DEF HonestInv
<1>5. CASE DryRunPicked
  <2>1. PICK q : q = ToRequest("pickedDryRun", run, snap, Components,
                               picked.pick + 1)
    OBVIOUS
  <2>2. q.kind = "pickedDryRun"
    BY <2>1 DEF ToRequest
  <2> QED BY <1>4, <1>5, <2>1, <2>2 DEF DryRunPicked
<1>6. CASE Undo
  <2>1. PICK q : q = ToRequest("read", run, PreRestoreId, sent, 0)
    OBVIOUS
  <2>2. q.kind = "read"
    BY <2>1 DEF ToRequest
  <2> QED BY <1>4, <1>6, <2>1, <2>2 DEF Undo
<1>7. CASE RestoreNow
  <2> USE DEF servers
  <2>1. PICK q : q = ToRequest("commit", run, snap, Components, 0)
    OBVIOUS
  <2>2. q.kind = "commit" /\ q.run = run
    BY <2>1 DEF ToRequest
  <2>3. /\ requests' = requests \union {q} /\ step' = "committing"
        /\ UNCHANGED <<run, outcome, plan, checked, full, answers, servers>>
    BY <1>7, <2>1 DEF RestoreNow
  <2>4. ~inFlight /\ step \in {"confirm", "committing"}
    BY <1>7 DEF RestoreNow, MayCommit, RestoreInv, CommitsAreVerified
  <2>5. run \notin restored
    BY <2>4 DEF RestoreInv, CommitsAreVerified
  <2>6. outcome = "none"
    BY <2>4 DEF HonestInv, ShownOutcomeIsTrue
  <2>7. \A a \in answers : a.to.kind = "commit" => a.to.run # run
    BY <2>4 DEF HonestInv, CommitAnswersAreTrue
  <2>8. \A said, r : r # run /\ IsTrueOf(said, r) => IsTrueOf(said, r)'
    BY <2>2, <2>3 DEF IsTrueOf
  <2>9. CommitAnswersAreTrue'
    BY <2>3, <2>7, <2>8 DEF HonestInv, CommitAnswersAreTrue
  <2>10. ShownOutcomeIsTrue'
    <3>1. "none" # "ok" /\ "none" \notin NothingDone
      BY DEF NothingDone
    <3> QED BY <2>3, <2>6, <3>1 DEF ShownOutcomeIsTrue, IsTrueOf
  <2>11. RestoredIsTicked'
    BY <2>3, <2>5 DEF HonestInv, RestoredIsTicked
  <2> QED BY <2>9, <2>10, <2>11 DEF HonestInv
<1> QED BY <1>1, <1>2, <1>3, <1>5, <1>6, <1>7 DEF Operator

LEMMA DeliverKeepsHonest ==
    ASSUME TypeOK, RestoreInv, DryRunOnce, HonestInv, NEW a \in answers,
           \/ Drop(a) \/ DryRunAnswer(a) \/ PickedAnswer(a)
           \/ CommitAnswer(a) \/ UndoAnswer(a)
    PROVE  HonestInv'
<1>1. CASE Drop(a)
  <2>1. UNCHANGED <<wizard, requests, servers>> /\ answers' \subseteq answers
    BY <1>1 DEF Drop
  <2> USE DEF wizard, servers
  <2>2. \A said, r : IsTrueOf(said, r)' <=> IsTrueOf(said, r)
    BY <2>1 DEF IsTrueOf
  <2> QED BY <2>1, <2>2 DEF HonestInv, CommitAnswersAreTrue, ShownOutcomeIsTrue,
                            RestoredIsTicked, Ticked
<1>2. CASE DryRunAnswer(a)
  <2>1. /\ IsDryRun(a.to) /\ step # "closed" /\ a.to \in Calls
    BY <1>2 DEF DryRunAnswer, Current, IsDryRun, Calls
  <2>2. full = "loading"
    BY <2>1 DEF DryRunOnce
  <2>3. run \notin restored
    BY <2>1, <2>2 DEF HonestInv, RestoredIsTicked
  <2>4. outcome # "none" => step = "result"
    BY DEF HonestInv, ShownOutcomeIsTrue
  <2> QED BY <1>2, <2>1, <2>3, <2>4, HonestStands DEF DryRunAnswer
<1>3. CASE \/ PickedAnswer(a)
           \/ /\ UndoAnswer(a)
              /\ UNCHANGED <<step, run, snap, undo, wanted, full, plan, checked,
                             picked, inFlight, unrendered, sent, outcome,
                             requests>>
  <2>1. /\ step # "closed" /\ answers' \subseteq answers
        /\ UNCHANGED <<step, run, full, plan, checked, inFlight, outcome,
                       requests, servers>>
    BY <1>3 DEF PickedAnswer, UndoAnswer, Current
  <2>2. /\ outcome # "none" => step = "result"
        /\ run \in restored => step \in {"committing", "result"}
    BY <2>1 DEF HonestInv, ShownOutcomeIsTrue, RestoredIsTicked
  <2> QED BY <2>1, <2>2, HonestStands
<1>4. CASE CommitAnswer(a)
  <2>1. /\ step # "closed" /\ a.to.run = run /\ a.to.kind = "commit"
        /\ outcome' = a.says /\ step' = "result" /\ answers' \subseteq answers
        /\ UNCHANGED <<run, full, plan, checked, inFlight, requests, servers>>
    BY <1>4 DEF CommitAnswer, Current, AnswersCommit, Shown
  <2> USE DEF servers
  <2>2. \A said, r : IsTrueOf(said, r)' <=> IsTrueOf(said, r)
    BY <2>1 DEF IsTrueOf
  <2>3. IsTrueOf(a.says, run)
    BY <2>1 DEF HonestInv, CommitAnswersAreTrue
  <2>4. CommitAnswersAreTrue'
    BY <2>1, <2>2 DEF HonestInv, CommitAnswersAreTrue
  <2>5. ShownOutcomeIsTrue'
    BY <2>1, <2>2, <2>3 DEF ShownOutcomeIsTrue
  <2>6. RestoredIsTicked'
    BY <2>1 DEF HonestInv, RestoredIsTicked, Ticked
  <2> QED BY <2>4, <2>5, <2>6 DEF HonestInv
<1>5. CASE UndoAnswer(a) /\ NewTarget(a.to.snap, run, a.to.domains)
  BY <1>5, NewTargetHonest DEF UndoAnswer
<1> QED BY <1>1, <1>2, <1>3, <1>4, <1>5 DEF UndoAnswer

(* What the servers say of a commit is true when they say it.              *)
LEMMA CommitIsServed ==
    ASSUME TypeOK, RestoreInv, HonestInv, NEW m \in requests, ServeCommit(m)
    PROVE  /\ m.kind = "commit" /\ requests' = requests \ {m}
           /\ m.run \in Runs /\ m.run \notin restored
           /\ UNCHANGED wizard
           /\ restored' = restored \union {m.run}
           /\ aimed'[m.run] = Effective(m)
           /\ \A r \in Runs : r # m.run =>
                 aimed'[r] = aimed[r] /\ replaced'[r] = replaced[r]
           /\ \E says : /\ Answers(m, says)
                        /\ says = "ok" => replaced'[m.run] = Effective(m)
                        /\ says \in NothingDone => replaced'[m.run] = {}
<1>1. /\ m.kind = "commit" /\ requests' = requests \ {m} /\ UNCHANGED wizard
      /\ restored' = restored \union {m.run}
      /\ aimed' = [aimed EXCEPT ![m.run] = Effective(m)]
  BY DEF ServeCommit
<1>2. m.run \in Runs /\ m.run \notin restored
  BY <1>1, RunsAre DEF RestoreInv, CommitsAreVerified, Calls
<1>3. aimed \in [Runs -> SUBSET Domains] /\ replaced \in [Runs -> SUBSET Domains]
  BY DEF TypeOK
<1>4. PICK said \in {"ok", "rolledBack", "rollbackFailed", "incomplete"} :
         /\ \E ds \in CASE said = "ok" -> {Effective(m)}
                        [] said = "rollbackFailed" -> SUBSET Effective(m)
                        [] OTHER -> {{}} :
               replaced' = [replaced EXCEPT ![m.run] = ds]
         /\ \E says \in Heard(said) : Answers(m, says)
  BY DEF ServeCommit
<1>5. /\ said = "ok" => replaced' = [replaced EXCEPT ![m.run] = Effective(m)]
      /\ said \in {"rolledBack", "incomplete"} =>
            replaced' = [replaced EXCEPT ![m.run] = {}]
      /\ \E ds : replaced' = [replaced EXCEPT ![m.run] = ds]
  BY <1>4
<1>6. PICK says \in Heard(said) : Answers(m, says)
  BY <1>4
<1>7. /\ says = "ok" => said = "ok"
      /\ says \in NothingDone => said \in {"rolledBack", "incomplete"}
  BY <1>6 DEF Heard, NothingDone
<1>8. /\ says = "ok" => replaced'[m.run] = Effective(m)
      /\ says \in NothingDone => replaced'[m.run] = {}
  BY <1>2, <1>3, <1>5, <1>7
<1>9. \A r \in Runs : r # m.run =>
         aimed'[r] = aimed[r] /\ replaced'[r] = replaced[r]
  BY <1>1, <1>3, <1>5
<1>10. aimed'[m.run] = Effective(m)
  BY <1>1, <1>2, <1>3
<1> QED BY <1>1, <1>2, <1>6, <1>8, <1>9, <1>10

LEMMA ServingKeepsHonest ==
    ASSUME TypeOK, RestoreInv, CommitIsTicked, HonestInv, NEW m \in requests,
           ServeCommit(m)
    PROVE  HonestInv'
<1>1. /\ m.kind = "commit" /\ requests' = requests \ {m}
      /\ m.run \in Runs /\ m.run \notin restored
      /\ UNCHANGED wizard
      /\ restored' = restored \union {m.run}
      /\ aimed'[m.run] = Effective(m)
      /\ \A r \in Runs : r # m.run =>
            aimed'[r] = aimed[r] /\ replaced'[r] = replaced[r]
  BY CommitIsServed
<1>2. PICK says : /\ Answers(m, says)
                  /\ says = "ok" => replaced'[m.run] = Effective(m)
                  /\ says \in NothingDone => replaced'[m.run] = {}
  BY CommitIsServed
<1>3. /\ answers' \subseteq answers \union {Reply(m, says)}
      /\ Reply(m, says).to = m /\ Reply(m, says).says = says
  BY <1>2 DEF Answers, Reply
<1>4. \A n \in requests' : n.kind = "commit" => n.run # m.run
  BY <1>1 DEF RestoreInv, CommitsAreVerified
<1>5. ASSUME NEW said, NEW r \in Runs, IsTrueOf(said, r), m.run = r
      PROVE  said # "ok" /\ said \notin NothingDone
  BY <1>1, <1>5 DEF IsTrueOf
<1>6. ASSUME NEW said, NEW r \in Runs, IsTrueOf(said, r)
      PROVE  IsTrueOf(said, r)'
  <2>1. CASE m.run = r
    BY <1>5, <1>6, <2>1 DEF IsTrueOf, NothingDone
  <2>2. CASE m.run # r
    BY <1>1, <1>6, <2>2 DEF IsTrueOf, NothingDone
  <2> QED BY <2>1, <2>2
<1>7. IsTrueOf(says, m.run)'
  BY <1>1, <1>2, <1>4 DEF IsTrueOf, NothingDone
<1> USE DEF wizard
<1>8. CommitAnswersAreTrue'
  <2> SUFFICES ASSUME NEW a \in answers', a.to.kind = "commit"
               PROVE  /\ IsTrueOf(a.says, a.to.run)'
                      /\ a.to.run = run' /\ step' # "closed" => inFlight'
    BY DEF CommitAnswersAreTrue
  <2>1. CASE a \in answers
    <3>1. a.to.run \in Runs
      BY <2>1, RunsAre DEF Calls
    <3> QED BY <1>1, <1>6, <2>1, <3>1 DEF HonestInv, CommitAnswersAreTrue
  <2>2. CASE a = Reply(m, says)
    <3>1. m.run = run /\ step # "closed" => inFlight
      BY <1>1 DEF RestoreInv, CommitsAreVerified
    <3> QED BY <1>1, <1>3, <1>7, <2>2, <3>1
  <2> QED BY <1>3, <2>1, <2>2
<1>9. ShownOutcomeIsTrue'
  <2>1. ASSUME step # "closed"
        PROVE  IsTrueOf(outcome, run)'
    <3>1. run \in Runs
      BY <2>1 DEF TypeOK, Runs
    <3> QED BY <1>1, <1>6, <2>1, <3>1 DEF HonestInv, ShownOutcomeIsTrue
  <2> QED BY <1>1, <2>1 DEF HonestInv, ShownOutcomeIsTrue, IsTrueOf
<1>10. RestoredIsTicked'
  <2>1. \A r \in Runs \ restored' : replaced'[r] = {}
    BY <1>1 DEF HonestInv, RestoredIsTicked
  <2>2. ASSUME run \in restored', step # "closed"
        PROVE  /\ aimed'[run] = Ticked
               /\ full = "pass" /\ step \in {"committing", "result"}
    <3>1. CASE m.run = run
      BY <1>1, <2>2, <3>1 DEF CommitIsTicked
    <3>2. CASE m.run # run
      <4>1. run \in Runs /\ run \in restored
        BY <1>1, <2>2, <3>2 DEF TypeOK
      <4> QED BY <1>1, <2>2, <3>2, <4>1 DEF HonestInv, RestoredIsTicked
    <3> QED BY <3>1, <3>2
  <2> QED BY <1>1, <2>1, <2>2 DEF RestoredIsTicked, Ticked
<1> QED BY <1>8, <1>9, <1>10 DEF HonestInv

LEMMA ServersKeepHonest ==
    ASSUME TypeOK, RestoreInv, CommitIsTicked, HonestInv, NEW m \in requests,
           \/ ServeDryRun(m) \/ ServeRead(m) \/ RefuseCommit(m)
           \/ ServeCommit(m) \/ TimeOut(m)
    PROVE  HonestInv'
<1>1. CASE ServeCommit(m)
  BY <1>1, ServingKeepsHonest
<1>2. CASE ~ServeCommit(m)
  <2> DEFINE late == [m EXCEPT !.awaited = FALSE]
  <2>1. late.kind = m.kind /\ late.run = m.run
    BY RunsAre DEF Request
  <2>2. /\ UNCHANGED wizard /\ UNCHANGED <<restored, aimed, replaced>>
        /\ \/ requests' = requests \ {m}
           \/ m.kind = "commit" /\ requests' = (requests \ {m}) \union {late}
    BY <1>2 DEF ServeDryRun, ServeRead, RefuseCommit, TimeOut, servers
  <2> HIDE DEF late
  <2>3. PICK says : /\ Answers(m, says)
                    /\ m.kind = "commit" =>
                          /\ says # "ok"
                          /\ says \in NothingDone => requests' = requests \ {m}
    <3>1. CASE ServeDryRun(m) \/ ServeRead(m)
      BY <3>1 DEF ServeDryRun, ServeRead
    <3>2. CASE RefuseCommit(m)
      BY <3>2 DEF RefuseCommit
    <3>3. CASE TimeOut(m)
      BY <3>3 DEF TimeOut, NothingDone
    <3> QED BY <1>2, <3>1, <3>2, <3>3
  <2>4. /\ answers' \subseteq answers \union {Reply(m, says)}
        /\ Reply(m, says).to = m /\ Reply(m, says).says = says
    BY <2>3 DEF Answers, Reply
  <2>5. \A said, r : IsTrueOf(said, r) => IsTrueOf(said, r)'
    <3>1. \A r : (\A n \in requests : ~(n.kind = "commit" /\ n.run = r))
              => \A n \in requests' : ~(n.kind = "commit" /\ n.run = r)
      BY <2>1, <2>2
    <3> QED BY <2>2, <3>1 DEF IsTrueOf, NothingDone
  <2>6. ASSUME m.kind = "commit"
        PROVE  /\ IsTrueOf(says, m.run)'
               /\ m.run = run /\ step # "closed" => inFlight
    <3>1. /\ m.run \in Runs /\ m.run \notin restored
          /\ \A n \in requests : n.kind = "commit" /\ n.run = m.run => n = m
          /\ m.run = run /\ step # "closed" => inFlight
      BY <2>6, RunsAre DEF RestoreInv, CommitsAreVerified, Calls
    <3>2. replaced[m.run] = {}
      BY <3>1 DEF HonestInv, RestoredIsTicked
    <3> QED BY <2>2, <2>3, <2>6, <3>1, <3>2 DEF IsTrueOf, NothingDone
  <2> USE DEF wizard
  <2>7. CommitAnswersAreTrue'
    BY <2>2, <2>4, <2>5, <2>6 DEF HonestInv, CommitAnswersAreTrue
  <2>8. ShownOutcomeIsTrue'
    BY <2>2, <2>5 DEF HonestInv, ShownOutcomeIsTrue
  <2>9. RestoredIsTicked'
    BY <2>2 DEF HonestInv, RestoredIsTicked, Ticked
  <2> QED BY <2>7, <2>8, <2>9 DEF HonestInv
<1> QED BY <1>1, <1>2

LEMMA StepHonest ==
    ASSUME TypeOK, RestoreInv, DryRunOnce, CommitIsTicked, HonestInv, [Next]_vars
    PROVE  HonestInv'
<1>1. CASE Render \/ (\E d \in Domains : Edit(d)) \/ UNCHANGED vars
  <2>1. UNCHANGED <<run, step, full, plan, checked, inFlight, outcome, requests,
                    answers, restored, aimed, replaced>>
    BY <1>1 DEF Render, Edit, vars, wizard, servers
  <2>2. \A said, r : IsTrueOf(said, r)' <=> IsTrueOf(said, r)
    BY <2>1 DEF IsTrueOf
  <2> QED BY <2>1, <2>2 DEF HonestInv, CommitAnswersAreTrue, ShownOutcomeIsTrue,
                            RestoredIsTicked, Ticked
<1>2. CASE Operator
  BY <1>2, OperatorKeepsHonest
<1>3. CASE Deliver
  BY <1>3, DeliverKeepsHonest DEF Deliver
<1>4. CASE Serve \/ \E m \in requests : TimeOut(m)
  BY <1>4, ServersKeepHonest DEF Serve
<1> QED BY <1>1, <1>2, <1>3, <1>4 DEF Next

LEMMA HonestInvariant == Spec => []HonestInv
<1>1. Init => HonestInv
  <2>1. "none" # "ok" /\ "none" \notin NothingDone
    BY DEF NothingDone
  <2> QED BY <2>1 DEF Init, HonestInv, CommitAnswersAreTrue, ShownOutcomeIsTrue,
                      RestoredIsTicked
<1>2. TypeOK /\ RestoreInv /\ DryRunOnce /\ CommitIsTicked /\ HonestInv
         /\ [Next]_vars => HonestInv'
  <2> SUFFICES ASSUME TypeOK, RestoreInv, DryRunOnce, CommitIsTicked, HonestInv,
                      [Next]_vars
               PROVE  HonestInv'
    OBVIOUS
  <2> QED BY StepHonest
<1> QED BY <1>1, <1>2, TypeCorrect, PassesAreReal, TicksAreInvariant, PTL DEF Spec

(* What the result step says, without what it takes for a refusal before   *)
(* the gateway when an answer cannot be read.                              *)
HonestIfReached == outcome # "unreached" => OutcomeIsHonest

LEMMA HonestInvImplies ==
    /\ HonestInv => HonestIfReached
    /\ "unreadableAnswers" \notin Scenarios /\ HonestInv => OutcomeIsHonest
<1> SUFFICES ASSUME HonestInv, step = "result",
                    outcome # "unreached" \/ "unreadableAnswers" \notin Scenarios
             PROVE  /\ outcome = "ok" => run \in restored /\ replaced[run] = Ticked
                    /\ outcome \in {"unreached", "incomplete", "rolledBack"} =>
                          /\ replaced[run] = {}
                          /\ \A m \in requests : ~(m.kind = "commit" /\ m.run = run)
  BY DEF HonestIfReached, OutcomeIsHonest
<1>1. IsTrueOf(outcome, run)
  BY DEF HonestInv, ShownOutcomeIsTrue
<1>2. run \in restored => aimed[run] = Ticked
  BY DEF HonestInv, RestoredIsTicked
<1>3. outcome \in {"unreached", "incomplete", "rolledBack"} =>
         outcome \in NothingDone
  BY DEF NothingDone
<1> QED BY <1>1, <1>2, <1>3 DEF IsTrueOf

(* The result step says "Restored" only of a restore that replaced just    *)
(* what is ticked, and says that nothing happened only when nothing did or *)
(* still may (classifyCommitResult, commitUnknown): late, lost and         *)
(* contradictory answers, timeouts and double clicks included.  The one    *)
(* exception, an answer without a readable body, is excluded here.         *)
THEOREM ResultsAreHonest ==
    "unreadableAnswers" \notin Scenarios /\ Spec => []OutcomeIsHonest
<1> SUFFICES ASSUME "unreadableAnswers" \notin Scenarios
             PROVE  Spec => []OutcomeIsHonest
  OBVIOUS
<1>1. HonestInv => OutcomeIsHonest
  BY HonestInvImplies
<1> QED BY <1>1, HonestInvariant, PTL

(* In every scenario only "nothing was reached" can be wrong: what is said *)
(* to be restored, rolled back or stopped before it was applied, is.       *)
THEOREM OnlyUnreachedMisleads == Spec => []HonestIfReached
<1>1. HonestInv => HonestIfReached
  BY HonestInvImplies
<1> QED BY <1>1, HonestInvariant, PTL

----------------------------------------------------------------------------
(* An undo keeps to the domains of its restore.  Where every snapshot      *)
(* covers every domain, a restore of the whole document is one of them     *)
(* all.                                                                    *)

WholeIsAll ==
    /\ \A s \in Snapshots : covers[s] = Domains
    /\ run \in restored /\ step # "closed" /\ sent = NoDomains =>
          aimed[run] = Domains
    /\ undo # 0 /\ step # "closed" /\ wanted = NoDomains => aimed[undo] = Domains

LEMMA InitWhole == "partialSnapshots" \notin Scenarios /\ Init => WholeIsAll
<1> SUFFICES ASSUME "partialSnapshots" \notin Scenarios, Init
             PROVE  WholeIsAll
  OBVIOUS
<1>1. covers \in [Snapshots -> {Domains}]
  BY DEF Init, Coverages
<1> QED BY <1>1 DEF Init, WholeIsAll

(* A new target has not been restored; an undo's is for what was sent.     *)
LEMMA NewTargetWhole ==
    ASSUME TypeOK, RestoreInv, WholeIsAll, NEW s, NEW u, NEW ds,
           NewTarget(s, u, ds), UNCHANGED servers,
           \/ u = 0
           \/ u = run /\ run \in restored /\ step # "closed" /\ ds = sent
    PROVE  WholeIsAll'
<1>1. run' = run + 1 /\ undo' = u /\ wanted' = ds
  BY DEF NewTarget
<1>2. run' \notin restored
  <2>1. \A r \in restored : r \in Nat /\ r <= run
    BY DEF RestoreInv, CommitsAreVerified, TypeOK, Runs
  <2> QED BY <1>1, <2>1, RunsAre
<1> QED BY <1>1, <1>2 DEF WholeIsAll, servers

LEMMA ServingKeepsWhole ==
    ASSUME TypeOK, RestoreInv, UndoInv, WholeIsAll, NEW m \in requests,
           ServeCommit(m)
    PROVE  WholeIsAll'
<1>1. /\ m.kind = "commit" /\ UNCHANGED <<wizard, covers>>
      /\ restored' = restored \union {m.run}
      /\ aimed' = [aimed EXCEPT ![m.run] = Effective(m)]
  BY DEF ServeCommit
<1>2. m.run \in Runs /\ m.snap \in Snapshots /\ m.run \notin restored
  BY <1>1 DEF RestoreInv, CommitsAreVerified, TypeOK, Request
<1>3. /\ aimed'[m.run] = Effective(m)
      /\ \A r \in restored : aimed'[r] = aimed[r]
  BY <1>1, <1>2 DEF TypeOK
<1>4. m.domains = NoDomains => Effective(m) = Domains
  BY <1>2 DEF Effective, WholeIsAll
<1>5. ASSUME run \in restored', step # "closed", sent = NoDomains
      PROVE  aimed'[run] = Domains
  <2>1. CASE run = m.run
    <3>1. m.domains = NoDomains
      BY <1>1, <1>5, <2>1 DEF UndoInv, SentIsAimed
    <3> QED BY <1>3, <1>4, <2>1, <3>1
  <2>2. CASE run \in restored
    BY <1>3, <1>5, <2>2 DEF WholeIsAll
  <2> QED BY <1>1, <1>5, <2>1, <2>2
<1>6. ASSUME undo # 0, step # "closed", wanted = NoDomains
      PROVE  aimed'[undo] = Domains
  <2>1. undo \in restored
    BY <1>6 DEF UndoInv, UndoAimsAtItsRestore
  <2> QED BY <1>3, <1>6, <2>1 DEF WholeIsAll
<1> QED BY <1>1, <1>5, <1>6 DEF WholeIsAll, wizard

LEMMA StepWhole ==
    ASSUME TypeOK, RestoreInv, UndoInv, WholeIsAll, [Next]_vars
    PROVE  WholeIsAll'
<1>1. ASSUME UNCHANGED <<run, undo, wanted, sent, covers, restored, aimed>>,
             step' # "closed" => step # "closed"
      PROVE  WholeIsAll'
  BY <1>1 DEF WholeIsAll
<1>2. CASE Render \/ (\E d \in Domains : Edit(d)) \/ UNCHANGED vars
  BY <1>1, <1>2 DEF Render, Edit, vars, wizard, servers
<1>3. CASE Open
  BY <1>3, NewTargetWhole DEF Open
<1>4. CASE Close \/ Leave
  BY <1>4 DEF Close, Leave, Unmount, WholeIsAll, servers
<1>5. CASE (\E ds \in SUBSET Domains : Tick(ds)) \/ DryRunPicked \/ Continue \/ Undo
  BY <1>1, <1>5 DEF Tick, DryRunPicked, Continue, Undo, CanUndo, servers
<1>6. CASE RestoreNow
  <2>1. run \notin restored /\ step # "closed"
    BY <1>6 DEF RestoreNow, MayCommit, RestoreInv, CommitsAreVerified
  <2> QED BY <1>6, <2>1 DEF RestoreNow, WholeIsAll, servers
<1>7. ASSUME NEW a \in answers,
             Drop(a) \/ DryRunAnswer(a) \/ PickedAnswer(a) \/ CommitAnswer(a)
      PROVE  WholeIsAll'
  BY <1>1, <1>7
     DEF Drop, DryRunAnswer, PickedAnswer, CommitAnswer, Current, wizard, servers
<1>8. ASSUME NEW a \in answers, UndoAnswer(a)
      PROVE  WholeIsAll'
  <2>1. UNCHANGED servers /\ step # "closed"
    BY <1>8 DEF UndoAnswer, Current
  <2>2. CASE NewTarget(a.to.snap, run, a.to.domains)
    <3>1. run \in restored /\ a.to.domains = sent
      BY <1>8 DEF UndoAnswer, Current, Calls, UndoInv, ReadsAreOfRestores
    <3> QED BY <2>1, <2>2, <3>1, NewTargetWhole
  <2>3. CASE ~NewTarget(a.to.snap, run, a.to.domains)
    BY <1>1, <1>8, <2>1, <2>3 DEF UndoAnswer, servers
  <2> QED BY <2>2, <2>3
<1>9. ASSUME NEW m \in requests,
             ServeDryRun(m) \/ ServeRead(m) \/ RefuseCommit(m) \/ TimeOut(m)
      PROVE  WholeIsAll'
  BY <1>1, <1>9 DEF ServeDryRun, ServeRead, RefuseCommit, TimeOut, wizard, servers
<1>10. ASSUME NEW m \in requests, ServeCommit(m)
       PROVE  WholeIsAll'
  BY <1>10, ServingKeepsWhole
<1> QED BY <1>2, <1>3, <1>4, <1>5, <1>6, <1>7, <1>8, <1>9, <1>10
           DEF Next, Operator, Deliver, Serve

LEMMA UndoStartsInItsDomains ==
    ASSUME TypeOK, UndoInv, WholeIsAll,
           NEW a \in answers, DryRunAnswer(a), a.says = "pass", undo # 0
    PROVE  checked' \subseteq aimed[undo]
<1>1. step # "closed" /\ checked' = InitiallyTicked(a.plan)
  BY DEF DryRunAnswer, Current
<1>2. wanted = NoDomains \/ aimed[undo] = wanted
  BY <1>1 DEF UndoInv, UndoAimsAtItsRestore
<1>3. a.plan \subseteq Domains
  BY DEF TypeOK, Answer
<1>4. CASE wanted # NoDomains
  BY <1>1, <1>2, <1>4 DEF InitiallyTicked
<1>5. CASE wanted = NoDomains
  BY <1>1, <1>3, <1>5 DEF InitiallyTicked, WholeIsAll
<1> QED BY <1>4, <1>5

(* Where every snapshot covers every domain, an undo starts with no domain *)
(* ticked but those of the restore it undoes (handleUndo, "for the same    *)
(* domains"), whatever was closed, undone before or answered late.         *)
THEOREM UndosKeepToTheirDomains ==
    "partialSnapshots" \notin Scenarios /\ Spec => UndoKeepsToItsDomains
<1> SUFFICES ASSUME "partialSnapshots" \notin Scenarios
             PROVE  Spec => UndoKeepsToItsDomains
  OBVIOUS
<1>1. Init => WholeIsAll
  BY InitWhole
<1>2. TypeOK /\ RestoreInv /\ UndoInv /\ WholeIsAll /\ [Next]_vars => WholeIsAll'
  <2> SUFFICES ASSUME TypeOK, RestoreInv, UndoInv, WholeIsAll, [Next]_vars
               PROVE  WholeIsAll'
    OBVIOUS
  <2> QED BY StepWhole
<1>3. TypeOK /\ UndoInv /\ WholeIsAll /\ [Next]_vars =>
         [\A a \in answers : DryRunAnswer(a) /\ a.says = "pass" /\ undo # 0
             => checked' \subseteq aimed[undo]]_vars
  <2> SUFFICES ASSUME TypeOK, UndoInv, WholeIsAll, NEW a \in answers,
                      DryRunAnswer(a), a.says = "pass", undo # 0
               PROVE  checked' \subseteq aimed[undo]
    OBVIOUS
  <2> QED BY UndoStartsInItsDomains
<1> QED BY <1>1, <1>2, <1>3, TypeCorrect, PassesAreReal, UndoInvariant, PTL
           DEF Spec, UndoKeepsToItsDomains
=============================================================================
