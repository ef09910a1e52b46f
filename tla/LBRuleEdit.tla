----------------------------- MODULE LBRuleEdit ----------------------------
(***************************************************************************)
(* Editing a load-balancer rule (LBRulePage).  What the operator changed   *)
(* is measured against the row as it was selected; how it is written       *)
(* depends on the server and on the rule: a merge-patch, a replace of the  *)
(* whole rule built on a fresh read, a re-POST or a delete and a new       *)
(* create (upstream loxilb), or another rule altogether.  Meanwhile other  *)
(* operators edit the same rule.                                           *)
(*                                                                         *)
(* A member of a rule holds what it held when the row was selected, what   *)
(* this operator entered, or what somebody else put there.                 *)
(***************************************************************************)
EXTENDS Naturals

CONSTANTS
    MaxLBSubmits,    \* bound: times the form is submitted
    MaxLBOthers      \* bound: steps of other operators

ASSUME LBAssumption == MaxLBSubmits \in Nat /\ MaxLBOthers \in Nat

LBFields == {"argument", "endpoints", "secondary", "sources"}
LBValues == {"selected", "mine", "theirs"}
LBRule   == [LBFields -> LBValues]
NoRule   == [f \in {} |-> "selected"]
NotRead  == [f \in {"read"} |-> "not yet"]
CannotRead == [f \in {"read"} |-> "failed"]

SelectedRule == [f \in LBFields |-> "selected"]
TheirRule    == [f \in LBFields |-> "theirs"]

(* Two identities: the selected rule's, and the one a changed key names.   *)
LBIdentities == {"own", "another"}

(* An edit: whether the key changed, which members did, and whether the    *)
(* gateway must build the endpoint pool again to apply it.                 *)
LBEdit == [key : BOOLEAN, fields : SUBSET LBFields, rebuilds : BOOLEAN]
NoEdit == [key |-> FALSE, fields |-> {}, rebuilds |-> FALSE]

(* A write on its way: what it does to which identity, the rule it         *)
(* carries, the members this operator changed (all a patch carries), and   *)
(* what others had changed by the time it was put together.                *)
LBWrite == [does : {"post", "replace", "patch", "delete"}, at : LBIdentities,
            body : LBRule, names : SUBSET LBFields, theirs : SUBSET LBFields]
NoWrite == [does |-> "none"]

VARIABLES
    lbServer,    \* mode 4 or not; does the server take PATCH (the gateway)
    lbHeld,      \* the rules the server holds
    lbPhase,     \* where the edit dialog's handler is
    lbEdit,      \* what was submitted
    lbSent,      \* the write the handler awaits
    lbNext,      \* the create that follows a delete
    lbLate,      \* writes whose answer was lost and that may still arrive
    lbAnswer,    \* how the last write was answered
    lbRead,      \* the rule as the read in flight found it
    lbSaid,      \* what the operator was told last
    lbSeen,      \* ghost: what could have been read since the write was sent
    lbWritten,   \* the write the read-back is held to
    lbSubmits, lbOthers
lbvars == <<lbServer, lbHeld, lbPhase, lbEdit, lbSent, lbNext, lbLate, lbAnswer,
            lbRead, lbSaid, lbSeen, lbWritten, lbSubmits, lbOthers>>

----------------------------------------------------------------------------
(* selectLBEditStrategy. *)
Strategy(edit) ==
    IF edit.key THEN "create"
    ELSE IF lbServer.fullproxy
    THEN (IF lbServer.patches THEN "replace-fullproxy" ELSE "block-fullproxy")
    ELSE (IF lbServer.patches THEN "merge-patch" ELSE "reconcile")

(* The operator's changes laid over a rule. *)
LaidOver(rule, edit) ==
    [f \in LBFields |-> IF f \in edit.fields THEN "mine" ELSE rule[f]]

TheirsIn(rule) == {f \in DOMAIN rule \cap LBFields : rule[f] = "theirs"}

(* The list shows the rule that was written: with its values on the        *)
(* gateway, by its identity on upstream loxilb.                            *)
Holds(write, rule) ==
    IF write.does = "patch" THEN \A f \in write.names : rule[f] = write.body[f]
    ELSE rule = write.body

LBSees(write, rule) ==
    IF rule = NoRule THEN "absent"
    ELSE IF Holds(write, rule) THEN "holds" ELSE "differs"

(* confirmRuleWritten, lbRuleApplied, lbRuleAppeared. *)
RuleWritten(write, read) ==
    /\ read # CannotRead
    /\ LBSees(write, read) \in
          (IF lbServer.patches THEN {"holds"} ELSE {"holds", "differs"})

----------------------------------------------------------------------------
LBTypeOK ==
    /\ lbServer \in [fullproxy : BOOLEAN, patches : BOOLEAN]
    /\ lbHeld \in [LBIdentities -> LBRule \cup {NoRule}]
    /\ lbPhase \in {"form", "reading", "asking", "sending", "confirming",
                    "observing", "closed"}
    /\ lbEdit \in LBEdit
    /\ lbSent \in LBWrite \cup {NoWrite}
    /\ lbNext \in LBWrite \cup {NoWrite}
    /\ lbLate \subseteq LBWrite
    /\ lbAnswer \in {"none", "confirmed", "conflict", "refused", "unknown"}
    /\ lbRead \in LBRule \cup {NoRule, NotRead, CannotRead}
    /\ lbSaid \in {"nothing", "updated", "accepted", "already holds",
                   "no changes", "blocked", "plan refused", "not read before",
                   "missing", "failed", "does not hold",
                   "does not hold, unread", "reads holds",
                   "reads differs", "reads absent", "not read after"}
    /\ lbSeen \subseteq {"absent", "holds", "differs"}
    /\ lbWritten \in LBWrite \cup {NoWrite}
    /\ lbSubmits \in 0..MaxLBSubmits /\ lbOthers \in 0..MaxLBOthers

LBInit ==
    /\ lbServer \in [fullproxy : BOOLEAN, patches : BOOLEAN]
    /\ lbHeld = [i \in LBIdentities |->
                    IF i = "own" THEN SelectedRule ELSE NoRule]
    /\ lbPhase = "form" /\ lbEdit = NoEdit
    /\ lbSent = NoWrite /\ lbNext = NoWrite /\ lbLate = {}
    /\ lbAnswer = "none" /\ lbRead = NotRead /\ lbSaid = "nothing"
    /\ lbSeen = {} /\ lbWritten = NoWrite
    /\ lbSubmits = 0 /\ lbOthers = 0

(* The server now holds these rules. *)
LBHolds(held) ==
    /\ lbHeld' = held
    /\ lbSeen' = IF lbWritten = NoWrite THEN lbSeen
                 ELSE lbSeen \cup {LBSees(lbWritten, held[lbWritten.at])}

(* A write goes out, and what reads back is judged from here on. *)
LBSend(write) ==
    /\ lbPhase' = "sending" /\ lbSent' = write /\ lbWritten' = write
    /\ lbSeen' = {LBSees(write, lbHeld[write.at])}

Tell(said, phase) == lbSaid' = said /\ lbPhase' = phase

----------------------------------------------------------------------------
(* The row's Update button, or the form as it was reopened: it is          *)
(* submitted.  The draft never becomes what changes are measured against.  *)
SubmitEdit(edit) ==
    /\ lbPhase = "form" /\ lbSubmits < MaxLBSubmits
    /\ lbSubmits' = lbSubmits + 1 /\ lbEdit' = edit
    /\ lbAnswer' = "none"
    /\ \/ /\ Strategy(edit) = "create"
          /\ LBSend([does |-> "post", at |-> "another",
                     body |-> LaidOver(SelectedRule, edit),
                     names |-> edit.fields, theirs |-> {}])
          /\ lbSaid' = "nothing"
       \/ /\ Strategy(edit) # "create"
          /\ \/ /\ edit.fields = {} /\ Tell("no changes", "closed")
                /\ UNCHANGED <<lbSent, lbWritten, lbSeen>>
             \/ /\ edit.fields # {} /\ Strategy(edit) = "block-fullproxy"
                /\ Tell("blocked", "closed")
                /\ UNCHANGED <<lbSent, lbWritten, lbSeen>>
             \/ /\ Strategy(edit) = "replace-fullproxy"
                /\ "secondary" \in edit.fields
                /\ Tell("plan refused", "form")
                /\ UNCHANGED <<lbSent, lbWritten, lbSeen>>
             \/ /\ edit.fields # {}
                /\ \/ Strategy(edit) = "reconcile"
                   \/ /\ Strategy(edit) = "replace-fullproxy"
                      /\ "secondary" \notin edit.fields
                /\ Tell("nothing", "reading")
                /\ UNCHANGED <<lbSent, lbWritten, lbSeen>>
             \/ /\ edit.fields # {} /\ Strategy(edit) = "merge-patch"
                /\ LBSend([does |-> "patch", at |-> "own",
                           body |-> LaidOver(SelectedRule, edit),
                           names |-> edit.fields,
                           theirs |-> TheirsIn(lbHeld["own"])])
                /\ lbSaid' = "nothing"
    /\ lbRead' = NotRead
    /\ UNCHANGED <<lbServer, lbHeld, lbNext, lbLate, lbOthers>>

(* The whole rule is read again before it is written.                      *)
ReadTheRule ==
    /\ lbPhase \in {"reading", "confirming", "observing"} /\ lbRead = NotRead
    /\ lbRead' \in {lbHeld[IF lbPhase = "reading" THEN "own"
                           ELSE lbWritten.at], CannotRead}
    /\ UNCHANGED <<lbServer, lbHeld, lbPhase, lbEdit, lbSent, lbNext, lbLate,
                   lbAnswer, lbSaid, lbSeen, lbWritten, lbSubmits, lbOthers>>

(* The rule a replace or a re-POST is built on. *)
BaseAsSelected(read, selected) == selected    \* mutant: the row as it was
BaseOf(read, selected) == IF read = NoRule THEN selected ELSE read

WholeRule(does) ==
    [does |-> does, at |-> "own",
     body |-> LaidOver(BaseOf(lbRead, SelectedRule), lbEdit),
     names |-> lbEdit.fields, theirs |-> TheirsIn(lbRead)]

(* The replace of a fullproxy rule: nothing is sent unless the rule was    *)
(* read, and rebuilding its endpoint pool is asked about first.            *)
PrepareReplace ==
    /\ lbPhase = "reading" /\ Strategy(lbEdit) = "replace-fullproxy"
    /\ lbRead # NotRead
    /\ \/ /\ lbRead = CannotRead /\ Tell("not read before", "form")
          /\ lbRead' = NotRead /\ UNCHANGED <<lbSent, lbWritten, lbSeen, lbNext>>
       \/ /\ lbRead = NoRule /\ Tell("missing", "closed")
          /\ lbRead' = NotRead /\ UNCHANGED <<lbSent, lbWritten, lbSeen, lbNext>>
       \/ /\ lbRead \in LBRule /\ lbEdit.rebuilds
          /\ lbPhase' = "asking" /\ lbNext' = WholeRule("replace")
          /\ lbRead' = NotRead /\ UNCHANGED <<lbSent, lbWritten, lbSeen, lbSaid>>
       \/ /\ lbRead \in LBRule /\ ~lbEdit.rebuilds
          /\ LBSend(WholeRule("replace"))
          /\ lbRead' = NotRead /\ UNCHANGED <<lbNext, lbSaid>>
    /\ UNCHANGED <<lbServer, lbHeld, lbEdit, lbLate, lbAnswer, lbSubmits, lbOthers>>

(* "Rebuild endpoint pool", or back to the form with what was entered. *)
AnswerRebuild ==
    /\ lbPhase = "asking"
    /\ \/ LBSend(lbNext)
       \/ lbPhase' = "form" /\ UNCHANGED <<lbSent, lbWritten, lbSeen>>
    /\ lbNext' = NoWrite
    /\ UNCHANGED <<lbServer, lbHeld, lbEdit, lbLate, lbAnswer, lbRead, lbSaid,
                   lbSubmits, lbOthers>>

(* Upstream loxilb: only the endpoints can be posted again; for anything   *)
(* else the rule is deleted first.  A read that fails ends the handler.    *)
PrepareReconcile ==
    /\ lbPhase = "reading" /\ Strategy(lbEdit) = "reconcile"
    /\ lbRead # NotRead
    /\ \/ /\ lbRead = CannotRead /\ lbPhase' = "closed"
          /\ UNCHANGED <<lbSent, lbWritten, lbSeen, lbNext>>
       \/ /\ lbRead # CannotRead /\ lbEdit.fields = {"endpoints"}
          /\ LBSend(WholeRule("post")) /\ UNCHANGED lbNext
       \/ /\ lbRead # CannotRead /\ lbEdit.fields # {"endpoints"}
          /\ LBSend([WholeRule("post") EXCEPT !.does = "delete"])
          /\ lbNext' = WholeRule("post")
    /\ lbRead' = NotRead
    /\ UNCHANGED <<lbServer, lbHeld, lbEdit, lbLate, lbAnswer, lbSaid, lbSubmits,
                   lbOthers>>

----------------------------------------------------------------------------
(* The server.  A POST on a rule that is there replaces it on a fullproxy  *)
(* gateway, and elsewhere touches the endpoints alone and refuses          *)
(* everything else.                                                        *)
Lands(write, rule) ==
    CASE write.does = "replace" -> {write.body}
      [] write.does = "delete"  -> IF rule = NoRule THEN {} ELSE {NoRule}
      [] write.does = "patch"   ->
            IF rule = NoRule THEN {}
            ELSE {[f \in LBFields |-> IF f \in write.names THEN write.body[f]
                                      ELSE rule[f]]}
      [] write.does = "post"    ->
            IF rule = NoRule THEN {write.body}
            ELSE {r \in {write.body} : \A f \in LBFields \ {"endpoints"} :
                                           r[f] = rule[f]}

Land(write, rule) == LBHolds([lbHeld EXCEPT ![write.at] = rule])

(* A write is answered: it took effect and was accepted or answered with a *)
(* failure all the same, or it did nothing, accepted or not.               *)
LBAnswered(answer) ==
    /\ lbAnswer' = answer
    /\ \/ /\ lbSent.does = "delete" /\ answer = "confirmed"
          /\ lbPhase' = "sending" /\ lbSent' = lbNext /\ lbNext' = NoWrite
          /\ lbWritten' = lbNext
          /\ lbSeen' = {LBSees(lbNext, lbHeld'[lbNext.at])}
          /\ UNCHANGED lbSaid
       \/ /\ lbSent.does = "delete" /\ answer # "confirmed"
          /\ Tell("failed", "closed")
          /\ lbSent' = NoWrite /\ lbNext' = NoWrite /\ UNCHANGED lbWritten
          /\ lbSeen' = lbSeen \cup {LBSees(lbWritten, lbHeld'[lbWritten.at])}
       \/ /\ lbSent.does # "delete"
          /\ lbSent' = NoWrite /\ UNCHANGED <<lbNext, lbWritten>>
          /\ lbSeen' = lbSeen \cup {LBSees(lbWritten, lbHeld'[lbWritten.at])}
          /\ \/ /\ answer = "confirmed"
                /\ lbPhase' = "confirming" /\ UNCHANGED lbSaid
             \/ /\ answer # "confirmed" /\ lbSent.does = "replace"
                /\ lbPhase' = "observing" /\ UNCHANGED lbSaid
             \/ /\ answer # "confirmed" /\ lbSent.does # "replace"
                /\ Tell("failed", "closed")
    /\ UNCHANGED <<lbServer, lbEdit, lbRead, lbSubmits, lbOthers>>

ServeWrite ==
    /\ lbPhase = "sending"
    /\ \/ \E rule \in Lands(lbSent, lbHeld[lbSent.at]),
             answer \in {"confirmed", "refused"} :
            /\ lbHeld' = [lbHeld EXCEPT ![lbSent.at] = rule]
            /\ LBAnswered(answer)
       \/ \E answer \in {"confirmed", "conflict", "refused"} :
            /\ lbHeld' = lbHeld /\ LBAnswered(answer)
    /\ UNCHANGED lbLate

(* No answer in time: what was sent may arrive later, or never. *)
WriteTimesOut ==
    /\ lbPhase = "sending"
    /\ lbLate' = lbLate \cup {lbSent}
    /\ lbHeld' = lbHeld /\ LBAnswered("unknown")

LateWriteArrives(write) ==
    /\ write \in lbLate /\ lbLate' = lbLate \ {write}
    /\ \E rule \in Lands(write, lbHeld[write.at]) : Land(write, rule)
    /\ UNCHANGED <<lbServer, lbPhase, lbEdit, lbSent, lbNext, lbAnswer, lbRead,
                   lbSaid, lbWritten, lbSubmits, lbOthers>>

LateWriteIsLost(write) ==
    /\ write \in lbLate /\ lbLate' = lbLate \ {write}
    /\ UNCHANGED <<lbServer, lbHeld, lbPhase, lbEdit, lbSent, lbNext, lbAnswer,
                   lbRead, lbSaid, lbSeen, lbWritten, lbSubmits, lbOthers>>

(* The report of an accepted write: it reads until the rule is there, or   *)
(* gives up.                                                               *)
ConfirmWrite ==
    /\ lbPhase = "confirming" /\ lbRead # NotRead
    /\ \/ /\ RuleWritten(lbWritten, lbRead)
          /\ Tell("updated", "closed")
       \/ /\ ~RuleWritten(lbWritten, lbRead)
          /\ \/ Tell("accepted", "closed")
             \/ UNCHANGED <<lbSaid, lbPhase>>
    /\ lbRead' = NotRead
    /\ UNCHANGED <<lbServer, lbHeld, lbEdit, lbSent, lbNext, lbLate, lbAnswer,
                   lbSeen, lbWritten, lbSubmits, lbOthers>>

(* A conflict is "no change" only if the rule really holds what was asked. *)
ConflictIsNoChange(write, read) == lbAnswer = "conflict"      \* mutant
AlreadyHolds(write, read) ==
    lbAnswer = "conflict" /\ RuleWritten(write, read)

(* observedRuleText. *)
Observed(write, read) ==
    CASE read = CannotRead -> "not read after"
      [] read # CannotRead /\ LBSees(write, read) = "absent"  -> "reads absent"
      [] read # CannotRead /\ LBSees(write, read) = "holds"   -> "reads holds"
      [] read # CannotRead /\ LBSees(write, read) = "differs" -> "reads differs"

(* A replace that was not accepted: the rule is read, and whatever comes   *)
(* of it, something is said of the rule and the form is opened again.      *)
(* After a conflict the page says that the rule does not hold what was     *)
(* submitted, in the same words whether it was read or not: the two are    *)
(* told apart here only.                                                   *)
ObserveRule ==
    /\ lbPhase = "observing" /\ lbRead # NotRead
    /\ \/ /\ AlreadyHolds(lbWritten, lbRead)
          /\ Tell("already holds", "closed")
       \/ /\ ~AlreadyHolds(lbWritten, lbRead) /\ lbAnswer = "conflict"
          /\ Tell(IF lbRead = CannotRead THEN "does not hold, unread"
                  ELSE "does not hold", "form")
       \/ /\ lbAnswer # "conflict"
          /\ Tell(Observed(lbWritten, lbRead), "form")
    /\ lbRead' = NotRead
    /\ UNCHANGED <<lbServer, lbHeld, lbEdit, lbSent, lbNext, lbLate, lbAnswer,
                   lbSeen, lbWritten, lbSubmits, lbOthers>>

(* Somebody else changes a member, or makes the same change, removes the   *)
(* rule, or creates one.                                                   *)
OthersEdit ==
    /\ lbOthers < MaxLBOthers /\ lbOthers' = lbOthers + 1
    /\ \/ /\ lbHeld["own"] # NoRule
          /\ \/ \E f \in LBFields :
                  LBHolds([lbHeld EXCEPT !["own"][f] = "theirs"])
             \/ \E f \in lbEdit.fields :
                  LBHolds([lbHeld EXCEPT !["own"][f] = "mine"])
             \/ LBHolds([lbHeld EXCEPT !["own"] = NoRule])
       \/ \E i \in LBIdentities :
            lbHeld[i] = NoRule /\ LBHolds([lbHeld EXCEPT ![i] = TheirRule])
    /\ UNCHANGED <<lbServer, lbPhase, lbEdit, lbSent, lbNext, lbLate, lbAnswer,
                   lbRead, lbSaid, lbWritten, lbSubmits>>

LBNext ==
    \/ \E edit \in LBEdit : SubmitEdit(edit)
    \/ ReadTheRule \/ PrepareReplace \/ AnswerRebuild \/ PrepareReconcile
    \/ ServeWrite \/ WriteTimesOut
    \/ \E write \in lbLate : LateWriteArrives(write) \/ LateWriteIsLost(write)
    \/ ConfirmWrite \/ ObserveRule \/ OthersEdit

LBSpec == LBInit /\ [][LBNext]_lbvars

----------------------------------------------------------------------------
(* What the operator is told of the rule was so at some moment since the   *)
(* write was sent: "updated" and "already reads back" of a rule with the   *)
(* values sent (on upstream loxilb: of a rule that is there), "does not    *)
(* hold the submitted values" of a rule that differs or is gone, and what  *)
(* a failed replace is said to have left of what it left.  One report is   *)
(* left out by name: "does not hold" said when the read after a conflict   *)
(* failed, which may be said of a rule that held the values all along      *)
(* (LBRulePage.tsx:509).                                                   *)
LBSaysWhatHeld ==
    /\ lbSaid \in {"updated", "already holds"} =>
          \/ "holds" \in lbSeen
          \/ ~lbServer.patches /\ "differs" \in lbSeen
    /\ lbSaid = "does not hold" => {"differs", "absent"} \cap lbSeen # {}
    /\ lbSaid = "reads holds"   => "holds" \in lbSeen
    /\ lbSaid = "reads differs" => "differs" \in lbSeen
    /\ lbSaid = "reads absent"  => "absent" \in lbSeen

LBLands(write) ==
    \/ write = lbSent /\ lbSent' # lbSent
    \/ write \in lbLate /\ write \notin lbLate'

(* A write takes back nothing that somebody else had changed by the time   *)
(* it was put together and this operator had not: neither by a replace of  *)
(* the whole rule, nor by deleting it and creating it anew.                *)
TakesNothingBack(write) ==
    LBLands(write) /\ lbHeld'[write.at] \notin {lbHeld[write.at], NoRule}
    => \A f \in write.theirs \ write.names :
          lbHeld[write.at] = NoRule \/ lbHeld[write.at][f] = "theirs"
          => lbHeld'[write.at][f] = "theirs"
KeepsOthersWork ==
    [][\A write \in (lbLate \cup {lbSent}) \ {NoWrite} :
          TakesNothingBack(write)]_lbvars
=============================================================================
