------------------------------ MODULE ReadBack -----------------------------
(***************************************************************************)
(* Settings that are written and read back: the audit policy and its       *)
(* sinks, the certificates, operator maintenance.  What the operator is    *)
(* told is taken from what the gateway reads back, not from the answer of  *)
(* the write; the forms differ in when they read and in what they do with  *)
(* a write whose answer was lost.                                          *)
(*                                                                         *)
(* The setting holds what it held, what this form sent, or what somebody   *)
(* else put there.                                                         *)
(***************************************************************************)
EXTENDS Naturals

CONSTANTS
    MaxChanges,        \* bound: times the form is sent
    MaxChangesByOthers \* bound: changes by other operators

ASSUME ReadBackAssumption == MaxChanges \in Nat /\ MaxChangesByOthers \in Nat

(* A form reads back after these outcomes of its write, believes the read  *)
(* after these, keeps the input for another try, and its read is a fetch   *)
(* of the page's own polled query or a request by itself.                  *)
ReadingForm(reads, believes, keeps, polled) ==
    [reads |-> reads, believes |-> believes, keeps |-> keeps, polled |-> polled]

AuditPolicyForm == ReadingForm({"confirmed", "unknown"},
                               {"confirmed", "unknown"}, TRUE, TRUE)
AuditComplianceSink == AuditPolicyForm
AuditNamedSinks == [AuditPolicyForm EXCEPT !.polled = FALSE]
CertificatePem  == ReadingForm({"confirmed"}, {"confirmed"}, FALSE, FALSE)
MaintenanceForm == ReadingForm({"confirmed", "unknown", "refused"},
                               {"confirmed"}, FALSE, TRUE)
ReadingForms == {AuditPolicyForm, AuditComplianceSink, AuditNamedSinks,
                 CertificatePem, MaintenanceForm}

Settings == {"before", "sent", "others"}
Fetch == Settings \cup {"none", "asked", "unreadable"}

VARIABLES
    rbForm,      \* the form
    rbHeld,      \* what the gateway holds
    rbPhase,     \* where the handler is
    rbFetch,     \* the read in flight, or what it brings
    rbLate,      \* a write whose answer was lost may still arrive
    rbAnswer,    \* how the write ended
    rbSaid,      \* what the operator was told last
    rbSince,     \* ghost: what the gateway has held since the last write left
    rbChanges, rbByOthers
rbvars == <<rbForm, rbHeld, rbPhase, rbFetch, rbLate, rbAnswer, rbSaid,
            rbSince, rbChanges, rbByOthers>>

----------------------------------------------------------------------------
ReadBackTypeOK ==
    /\ rbForm \in ReadingForms /\ rbHeld \in Settings
    /\ rbPhase \in {"open", "sent", "reading", "closed"}
    /\ rbFetch \in Fetch /\ rbLate \in BOOLEAN
    /\ rbAnswer \in {"none", "confirmed", "refused", "unknown"}
    /\ rbSaid \in {"nothing", "reads back what was sent",
                   "reads back something else", "not read back",
                   "failed"}
    /\ rbSince \subseteq Settings
    /\ rbChanges \in 0..MaxChanges /\ rbByOthers \in 0..MaxChangesByOthers

ReadBackInit ==
    /\ rbForm \in ReadingForms /\ rbHeld = "before"
    /\ rbPhase = "open" /\ rbFetch = "none" /\ rbLate = FALSE
    /\ rbAnswer = "none" /\ rbSaid = "nothing" /\ rbSince = {}
    /\ rbChanges = 0 /\ rbByOthers = 0

NowHolds(value) == rbHeld' = value /\ rbSince' = rbSince \cup {value}

(* The page's query polls, or is read again for any other reason. *)
PollSetting ==
    /\ rbForm.polled /\ rbFetch = "none" /\ rbPhase # "reading"
    /\ rbFetch' = "asked"
    /\ UNCHANGED <<rbForm, rbHeld, rbPhase, rbLate, rbAnswer, rbSaid, rbSince,
                   rbChanges, rbByOthers>>

(* The gateway answers the read, or it fails. *)
ServeRead ==
    /\ rbFetch = "asked" /\ rbFetch' \in {rbHeld, "unreadable"}
    /\ UNCHANGED <<rbForm, rbHeld, rbPhase, rbLate, rbAnswer, rbSaid, rbSince,
                   rbChanges, rbByOthers>>

PollEnds ==
    /\ rbFetch \notin {"none", "asked"} /\ rbPhase # "reading"
    /\ rbFetch' = "none"
    /\ UNCHANGED <<rbForm, rbHeld, rbPhase, rbLate, rbAnswer, rbSaid, rbSince,
                   rbChanges, rbByOthers>>

(* The form is sent; input that was kept is sent again from here too.      *)
SendChange ==
    /\ rbPhase = "open" /\ rbChanges < MaxChanges
    /\ rbChanges' = rbChanges + 1 /\ rbPhase' = "sent"
    /\ rbSince' = {rbHeld} /\ rbSaid' = "nothing"
    /\ UNCHANGED <<rbForm, rbHeld, rbFetch, rbLate, rbAnswer, rbByOthers>>

(* refetch: a list that has been read cancels the fetch in flight. *)
JoinsThePoll(fetch) == IF fetch = "none" THEN "asked" ELSE fetch   \* mutant
ReadAfterWrite(fetch) == "asked"

(* The handler goes on with how its write ended. *)
Ended(answer) ==
    /\ rbAnswer' = answer
    /\ \/ /\ answer \in rbForm.reads
          /\ rbPhase' = "reading" /\ rbFetch' = ReadAfterWrite(rbFetch)
          /\ UNCHANGED rbSaid
       \/ /\ answer \notin rbForm.reads
          /\ rbPhase' = IF rbForm.keeps THEN "open" ELSE "closed"
          /\ rbSaid' = "failed" /\ UNCHANGED rbFetch
    /\ UNCHANGED <<rbForm, rbChanges, rbByOthers>>

(* Accepted: it is stored, or accepted and not stored.  Refused: nothing   *)
(* is changed.                                                             *)
ServeChange ==
    /\ rbPhase = "sent"
    /\ \/ NowHolds("sent") /\ Ended("confirmed")
       \/ UNCHANGED <<rbHeld, rbSince>> /\ Ended("confirmed")
       \/ UNCHANGED <<rbHeld, rbSince>> /\ Ended("refused")
    /\ UNCHANGED rbLate

ChangeIsLost ==
    /\ rbPhase = "sent" /\ rbLate' = TRUE
    /\ UNCHANGED <<rbHeld, rbSince>> /\ Ended("unknown")

LateChange ==
    /\ rbLate /\ rbLate' = FALSE
    /\ NowHolds("sent") \/ UNCHANGED <<rbHeld, rbSince>>
    /\ UNCHANGED <<rbForm, rbPhase, rbFetch, rbAnswer, rbSaid, rbChanges,
                   rbByOthers>>

(* reportAuditChange and its counterparts. *)
ReportReadBack ==
    /\ rbPhase = "reading" /\ rbFetch \notin {"none", "asked"}
    /\ rbSaid' = IF rbAnswer \notin rbForm.believes THEN "failed"
                 ELSE IF rbFetch = "unreadable" THEN "not read back"
                 ELSE IF rbFetch = "sent" THEN "reads back what was sent"
                 ELSE "reads back something else"
    /\ rbPhase' = IF /\ rbForm.keeps /\ rbAnswer = "unknown"
                     /\ rbFetch # "sent"
                  THEN "open" ELSE "closed"
    /\ rbFetch' = "none"
    /\ UNCHANGED <<rbForm, rbHeld, rbLate, rbAnswer, rbSince, rbChanges,
                   rbByOthers>>

OthersChange ==
    /\ rbByOthers < MaxChangesByOthers /\ rbByOthers' = rbByOthers + 1
    /\ \E value \in Settings : NowHolds(value)
    /\ UNCHANGED <<rbForm, rbPhase, rbFetch, rbLate, rbAnswer, rbSaid,
                   rbChanges>>

ReadBackNext ==
    \/ PollSetting \/ ServeRead \/ PollEnds
    \/ SendChange \/ ServeChange \/ ChangeIsLost \/ LateChange
    \/ ReportReadBack \/ OthersChange

ReadBackSpec == ReadBackInit /\ [][ReadBackNext]_rbvars

----------------------------------------------------------------------------
(* What is said to be read back was held by the gateway after the write    *)
(* left, whatever was being read at that time and whoever else wrote.      *)
SaysWhatItRead ==
    /\ rbSaid = "reads back what was sent" => "sent" \in rbSince
    /\ rbSaid = "reads back something else" => rbSince # {"sent"}
=============================================================================
