------------------------------ MODULE OpResults ----------------------------
(***************************************************************************)
(* What an operation is said to have done (opResultAdapter), over the two  *)
(* hops it takes: the browser asks the management backend, and the backend *)
(* the gateway.  Either hop may fail before the request has passed it,     *)
(* after, or while the gateway is still at work.                           *)
(***************************************************************************)
EXTENDS Naturals

CONSTANT MaxOps      \* bound: operations

ASSUME OpAssumption == MaxOps \in Nat

OpKinds == {"mutation", "read"}
Ok == 200
Broken == 500
Refusals == {400, 401, 402, 403, 404, 409, 412, 422, 429, 501, 503}
BackendRefusals == {401, 403, 503}
GivenUp == {502, 504}

(* An answer: its code, and what its body is: fine, {result: "fail"}, or   *)
(* not to be parsed.                                                       *)
Answer(code, body) == [code |-> code, body |-> body]
NoAnswer == Answer(1, "none")
Answers == [code : Refusals \cup GivenUp \cup {0, Ok, Broken},
            body : {"fine", "fail", "garbled"}] \cup {NoAnswer}

OpResult(status, retryable) == [status |-> status, retryable |-> retryable]
NoResult == OpResult("none", FALSE)

VARIABLES
    opKind,      \* what the request is
    opAt,        \* where it, or its answer, has got to
    opAnswer,    \* the answer on its way back
    opDone,      \* the gateway has carried it out
    opOnItsWay,  \* given up by a hop, it may still be carried out
    opResult,    \* what the page is told
    opCount
opvars == <<opKind, opAt, opAnswer, opDone, opOnItsWay, opResult, opCount>>

----------------------------------------------------------------------------
(* fromSimpleResponse.  A lost answer is an outage for a read, and says    *)
(* nothing of a change.                                                    *)
LostIsAnOutage(kind) == OpResult("unavailable", TRUE)      \* mutant
LostAnswer(kind) ==
    IF kind = "read" THEN OpResult("unavailable", TRUE)
    ELSE OpResult("unknown", FALSE)

FromSimpleResponse(answer, kind) ==
    IF answer.code \in {401, 402, 403} THEN OpResult("denied", FALSE)
    ELSE IF answer.code \in {400, 409, 422} THEN OpResult("invalid", FALSE)
    ELSE IF answer.code = 429 THEN OpResult("denied", TRUE)
    ELSE IF answer.code = 503 THEN OpResult("unavailable", TRUE)
    ELSE IF answer.code \in {0, 502, 504} THEN LostAnswer(kind)
    ELSE IF answer.code = Ok /\ answer.body = "fine"
         THEN OpResult("confirmed", FALSE)
    ELSE OpResult("failed", FALSE)    \* 404, 412, 500, 501; {result: "fail"}

(* fromThrownError: a read carries no input that could be invalid. *)
FromRead(result) ==
    IF result.status = "invalid" THEN OpResult("failed", FALSE) ELSE result

FromNetworkError(kind) == LostAnswer(kind)

----------------------------------------------------------------------------
OpTypeOK ==
    /\ opKind \in OpKinds
    /\ opAt \in {"page", "to backend", "to gateway", "from gateway",
                 "from backend"}
    /\ opAnswer \in Answers /\ opDone \in BOOLEAN /\ opOnItsWay \in BOOLEAN
    /\ opResult \in [status : {"none", "confirmed", "denied", "invalid",
                               "unavailable", "unknown", "failed"},
                     retryable : BOOLEAN]
    /\ opCount \in 0..MaxOps

OpInit ==
    /\ opKind \in OpKinds /\ opAt = "page" /\ opAnswer = NoAnswer
    /\ opDone = FALSE /\ opOnItsWay = FALSE
    /\ opResult = NoResult /\ opCount = 0

SendOp(kind) ==
    /\ opAt = "page" /\ opCount < MaxOps /\ opCount' = opCount + 1
    /\ opKind' = kind /\ opAt' = "to backend" /\ opAnswer' = NoAnswer
    /\ opDone' = FALSE /\ opOnItsWay' = FALSE /\ opResult' = NoResult

(* The backend refuses for itself, or sends the request on. *)
BackendTakes ==
    /\ opAt = "to backend"
    /\ \/ \E code \in BackendRefusals :
            opAnswer' = Answer(code, "fine") /\ opAt' = "from backend"
       \/ opAt' = "to gateway" /\ UNCHANGED opAnswer
    /\ UNCHANGED <<opKind, opDone, opOnItsWay, opResult, opCount>>

(* The gateway refuses before acting, reports a failure it has not acted   *)
(* on, acts, or breaks down after having acted or not.                     *)
GatewayTakes ==
    /\ opAt = "to gateway" /\ opAt' = "from gateway"
    /\ \/ \E code \in Refusals :
            opAnswer' = Answer(code, "fine") /\ UNCHANGED opDone
       \/ opAnswer' = Answer(Ok, "fail") /\ UNCHANGED opDone
       \/ \E body \in {"fine", "garbled"} :
            opAnswer' = Answer(Ok, body) /\ opDone' = TRUE
       \/ opAnswer' = Answer(Broken, "fine") /\ opDone' \in BOOLEAN
    /\ UNCHANGED <<opKind, opOnItsWay, opResult, opCount>>

(* The backend cannot reach the gateway, loses it after sending, or gives  *)
(* up waiting; the gateway may get to the request yet.                     *)
BackendGivesUp ==
    /\ opAt \in {"to gateway", "from gateway"} /\ opAt' = "from backend"
    /\ \E code \in GivenUp : opAnswer' = Answer(code, "fine")
    /\ opOnItsWay' \in (IF opAt = "to gateway" THEN BOOLEAN ELSE {FALSE})
    /\ UNCHANGED <<opKind, opDone, opResult, opCount>>

BackendRelays ==
    /\ opAt = "from gateway" /\ opAt' = "from backend"
    /\ UNCHANGED <<opKind, opAnswer, opDone, opOnItsWay, opResult, opCount>>

(* The page has its answer; only a read is looked at a second time.        *)
PageHears ==
    /\ opAt = "from backend" /\ opAt' = "page"
    /\ opResult' = LET result == FromSimpleResponse(opAnswer, opKind)
                   IN IF opKind = "read" THEN FromRead(result) ELSE result
    /\ UNCHANGED <<opKind, opAnswer, opDone, opOnItsWay, opCount>>

(* fetch throws: the browser does not say how far the request had got.     *)
FetchThrows ==
    /\ opAt # "page" /\ opAt' = "page"
    /\ opResult' = FromNetworkError(opKind)
    /\ opOnItsWay' \in (IF opAt \in {"to backend", "to gateway"} THEN BOOLEAN
                        ELSE {opOnItsWay})
    /\ UNCHANGED <<opKind, opAnswer, opDone, opCount>>

CarriedOutLate ==
    /\ opOnItsWay /\ opOnItsWay' = FALSE /\ opDone' = TRUE
    /\ UNCHANGED <<opKind, opAt, opAnswer, opResult, opCount>>

OpNext ==
    \/ \E kind \in OpKinds : SendOp(kind)
    \/ BackendTakes \/ GatewayTakes \/ BackendGivesUp \/ BackendRelays
    \/ PageHears \/ FetchThrows \/ CarriedOutLate

OpSpec == OpInit /\ [][OpNext]_opvars

----------------------------------------------------------------------------
(* A change that is said to be refused or unavailable, or offered to be    *)
(* sent again, has not been carried out and will not be; and one that is   *)
(* said to be confirmed has been.                                          *)
RefusedIsNotDone ==
    opKind = "mutation" =>
       /\ opResult.status \in {"denied", "invalid", "unavailable"}
          \/ opResult.retryable => ~opDone /\ ~opOnItsWay
       /\ opResult.status = "confirmed" => opDone
=============================================================================
