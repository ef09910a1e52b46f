---------------------------- MODULE AnswersProofs ---------------------------
(***************************************************************************)
(* What an answer, or its loss, lets the operator be told: for settings    *)
(* that are read back, for the result of an operation over two hops, with  *)
(* any number of changes, operations and other operators; what a read      *)
(* shows of a write; and, for a load-balancer rule, what the operator is   *)
(* told of an edit and what it leaves of the edits of others, with any     *)
(* number of submits and of writes that arrive late.                       *)
(*                                                                         *)
(* The counters are kept apart from the rest of the types: their proofs    *)
(* need arithmetic and nothing else.                                       *)
(***************************************************************************)
EXTENDS ReadBack, OpResults, Confirmations, LBRuleEdit, TLAPS

LEMMA FetchesAre ==
    /\ "before" \in Settings /\ "sent" \in Settings /\ "others" \in Settings
    /\ {"none", "asked", "unreadable"} \subseteq Fetch
    /\ Settings \subseteq Fetch
  BY DEF Settings, Fetch

ReadBackCounted ==
    rbChanges \in 0..MaxChanges /\ rbByOthers \in 0..MaxChangesByOthers
ReadBackTyped ==
    /\ rbForm \in ReadingForms /\ rbHeld \in Settings
    /\ rbPhase \in {"open", "sent", "reading", "closed"}
    /\ rbFetch \in Fetch /\ rbLate \in BOOLEAN
    /\ rbAnswer \in {"none", "confirmed", "refused", "unknown"}
    /\ rbSaid \in {"nothing", "reads back what was sent",
                   "reads back something else", "not read back",
                   "failed"}
    /\ rbSince \subseteq Settings

LEMMA ReadBackCounts == ReadBackSpec => []ReadBackCounted
<1>1. ReadBackInit => ReadBackCounted
  BY ReadBackAssumption DEF ReadBackInit, ReadBackCounted
<1>2. ASSUME ReadBackCounted, [ReadBackNext]_rbvars PROVE ReadBackCounted'
  <2> USE <1>2, ReadBackAssumption DEF ReadBackCounted
  <2>1. CASE SendChange
    BY <2>1 DEF SendChange
  <2>2. CASE OthersChange
    BY <2>2 DEF OthersChange
  <2>3. CASE ~SendChange /\ ~OthersChange
    <3>1. UNCHANGED <<rbChanges, rbByOthers>>
      BY <2>3 DEF ReadBackNext, rbvars, PollSetting, ServeRead, PollEnds,
                  ServeChange, ChangeIsLost, LateChange, ReportReadBack, Ended
    <3> QED BY <3>1
  <2> QED BY <2>1, <2>2, <2>3
<1> QED BY <1>1, <1>2, PTL DEF ReadBackSpec

LEMMA ReadBackTypes == ReadBackSpec => []ReadBackTyped
<1>1. ReadBackInit => ReadBackTyped
  BY FetchesAre DEF ReadBackInit, ReadBackTyped
<1>2. ASSUME ReadBackTyped, [ReadBackNext]_rbvars
      PROVE  ReadBackTyped'
  <2> USE <1>2, FetchesAre DEF ReadBackTyped
  <2>1. CASE PollSetting
    BY <2>1 DEF PollSetting
  <2>2. CASE ServeRead
    BY <2>2 DEF ServeRead
  <2>3. CASE PollEnds
    BY <2>3 DEF PollEnds
  <2>4. CASE SendChange
    BY <2>4 DEF SendChange
  <2>5. CASE ServeChange
    BY <2>5 DEF ServeChange, NowHolds, Ended, ReadAfterWrite
  <2>6. CASE ChangeIsLost
    BY <2>6 DEF ChangeIsLost, Ended, ReadAfterWrite
  <2>7. CASE LateChange
    BY <2>7 DEF LateChange, NowHolds
  <2>8. CASE ReportReadBack
    BY <2>8 DEF ReportReadBack
  <2>9. CASE OthersChange
    BY <2>9 DEF OthersChange, NowHolds
  <2>10. CASE UNCHANGED rbvars
    BY <2>10 DEF rbvars
  <2> QED
    BY <2>1, <2>2, <2>3, <2>4, <2>5, <2>6, <2>7, <2>8, <2>9, <2>10
       DEF ReadBackNext
<1> QED BY <1>1, <1>2, PTL DEF ReadBackSpec

(* Every reachable state of a form that is read back is well typed. *)
THEOREM ReadBackTypeCorrect == ReadBackSpec => []ReadBackTypeOK
<1>1. ReadBackTyped /\ ReadBackCounted => ReadBackTypeOK
  BY DEF ReadBackTyped, ReadBackCounted, ReadBackTypeOK
<1> QED BY <1>1, ReadBackTypes, ReadBackCounts, PTL

----------------------------------------------------------------------------
(* What is held, and what the handler's read brings, has been held since   *)
(* the write left.                                                         *)
ReadsAreSince ==
    /\ rbPhase \in {"sent", "reading"} => rbHeld \in rbSince
    /\ rbPhase = "reading" /\ rbFetch \notin {"none", "asked", "unreadable"}
          => rbFetch \in rbSince
SaidIsSince ==
    /\ rbSaid = "reads back what was sent" => "sent" \in rbSince
    /\ rbSaid = "reads back something else" =>
          \E value \in rbSince : value # "sent"
ReadBackInv == ReadsAreSince /\ SaidIsSince

LEMMA ReadBackStep ==
    ASSUME ReadBackTyped, ReadBackInv, [ReadBackNext]_rbvars
    PROVE  ReadBackInv'
  <1> USE DEF ReadBackTyped, ReadBackInv, ReadsAreSince, SaidIsSince
  <1>1. CASE PollSetting
    BY <1>1 DEF PollSetting
  <1>2. CASE ServeRead
    BY <1>2 DEF ServeRead
  <1>3. CASE PollEnds
    BY <1>3 DEF PollEnds
  <1>4. CASE SendChange
    BY <1>4 DEF SendChange
  <1>5. CASE ServeChange
    BY <1>5 DEF ServeChange, NowHolds, Ended, ReadAfterWrite
  <1>6. CASE ChangeIsLost
    BY <1>6 DEF ChangeIsLost, Ended, ReadAfterWrite
  <1>7. CASE LateChange
    BY <1>7 DEF LateChange, NowHolds
  <1>8. CASE ReportReadBack
    BY <1>8 DEF ReportReadBack
  <1>9. CASE OthersChange
    BY <1>9 DEF OthersChange, NowHolds
  <1>10. CASE UNCHANGED rbvars
    BY <1>10 DEF rbvars
  <1> QED
    BY <1>1, <1>2, <1>3, <1>4, <1>5, <1>6, <1>7, <1>8, <1>9, <1>10
       DEF ReadBackNext

(* What is said to be read back was held after the write left, however     *)
(* polls, lost answers, late writes and other operators fall in between.   *)
THEOREM ReadBackIsTrue == ReadBackSpec => []SaysWhatItRead
<1>1. ReadBackInit => ReadBackInv
  BY DEF ReadBackInit, ReadBackInv, ReadsAreSince, SaidIsSince
<1>2. ReadBackInv => SaysWhatItRead
  BY DEF ReadBackInv, SaidIsSince, SaysWhatItRead
<1> QED
  BY <1>1, <1>2, ReadBackTypes, ReadBackStep, PTL DEF ReadBackSpec

----------------------------------------------------------------------------
Codes == Refusals \cup GivenUp \cup {0, Ok, Broken}
Told == [status : {"none", "confirmed", "denied", "invalid", "unavailable",
                   "unknown", "failed"},
         retryable : BOOLEAN]

LEMMA AnswersAre ==
    /\ \A code \in Refusals \cup BackendRefusals \cup GivenUp :
          Answer(code, "fine") \in Answers
    /\ Answer(Broken, "fine") \in Answers /\ Answer(Ok, "fail") \in Answers
    /\ \A body \in {"fine", "garbled"} : Answer(Ok, body) \in Answers
<1>1. BackendRefusals \subseteq Refusals
  BY DEF BackendRefusals, Refusals
<1>2. ASSUME NEW code \in Codes, NEW body \in {"fine", "fail", "garbled"}
      PROVE  Answer(code, body) \in Answers
  BY DEF Codes, Answers, Answer
<1>3. Ok \in Codes /\ Broken \in Codes /\ GivenUp \subseteq Codes
      /\ Refusals \subseteq Codes
  BY DEF Codes
<1> QED BY <1>1, <1>2, <1>3

LEMMA NoAnswerIsTyped == NoAnswer \in Answers /\ NoResult \in Told
  BY DEF Answers, NoResult, OpResult, Told

LEMMA CodesAre ==
    Ok \notin Refusals /\ Broken \notin Refusals /\ GivenUp \cap Refusals = {}
    /\ Ok # Broken /\ Ok \notin BackendRefusals \cup GivenUp
  BY DEF Ok, Broken, GivenUp, Refusals, BackendRefusals

LEMMA ResultsAreTyped ==
    ASSUME NEW answer, NEW kind
    PROVE  /\ FromSimpleResponse(answer, kind) \in Told
           /\ FromRead(FromSimpleResponse(answer, kind)) \in Told
           /\ FromNetworkError(kind) \in Told
<1>1. FromSimpleResponse(answer, kind) \in Told
  BY DEF FromSimpleResponse, LostAnswer, OpResult, Told
<1>2. ASSUME NEW result \in Told PROVE FromRead(result) \in Told
  BY DEF FromRead, OpResult, Told
<1>3. FromNetworkError(kind) \in Told
  BY DEF FromNetworkError, LostAnswer, OpResult, Told
<1> QED BY <1>1, <1>2, <1>3

OpTyped ==
    /\ opKind \in OpKinds
    /\ opAt \in {"page", "to backend", "to gateway", "from gateway",
                 "from backend"}
    /\ opAnswer \in Answers /\ opDone \in BOOLEAN /\ opOnItsWay \in BOOLEAN
    /\ opResult \in Told

LEMMA OpCounts == OpSpec => [](opCount \in 0..MaxOps)
<1>1. OpInit => opCount \in 0..MaxOps
  BY OpAssumption DEF OpInit
<1>2. ASSUME opCount \in 0..MaxOps, [OpNext]_opvars
      PROVE  (opCount \in 0..MaxOps)'
  <2>1. CASE \E kind \in OpKinds : SendOp(kind)
    <3>1. opCount < MaxOps /\ opCount' = opCount + 1
      BY <2>1 DEF SendOp
    <3> QED BY <1>2, <3>1, OpAssumption
  <2>2. CASE ~\E kind \in OpKinds : SendOp(kind)
    <3>1. UNCHANGED opCount
      BY <1>2, <2>2 DEF OpNext, opvars, BackendTakes, GatewayTakes,
            BackendGivesUp, BackendRelays, PageHears, FetchThrows,
            CarriedOutLate
    <3> QED BY <1>2, <3>1
  <2> QED BY <2>1, <2>2
<1> QED BY <1>1, <1>2, PTL DEF OpSpec

LEMMA OpTypes == OpSpec => []OpTyped
<1>1. OpInit => OpTyped
  BY NoAnswerIsTyped DEF OpInit, OpTyped
<1>2. ASSUME OpTyped, [OpNext]_opvars PROVE OpTyped'
  <2> USE <1>2, NoAnswerIsTyped DEF OpTyped
  <2>1. CASE \E kind \in OpKinds : SendOp(kind)
    <3> PICK kind \in OpKinds : SendOp(kind)
      BY <2>1
    <3> QED BY Zenon DEF SendOp
  <2>2. CASE BackendTakes
    <3>1. opAnswer' \in Answers
      BY <2>2, AnswersAre DEF BackendTakes
    <3> QED BY <2>2, <3>1, Zenon DEF BackendTakes
  <2>3. CASE GatewayTakes
    <3>1. opAnswer' \in Answers
      BY <2>3, AnswersAre DEF GatewayTakes
    <3>2. opDone' \in BOOLEAN
      BY <2>3, Zenon DEF GatewayTakes
    <3> QED BY <2>3, <3>1, <3>2, Zenon DEF GatewayTakes
  <2>4. CASE BackendGivesUp
    <3>1. opAnswer' \in Answers
      BY <2>4, AnswersAre DEF BackendGivesUp
    <3>2. opOnItsWay' \in BOOLEAN
      BY <2>4, Zenon DEF BackendGivesUp
    <3> QED BY <2>4, <3>1, <3>2, Zenon DEF BackendGivesUp
  <2>5. CASE BackendRelays
    BY <2>5 DEF BackendRelays
  <2>6. CASE PageHears
    BY <2>6, ResultsAreTyped DEF PageHears
  <2>7. CASE FetchThrows
    BY <2>7, ResultsAreTyped DEF FetchThrows
  <2>8. CASE CarriedOutLate
    BY <2>8 DEF CarriedOutLate
  <2>9. CASE UNCHANGED opvars
    BY <2>9 DEF opvars
  <2> QED
    BY <2>1, <2>2, <2>3, <2>4, <2>5, <2>6, <2>7, <2>8, <2>9 DEF OpNext
<1> QED BY <1>1, <1>2, PTL DEF OpSpec

(* Every reachable state of an operation is well typed. *)
THEOREM OpTypeCorrect == OpSpec => []OpTypeOK
<1>1. OpTyped /\ opCount \in 0..MaxOps => OpTypeOK
  BY DEF OpTyped, Told, OpTypeOK
<1> QED BY <1>1, OpTypes, OpCounts, PTL

----------------------------------------------------------------------------
(* On the way: nothing is said yet, nothing is done before the gateway has *)
(* the request, and an answer that refuses is of a request not carried out.*)
AnswerIsHonest ==
    /\ opAnswer.code \in Refusals => ~opDone /\ ~opOnItsWay
    /\ opAnswer.code = Ok /\ opAnswer.body = "fine" => opDone
OnTheWay ==
    /\ opAt # "page" => opResult = NoResult
    /\ opAt \in {"to backend", "to gateway"} => ~opDone /\ ~opOnItsWay
    /\ opAt = "from gateway" => ~opOnItsWay
    /\ opAt \in {"from gateway", "from backend"} => AnswerIsHonest

LEMMA ResultsFollowAnswers ==
    ASSUME NEW answer, NEW result,
           result = FromSimpleResponse(answer, "mutation")
    PROVE  /\ \/ result.status \in {"denied", "invalid", "unavailable"}
              \/ result.retryable
              => answer.code \in Refusals
           /\ result.status = "confirmed" =>
                 answer.code = Ok /\ answer.body = "fine"
  BY DEF FromSimpleResponse, LostAnswer, OpResult, Refusals, Ok

LEMMA NothingSaid ==
    /\ NoResult.status = "none" /\ NoResult.retryable = FALSE
    /\ FromNetworkError("mutation").status = "unknown"
    /\ FromNetworkError("mutation").retryable = FALSE
  BY DEF NoResult, OpResult, FromNetworkError, LostAnswer

(* A change that is said to be refused, or offered again, is not carried   *)
(* out, on either hop or late; one that is said to be confirmed has been.  *)
THEOREM RefusalsAreReal == OpSpec => []RefusedIsNotDone
<1> DEFINE Inv == OnTheWay /\ RefusedIsNotDone
<1>1. OpInit => Inv
  BY NothingSaid DEF OpInit, OnTheWay, RefusedIsNotDone
<1>2. ASSUME Inv, [OpNext]_opvars PROVE Inv'
  <2> USE <1>2
  <2>1. CASE \E kind \in OpKinds : SendOp(kind)
    BY <2>1, NothingSaid DEF SendOp, OnTheWay, RefusedIsNotDone
  <2>2. CASE BackendTakes
    <3>1. /\ opResult = NoResult /\ ~opDone /\ ~opOnItsWay
          /\ opResult' = NoResult /\ ~opDone' /\ ~opOnItsWay'
      BY <2>2 DEF BackendTakes, OnTheWay
    <3>2. CASE opAt' = "to gateway"
      BY <3>1, <3>2, NothingSaid DEF OnTheWay, RefusedIsNotDone
    <3>3. CASE \E code \in BackendRefusals :
                  opAnswer' = Answer(code, "fine") /\ opAt' = "from backend"
      <4>1. opAnswer'.code \in BackendRefusals
        <5>1. \E code \in BackendRefusals : opAnswer' = Answer(code, "fine")
          BY ONLY <3>3
        <5> QED BY ONLY <5>1 DEF Answer
      <4>2. AnswerIsHonest'
        BY <3>1, <4>1, CodesAre DEF AnswerIsHonest
      <4> QED BY <3>1, <3>3, <4>2, NothingSaid DEF OnTheWay, RefusedIsNotDone
    <3> QED BY <2>2, <3>2, <3>3 DEF BackendTakes
  <2>3. CASE GatewayTakes
    <3>1. opResult' = NoResult
      BY <2>3 DEF GatewayTakes, OnTheWay
    <3>2. AnswerIsHonest'
      <4>1. ~opDone /\ ~opOnItsWay /\ ~opOnItsWay'
        BY <2>3 DEF GatewayTakes, OnTheWay
      <4>2. CASE \E code \in Refusals : /\ opAnswer' = Answer(code, "fine")
                                        /\ UNCHANGED opDone
        BY <4>1, <4>2, CodesAre DEF AnswerIsHonest, Answer
      <4>3. CASE opAnswer' = Answer(Ok, "fail")
        BY <4>3, CodesAre DEF AnswerIsHonest, Answer
      <4>4. CASE \E body \in {"fine", "garbled"} :
                    opAnswer' = Answer(Ok, body) /\ opDone' = TRUE
        BY <4>4, CodesAre DEF AnswerIsHonest, Answer
      <4>5. CASE opAnswer' = Answer(Broken, "fine")
        BY <4>5, CodesAre DEF AnswerIsHonest, Answer
      <4> QED BY <2>3, <4>2, <4>3, <4>4, <4>5 DEF GatewayTakes
    <3> QED BY <2>3, <3>1, <3>2, NothingSaid
            DEF GatewayTakes, OnTheWay, RefusedIsNotDone
  <2>4. CASE BackendGivesUp
    <3>1. opResult' = NoResult
      BY <2>4 DEF BackendGivesUp, OnTheWay
    <3>2. opAnswer'.code \in GivenUp
      <4>1. \E code \in GivenUp : opAnswer' = Answer(code, "fine")
        BY ONLY <2>4 DEF BackendGivesUp
      <4> QED BY ONLY <4>1 DEF Answer
    <3>3. AnswerIsHonest'
      BY <3>2, CodesAre DEF AnswerIsHonest
    <3> QED BY <2>4, <3>1, <3>3, NothingSaid
            DEF BackendGivesUp, OnTheWay, RefusedIsNotDone
  <2>5. CASE BackendRelays
    BY <2>5 DEF BackendRelays, OnTheWay, AnswerIsHonest, RefusedIsNotDone
  <2>6. CASE PageHears
    <3>1. AnswerIsHonest
      BY <2>6 DEF PageHears, OnTheWay
    <3>2. RefusedIsNotDone'
      BY <2>6, <3>1, ResultsFollowAnswers
         DEF PageHears, AnswerIsHonest, RefusedIsNotDone
    <3> QED BY <2>6, <3>2 DEF PageHears, OnTheWay
  <2>7. CASE FetchThrows
    BY <2>7, NothingSaid DEF FetchThrows, OnTheWay, RefusedIsNotDone
  <2>8. CASE CarriedOutLate
    BY <2>8 DEF CarriedOutLate, OnTheWay, AnswerIsHonest, RefusedIsNotDone
  <2>9. CASE UNCHANGED opvars
    BY <2>9 DEF opvars, OnTheWay, AnswerIsHonest, RefusedIsNotDone
  <2> QED
    BY <2>1, <2>2, <2>3, <2>4, <2>5, <2>6, <2>7, <2>8, <2>9 DEF OpNext
<1>3. Inv => RefusedIsNotDone
  OBVIOUS
<1> QED BY <1>1, <1>2, <1>3, PTL DEF OpSpec

----------------------------------------------------------------------------
Kinds == {"whole", "folded", "switch", "sent", "sentSwitch", "sentFolded",
          "fullproxy", "nonzero", "spelled", "patchOnly", "skip"}

(* The table of fields, as the proofs use it. *)
LEMMA FieldsAreKnown ==
    ASSUME NEW family \in Families, NEW f \in DOMAIN FieldsOf[family]
    PROVE  /\ KindOf(family, f) \in Kinds /\ f # "none"
           /\ f = "mode" => KindOf(family, f) = "sent"
           /\ KindOf(family, f) = "fullproxy" => f = "half_close_mode"
           /\ KindOf(family, f) = "patchOnly" => family \in {"rulePost", "rulePatch"}
<1> USE DEF Kinds, KindOf
<1>1. CASE family \in {"rulePost", "rulePatch"}
  BY <1>1 DEF FieldsOf, RuleFields
<1>2. CASE family = "tenant"
  BY <1>2 DEF FieldsOf, TenantFields
<1>3. CASE family \in {"user", "defaults", "objective"}
  BY <1>3 DEF FieldsOf, UserFields, DefaultsFields, ObjectiveFields
<1>4. CASE family \in {"apiKey", "apiKeyPatch"}
  BY <1>4 DEF FieldsOf, ApiKeyFields, PatchFields
<1>5. CASE family = "jwtProfile"
  BY <1>5 DEF FieldsOf, ProfileFields
<1>6. CASE family \in {"listed", "gone"}
  BY <1>6 DEF FieldsOf
<1> QED BY <1>1, <1>2, <1>3, <1>4, <1>5, <1>6 DEF Families, FieldsOf

(* One field is the same if and only if storing it again changes nothing,  *)
(* or nothing of it can be read.                                           *)
LEMMA FieldIsExact ==
    ASSUME NEW family, NEW kind \in Kinds, NEW asked \in AskedValues(kind) \cup {Nothing},
           NEW held \in HeldValues(kind), NEW row, NEW served \in Serves(kind, row, held),
           NEW fullproxy \in BOOLEAN,
           kind = "fullproxy" => (fullproxy <=> IsFullproxy(row)),
           kind = "patchOnly" => family \in {"rulePost", "rulePatch"}
    PROVE  SameField(family, kind, asked, served, fullproxy)
           <=> \/ kind = "skip"
               \/ kind = "nonzero" /\ asked = 0
               \/ kind = "fullproxy" /\ ~IsFullproxy(row)
               \/ held \in Stores(family, kind, asked, held)
<1> USE DEF AskedValues, HeldValues, Serves, SameField, Stores, DefaultOf,
            HasDefault, Asserted, Nothing
<1>1. CASE kind \in {"whole", "sent", "patchOnly"}
  BY <1>1 DEF Count
<1>2. CASE kind \in {"folded", "sentFolded"}
  BY <1>2 DEF Settled
<1>3. CASE kind \in {"switch", "sentSwitch"}
  BY <1>3 DEF On
<1>4. CASE kind = "fullproxy"
  <2>1. SameField(family, kind, asked, served, fullproxy)
        <=> asked = Nothing \/ (fullproxy => Settled(asked) = Settled(served))
    BY <1>4
  <2>2. held \in Stores(family, kind, asked, held)
        <=> asked = Nothing \/ held = Settled(asked)
    BY <1>4 DEF Settled
  <2>3. fullproxy => held = Settled(served)
    BY <1>4 DEF Settled
  <2> QED BY <1>4, <2>1, <2>2, <2>3
<1>5. CASE kind \in {"nonzero", "skip"}
  BY <1>5
<1>6. CASE kind = "spelled"
  BY <1>6 DEF Canonical, Count
<1> QED BY <1>1, <1>2, <1>3, <1>4, <1>5, <1>6 DEF Kinds

ConfirmationsTyped ==
    /\ cfFamily \in Families /\ cfFields \subseteq DOMAIN FieldsOf[cfFamily]
    /\ "half_close_mode" \in cfFields => "mode" \in cfFields
    /\ cfTargets \in (SUBSET Rows) \ {{}}
    /\ cfFamily # "gone" => \E row \in Rows : cfTargets = {row}
    /\ cfBody \in [cfFields -> 0..3]
    /\ \A f \in cfFields :
          cfBody[f] \in AskedValues(KindOf(cfFamily, f)) \cup {Nothing}
    /\ cfRows \in [Rows -> ValueRows \cup {NoRow}]
    /\ cfSaid \in {"nothing", "confirmed", "unconfirmed"}

(* A row is served as a row, and no row as none. *)
LEMMA NoRowIsNone ==
    ASSUME ConfirmationsTyped, NEW row \in ValueRows \cup {NoRow},
           NEW served \in Served(row)
    PROVE  /\ served = NoRow <=> row = NoRow
           /\ row # NoRow => row \in ValueRows
<1>1. "none" \notin cfFields
  BY FieldsAreKnown DEF ConfirmationsTyped
<1>2. NoRow \notin [cfFields -> 0..3] /\ DOMAIN NoRow = {"none"}
  BY <1>1 DEF NoRow
<1>3. ValueRows \subseteq [cfFields -> 0..2] /\ NoRow \notin ValueRows
  <2>1. ValueRows \subseteq [cfFields -> 0..2]
    BY DEF ValueRows
  <2> QED BY <1>1, <2>1 DEF NoRow
<1> QED BY <1>2, <1>3 DEF Served

(* A row is the same if and only if every field of it is. *)
LEMMA RowIsExact ==
    ASSUME ConfirmationsTyped, NEW row \in ValueRows, NEW served \in Served(row)
    PROVE  SameValues(cfFamily, cfBody, served)
           <=> \A f \in cfFields :
                  \/ Unreadable(f, row)
                  \/ row[f] \in Stores(cfFamily, KindOf(cfFamily, f), cfBody[f], row[f])
<1> DEFINE Kind(f) == KindOf(cfFamily, f)
           full == AsksForFullproxy(cfBody, served)
           Same(f) == SameField(cfFamily, Kind(f), cfBody[f], served[f], full)
           Stays(f) == \/ Unreadable(f, row)
                       \/ row[f] \in Stores(cfFamily, Kind(f), cfBody[f], row[f])
<1>1. /\ row \in [cfFields -> 0..2]
      /\ \A f \in cfFields : row[f] \in HeldValues(Kind(f))
  BY DEF ValueRows
<1>2. /\ served \in [cfFields -> 0..3]
      /\ \A f \in cfFields : served[f] \in Serves(Kind(f), row, row[f])
  <2>1. row # NoRow
    BY NoRowIsNone, FieldsAreKnown, <1>1 DEF NoRow, ConfirmationsTyped
  <2> QED BY <2>1 DEF Served
<1>3. /\ DOMAIN cfBody = cfFields
      /\ \A f \in cfFields : cfBody[f] \in AskedValues(Kind(f)) \cup {Nothing}
  BY DEF ConfirmationsTyped
<1>4. \A f \in cfFields :
        /\ Kind(f) \in Kinds
        /\ f = "mode" => Kind(f) = "sent"
        /\ Kind(f) = "fullproxy" => f = "half_close_mode"
        /\ Kind(f) = "patchOnly" => cfFamily \in {"rulePost", "rulePatch"}
  BY FieldsAreKnown DEF ConfirmationsTyped
<1>5. full \in BOOLEAN
  BY DEF AsksForFullproxy
<1>6. ASSUME NEW f \in cfFields, Kind(f) = "fullproxy" => (full <=> IsFullproxy(row))
      PROVE  Same(f) <=> Stays(f)
  <2> HIDE DEF full
  <2>1. Same(f) <=> \/ Kind(f) = "skip"
                    \/ Kind(f) = "nonzero" /\ cfBody[f] = 0
                    \/ Kind(f) = "fullproxy" /\ ~IsFullproxy(row)
                    \/ row[f] \in Stores(cfFamily, Kind(f), cfBody[f], row[f])
    <3> HIDE DEF Kind
    <3>1. /\ Kind(f) \in Kinds /\ full \in BOOLEAN
          /\ cfBody[f] \in AskedValues(Kind(f)) \cup {Nothing}
          /\ row[f] \in HeldValues(Kind(f))
          /\ served[f] \in Serves(Kind(f), row, row[f])
          /\ Kind(f) = "fullproxy" => (full <=> IsFullproxy(row))
          /\ Kind(f) = "patchOnly" => cfFamily \in {"rulePost", "rulePatch"}
      BY <1>1, <1>2, <1>3, <1>4, <1>5, <1>6
    <3> QED BY ONLY <3>1, FieldIsExact, Zenon
  <2> QED BY <2>1 DEF Unreadable
<1>7. SameValues(cfFamily, cfBody, served) <=> \A f \in cfFields : Same(f)
  BY <1>3 DEF SameValues
<1> SUFFICES (\A f \in cfFields : Same(f)) <=> (\A f \in cfFields : Stays(f))
  BY <1>7
<1>8. CASE \A f \in cfFields : Kind(f) # "fullproxy"
  <2> HIDE DEF Same, Stays, Kind
  <2> QED BY <1>6, <1>8
<1>9. CASE \E f \in cfFields : Kind(f) = "fullproxy"
  <2>1. "mode" \in cfFields /\ Kind("mode") = "sent"
    BY <1>4, <1>9 DEF ConfirmationsTyped
  <2>2. Same("mode") <=> Stays("mode")
    <3> HIDE DEF Same, Stays, Kind, full
    <3> QED BY <1>6, <2>1
  <2>3. Same("mode") => (full <=> IsFullproxy(row))
    <3>1. cfBody["mode"] \in 0..3 /\ row["mode"] \in 0..2
          /\ served["mode"] \in {row["mode"]} \cup (IF row["mode"] = 0 THEN {3} ELSE {})
      BY <1>1, <1>2, <1>3, <2>1
         DEF Serves, AskedValues, HeldValues, HasDefault, DefaultOf, Nothing
    <3>2. Same("mode") => cfBody["mode"] = 3 \/ Count(cfBody["mode"]) = Count(served["mode"])
      BY <2>1 DEF SameField, Nothing
    <3>3. full <=> (IF cfBody["mode"] = 3 THEN served["mode"] ELSE cfBody["mode"]) = 1
      BY <1>3, <2>1 DEF AsksForFullproxy, Nothing
    <3>4. IsFullproxy(row) <=> row["mode"] = 1
      BY <1>1, <2>1 DEF IsFullproxy
    <3> HIDE DEF Same, full
    <3> QED BY <3>1, <3>2, <3>3, <3>4 DEF Count, Nothing
  <2> HIDE DEF Same, Stays, Kind, full
  <2>4. CASE Same("mode")
    BY <1>6, <2>3, <2>4
  <2>5. CASE ~Same("mode")
    BY <2>1, <2>2, <2>5
  <2> QED BY <2>4, <2>5
<1> QED BY <1>8, <1>9

(* A target that is looked for by itself is confirmed if and only if the   *)
(* write is in effect there.                                               *)
LEMMA TargetIsExact ==
    ASSUME ConfirmationsTyped, cfFamily # "gone", NEW target \in Rows,
           NEW served \in Served(cfRows[target])
    PROVE  served # NoRow /\ SameValues(cfFamily, cfBody, served) <=> InEffect(target)
<1>1. cfRows[target] \in ValueRows \cup {NoRow}
  BY DEF ConfirmationsTyped
<1>2. CASE cfRows[target] = NoRow
  BY <1>1, <1>2, NoRowIsNone DEF InEffect
<1>3. CASE cfRows[target] # NoRow
  <2>1. cfRows[target] \in ValueRows /\ served # NoRow
    BY <1>1, <1>3, NoRowIsNone
  <2>2. SameValues(cfFamily, cfBody, served)
        <=> \A f \in cfFields :
               \/ Unreadable(f, cfRows[target])
               \/ cfRows[target][f] \in Stores(cfFamily, KindOf(cfFamily, f),
                                               cfBody[f], cfRows[target][f])
    BY <2>1, RowIsExact
  <2> QED BY <1>3, <2>1, <2>2 DEF InEffect
<1> QED BY <1>2, <1>3

(* What a read shows is what the gateway holds. *)
LEMMA ReadIsExact ==
    ASSUME ConfirmationsTyped, NEW read,
           \A row \in Rows : read[row] \in Served(cfRows[row])
    PROVE  LET inEffect == \A target \in cfTargets : InEffect(target)
               confirmed == Confirms(cfFamily, cfTargets, cfBody, read)
           IN /\ ~confirmed => ~inEffect
              /\ confirmed => inEffect \/ (cfFamily = "listed" /\ cfTargets = {"plain"})
<1> DEFINE inEffect == \A target \in cfTargets : InEffect(target)
           confirmed == Confirms(cfFamily, cfTargets, cfBody, read)
<1>1. cfTargets \subseteq Rows
  BY DEF ConfirmationsTyped
<1>2. CASE cfFamily = "gone"
  <2>1. \A target \in cfTargets : read[target] = NoRow <=> cfRows[target] = NoRow
    BY <1>1, NoRowIsNone DEF ConfirmationsTyped
  <2> QED BY <1>2, <2>1 DEF Confirms, InEffect
<1>3. CASE cfFamily # "gone"
  <2>1. PICK target \in Rows : cfTargets = {target}
    BY <1>3 DEF ConfirmationsTyped
  <2>2. \A row \in Rows :
          (read[row] # NoRow /\ SameValues(cfFamily, cfBody, read[row])) <=> InEffect(row)
    BY <1>3, TargetIsExact
  <2>3. confirmed <=> \E row \in Rows : IsTheRow(cfFamily, target, row) /\ InEffect(row)
    BY <1>3, <2>1, <2>2 DEF Confirms
  <2>4. inEffect <=> InEffect(target)
    BY <2>1
  <2>5. IsTheRow(cfFamily, target, target)
    BY DEF IsTheRow
  <2>6. (cfFamily = "listed" /\ cfTargets = {"plain"})
        \/ \A row \in Rows : IsTheRow(cfFamily, target, row) => row = target
    BY <2>1 DEF IsTheRow
  <2> HIDE DEF confirmed, inEffect
  <2>7. (~confirmed => ~inEffect)
        /\ (confirmed => inEffect \/ (cfFamily = "listed" /\ cfTargets = {"plain"}))
    BY <2>1, <2>3, <2>4, <2>5, <2>6
  <2> QED BY <2>7 DEF confirmed, inEffect
<1> QED BY <1>2, <1>3

LEMMA OnesAreValues ==
    ASSUME cfFamily \in Families, cfFields \subseteq DOMAIN FieldsOf[cfFamily]
    PROVE  [f \in cfFields |-> 1] \in ValueRows
<1>1. \A kind \in Kinds : 1 \in HeldValues(kind)
  BY DEF Kinds, HeldValues, HasDefault
<1> QED BY <1>1, FieldsAreKnown DEF ValueRows

LEMMA ConfirmationsAreTyped == ConfirmationsSpec => []ConfirmationsTyped
<1>1. ConfirmationsInit => ConfirmationsTyped
  <2> SUFFICES ASSUME ConfirmationsInit PROVE ConfirmationsTyped
    OBVIOUS
  <2>1. cfFamily \in Families /\ cfFields \subseteq DOMAIN FieldsOf[cfFamily]
        /\ ("half_close_mode" \in cfFields => "mode" \in cfFields)
    BY DEF ConfirmationsInit
  <2>2. cfTargets \in (SUBSET Rows) \ {{}}
        /\ (cfFamily # "gone" => \E row \in Rows : cfTargets = {row})
    BY DEF ConfirmationsInit
  <2>3. cfBody \in [cfFields -> 0..3]
        /\ \A f \in cfFields :
              cfBody[f] \in AskedValues(KindOf(cfFamily, f)) \cup {Nothing}
    BY DEF ConfirmationsInit
  <2>4. cfRows \in [Rows -> ValueRows \cup {NoRow}] /\ cfSaid = "nothing"
    BY <2>1, OnesAreValues DEF ConfirmationsInit
  <2> QED BY <2>1, <2>2, <2>3, <2>4 DEF ConfirmationsTyped
<1>2. ConfirmationsTyped /\ [ConfirmationsNext]_cfvars => ConfirmationsTyped'
  <2> SUFFICES ASSUME ConfirmationsTyped, [ConfirmationsNext]_cfvars
               PROVE  ConfirmationsTyped'
    OBVIOUS
  <2>1. CASE UNCHANGED cfvars
    BY <2>1 DEF cfvars, ConfirmationsTyped, ValueRows
  <2>2. CASE ConfirmationsNext
    <3>1. UNCHANGED <<cfFamily, cfFields, cfTargets, cfBody>>
      BY <2>2 DEF ConfirmationsNext, WriteLands, ReadsBackRows, SomebodyChanges
    <3>2. cfSaid' \in {"nothing", "confirmed", "unconfirmed"}
      BY <2>2 DEF ConfirmationsNext, WriteLands, ReadsBackRows, SomebodyChanges
    <3>3. cfRows' \in [Rows -> ValueRows \cup {NoRow}]
      <4>1. [f \in cfFields |-> 1] \in ValueRows
        BY OnesAreValues DEF ConfirmationsTyped
      <4>2. CASE WriteLands
        BY <4>2 DEF WriteLands, ConfirmationsTyped
      <4>3. CASE ReadsBackRows
        BY <4>3 DEF ReadsBackRows, ConfirmationsTyped
      <4>4. ASSUME NEW row \in Rows, SomebodyChanges(row)
            PROVE  cfRows' \in [Rows -> ValueRows \cup {NoRow}]
        BY <4>1, <4>4 DEF SomebodyChanges, ConfirmationsTyped
      <4> QED BY <2>2, <4>2, <4>3, <4>4 DEF ConfirmationsNext
    <3>4. ValueRows' = ValueRows
      BY <3>1 DEF ValueRows
    <3> QED BY <3>1, <3>2, <3>3, <3>4 DEF ConfirmationsTyped
  <2> QED BY <2>1, <2>2
<1> QED BY <1>1, <1>2, PTL DEF ConfirmationsSpec

(* No kind of write is confirmed by a read of a gateway that does not hold *)
(* what was asked, and none is missed by a read of one that does; with any *)
(* number of fields told apart.                                            *)
THEOREM ReadsConfirmExactly == ConfirmationsSpec => []ConfirmsExactly
<1>1. ConfirmationsInit => ConfirmsExactly
  BY DEF ConfirmationsInit, ConfirmsExactly
<1>2. ConfirmationsTyped /\ ConfirmsExactly /\ [ConfirmationsNext]_cfvars
      => ConfirmsExactly'
  <2> SUFFICES ASSUME ConfirmationsTyped, ConfirmsExactly, [ConfirmationsNext]_cfvars
               PROVE  ConfirmsExactly'
    OBVIOUS
  <2>1. CASE UNCHANGED cfvars
    BY <2>1 DEF cfvars, ConfirmsExactly, InEffect, Unreadable
  <2>2. CASE WriteLands \/ \E row \in Rows : SomebodyChanges(row)
    BY <2>2 DEF WriteLands, SomebodyChanges, ConfirmsExactly
  <2>3. CASE ReadsBackRows
    <3>1. PICK plain \in Served(cfRows["plain"]), peer \in Served(cfRows["peer"]) :
            cfSaid' = IF Confirms(cfFamily, cfTargets, cfBody,
                            [row \in Rows |-> IF row = "plain" THEN plain ELSE peer])
                      THEN "confirmed" ELSE "unconfirmed"
      BY <2>3 DEF ReadsBackRows
    <3> DEFINE read == [row \in Rows |-> IF row = "plain" THEN plain ELSE peer]
               inEffect == \A target \in cfTargets : InEffect(target)
               confirmed == Confirms(cfFamily, cfTargets, cfBody, read)
    <3>2. \A row \in Rows : read[row] \in Served(cfRows[row])
      BY DEF Rows
    <3>3. /\ ~confirmed => ~inEffect
          /\ confirmed => inEffect \/ (cfFamily = "listed" /\ cfTargets = {"plain"})
      <4> HIDE DEF read
      <4> QED BY <3>2, ReadIsExact
    <3>4. cfSaid' = IF confirmed THEN "confirmed" ELSE "unconfirmed"
      BY <3>1
    <3>5. /\ UNCHANGED <<cfFamily, cfTargets>>
          /\ (\A target \in cfTargets : InEffect(target))' <=> inEffect
      BY <2>3 DEF ReadsBackRows, InEffect, Unreadable
    <3> HIDE DEF confirmed, inEffect
    <3>6. /\ cfSaid' = "unconfirmed" => ~inEffect
          /\ cfSaid' = "confirmed" =>
               inEffect \/ (cfFamily = "listed" /\ cfTargets = {"plain"})
      BY <3>3, <3>4
    <3> QED BY <3>5, <3>6 DEF ConfirmsExactly
  <2> QED BY <2>1, <2>2, <2>3 DEF ConfirmationsNext
<1> QED BY <1>1, <1>2, ConfirmationsAreTyped, PTL DEF ConfirmationsSpec

-----------------------------------------------------------------------------
(* Editing a load-balancer rule.                                           *)

(* A rule, no rule, and a read that has not come or has failed are told    *)
(* apart; so is a write from none.                                         *)
LEMMA ReadsDiffer ==
    NotRead # CannotRead /\ NoWrite.does = "none"
<1>1. NotRead["read"] = "not yet" /\ CannotRead["read"] = "failed"
  BY DEF NotRead, CannotRead
<1> QED BY <1>1 DEF NoWrite

LEMMA WholeRuleDoes ==
    ASSUME NEW does
    PROVE  WholeRule(does).does = does /\ WholeRule(does).at = "own"
  BY DEF WholeRule

(* While the handler is at work nothing has been said.  From the moment a  *)
(* write is sent, what the server holds is among what could have been      *)
(* read; and so is what has been read for the report.                      *)
AtWork == {"reading", "asking", "sending", "confirming", "observing"}
AfterSending == {"sending", "confirming", "observing"}

NothingSaidYet == lbPhase \in AtWork => lbSaid = "nothing"
WritesFollow ==
    /\ lbPhase = "asking" => lbNext.does = "replace"
    /\ lbPhase = "sending" /\ lbSent.does = "delete" => lbNext.does = "post"
HeldIsSeen ==
    lbPhase \in AfterSending =>
       /\ lbWritten.does # "none"
       /\ LBSees(lbWritten, lbHeld[lbWritten.at]) \in lbSeen
ReadIsSeen ==
    lbPhase \in {"confirming", "observing"}
    /\ lbRead # NotRead /\ lbRead # CannotRead
       => LBSees(lbWritten, lbRead) \in lbSeen
NotReadYet == lbPhase \in {"asking", "sending"} => lbRead = NotRead
ReportInv ==
    /\ NothingSaidYet /\ WritesFollow /\ HeldIsSeen /\ ReadIsSeen
    /\ NotReadYet /\ LBSaysWhatHeld

LEMMA Sees ==
    ASSUME NEW write, NEW rule
    PROVE  LBSees(write, rule) \in {"absent", "holds", "differs"}
  BY DEF LBSees

(* The server holds something else: nothing said becomes untrue.           *)
LEMMA HoldingKeepsReport ==
    ASSUME ReportInv, NEW held, LBHolds(held),
           UNCHANGED <<lbServer, lbPhase, lbSent, lbNext, lbRead, lbSaid,
                       lbWritten>>
    PROVE  ReportInv'
<1>1. lbSeen \subseteq lbSeen'
  BY DEF LBHolds
<1>2. HeldIsSeen'
  <2>1. lbWritten.does # "none" => lbWritten # NoWrite
    BY ReadsDiffer
  <2> QED BY <2>1 DEF ReportInv, HeldIsSeen, LBHolds
<1>3. ReadIsSeen' /\ LBSaysWhatHeld'
  BY <1>1 DEF ReportInv, ReadIsSeen, LBSaysWhatHeld
<1>4. NothingSaidYet' /\ WritesFollow' /\ NotReadYet'
  BY DEF ReportInv, NothingSaidYet, WritesFollow, NotReadYet
<1> QED BY <1>2, <1>3, <1>4 DEF ReportInv

(* A write goes out: nothing is said of it yet.                            *)
LEMMA SendingKeepsReport ==
    ASSUME NEW write, LBSend(write), write.does # "none",
           lbSaid' = "nothing", lbHeld' = lbHeld, lbRead' = NotRead,
           write.does = "delete" => lbNext'.does = "post"
    PROVE  ReportInv'
  BY DEF LBSend, ReportInv, NothingSaidYet, WritesFollow, HeldIsSeen,
         ReadIsSeen, NotReadYet, LBSaysWhatHeld

(* The handler ends, or gives the form back, without a claim.              *)
Claims == {"updated", "already holds", "does not hold", "reads holds",
           "reads differs", "reads absent"}
LEMMA EndingKeepsReport ==
    ASSUME lbPhase' \in {"form", "closed"}, lbSaid' \notin Claims
    PROVE  ReportInv'
  BY DEF Claims, ReportInv, NothingSaidYet, WritesFollow, HeldIsSeen,
         ReadIsSeen, NotReadYet, LBSaysWhatHeld, AtWork, AfterSending

LEMMA SubmittingKeepsReport ==
    ASSUME ReportInv, NEW edit \in LBEdit, SubmitEdit(edit)
    PROVE  ReportInv'
<1>1. lbHeld' = lbHeld /\ lbRead' = NotRead /\ UNCHANGED lbNext
  BY DEF SubmitEdit
<1> DEFINE post == [does |-> "post", at |-> "another",
                    body |-> LaidOver(SelectedRule, edit),
                    names |-> edit.fields, theirs |-> {}]
           patch == [does |-> "patch", at |-> "own",
                     body |-> LaidOver(SelectedRule, edit),
                     names |-> edit.fields, theirs |-> TheirsIn(lbHeld["own"])]
<1>2. CASE (LBSend(post) \/ LBSend(patch)) /\ lbSaid' = "nothing"
  <2>1. post.does = "post" /\ patch.does = "patch"
    OBVIOUS
  <2> HIDE DEF post, patch
  <2> QED BY <1>1, <1>2, <2>1, SendingKeepsReport
<1>3. CASE \E said \in {"no changes", "blocked", "plan refused"},
              phase \in {"form", "closed"} : Tell(said, phase)
  BY <1>3, EndingKeepsReport DEF Tell, Claims
<1>4. CASE Tell("nothing", "reading")
  BY <1>4 DEF Tell, ReportInv, NothingSaidYet, WritesFollow, HeldIsSeen,
              ReadIsSeen, NotReadYet, LBSaysWhatHeld, AfterSending
<1>5. \/ (LBSend(post) \/ LBSend(patch)) /\ lbSaid' = "nothing"
      \/ Tell("no changes", "closed") \/ Tell("blocked", "closed")
      \/ Tell("plan refused", "form") \/ Tell("nothing", "reading")
  BY Zenon DEF SubmitEdit
<1> QED BY <1>2, <1>3, <1>4, <1>5

LEMMA AnsweringKeepsReport ==
    ASSUME ReportInv, lbPhase = "sending", NEW answer, LBAnswered(answer)
    PROVE  ReportInv'
<1>1. lbSaid = "nothing" /\ lbRead' = NotRead /\ lbWritten.does # "none"
  BY DEF ReportInv, NothingSaidYet, NotReadYet, HeldIsSeen, AtWork,
         AfterSending, LBAnswered
<1>2. CASE lbSent.does = "delete" /\ answer = "confirmed"
  <2>1. /\ lbPhase' = "sending" /\ lbSent' = lbNext /\ lbWritten' = lbNext
        /\ lbSaid' = lbSaid /\ lbNext' = NoWrite
        /\ lbSeen' = {LBSees(lbNext, lbHeld'[lbNext.at])}
    BY <1>2 DEF LBAnswered
  <2>2. lbNext.does = "post"
    BY <1>2 DEF ReportInv, WritesFollow
  <2> QED BY <1>1, <2>1, <2>2
          DEF ReportInv, NothingSaidYet, WritesFollow, HeldIsSeen, ReadIsSeen,
              NotReadYet, LBSaysWhatHeld, AtWork, AfterSending
<1>3. CASE Tell("failed", "closed")
  BY <1>3, EndingKeepsReport DEF Tell, Claims
<1>4. CASE /\ lbPhase' \in {"confirming", "observing"}
           /\ UNCHANGED <<lbWritten, lbSaid>>
           /\ lbSeen' = lbSeen \cup {LBSees(lbWritten, lbHeld'[lbWritten.at])}
  BY <1>1, <1>4
     DEF ReportInv, NothingSaidYet, WritesFollow, HeldIsSeen, ReadIsSeen,
         NotReadYet, LBSaysWhatHeld, AtWork, AfterSending
<1> QED BY <1>2, <1>3, <1>4 DEF LBAnswered

LEMMA ReadingKeepsReport ==
    ASSUME ReportInv, ReadTheRule
    PROVE  ReportInv'
<1>1. /\ UNCHANGED <<lbHeld, lbPhase, lbSent, lbNext, lbSaid, lbSeen,
                      lbWritten, lbServer>>
      /\ lbPhase \in {"reading", "confirming", "observing"}
      /\ lbPhase # "reading" => lbRead' \in {lbHeld[lbWritten.at], CannotRead}
  BY DEF ReadTheRule
<1>2. ReadIsSeen'
  BY <1>1 DEF ReportInv, HeldIsSeen, ReadIsSeen, AfterSending
<1> QED BY <1>1, <1>2
        DEF ReportInv, NothingSaidYet, WritesFollow, HeldIsSeen, NotReadYet,
            LBSaysWhatHeld

LEMMA PreparingKeepsReport ==
    ASSUME ReportInv, PrepareReplace \/ PrepareReconcile \/ AnswerRebuild
    PROVE  ReportInv'
<1>1. lbSaid = "nothing" /\ lbHeld' = lbHeld
  BY DEF ReportInv, NothingSaidYet, AtWork, PrepareReplace, PrepareReconcile,
         AnswerRebuild
<1>2. CASE \E said \in {"not read before", "missing"}, phase \in {"form", "closed"} :
              Tell(said, phase)
  BY <1>2, EndingKeepsReport DEF Tell, Claims
<1>3. CASE lbPhase' \in {"form", "closed"} /\ lbSaid' = lbSaid
  BY <1>1, <1>3, EndingKeepsReport DEF Claims
<1>4. CASE PrepareReplace /\ lbPhase' = "asking"
  <2>1. lbNext' = WholeRule("replace") /\ lbRead' = NotRead /\ lbSaid' = lbSaid
        /\ lbSeen' = lbSeen
    BY <1>4 DEF PrepareReplace, Tell, LBSend
  <2>2. lbNext'.does = "replace"
    BY <2>1, WholeRuleDoes
  <2> QED BY <1>1, <1>4, <2>1, <2>2
          DEF ReportInv, NothingSaidYet, WritesFollow, HeldIsSeen, ReadIsSeen,
              NotReadYet, LBSaysWhatHeld, AtWork, AfterSending
<1>5. CASE PrepareReplace /\ LBSend(WholeRule("replace"))
  <2>1. lbRead' = NotRead /\ lbSaid' = lbSaid
    BY <1>5 DEF PrepareReplace, Tell, LBSend
  <2> QED BY <1>1, <1>5, <2>1, WholeRuleDoes, SendingKeepsReport
<1>6. CASE AnswerRebuild /\ LBSend(lbNext)
  <2>1. /\ lbRead' = NotRead /\ lbSaid' = lbSaid /\ lbNext.does = "replace"
    BY <1>6 DEF AnswerRebuild, ReportInv, WritesFollow, NotReadYet
  <2> QED BY <1>1, <1>6, <2>1, SendingKeepsReport
<1>7. CASE PrepareReconcile /\ LBSend(WholeRule("post"))
  <2>1. lbRead' = NotRead /\ lbSaid' = lbSaid
    BY <1>7 DEF PrepareReconcile
  <2> QED BY <1>1, <1>7, <2>1, WholeRuleDoes, SendingKeepsReport
<1>8. CASE /\ PrepareReconcile /\ lbNext' = WholeRule("post")
           /\ LBSend([WholeRule("post") EXCEPT !.does = "delete"])
  <2>1. lbRead' = NotRead /\ lbSaid' = lbSaid
    BY <1>8 DEF PrepareReconcile
  <2>2. [WholeRule("post") EXCEPT !.does = "delete"].does = "delete"
    BY DEF WholeRule
  <2>3. lbNext'.does = "post"
    BY <1>8, WholeRuleDoes
  <2> QED BY <1>1, <1>8, <2>1, <2>2, <2>3, SendingKeepsReport
<1>9. ASSUME PrepareReplace
      PROVE  ReportInv'
  BY <1>2, <1>4, <1>5, <1>9 DEF PrepareReplace
<1>10. ASSUME PrepareReconcile
       PROVE  ReportInv'
  BY <1>3, <1>7, <1>8, <1>10 DEF PrepareReconcile
<1>11. ASSUME AnswerRebuild
       PROVE  ReportInv'
  BY <1>3, <1>6, <1>11 DEF AnswerRebuild
<1> QED BY <1>9, <1>10, <1>11

LEMMA ReportingKeepsReport ==
    ASSUME ReportInv, ConfirmWrite \/ ObserveRule
    PROVE  ReportInv'
<1>1. /\ UNCHANGED <<lbHeld, lbSent, lbNext, lbSeen, lbWritten, lbServer>>
      /\ lbRead # NotRead /\ lbRead' = NotRead
      /\ lbPhase \in {"confirming", "observing"}
  BY DEF ConfirmWrite, ObserveRule
<1>2. lbRead # CannotRead => LBSees(lbWritten, lbRead) \in lbSeen
  BY <1>1 DEF ReportInv, ReadIsSeen
<1>3. RuleWritten(lbWritten, lbRead) =>
         "holds" \in lbSeen \/ (~lbServer.patches /\ "differs" \in lbSeen)
  BY <1>2 DEF RuleWritten
<1>4. ASSUME LBSaysWhatHeld', lbPhase' \in {"form", "closed"}
      PROVE  ReportInv'
  BY <1>1, <1>4 DEF ReportInv, NothingSaidYet, WritesFollow, HeldIsSeen,
         ReadIsSeen, NotReadYet, AtWork, AfterSending
<1>5. CASE ConfirmWrite
  <2>1. CASE Tell("updated", "closed") /\ RuleWritten(lbWritten, lbRead)
    BY <1>1, <1>3, <1>4, <2>1 DEF Tell, LBSaysWhatHeld
  <2>2. CASE Tell("accepted", "closed")
    BY <2>2, EndingKeepsReport DEF Tell, Claims
  <2>3. CASE UNCHANGED <<lbSaid, lbPhase>>
    BY <1>1, <2>3 DEF ReportInv, NothingSaidYet, WritesFollow, HeldIsSeen,
           ReadIsSeen, NotReadYet, LBSaysWhatHeld
  <2> QED BY <1>5, <2>1, <2>2, <2>3 DEF ConfirmWrite
<1>6. CASE ObserveRule
  <2>1. CASE AlreadyHolds(lbWritten, lbRead) /\ Tell("already holds", "closed")
    BY <1>1, <1>3, <1>4, <2>1 DEF Tell, LBSaysWhatHeld, AlreadyHolds
  <2>2. CASE /\ ~AlreadyHolds(lbWritten, lbRead) /\ lbAnswer = "conflict"
             /\ Tell(IF lbRead = CannotRead THEN "does not hold, unread"
                     ELSE "does not hold", "form")
    <3>1. CASE lbRead = CannotRead
      BY <2>2, <3>1, EndingKeepsReport DEF Tell, Claims
    <3>2. CASE lbRead # CannotRead
      <4>1. LBSees(lbWritten, lbRead) \in {"differs", "absent"}
        BY <2>2, <3>2, Sees DEF AlreadyHolds, RuleWritten
      <4> QED BY <1>1, <1>2, <1>4, <2>2, <3>2, <4>1 DEF Tell, LBSaysWhatHeld
    <3> QED BY <3>1, <3>2
  <2>3. CASE Tell(Observed(lbWritten, lbRead), "form")
    <3>1. CASE lbRead = CannotRead
      BY <2>3, <3>1, EndingKeepsReport DEF Tell, Observed, Claims
    <3>2. CASE lbRead # CannotRead /\ LBSees(lbWritten, lbRead) = "absent"
      BY <1>1, <1>2, <1>4, <2>3, <3>2 DEF Tell, Observed, LBSaysWhatHeld
    <3>3. CASE lbRead # CannotRead /\ LBSees(lbWritten, lbRead) = "holds"
      BY <1>1, <1>2, <1>4, <2>3, <3>3 DEF Tell, Observed, LBSaysWhatHeld
    <3>4. CASE lbRead # CannotRead /\ LBSees(lbWritten, lbRead) = "differs"
      BY <1>1, <1>2, <1>4, <2>3, <3>4 DEF Tell, Observed, LBSaysWhatHeld
    <3> QED BY <3>1, <3>2, <3>3, <3>4, Sees
  <2> QED BY <1>6, <2>1, <2>2, <2>3 DEF ObserveRule
<1> QED BY <1>5, <1>6

(* What the operator is told of a rule was so at some moment since the     *)
(* write was sent, whoever else writes and whatever arrives late; that the *)
(* rule does not hold what was submitted, too, if the rule could be read   *)
(* after the conflict.                                                     *)
THEOREM ReportsAreTrue == LBSpec => []LBSaysWhatHeld
<1>1. LBInit => ReportInv
  BY DEF LBInit, ReportInv, NothingSaidYet, WritesFollow, HeldIsSeen,
         ReadIsSeen, NotReadYet, LBSaysWhatHeld, AtWork, AfterSending
<1>2. ASSUME ReportInv, [LBNext]_lbvars
      PROVE  ReportInv'
  <2> USE <1>2
  <2>1. ASSUME NEW edit \in LBEdit, SubmitEdit(edit)
        PROVE  ReportInv'
    BY <2>1, SubmittingKeepsReport
  <2>2. CASE ReadTheRule
    BY <2>2, ReadingKeepsReport
  <2>3. CASE PrepareReplace \/ PrepareReconcile \/ AnswerRebuild
    BY <2>3, PreparingKeepsReport
  <2>4. CASE ServeWrite \/ WriteTimesOut
    BY <2>4, AnsweringKeepsReport DEF ServeWrite, WriteTimesOut
  <2>5. ASSUME NEW write \in lbLate, LateWriteArrives(write)
        PROVE  ReportInv'
    <3>1. PICK rule : LBHolds([lbHeld EXCEPT ![write.at] = rule])
      BY <2>5 DEF LateWriteArrives, Land
    <3> QED BY <2>5, <3>1, HoldingKeepsReport DEF LateWriteArrives
  <2>6. ASSUME NEW write \in lbLate, LateWriteIsLost(write)
        PROVE  ReportInv'
    BY <2>6 DEF LateWriteIsLost, ReportInv, NothingSaidYet, WritesFollow,
         HeldIsSeen, ReadIsSeen, NotReadYet, LBSaysWhatHeld
  <2>7. CASE ConfirmWrite \/ ObserveRule
    BY <2>7, ReportingKeepsReport
  <2>8. CASE OthersEdit
    <3>1. \E held : LBHolds(held)
      BY <2>8 DEF OthersEdit
    <3> QED BY <2>8, <3>1, HoldingKeepsReport DEF OthersEdit
  <2>9. CASE UNCHANGED lbvars
    BY <2>9 DEF lbvars, ReportInv, NothingSaidYet, WritesFollow, HeldIsSeen,
         ReadIsSeen, NotReadYet, LBSaysWhatHeld
  <2> QED
    BY <2>1, <2>2, <2>3, <2>4, <2>5, <2>6, <2>7, <2>8, <2>9 DEF LBNext
<1>3. ReportInv => LBSaysWhatHeld
  BY DEF ReportInv
<1> QED BY <1>1, <1>2, <1>3, PTL DEF LBSpec

----------------------------------------------------------------------------
(* A write that carries a whole rule carries what others had put in it,    *)
(* except where this operator's own entry replaces it.                     *)
CarriesOthers(write) ==
    \/ write = NoWrite
    \/ /\ write.does \in {"post", "replace", "patch", "delete"}
       /\ write.at \in LBIdentities /\ write.theirs \subseteq LBFields
       /\ write.does \in {"post", "replace"} =>
             \A f \in write.theirs \ write.names : write.body[f] = "theirs"
WritesInv ==
    /\ DOMAIN lbHeld = LBIdentities
    /\ CarriesOthers(lbSent) /\ CarriesOthers(lbNext)
    /\ \A write \in lbLate : CarriesOthers(write)

LEMMA NothingIsCarried == CarriesOthers(NoWrite)
  BY DEF CarriesOthers, NoWrite

LEMMA WholeRuleCarries ==
    ASSUME NEW does \in {"post", "replace"}
    PROVE  CarriesOthers(WholeRule(does))
<1> DEFINE base == BaseOf(lbRead, SelectedRule)
           write == WholeRule(does)
<1>1. /\ write.does = does /\ write.at = "own" /\ write.names = lbEdit.fields
      /\ write.theirs = TheirsIn(lbRead) /\ write.body = LaidOver(base, lbEdit)
  BY DEF WholeRule
<1>2. TheirsIn(lbRead) \subseteq LBFields
  BY DEF TheirsIn
<1>3. ASSUME NEW f \in TheirsIn(lbRead), f \notin lbEdit.fields
      PROVE  LaidOver(base, lbEdit)[f] = "theirs"
  <2>1. f \in LBFields /\ f \in DOMAIN lbRead /\ lbRead[f] = "theirs"
    BY DEF TheirsIn
  <2>2. lbRead # NoRule
    BY <2>1 DEF NoRule
  <2>3. base = lbRead
    BY <2>2 DEF BaseOf
  <2> QED BY <1>3, <2>1, <2>3 DEF LaidOver
<1>4. "own" \in LBIdentities
  BY DEF LBIdentities
<1> HIDE DEF write, base
<1>5. CarriesOthers(write)
  BY <1>1, <1>2, <1>3, <1>4 DEF CarriesOthers
<1> QED BY <1>5 DEF write

LEMMA DeletingCarries ==
    CarriesOthers([WholeRule("post") EXCEPT !.does = "delete"])
<1> DEFINE write == [WholeRule("post") EXCEPT !.does = "delete"]
<1>1. /\ write.does = "delete" /\ write.at = WholeRule("post").at
      /\ write.theirs = WholeRule("post").theirs
      /\ WholeRule("post").does = "post"
  BY DEF WholeRule
<1>2. CarriesOthers(WholeRule("post"))
  BY WholeRuleCarries
<1> HIDE DEF write
<1>3. CarriesOthers(write)
  BY <1>1, <1>2, ReadsDiffer DEF CarriesOthers
<1> QED BY <1>3 DEF write

LEMMA SubmittedCarries ==
    ASSUME NEW edit
    PROVE  /\ CarriesOthers([does |-> "post", at |-> "another",
                             body |-> LaidOver(SelectedRule, edit),
                             names |-> edit.fields, theirs |-> {}])
           /\ CarriesOthers([does |-> "patch", at |-> "own",
                             body |-> LaidOver(SelectedRule, edit),
                             names |-> edit.fields,
                             theirs |-> TheirsIn(lbHeld["own"])])
  BY DEF CarriesOthers, LBIdentities, TheirsIn

LEMMA WritesStep ==
    ASSUME WritesInv, [LBNext]_lbvars
    PROVE  WritesInv'
<1> USE DEF WritesInv
<1>1. ASSUME NEW edit \in LBEdit, SubmitEdit(edit)
      PROVE  WritesInv'
  <2> DEFINE post == [does |-> "post", at |-> "another",
                      body |-> LaidOver(SelectedRule, edit),
                      names |-> edit.fields, theirs |-> {}]
             patch == [does |-> "patch", at |-> "own",
                       body |-> LaidOver(SelectedRule, edit),
                       names |-> edit.fields,
                       theirs |-> TheirsIn(lbHeld["own"])]
  <2>1. /\ UNCHANGED <<lbHeld, lbNext, lbLate>>
        /\ lbSent' = lbSent \/ lbSent' = post \/ lbSent' = patch
    BY <1>1, Zenon DEF SubmitEdit, LBSend
  <2>2. CarriesOthers(post) /\ CarriesOthers(patch)
    BY SubmittedCarries
  <2> HIDE DEF post, patch
  <2>3. CarriesOthers(lbSent')
    BY <2>1, <2>2
  <2> QED BY <2>1, <2>3 DEF CarriesOthers
<1>2. CASE PrepareReplace \/ PrepareReconcile \/ AnswerRebuild
  <2>1. UNCHANGED <<lbHeld, lbLate>>
    BY <1>2 DEF PrepareReplace, PrepareReconcile, AnswerRebuild
  <2>2. lbSent' \in {lbSent, lbNext, WholeRule("replace"), WholeRule("post"),
                     [WholeRule("post") EXCEPT !.does = "delete"]}
    BY <1>2 DEF PrepareReplace, PrepareReconcile, AnswerRebuild, LBSend, Tell
  <2>3. lbNext' \in {lbNext, NoWrite, WholeRule("replace"), WholeRule("post")}
    BY <1>2 DEF PrepareReplace, PrepareReconcile, AnswerRebuild, LBSend, Tell
  <2>4. CarriesOthers(lbSent') /\ CarriesOthers(lbNext')
    BY <2>2, <2>3, WholeRuleCarries, DeletingCarries, NothingIsCarried
  <2> QED BY <2>1, <2>4 DEF CarriesOthers
<1>3. CASE ServeWrite \/ WriteTimesOut
  <2>1. DOMAIN lbHeld' = LBIdentities
    BY <1>3 DEF ServeWrite, WriteTimesOut
  <2>2. lbLate' \in {lbLate, lbLate \cup {lbSent}}
    BY <1>3 DEF ServeWrite, WriteTimesOut
  <2>3. PICK answer : LBAnswered(answer)
    BY <1>3 DEF ServeWrite, WriteTimesOut
  <2>4. lbSent' \in {lbNext, NoWrite} /\ lbNext' \in {lbNext, NoWrite}
    BY <2>3 DEF LBAnswered
  <2>5. CarriesOthers(lbSent') /\ CarriesOthers(lbNext')
    BY <2>4, NothingIsCarried
  <2>6. \A write \in lbLate' : CarriesOthers(write)
    BY <2>2
  <2> QED BY <2>1, <2>5, <2>6 DEF CarriesOthers
<1>4. ASSUME NEW write \in lbLate,
             LateWriteArrives(write) \/ LateWriteIsLost(write)
      PROVE  WritesInv'
  BY <1>4 DEF LateWriteArrives, LateWriteIsLost, Land, LBHolds, CarriesOthers
<1>5. CASE OthersEdit
  <2>1. DOMAIN lbHeld' = LBIdentities
    BY <1>5 DEF OthersEdit, LBHolds
  <2> QED BY <1>5, <2>1 DEF OthersEdit, CarriesOthers
<1>6. CASE ReadTheRule \/ ConfirmWrite \/ ObserveRule \/ UNCHANGED lbvars
  BY <1>6 DEF ReadTheRule, ConfirmWrite, ObserveRule, lbvars, CarriesOthers
<1> QED BY <1>1, <1>2, <1>3, <1>4, <1>5, <1>6 DEF LBNext

(* A write that lands leaves what others had in place. *)
LEMMA LandingKeeps ==
    ASSUME NEW write, CarriesOthers(write), write # NoWrite, NEW old,
           NEW new \in Lands(write, old), new # NoRule,
           NEW f \in write.theirs \ write.names,
           old = NoRule \/ old[f] = "theirs"
    PROVE  new[f] = "theirs"
<1>1. f \in LBFields
  BY DEF CarriesOthers
<1>2. CASE write.does \in {"post", "replace"}
  <2>1. new = write.body
    BY <1>2 DEF Lands
  <2> QED BY <1>2, <2>1 DEF CarriesOthers
<1>3. CASE write.does = "patch"
  BY <1>1, <1>3 DEF Lands
<1>4. CASE write.does = "delete"
  BY <1>4 DEF Lands
<1> QED BY <1>2, <1>3, <1>4 DEF CarriesOthers

LEMMA WritesInvInit == LBInit => WritesInv
  BY NothingIsCarried DEF LBInit, WritesInv

(* A step that lands a rule at the place its write names.                  *)
LEMMA LandedKeeps ==
    ASSUME WritesInv, NEW write, CarriesOthers(write), write # NoWrite,
           NEW rule \in Lands(write, lbHeld[write.at]),
           lbHeld' = [lbHeld EXCEPT ![write.at] = rule]
    PROVE  TakesNothingBack(write)
<1>1. lbHeld'[write.at] = rule
  BY DEF WritesInv, CarriesOthers
<1>2. ASSUME rule # NoRule, NEW f \in write.theirs \ write.names,
             lbHeld[write.at] = NoRule \/ lbHeld[write.at][f] = "theirs"
      PROVE  rule[f] = "theirs"
  BY <1>2, LandingKeeps
<1> QED BY <1>1, <1>2 DEF TakesNothingBack

LEMMA StepTakesNothingBack ==
    ASSUME WritesInv, [LBNext]_lbvars,
           NEW write \in (lbLate \cup {lbSent}) \ {NoWrite}
    PROVE  TakesNothingBack(write)
<1>1. CarriesOthers(write) /\ write # NoWrite
  BY DEF WritesInv
<1>2. CASE lbHeld' = lbHeld
  BY <1>2 DEF TakesNothingBack
<1>3. CASE UNCHANGED lbLate /\ lbSent' = lbSent
  BY <1>3 DEF TakesNothingBack, LBLands
<1>4. CASE ServeWrite
  <2>1. lbLate' = lbLate
    BY <1>4 DEF ServeWrite
  <2>2. CASE write = lbSent
    <3>1. CASE \E rule \in Lands(lbSent, lbHeld[lbSent.at]) :
                  lbHeld' = [lbHeld EXCEPT ![lbSent.at] = rule]
      BY <1>1, <2>2, <3>1, LandedKeeps
    <3> QED BY <1>2, <1>4, <3>1 DEF ServeWrite
  <2>3. CASE write # lbSent
    BY <2>1, <2>3 DEF TakesNothingBack, LBLands
  <2> QED BY <2>2, <2>3
<1>5. ASSUME NEW late \in lbLate, LateWriteArrives(late)
      PROVE  TakesNothingBack(write)
  <2>1. lbSent' = lbSent /\ lbLate' = lbLate \ {late}
    BY <1>5 DEF LateWriteArrives
  <2>2. CASE write = late
    <3>1. PICK rule \in Lands(late, lbHeld[late.at]) :
             lbHeld' = [lbHeld EXCEPT ![late.at] = rule]
      BY <1>5 DEF LateWriteArrives, Land, LBHolds
    <3> QED BY <1>1, <2>2, <3>1, LandedKeeps
  <2>3. CASE write # late
    BY <2>1, <2>3 DEF TakesNothingBack, LBLands
  <2> QED BY <2>2, <2>3
<1>6. CASE OthersEdit
  BY <1>3, <1>6 DEF OthersEdit
<1>7. CASE \/ \E edit \in LBEdit : SubmitEdit(edit)
           \/ ReadTheRule \/ PrepareReplace \/ AnswerRebuild
           \/ PrepareReconcile \/ WriteTimesOut
           \/ \E late \in lbLate : LateWriteIsLost(late)
           \/ ConfirmWrite \/ ObserveRule \/ UNCHANGED lbvars
  <2>1. lbHeld' = lbHeld
    BY <1>7, Zenon
       DEF SubmitEdit, ReadTheRule, PrepareReplace, AnswerRebuild,
           PrepareReconcile, WriteTimesOut, LateWriteIsLost, ConfirmWrite,
           ObserveRule, lbvars
  <2> QED BY <1>2, <2>1
<1> QED BY <1>4, <1>5, <1>6, <1>7 DEF LBNext

(* Nothing that somebody else had changed by the time a write was put      *)
(* together is taken back by it, whenever it lands.                        *)
THEOREM OthersWorkIsKept == LBSpec => KeepsOthersWork
<1>1. LBInit => WritesInv
  BY WritesInvInit
<1>2. WritesInv /\ [LBNext]_lbvars => WritesInv'
  BY WritesStep
<1>3. WritesInv /\ [LBNext]_lbvars
      => [\A write \in (lbLate \cup {lbSent}) \ {NoWrite} :
            TakesNothingBack(write)]_lbvars
  BY StepTakesNothingBack
<1> QED BY <1>1, <1>2, <1>3, PTL DEF LBSpec, KeepsOthersWork
----------------------------------------------------------------------------
(* Types.  What is on its way is a write, and behind a delete there is the *)
(* create that follows it.                                                 *)
StatesTyped ==
    /\ lbServer \in [fullproxy : BOOLEAN, patches : BOOLEAN]
    /\ lbEdit \in LBEdit
    /\ lbPhase \in {"form", "reading", "asking", "sending", "confirming",
                    "observing", "closed"}
    /\ lbAnswer \in {"none", "confirmed", "conflict", "refused", "unknown"}
    /\ lbSaid \in {"nothing", "updated", "accepted", "already holds",
                   "no changes", "blocked", "plan refused", "not read before",
                   "missing", "failed", "does not hold",
                   "does not hold, unread", "reads holds",
                   "reads differs", "reads absent", "not read after"}
RulesTyped ==
    /\ lbHeld \in [LBIdentities -> LBRule \cup {NoRule}]
    /\ lbRead \in LBRule \cup {NoRule, NotRead, CannotRead}
    /\ lbSeen \subseteq {"absent", "holds", "differs"}
WritesTyped ==
    /\ {lbSent, lbNext, lbWritten} \subseteq LBWrite \cup {NoWrite}
    /\ lbLate \subseteq LBWrite
    /\ lbPhase = "sending" => lbSent \in LBWrite
    /\ lbPhase \in AfterSending => lbWritten \in LBWrite
    /\ lbPhase = "asking" \/ (lbPhase = "sending" /\ lbSent.does = "delete")
          => lbNext \in LBWrite /\ lbNext.does # "delete"
TimesTyped == lbSubmits \in 0..MaxLBSubmits /\ lbOthers \in 0..MaxLBOthers
LBTyped == StatesTyped /\ RulesTyped /\ WritesTyped /\ TimesTyped

LEMMA TypedImplies == LBTyped => LBTypeOK
  BY DEF LBTyped, StatesTyped, RulesTyped, WritesTyped, TimesTyped, LBTypeOK

LEMMA RulesAre ==
    /\ \A rule \in LBRule : DOMAIN rule = LBFields /\ \A f \in LBFields : rule[f] \in LBValues
    /\ NoRule \notin LBRule /\ NotRead \notin LBRule /\ CannotRead \notin LBRule
    /\ SelectedRule \in LBRule /\ TheirRule \in LBRule
    /\ \A rule \in LBRule, edit \in LBEdit : LaidOver(rule, edit) \in LBRule
    /\ \A rule : TheirsIn(rule) \in SUBSET LBFields
<1>1. LBRule = [LBFields -> LBValues]
  BY DEF LBRule
<1>2. DOMAIN NoRule = {} /\ DOMAIN NotRead = {"read"} /\ DOMAIN CannotRead = {"read"}
  BY DEF NoRule, NotRead, CannotRead
<1>3. LBFields # {} /\ LBFields # {"read"}
  BY DEF LBFields
<1>4. NoRule \notin LBRule /\ NotRead \notin LBRule /\ CannotRead \notin LBRule
  BY <1>1, <1>2, <1>3
<1>5. SelectedRule \in LBRule /\ TheirRule \in LBRule
  BY <1>1 DEF SelectedRule, TheirRule, LBValues
<1>6. \A rule \in LBRule, edit \in LBEdit : LaidOver(rule, edit) \in LBRule
  BY <1>1 DEF LaidOver, LBValues
<1>7. \A rule : TheirsIn(rule) \in SUBSET LBFields
  BY DEF TheirsIn
<1> QED BY <1>1, <1>4, <1>5, <1>6, <1>7

LEMMA WholeRuleIsWrite ==
    ASSUME LBTyped, lbRead # NotRead, lbRead # CannotRead
    PROVE  /\ \A does \in {"post", "replace"} : WholeRule(does) \in LBWrite
           /\ [WholeRule("post") EXCEPT !.does = "delete"] \in LBWrite
<1>1. BaseOf(lbRead, SelectedRule) \in LBRule
  BY RulesAre DEF LBTyped, RulesTyped, BaseOf
<1>2. /\ LaidOver(BaseOf(lbRead, SelectedRule), lbEdit) \in LBRule
      /\ TheirsIn(lbRead) \in SUBSET LBFields
      /\ lbEdit.fields \in SUBSET LBFields
  BY <1>1, RulesAre DEF LBTyped, StatesTyped, LBEdit
<1> QED BY <1>2 DEF WholeRule, LBWrite, LBIdentities

LEMMA LandsAreRules ==
    ASSUME NEW write \in LBWrite, NEW rule \in LBRule \cup {NoRule}
    PROVE  Lands(write, rule) \subseteq LBRule \cup {NoRule}
<1>1. write.body \in LBRule
  BY DEF LBWrite
<1>2. rule # NoRule =>
         [f \in LBFields |-> IF f \in write.names THEN write.body[f] ELSE rule[f]]
            \in LBRule
  BY <1>1 DEF LBRule
<1>3. write.does \in {"post", "replace", "patch", "delete"}
  BY DEF LBWrite
<1> QED BY <1>1, <1>2, <1>3 DEF Lands

(* The server holds something else. *)
LEMMA HoldingIsTyped ==
    ASSUME LBTyped, NEW held \in [LBIdentities -> LBRule \cup {NoRule}],
           LBHolds(held)
    PROVE  /\ lbHeld' \in [LBIdentities -> LBRule \cup {NoRule}]
           /\ lbSeen' \subseteq {"absent", "holds", "differs"}
  BY Sees DEF LBTyped, StatesTyped, RulesTyped, WritesTyped, TimesTyped, LBHolds

LEMMA SubmitIsTyped ==
    ASSUME LBTyped, NEW edit \in LBEdit, SubmitEdit(edit)
    PROVE  LBTyped'
<1> DEFINE post == [does |-> "post", at |-> "another",
                    body |-> LaidOver(SelectedRule, edit),
                    names |-> edit.fields, theirs |-> {}]
           patch == [does |-> "patch", at |-> "own",
                     body |-> LaidOver(SelectedRule, edit),
                     names |-> edit.fields, theirs |-> TheirsIn(lbHeld["own"])]
<1>1. post \in LBWrite /\ patch \in LBWrite
  <2>1. /\ LaidOver(SelectedRule, edit) \in LBRule
        /\ edit.fields \in SUBSET LBFields
        /\ TheirsIn(lbHeld["own"]) \in SUBSET LBFields
    BY RulesAre DEF LBEdit
  <2> QED BY <2>1 DEF LBWrite, LBIdentities
<1>2. post.does = "post" /\ patch.does = "patch"
  OBVIOUS
<1>3. /\ lbEdit' = edit /\ lbAnswer' = "none" /\ lbRead' = NotRead
      /\ lbSubmits < MaxLBSubmits /\ lbSubmits' = lbSubmits + 1
      /\ UNCHANGED <<lbServer, lbHeld, lbNext, lbLate, lbOthers>>
  BY DEF SubmitEdit
<1>4. \/ (LBSend(post) \/ LBSend(patch)) /\ lbSaid' = "nothing"
      \/ /\ UNCHANGED <<lbSent, lbWritten, lbSeen>>
         /\ \/ Tell("no changes", "closed") \/ Tell("blocked", "closed")
            \/ Tell("plan refused", "form") \/ Tell("nothing", "reading")
  BY Zenon DEF SubmitEdit
<1> HIDE DEF post, patch
<1>5. lbSubmits' \in 0..MaxLBSubmits
  <2>1. lbSubmits \in 0..MaxLBSubmits
    BY DEF LBTyped, StatesTyped, RulesTyped, WritesTyped, TimesTyped
  <2> QED BY <1>3, <2>1, LBAssumption
<1>6. CASE (LBSend(post) \/ LBSend(patch)) /\ lbSaid' = "nothing"
  <2>1. StatesTyped'
    BY <1>1, <1>2, <1>3, <1>5, <1>6 DEF LBSend, LBTyped, StatesTyped
  <2>2. RulesTyped'
    BY <1>1, <1>2, <1>3, <1>5, <1>6, Sees DEF LBSend, LBTyped, RulesTyped
  <2>3. WritesTyped'
    BY <1>1, <1>2, <1>3, <1>5, <1>6 DEF LBSend, LBTyped, WritesTyped, AfterSending
  <2>4. TimesTyped'
    BY <1>1, <1>2, <1>3, <1>5, <1>6 DEF LBSend, LBTyped, TimesTyped
  <2> QED BY <2>1, <2>2, <2>3, <2>4 DEF LBTyped
<1>7. CASE /\ UNCHANGED <<lbSent, lbWritten, lbSeen>>
           /\ \/ Tell("no changes", "closed") \/ Tell("blocked", "closed")
              \/ Tell("plan refused", "form") \/ Tell("nothing", "reading")
  <2>1. StatesTyped'
    BY <1>3, <1>5, <1>7 DEF Tell, LBTyped, StatesTyped
  <2>2. RulesTyped'
    BY <1>3, <1>5, <1>7 DEF Tell, LBTyped, RulesTyped
  <2>3. WritesTyped'
    BY <1>3, <1>5, <1>7 DEF Tell, LBTyped, WritesTyped, AfterSending
  <2>4. TimesTyped'
    BY <1>3, <1>5, <1>7 DEF Tell, LBTyped, TimesTyped
  <2> QED BY <2>1, <2>2, <2>3, <2>4 DEF LBTyped
<1> QED BY <1>4, <1>6, <1>7

LEMMA PreparingIsTyped ==
    ASSUME LBTyped, PrepareReplace \/ AnswerRebuild \/ PrepareReconcile
    PROVE  LBTyped'
<1>1. UNCHANGED <<lbServer, lbHeld, lbEdit, lbLate, lbAnswer, lbSubmits, lbOthers>>
  BY DEF PrepareReplace, AnswerRebuild, PrepareReconcile
<1>2. lbRead' \in {NotRead, lbRead}
  BY DEF PrepareReplace, AnswerRebuild, PrepareReconcile
<1>3. ASSUME NEW write \in LBWrite, LBSend(write),
             lbNext' \in {lbNext, NoWrite} \/ lbNext' \in LBWrite,
             write.does = "delete" => lbNext' \in LBWrite /\ lbNext'.does # "delete",
             lbSaid' = lbSaid
      PROVE  LBTyped'
  <2>1. StatesTyped'
    BY <1>1, <1>2, <1>3 DEF LBSend, LBTyped, StatesTyped
  <2>2. RulesTyped'
    BY <1>1, <1>2, <1>3, Sees DEF LBSend, LBTyped, RulesTyped
  <2>3. WritesTyped'
    BY <1>1, <1>2, <1>3 DEF LBSend, LBTyped, WritesTyped, AfterSending
  <2>4. TimesTyped'
    BY <1>1, <1>2, <1>3 DEF LBSend, LBTyped, TimesTyped
  <2> QED BY <2>1, <2>2, <2>3, <2>4 DEF LBTyped
<1>4. ASSUME lbPhase' \in {"form", "closed"}, UNCHANGED <<lbSent, lbWritten, lbSeen>>,
             lbNext' \in {lbNext, NoWrite},
             lbSaid' \in {lbSaid, "not read before", "missing"}
      PROVE  LBTyped'
  <2>1. StatesTyped'
    BY <1>1, <1>2, <1>4 DEF LBTyped, StatesTyped
  <2>2. RulesTyped'
    BY <1>1, <1>2, <1>4 DEF LBTyped, RulesTyped
  <2>3. WritesTyped'
    BY <1>1, <1>2, <1>4 DEF LBTyped, WritesTyped, AfterSending
  <2>4. TimesTyped'
    BY <1>1, <1>2, <1>4 DEF LBTyped, TimesTyped
  <2> QED BY <2>1, <2>2, <2>3, <2>4 DEF LBTyped
<1>5. CASE PrepareReplace
  <2>1. CASE lbRead = CannotRead \/ lbRead = NoRule
    <3>1. lbRead \notin LBRule
      BY <2>1, RulesAre
    <3> QED BY <1>4, <1>5, <3>1 DEF PrepareReplace, Tell
  <2>2. CASE lbRead \in LBRule
    <3>1. lbRead # NotRead /\ lbRead # CannotRead /\ lbRead # NoRule
      BY <2>2, RulesAre
    <3>2. WholeRule("replace") \in LBWrite /\ WholeRule("replace").does = "replace"
      BY <3>1, WholeRuleIsWrite, WholeRuleDoes
    <3>3. CASE lbPhase' = "asking" /\ lbNext' = WholeRule("replace")
               /\ UNCHANGED <<lbSent, lbWritten, lbSeen, lbSaid>>
      <4>1. StatesTyped'
        BY <1>1, <1>2, <3>2, <3>3 DEF LBTyped, StatesTyped
      <4>2. RulesTyped'
        BY <1>1, <1>2, <3>2, <3>3 DEF LBTyped, RulesTyped
      <4>3. WritesTyped'
        BY <1>1, <1>2, <3>2, <3>3 DEF LBTyped, WritesTyped, AfterSending
      <4>4. TimesTyped'
        BY <1>1, <1>2, <3>2, <3>3 DEF LBTyped, TimesTyped
      <4> QED BY <4>1, <4>2, <4>3, <4>4 DEF LBTyped
    <3>4. CASE LBSend(WholeRule("replace")) /\ UNCHANGED <<lbNext, lbSaid>>
      BY <1>3, <3>2, <3>4
    <3> QED BY <1>5, <3>1, <3>3, <3>4 DEF PrepareReplace
  <2> QED BY <1>5, <2>1, <2>2 DEF PrepareReplace
<1>6. CASE AnswerRebuild
  <2>1. /\ lbNext \in LBWrite /\ lbNext.does # "delete"
        /\ lbNext' = NoWrite /\ lbSaid' = lbSaid
    BY <1>6 DEF AnswerRebuild, LBTyped, WritesTyped
  <2> QED BY <1>3, <1>4, <1>6, <2>1 DEF AnswerRebuild
<1>7. CASE PrepareReconcile
  <2>1. CASE lbRead = CannotRead
    BY <1>4, <1>7, <2>1 DEF PrepareReconcile
  <2>2. CASE lbRead # CannotRead
    <3>1. /\ WholeRule("post") \in LBWrite /\ WholeRule("post").does = "post"
          /\ [WholeRule("post") EXCEPT !.does = "delete"] \in LBWrite
      BY <1>7, <2>2, WholeRuleIsWrite, WholeRuleDoes DEF PrepareReconcile
    <3>2. CASE LBSend(WholeRule("post")) /\ lbNext' = lbNext /\ lbSaid' = lbSaid
      BY <1>3, <3>1, <3>2
    <3>3. CASE /\ LBSend([WholeRule("post") EXCEPT !.does = "delete"])
               /\ lbNext' = WholeRule("post") /\ lbSaid' = lbSaid
      BY <1>3, <3>1, <3>3
    <3> QED BY <1>7, <2>2, <3>2, <3>3 DEF PrepareReconcile
  <2> QED BY <2>1, <2>2
<1> QED BY <1>5, <1>6, <1>7

LEMMA AnsweringIsTyped ==
    ASSUME LBTyped, lbPhase = "sending",
           NEW answer \in {"confirmed", "conflict", "refused", "unknown"},
           LBAnswered(answer),
           lbHeld' \in [LBIdentities -> LBRule \cup {NoRule}],
           lbLate' \in {lbLate, lbLate \cup {lbSent}}
    PROVE  LBTyped'
<1>1. /\ lbAnswer' = answer
      /\ UNCHANGED <<lbServer, lbEdit, lbRead, lbSubmits, lbOthers>>
  BY DEF LBAnswered
<1>2. lbSent \in LBWrite /\ lbWritten \in LBWrite /\ lbLate' \subseteq LBWrite
  BY DEF LBTyped, StatesTyped, RulesTyped, WritesTyped, TimesTyped, AfterSending
<1>3. CASE lbSent.does = "delete" /\ answer = "confirmed"
  <2>1. /\ lbPhase' = "sending" /\ lbSent' = lbNext /\ lbNext' = NoWrite
        /\ lbWritten' = lbNext /\ UNCHANGED lbSaid
        /\ lbSeen' = {LBSees(lbNext, lbHeld'[lbNext.at])}
    BY <1>3 DEF LBAnswered
  <2>2. lbNext \in LBWrite /\ lbNext.does # "delete"
    BY <1>3 DEF LBTyped, WritesTyped
  <2> QED
    <3>1. StatesTyped'
      BY <1>1, <1>2, <2>1, <2>2 DEF LBTyped, StatesTyped
    <3>2. RulesTyped'
      BY <1>1, <1>2, <2>1, <2>2, Sees DEF LBTyped, RulesTyped
    <3>3. WritesTyped'
      BY <1>1, <1>2, <2>1, <2>2 DEF LBTyped, WritesTyped, AfterSending
    <3>4. TimesTyped'
      BY <1>1, <1>2, <2>1, <2>2 DEF LBTyped, TimesTyped
    <3> QED BY <3>1, <3>2, <3>3, <3>4 DEF LBTyped
<1>4. CASE lbSent.does # "delete" \/ answer # "confirmed"
  <2>1. /\ lbSent' = NoWrite /\ lbNext' \in {NoWrite, lbNext}
        /\ UNCHANGED lbWritten
        /\ lbSeen' = lbSeen \cup {LBSees(lbWritten, lbHeld'[lbWritten.at])}
        /\ \/ lbPhase' \in {"confirming", "observing"} /\ UNCHANGED lbSaid
           \/ Tell("failed", "closed")
    BY <1>4 DEF LBAnswered
  <2>2. lbSeen' \subseteq {"absent", "holds", "differs"}
    BY <2>1, Sees DEF LBTyped, StatesTyped, RulesTyped, WritesTyped, TimesTyped
  <2> QED
    <3>1. StatesTyped'
      BY <1>1, <1>2, <2>1, <2>2 DEF Tell, LBTyped, StatesTyped
    <3>2. RulesTyped'
      BY <1>1, <1>2, <2>1, <2>2 DEF Tell, LBTyped, RulesTyped
    <3>3. WritesTyped'
      BY <1>1, <1>2, <2>1, <2>2 DEF Tell, LBTyped, WritesTyped, AfterSending
    <3>4. TimesTyped'
      BY <1>1, <1>2, <2>1, <2>2 DEF Tell, LBTyped, TimesTyped
    <3> QED BY <3>1, <3>2, <3>3, <3>4 DEF LBTyped
<1> QED BY <1>3, <1>4

LEMMA OthersAreTyped ==
    ASSUME LBTyped, OthersEdit
    PROVE  LBTyped'
<1>1. /\ lbOthers' \in 0..MaxLBOthers
      /\ UNCHANGED <<lbServer, lbPhase, lbEdit, lbSent, lbNext, lbLate, lbAnswer,
                     lbRead, lbSaid, lbWritten, lbSubmits>>
  <2>1. lbOthers \in 0..MaxLBOthers
    BY DEF LBTyped, StatesTyped, RulesTyped, WritesTyped, TimesTyped
  <2> QED BY <2>1, LBAssumption DEF OthersEdit
<1>2. lbHeld \in [LBIdentities -> LBRule \cup {NoRule}]
  BY DEF LBTyped, StatesTyped, RulesTyped, WritesTyped, TimesTyped
<1>3. \E held \in [LBIdentities -> LBRule \cup {NoRule}] : LBHolds(held)
  <2>1. ASSUME NEW f \in LBFields, NEW value \in LBValues, lbHeld["own"] # NoRule
        PROVE  [lbHeld EXCEPT !["own"][f] = value]
                  \in [LBIdentities -> LBRule \cup {NoRule}]
    <3>1. lbHeld["own"] \in LBRule
      BY <1>2, <2>1 DEF LBIdentities
    <3>2. [lbHeld["own"] EXCEPT ![f] = value] \in LBRule
      BY <3>1 DEF LBRule
    <3> QED BY <1>2, <3>2 DEF LBIdentities
  <2>2. [lbHeld EXCEPT !["own"] = NoRule] \in [LBIdentities -> LBRule \cup {NoRule}]
    BY <1>2
  <2>3. \A i \in LBIdentities : [lbHeld EXCEPT ![i] = TheirRule]
                                   \in [LBIdentities -> LBRule \cup {NoRule}]
    BY <1>2, RulesAre
  <2>4. lbEdit.fields \subseteq LBFields /\ {"mine", "theirs"} \subseteq LBValues
    BY DEF LBTyped, StatesTyped, RulesTyped, WritesTyped, TimesTyped, LBEdit, LBValues
  <2> QED BY <2>1, <2>2, <2>3, <2>4 DEF OthersEdit
<1> QED
  <2>1. StatesTyped'
    BY <1>1, <1>3, HoldingIsTyped DEF LBTyped, StatesTyped
  <2>2. RulesTyped'
    BY <1>1, <1>3, HoldingIsTyped DEF LBTyped, RulesTyped
  <2>3. WritesTyped'
    BY <1>1, <1>3, HoldingIsTyped DEF LBTyped, WritesTyped, AfterSending
  <2>4. TimesTyped'
    BY <1>1, <1>3, HoldingIsTyped DEF LBTyped, TimesTyped
  <2> QED BY <2>1, <2>2, <2>3, <2>4 DEF LBTyped

LEMMA LBTypedStep ==
    ASSUME LBTyped, [LBNext]_lbvars
    PROVE  LBTyped'
<1>1. lbHeld \in [LBIdentities -> LBRule \cup {NoRule}]
  BY DEF LBTyped, StatesTyped, RulesTyped, WritesTyped, TimesTyped
<1>2. ASSUME NEW edit \in LBEdit, SubmitEdit(edit)
      PROVE  LBTyped'
  BY <1>2, SubmitIsTyped
<1>3. CASE PrepareReplace \/ AnswerRebuild \/ PrepareReconcile
  BY <1>3, PreparingIsTyped
<1>4. CASE ReadTheRule
  <2>1. lbHeld[IF lbPhase = "reading" THEN "own" ELSE lbWritten.at]
           \in LBRule \cup {NoRule}
    BY <1>1, <1>4 DEF ReadTheRule, LBTyped, WritesTyped, AfterSending, LBWrite, LBIdentities
  <2> QED
    <3>1. StatesTyped'
      BY <1>4, <2>1 DEF ReadTheRule, LBTyped, StatesTyped
    <3>2. RulesTyped'
      BY <1>4, <2>1 DEF ReadTheRule, LBTyped, RulesTyped
    <3>3. WritesTyped'
      BY <1>4, <2>1 DEF ReadTheRule, LBTyped, WritesTyped, AfterSending
    <3>4. TimesTyped'
      BY <1>4, <2>1 DEF ReadTheRule, LBTyped, TimesTyped
    <3> QED BY <3>1, <3>2, <3>3, <3>4 DEF LBTyped
<1>5. CASE ServeWrite
  <2>1. lbPhase = "sending" /\ lbSent \in LBWrite /\ lbLate' = lbLate
    BY <1>5 DEF ServeWrite, LBTyped, WritesTyped
  <2>2. Lands(lbSent, lbHeld[lbSent.at]) \subseteq LBRule \cup {NoRule}
    BY <1>1, <2>1, LandsAreRules DEF LBWrite
  <2>3. PICK answer \in {"confirmed", "conflict", "refused"} :
           /\ LBAnswered(answer)
           /\ \/ lbHeld' = lbHeld
              \/ \E rule \in LBRule \cup {NoRule} :
                    lbHeld' = [lbHeld EXCEPT ![lbSent.at] = rule]
    BY <1>5, <2>2 DEF ServeWrite
  <2>4. lbHeld' \in [LBIdentities -> LBRule \cup {NoRule}]
    BY <1>1, <2>3
  <2> QED BY <2>1, <2>3, <2>4, AnsweringIsTyped
<1>6. CASE WriteTimesOut
  BY <1>1, <1>6, AnsweringIsTyped DEF WriteTimesOut
<1>7. ASSUME NEW write \in lbLate, LateWriteArrives(write)
      PROVE  LBTyped'
  <2>1. write \in LBWrite
    BY DEF LBTyped, StatesTyped, RulesTyped, WritesTyped, TimesTyped
  <2>2. Lands(write, lbHeld[write.at]) \subseteq LBRule \cup {NoRule}
    BY <1>1, <2>1, LandsAreRules DEF LBWrite
  <2>3. \E held \in [LBIdentities -> LBRule \cup {NoRule}] : LBHolds(held)
    BY <1>1, <1>7, <2>2 DEF LateWriteArrives, Land
  <2> QED
    <3>1. StatesTyped'
      BY <1>7, <2>3, HoldingIsTyped DEF LateWriteArrives, LBTyped, StatesTyped
    <3>2. RulesTyped'
      BY <1>7, <2>3, HoldingIsTyped DEF LateWriteArrives, LBTyped, RulesTyped
    <3>3. WritesTyped'
      BY <1>7, <2>3, HoldingIsTyped DEF LateWriteArrives, LBTyped, WritesTyped, AfterSending
    <3>4. TimesTyped'
      BY <1>7, <2>3, HoldingIsTyped DEF LateWriteArrives, LBTyped, TimesTyped
    <3> QED BY <3>1, <3>2, <3>3, <3>4 DEF LBTyped
<1>8. ASSUME NEW write \in lbLate, LateWriteIsLost(write)
      PROVE  LBTyped'
  <2>1. StatesTyped'
    BY <1>8 DEF LateWriteIsLost, LBTyped, StatesTyped
  <2>2. RulesTyped'
    BY <1>8 DEF LateWriteIsLost, LBTyped, RulesTyped
  <2>3. WritesTyped'
    BY <1>8 DEF LateWriteIsLost, LBTyped, WritesTyped, AfterSending
  <2>4. TimesTyped'
    BY <1>8 DEF LateWriteIsLost, LBTyped, TimesTyped
  <2> QED BY <2>1, <2>2, <2>3, <2>4 DEF LBTyped
<1>9. CASE ConfirmWrite \/ ObserveRule
  <2>1. /\ UNCHANGED <<lbServer, lbHeld, lbEdit, lbSent, lbNext, lbLate, lbAnswer,
                       lbSeen, lbWritten, lbSubmits, lbOthers>>
        /\ lbRead' = NotRead /\ lbPhase' \in {lbPhase, "form", "closed"}
        /\ lbPhase \in {"confirming", "observing"}
    BY <1>9 DEF ConfirmWrite, ObserveRule, Tell
  <2>2. LBSees(lbWritten, lbRead) \in {"absent", "holds", "differs"}
    BY Sees
  <2>3. Observed(lbWritten, lbRead) \in {"not read after", "reads absent",
                                         "reads holds", "reads differs"}
    BY <2>2 DEF Observed
  <2>4. \/ lbSaid' \in {lbSaid, "updated", "accepted", "already holds",
                       "does not hold", "does not hold, unread"}
        \/ lbSaid' = Observed(lbWritten, lbRead)
    BY <1>9 DEF ConfirmWrite, ObserveRule, Tell
  <2> QED
    <3>1. StatesTyped'
      BY <2>1, <2>3, <2>4 DEF LBTyped, StatesTyped
    <3>2. RulesTyped'
      BY <2>1, <2>3, <2>4 DEF LBTyped, RulesTyped
    <3>3. WritesTyped'
      BY <2>1, <2>3, <2>4 DEF LBTyped, WritesTyped, AfterSending
    <3>4. TimesTyped'
      BY <2>1, <2>3, <2>4 DEF LBTyped, TimesTyped
    <3> QED BY <3>1, <3>2, <3>3, <3>4 DEF LBTyped
<1>10. CASE OthersEdit
  BY <1>10, OthersAreTyped
<1>11. CASE UNCHANGED lbvars
  <2>1. StatesTyped'
    BY <1>11 DEF lbvars, LBTyped, StatesTyped
  <2>2. RulesTyped'
    BY <1>11 DEF lbvars, LBTyped, RulesTyped
  <2>3. WritesTyped'
    BY <1>11 DEF lbvars, LBTyped, WritesTyped, AfterSending
  <2>4. TimesTyped'
    BY <1>11 DEF lbvars, LBTyped, TimesTyped
  <2> QED BY <2>1, <2>2, <2>3, <2>4 DEF LBTyped
<1> QED BY <1>2, <1>3, <1>4, <1>5, <1>6, <1>7, <1>8, <1>9, <1>10, <1>11 DEF LBNext

(* The handler of a rule's edit is in one of the states its dialog knows,  *)
(* and what it sends, awaits or has lost the answer of is a write.         *)
THEOREM LBTypeCorrect == LBSpec => []LBTypeOK
<1>1. LBInit => LBTyped
  <2> SUFFICES ASSUME LBInit PROVE LBTyped
    OBVIOUS
  <2>1. lbHeld \in [LBIdentities -> LBRule \cup {NoRule}]
    BY RulesAre DEF LBInit
  <2>2. lbEdit \in LBEdit
    BY DEF LBInit, LBEdit, NoEdit
  <2> QED
    BY <2>1, <2>2, LBAssumption
       DEF LBInit, LBTyped, StatesTyped, RulesTyped, WritesTyped, TimesTyped,
           AfterSending
<1>2. LBTyped /\ [LBNext]_lbvars => LBTyped'
  BY LBTypedStep
<1>3. LBTyped => LBTypeOK
  BY TypedImplies
<1> QED BY <1>1, <1>2, <1>3, PTL DEF LBSpec
=============================================================================
