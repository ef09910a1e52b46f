---------------------------- MODULE Confirmations --------------------------
(***************************************************************************)
(* "Did my write land?" (confirmPredicates, lbRuleApplied): what a write   *)
(* asked is compared with what a read brings back.  The gateway stores and *)
(* serves a field in its own way: a zero may be left out, a default stands *)
(* in for it, an unspecified field is cleared, kept or filled in, and each *)
(* endpoint differs in which.  A family is a kind of write; its fields are *)
(* one for each way in which a field of its body is stored and compared.   *)
(*                                                                         *)
(* The values of a field are 0 (zero, false, empty), 1 and 2; Nothing is a *)
(* field left out, of a body or of what is read.                           *)
(***************************************************************************)
EXTENDS Naturals, FiniteSets

CONSTANT MaxAskedFields     \* bound: fields of a body told apart at a time

ASSUME ConfirmationsAssumption == MaxAskedFields \in Nat

Nothing == 3

(* How fields are stored and compared.                                     *)
(*   whole      left out means zero; always compared                       *)
(*   folded     left out or zero means the default, 2; always compared     *)
(*   switch     left out means on, 1; always compared                      *)
(*   sent       left out is not part of the write, nor compared            *)
(*   sentSwitch sent, and read as on when left out                         *)
(*   sentFolded sent, with a default                                       *)
(*   fullproxy  sentFolded, and served by a rule in fullproxy mode only    *)
(*   nonzero    sent, and the gateway puts its default in place of a zero  *)
(*   spelled    sent; 2 is another spelling of 1, and is stored as 1       *)
(*   patchOnly  sent, but not stored by a POST                             *)
(*   skip       served in no way that was verified                         *)
RuleFields ==
    [mode |-> "sent", fc_mode |-> "sentFolded", half_close_mode |-> "fullproxy",
     inactiveTimeOut |-> "nonzero", fc_band_weights |-> "spelled",
     adminStateUp |-> "patchOnly", kvBlockSize |-> "skip",
     endpoints |-> "sent"]
TenantFields    == [rps |-> "whole", model_limit |-> "sent", priority_class |-> "sent"]
UserFields      == [rps |-> "whole", model_limits |-> "whole"]
DefaultsFields  == [default_user_rps |-> "whole", vip_shared_tpm |-> "whole"]
ApiKeyFields    == [rate_limit_rps |-> "whole", enabled |-> "switch",
                    expires_at |-> "folded"]
PatchFields     == [rate_limit_rps |-> "sent", enabled |-> "sentSwitch"]
ProfileFields   == [audiences |-> "whole", leeway_sec |-> "folded"]
ObjectiveFields == [priority |-> "whole", services |-> "whole"]

(* Of a listing only the identity is looked at, and so it is of a delete.  *)
FieldsOf ==
    [rulePost |-> RuleFields, rulePatch |-> RuleFields,
     tenant |-> TenantFields, user |-> UserFields, defaults |-> DefaultsFields,
     apiKey |-> ApiKeyFields, apiKeyPatch |-> PatchFields,
     jwtProfile |-> ProfileFields, objective |-> ObjectiveFields,
     listed |-> <<>>, gone |-> <<>>]
Families == DOMAIN FieldsOf

KindOf(family, f) == FieldsOf[family][f]
Asserted == {"whole", "folded", "switch"}
HasDefault == {"folded", "sentFolded", "fullproxy", "nonzero"}

AskedValues(kind) == IF kind \in {"switch", "sentSwitch", "patchOnly"} THEN 0..1 ELSE 0..2
HeldValues(kind) ==
    CASE kind \in HasDefault -> 1..2
      [] kind \in {"switch", "sentSwitch", "patchOnly", "spelled"} -> 0..1
      [] OTHER -> 0..2

\* Two rows that share a listener; `peer` has a host as well, `plain` none.
Rows  == {"plain", "peer"}
NoRow == [none |-> 3]

VARIABLES
    cfFamily,    \* the write
    cfFields,    \* fields told apart
    cfTargets,   \* the rows it is about
    cfBody,      \* the body sent
    cfRows,      \* what the gateway holds
    cfSaid       \* what was made of the last read since anything changed
cfvars == <<cfFamily, cfFields, cfTargets, cfBody, cfRows, cfSaid>>

ValueRows == {row \in [cfFields -> 0..2] :
                \A f \in cfFields : row[f] \in HeldValues(KindOf(cfFamily, f))}

----------------------------------------------------------------------------
(* The gateway *)

DefaultOf(kind) ==
    CASE kind \in HasDefault -> 2
      [] kind \in {"switch", "sentSwitch"} -> 1
      [] OTHER -> 0

(* What a write leaves in a field that held `held`.  A POST of a rule may  *)
(* keep or clear what it leaves out.                                       *)
Stores(family, kind, asked, held) ==
    CASE asked = Nothing /\ kind \in Asserted -> {DefaultOf(kind)}
      [] asked = Nothing /\ kind \notin Asserted ->
            {held} \cup (IF family = "rulePost" THEN {DefaultOf(kind)} ELSE {})
      [] asked # Nothing /\ kind = "patchOnly" /\ family = "rulePost" -> {held}
      [] asked = 0 /\ kind \in HasDefault -> {2}
      [] asked = 2 /\ kind = "spelled" -> {1}
      [] OTHER -> {asked}

IsFullproxy(row) == "mode" \in DOMAIN row /\ row["mode"] = 1

(* How a field may be served: what stands for nothing may be left out.     *)
Serves(kind, row, held) ==
    CASE kind = "fullproxy" /\ ~IsFullproxy(row) -> {Nothing}
      [] kind = "skip" -> 0..3
      [] kind = "nonzero" -> {held}
      [] OTHER -> {held} \cup (IF held = DefaultOf(kind) THEN {Nothing} ELSE {})
                   \cup (IF kind \in HasDefault /\ held = 2 THEN {0} ELSE {})

----------------------------------------------------------------------------
(* The predicates *)

RawCount(x) == x                                   \* mutant: as it is written
Count(x) == IF x = Nothing THEN 0 ELSE x           \* zero and absent are equal
Settled(x) == IF x \in {0, Nothing} THEN 2 ELSE x  \* absentAs, the documented default
On(x) == IF x = Nothing THEN 1 ELSE x              \* `enabled` that is not false
Canonical(x) == IF x = 2 THEN 1 ELSE Count(x)      \* canonicalBandTriple

(* One field.  `fullproxy` is the mode asked for, or else the mode read. *)
SameField(family, kind, asked, served, fullproxy) ==
    CASE kind = "whole"  -> Count(asked) = Count(served)
      [] kind = "folded" -> Settled(asked) = Settled(served)
      [] kind = "switch" -> On(asked) = On(served)
      [] OTHER ->
           \/ asked = Nothing \/ kind = "skip"
           \/ kind = "sent" /\ Count(asked) = Count(served)
           \/ kind = "sentSwitch" /\ asked = On(served)
           \/ kind = "sentFolded" /\ Settled(asked) = Settled(served)
           \/ kind = "fullproxy" /\ (fullproxy => Settled(asked) = Settled(served))
           \/ kind = "nonzero" /\ (asked = 0 \/ asked = served)
           \/ kind = "spelled" /\ Canonical(asked) = Canonical(served)
           \/ kind = "patchOnly"
                /\ (family = "rulePatch" => Count(asked) = Count(served))

AsksForFullproxy(body, served) ==
    "mode" \in DOMAIN body
    /\ (IF body["mode"] = Nothing THEN served["mode"] ELSE body["mode"]) = 1

SameValues(family, body, served) ==
    \A f \in DOMAIN body :
       SameField(family, KindOf(family, f), body[f], served[f],
                 AsksForFullproxy(body, served))

(* Which row is looked at: the one that was named.  A rule or an endpoint  *)
(* that is only looked for in the list is known by its discriminators, and *)
(* by none of them if none was sent.                                       *)
SharesTheListener(family, target, row) == TRUE     \* mutant: by the listener alone
IsTheRow(family, target, row) ==
    row = target \/ (family = "listed" /\ target = "plain")

Confirms(family, targets, body, read) ==
    IF family = "gone" THEN \A target \in targets : read[target] = NoRow
    ELSE \A target \in targets : \E row \in Rows :
           /\ IsTheRow(family, target, row)
           /\ read[row] # NoRow
           /\ SameValues(family, body, read[row])

----------------------------------------------------------------------------
\* The id of an API key is made up by its create: it names no row before.
IsIssuedByTheGateway == cfFamily = "apiKey"

ConfirmationsInit ==
    /\ cfFamily \in Families
    /\ cfFields \in {fields \in SUBSET DOMAIN FieldsOf[cfFamily] :
                       /\ Cardinality(fields) <= MaxAskedFields
                       /\ "half_close_mode" \in fields => "mode" \in fields}
    /\ cfTargets \in IF cfFamily = "gone" THEN (SUBSET Rows) \ {{}}
                     ELSE {{row} : row \in Rows}
    /\ cfBody \in {body \in [cfFields -> 0..3] : \A f \in cfFields :
                     body[f] \in AskedValues(KindOf(cfFamily, f)) \cup {Nothing}}
    /\ cfRows \in [Rows -> {NoRow, [f \in cfFields |-> 1]}]
    /\ IsIssuedByTheGateway => \A target \in cfTargets : cfRows[target] = NoRow
    /\ cfSaid = "nothing"

(* The write is carried out: late, or once more, or not at all.  A patch   *)
(* finds its row or fails.                                                 *)
WriteLands ==
    \E target \in cfTargets :
       LET held(f) == IF cfRows[target] = NoRow
                      THEN DefaultOf(KindOf(cfFamily, f)) ELSE cfRows[target][f]
       IN /\ cfFamily \in {"rulePatch", "apiKeyPatch"} => cfRows[target] # NoRow
          /\ IsIssuedByTheGateway => cfRows[target] = NoRow
          /\ IF cfFamily = "gone"
             THEN cfRows' = [cfRows EXCEPT ![target] = NoRow]
             ELSE \E row \in ValueRows :
                    /\ \A f \in cfFields :
                         row[f] \in Stores(cfFamily, KindOf(cfFamily, f),
                                           cfBody[f], held(f))
                    /\ cfRows' = [cfRows EXCEPT ![target] = row]
          /\ cfSaid' = "nothing"
          /\ UNCHANGED <<cfFamily, cfFields, cfTargets, cfBody>>

(* Somebody else changes the row, or one like it. *)
SomebodyChanges(row) ==
    /\ \/ cfRows' = [cfRows EXCEPT ![row] = NoRow]
       \/ row \in cfTargets /\ (IsIssuedByTheGateway => cfRows[row] # NoRow)
          /\ \E values \in ValueRows : cfRows' = [cfRows EXCEPT ![row] = values]
       \/ row \notin cfTargets
          /\ cfRows' = [cfRows EXCEPT ![row] = [f \in cfFields |-> 1]]
    /\ cfSaid' = "nothing"
    /\ UNCHANGED <<cfFamily, cfFields, cfTargets, cfBody>>

Served(row) ==
    IF row = NoRow THEN {NoRow}
    ELSE {served \in [cfFields -> 0..3] : \A f \in cfFields :
            served[f] \in Serves(KindOf(cfFamily, f), row, row[f])}

ReadsBackRows ==
    /\ \E plain \in Served(cfRows["plain"]), peer \in Served(cfRows["peer"]) :
         cfSaid' = IF Confirms(cfFamily, cfTargets, cfBody,
                               [row \in Rows |-> IF row = "plain" THEN plain ELSE peer])
                   THEN "confirmed" ELSE "unconfirmed"
    /\ UNCHANGED <<cfFamily, cfFields, cfTargets, cfBody, cfRows>>

ConfirmationsNext ==
    \/ WriteLands \/ ReadsBackRows
    \/ \E row \in Rows : SomebodyChanges(row)

ConfirmationsSpec == ConfirmationsInit /\ [][ConfirmationsNext]_cfvars

ConfirmationsTypeOK ==
    /\ cfFamily \in Families /\ cfFields \subseteq DOMAIN FieldsOf[cfFamily]
    /\ cfTargets \in (SUBSET Rows) \ {{}}
    /\ cfBody \in [cfFields -> 0..3]
    /\ cfRows \in [Rows -> ValueRows \cup {NoRow}]
    /\ cfSaid \in {"nothing", "confirmed", "unconfirmed"}

----------------------------------------------------------------------------
(* The write is in effect if carrying it out again would change nothing;   *)
(* of what the gateway does not read back nothing can be known.            *)
Unreadable(f, row) ==
    LET kind == KindOf(cfFamily, f)
    IN \/ kind = "skip"
       \/ kind = "nonzero" /\ cfBody[f] = 0
       \/ kind = "fullproxy" /\ ~IsFullproxy(row)

InEffect(target) ==
    IF cfFamily = "gone" THEN cfRows[target] = NoRow
    ELSE /\ cfRows[target] # NoRow
         /\ \A f \in cfFields :
              \/ Unreadable(f, cfRows[target])
              \/ cfRows[target][f] \in Stores(cfFamily, KindOf(cfFamily, f),
                                              cfBody[f], cfRows[target][f])

(* A read confirms a write if and only if the gateway holds what was asked *)
(* at that moment: neither does a row like it, or what the row held before *)
(* or what somebody else has made of it, confirm a write that is not in    *)
(* effect, nor does the way in which the gateway writes a value down hide  *)
(* one that is.  (A row that is only listed is confirmed by one with more  *)
(* discriminators than were sent.)                                         *)
ConfirmsExactly ==
    LET inEffect == \A target \in cfTargets : InEffect(target)
    IN /\ cfSaid = "unconfirmed" => ~inEffect
       /\ cfSaid = "confirmed" =>
            inEffect \/ (cfFamily = "listed" /\ cfTargets = {"plain"})
=============================================================================
