----------------------------- MODULE PartsProofs ----------------------------
(***************************************************************************)
(* The parts side by side, for every choice of parts and every bound.  A   *)
(* behaviour of the whole is, for the variables of each part, a behaviour  *)
(* of that part or one in which it rests: what is proved of a part alone   *)
(* is true of it there, the rules of its types first.                      *)
(***************************************************************************)
EXTENDS MCParts, AnswersProofs, OpenPageProofs, CounterRatesProofs,
        RecoveryProofs

allvars == <<part, pgvars, lbvars, rbvars, lpvars, rcvars, crvars, opvars,
             idvars, cfvars>>

(* The parts start as they do alone. *)
LEMMA PartsStart ==
    PartsInit => /\ PagesInit /\ LBInit /\ ReadBackInit /\ LogPagingInit
                 /\ RecoveryInit /\ CounterRatesInit /\ OpInit /\ IdleInit
                 /\ ConfirmationsInit
  BY Zenon DEF PartsInit

(* Where one part moves, every other one rests. *)
LEMMA PartsMove ==
    [PartsNext]_allvars =>
        /\ [PagesNext]_pgvars /\ [LBNext]_lbvars /\ [ReadBackNext]_rbvars
        /\ [LogPagingNext]_lpvars /\ [RecoveryNext]_rcvars
        /\ [CounterRatesNext]_crvars /\ [OpNext]_opvars /\ [IdleNext]_idvars
        /\ [ConfirmationsNext]_cfvars
  BY Zenon DEF PartsNext, allvars

LEMMA PartsBehave ==
    PartsSpec => /\ PagesSpec /\ LBSpec /\ ReadBackSpec /\ LogPagingSpec
                 /\ RecoverySpec /\ CounterRatesSpec /\ OpSpec /\ IdleSpec
                 /\ ConfirmationsSpec
  BY PartsStart, PartsMove, PTL
     DEF PartsSpec, allvars, PagesSpec, LBSpec, ReadBackSpec, LogPagingSpec,
         RecoverySpec, CounterRatesSpec, OpSpec, IdleSpec, ConfirmationsSpec

(* Every variable of every part is of its type, whichever part moves.      *)
THEOREM PartsTypeCorrect == PartsSpec => []PartsTypeOK
<1>1. /\ PagesTypeOK /\ LBTypeOK /\ ReadBackTypeOK /\ LogPagingTypeOK
      /\ RecoveryTypeOK /\ CounterRatesTypeOK /\ OpTypeOK /\ IdleTypeOK
      /\ ConfirmationsTyped
      => PartsTypeOK
  BY DEF PartsTypeOK, ConfirmationsTyped, ConfirmationsTypeOK
<1> QED
  BY <1>1, PartsBehave, PagesTypeCorrect, LBTypeCorrect, ReadBackTypeCorrect,
     LogIsTyped, RecoveryTypeCorrect, RatesAreTyped, OpTypeCorrect,
     IdleTypeCorrect, ConfirmationsAreTyped, PTL

(* Each promise of a part is kept beside the others: lists catch up with   *)
(* every confirmed change, and deletions take nothing along; settings are  *)
(* said to be what they read; a log is one stretch of its file; recovered  *)
(* keys stay quarantined; shown rates are traffic; what is refused is not  *)
(* done; reads confirm exactly; edits are reported as they were read (but  *)
(* for the report LBSaysWhatHeld leaves out).                              *)
THEOREM PartsKeepTheirPromises ==
    PartsSpec => [](/\ ListCatchesUp /\ NothingRidesAlong /\ SaysWhatItRead
                    /\ OneStretch /\ KeysQuarantined /\ RatesAreTraffic
                    /\ RefusedIsNotDone /\ ConfirmsExactly /\ LBSaysWhatHeld)
  BY PartsBehave, ListsCatchUp, DeletesTakeNothingAlong, ReadBackIsTrue,
     LogIsOneStretch, KeysAreQuarantined, ShownRatesAreTraffic,
     RefusalsAreReal, ReadsConfirmExactly, ReportsAreTrue, PTL

(* And no step of a part does what it may not, whichever part moves in     *)
(* between: an edit keeps what others changed; a recovery keeps the        *)
(* promise of RecoveredDatabases; a tab ends only the session it was       *)
(* loaded with, and not before the idle limit.                             *)
THEOREM PartsStepAsPromised ==
    PartsSpec => KeepsOthersWork /\ KeepsThePromise /\ IdleIsTimely
  BY PartsBehave, OthersWorkIsKept, RecoveryKeepsThePromise, IdleEndsOnTime, PTL
=============================================================================
