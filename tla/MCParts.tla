------------------------------- MODULE MCParts -----------------------------
(***************************************************************************)
(* The parts of the interface that share no state with one another, nor    *)
(* with the session: a behaviour is of one of them.  Since none reads what *)
(* another writes, moving one at a time explores each of them entirely.    *)
(***************************************************************************)
EXTENDS PageWrites, LBRuleEdit, ReadBack, LogPaging, RecoveryRestore,
        CounterRates, OpResults, IdleWatch, Confirmations, TLC

CONSTANTS Parts       \* those of a run

VARIABLE part         \* the one of this behaviour

\* A part that does not move stays in one state of its own.
PartsInit ==
    /\ part \in Parts
    /\ part = "pages" \/ pgPage = RoutePage
    /\ PagesInit
    /\ part = "lbrule" \/ lbServer = [fullproxy |-> FALSE, patches |-> TRUE]
    /\ LBInit
    /\ part = "readback" \/ rbForm = CertificatePem
    /\ ReadBackInit
    /\ part = "logs" \/ lpLines = [view \in LogViews |-> 0]
    /\ part = "logs" \/ lpKey = [view |-> CHOOSE view \in LogViews : TRUE,
                                 cursor |-> 0, token |-> 0, auto |-> FALSE]
    /\ LogPagingInit
    /\ part = "recovery" \/ rcDb = [db \in RecoveryDatabases |-> NoDatabase]
    /\ part = "recovery" \/ rcAt = [run \in RecoveryRuns |->
                                      CHOOSE db \in RecoveryDatabases : TRUE]
    /\ RecoveryInit
    /\ part = "rates" \/ crInst = CHOOSE i \in RateInstances : TRUE
    /\ CounterRatesInit
    /\ part = "results" \/ opKind = "read"
    /\ OpInit
    /\ IdleInit
    /\ part = "confirm" \/ cfFamily = "gone"
    /\ part = "confirm" \/ cfTargets = Rows
    /\ part = "confirm" \/ cfRows = [row \in Rows |-> NoRow]
    /\ ConfirmationsInit

PartsNext ==
    \/ /\ part = "pages" /\ PagesNext
       /\ UNCHANGED <<part, lbvars, rbvars, lpvars, rcvars, crvars, opvars, idvars, cfvars>>
    \/ /\ part = "lbrule" /\ LBNext
       /\ UNCHANGED <<part, pgvars, rbvars, lpvars, rcvars, crvars, opvars, idvars, cfvars>>
    \/ /\ part = "readback" /\ ReadBackNext
       /\ UNCHANGED <<part, pgvars, lbvars, lpvars, rcvars, crvars, opvars, idvars, cfvars>>
    \/ /\ part = "logs" /\ LogPagingNext
       /\ UNCHANGED <<part, pgvars, lbvars, rbvars, rcvars, crvars, opvars, idvars, cfvars>>
    \/ /\ part = "recovery" /\ RecoveryNext
       /\ UNCHANGED <<part, pgvars, lbvars, rbvars, lpvars, crvars, opvars, idvars, cfvars>>
    \/ /\ part = "rates" /\ CounterRatesNext
       /\ UNCHANGED <<part, pgvars, lbvars, rbvars, lpvars, rcvars, opvars, idvars, cfvars>>
    \/ /\ part = "results" /\ OpNext
       /\ UNCHANGED <<part, pgvars, lbvars, rbvars, lpvars, rcvars, crvars, idvars, cfvars>>
    \/ /\ part = "idle" /\ IdleNext
       /\ UNCHANGED <<part, pgvars, lbvars, rbvars, lpvars, rcvars, crvars, opvars, cfvars>>
    \/ /\ part = "confirm" /\ ConfirmationsNext
       /\ UNCHANGED <<part, pgvars, lbvars, rbvars, lpvars, rcvars, crvars, opvars, idvars>>

PartsSpec ==
    PartsInit /\ [][PartsNext]_<<part, pgvars, lbvars, rbvars, lpvars, rcvars,
                                 crvars, opvars, idvars, cfvars>>

(* Every variable of the part that moves is of its type. *)
PartsTypeOK ==
    /\ PagesTypeOK /\ LBTypeOK /\ ReadBackTypeOK /\ LogPagingTypeOK
    /\ RecoveryTypeOK /\ CounterRatesTypeOK /\ OpTypeOK /\ IdleTypeOK
    /\ ConfirmationsTypeOK

(* What is interchangeable: no definition names one of these values, but   *)
(* to leave a part that does not move in one state.                        *)
PartsSymmetry ==
    Permutations(PageRows) \cup Permutations(LogViews)
=============================================================================
