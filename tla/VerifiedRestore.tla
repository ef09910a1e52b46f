--------------------------- MODULE VerifiedRestore ---------------------------
(***************************************************************************)
(* What the restore wizard promises, apart from how it keeps it: an        *)
(* instance's configuration is replaced only in domains that a dry-run of  *)
(* the same run has passed, and at most once per run.  What other          *)
(* operators change is theirs.                                             *)
(***************************************************************************)
EXTENDS Naturals

CONSTANTS Domains, Values, Runs, Snapshots

VARIABLES
    config,    \* the instance: the value of every configuration domain
    passed,    \* dry-runs the gateway has passed
    used       \* runs whose restore was carried out

Passes == [run : Runs, snap : Snapshots, domains : SUBSET Domains]

Init ==
    /\ config \in [Domains -> Values]
    /\ passed = {}
    /\ used = {}

DryRun(p) ==
    /\ passed' = passed \union {p}
    /\ UNCHANGED <<config, used>>

(* All of p's domains are replaced, or some, or none: a restore may fail.  *)
Restore(p, new) ==
    /\ p \in passed
    /\ p.run \notin used
    /\ used' = used \union {p.run}
    /\ config' = [d \in Domains |-> IF d \in p.domains THEN new[d]
                                                       ELSE config[d]]
    /\ UNCHANGED passed

Edit(d, v) ==
    /\ config' = [config EXCEPT ![d] = v]
    /\ UNCHANGED <<passed, used>>

Next ==
    \/ \E p \in Passes : DryRun(p)
    \/ \E p \in passed, new \in [Domains -> Values] : Restore(p, new)
    \/ \E d \in Domains, v \in Values : Edit(d, v)

Spec == Init /\ [][Next]_<<config, passed, used>>
=============================================================================
