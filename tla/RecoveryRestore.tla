--------------------------- MODULE RecoveryRestore -------------------------
(***************************************************************************)
(* restore of scripts/recovery/snapshot_db_package.py: an authentication   *)
(* database is restored from an encrypted package into a new, isolated     *)
(* database, one external command after another, with nothing undone when  *)
(* one fails.  A command is given 180 s; when that has passed, the tool    *)
(* ends, and the command may still be running in the container.  Runs of   *)
(* several operators meet, and a custodian looks after the databases.      *)
(***************************************************************************)
EXTENDS Naturals

CONSTANTS
    RecoveryRuns,     \* runs of the tool
    RecoveryNames     \* recovery_ names of databases

ASSUME RecoveryAssumption == RecoveryRuns \cap {"nobody", "custodian"} = {}

Clusters == {"source", "new"}
RecoveryDatabases == Clusters \X RecoveryNames

(* The commands a run sends, in the order it sends them. *)
LoadsBeforeRevoking ==     \* mutant: the data first, the door afterwards
    [checking |-> "counting", counting |-> "creating", creating |-> "loading",
     loading |-> "revoking", revoking |-> "disabling", disabling |-> "verifying",
     verifying |-> "reported"]
CommandAfter ==
    [checking |-> "counting", counting |-> "creating", creating |-> "revoking",
     revoking |-> "loading", loading |-> "disabling", disabling |-> "verifying",
     verifying |-> "reported"]
RecoverySteps == DOMAIN CommandAfter \cup {"reported", "failed"}

NoDatabase == [by |-> "nobody", public |-> FALSE, keys |-> "none"]
Custodians == [by |-> "custodian", public |-> TRUE, keys |-> "enabled"]
RecoveryDatabase ==
    [by : RecoveryRuns \cup {"nobody", "custodian"}, public : BOOLEAN,
     keys : {"none", "enabled", "disabled"}]

VARIABLES
    rcDb,       \* the databases
    rcAt,       \* where a run restores: a cluster and a name
    rcStep,     \* the command a run is at
    rcRunning   \* commands that run on although their tool has ended
rcvars == <<rcDb, rcAt, rcStep, rcRunning>>

RecoveryTypeOK ==
    /\ rcDb \in [RecoveryDatabases -> RecoveryDatabase]
    /\ rcAt \in [RecoveryRuns -> RecoveryDatabases]
    /\ rcStep \in [RecoveryRuns -> RecoverySteps]
    /\ rcRunning \subseteq RecoveryRuns \X DOMAIN CommandAfter

RecoveryInit ==
    /\ rcDb \in [RecoveryDatabases -> {NoDatabase, Custodians}]
    /\ rcAt \in [RecoveryRuns -> RecoveryDatabases]
    /\ rcStep = [r \in RecoveryRuns |-> "checking"]
    /\ rcRunning = {}

----------------------------------------------------------------------------
(* What a command asks of the database, and what it leaves.  CREATE        *)
(* DATABASE has no IF NOT EXISTS; pg_restore is one transaction and meets  *)
(* an empty database or fails.                                             *)
CreateIfNotExists(db) == TRUE      \* mutant: a database that is there will do
CreateGuard(db) == db.by = "nobody"

Accepted(command, at) ==
    LET db == rcDb[at] IN
    CASE command = "checking" -> at[1] # "source"
      [] command = "counting" -> db.by = "nobody"
      [] command = "creating" -> CreateGuard(db)
      [] command = "revoking" -> db.by # "nobody"
      [] command = "loading"  -> db.by # "nobody" /\ db.keys = "none"
      [] command \in {"disabling", "verifying"} ->
            db.by # "nobody" /\ db.keys # "none"

Done(command, r, db) ==
    CASE command = "creating"  ->
            IF db.by = "nobody"
            THEN [by |-> r, public |-> TRUE, keys |-> "none"] ELSE db
      [] command = "revoking"  -> [db EXCEPT !.public = FALSE]
      [] command = "loading"   -> [db EXCEPT !.keys = "enabled"]
      [] command = "disabling" -> [db EXCEPT !.keys = "disabled"]
      [] command \in {"checking", "counting", "verifying"} -> db

Carry(command, r) ==
    rcDb' = [rcDb EXCEPT ![rcAt[r]] = Done(command, r, @)]

(* The next command of a run: it is carried out, or fails; or its time is  *)
(* up while it may still be running.  Verification also looks for a live   *)
(* key.                                                                    *)
RunCommand(r) ==
    /\ rcStep[r] \in DOMAIN CommandAfter
    /\ Accepted(rcStep[r], rcAt[r])
    /\ Carry(rcStep[r], r)
    /\ rcStep' = [rcStep EXCEPT ![r] =
                    IF @ = "verifying" /\ rcDb[rcAt[r]].keys = "enabled"
                    THEN "failed" ELSE CommandAfter[@]]
    /\ UNCHANGED <<rcAt, rcRunning>>

CommandFails(r) ==
    /\ rcStep[r] \in DOMAIN CommandAfter
    /\ rcStep' = [rcStep EXCEPT ![r] = "failed"]
    /\ UNCHANGED <<rcDb, rcAt, rcRunning>>

CommandTimesOut(r) ==
    /\ rcStep[r] \in DOMAIN CommandAfter \ {"checking"}
    /\ rcRunning' = rcRunning \cup {<<r, rcStep[r]>>}
    /\ rcStep' = [rcStep EXCEPT ![r] = "failed"]
    /\ UNCHANGED <<rcDb, rcAt>>

RunningCommandEnds(r, command) ==
    /\ <<r, command>> \in rcRunning
    /\ rcRunning' = rcRunning \ {<<r, command>>}
    /\ \/ Accepted(command, rcAt[r]) /\ Carry(command, r)
       \/ UNCHANGED rcDb
    /\ UNCHANGED <<rcAt, rcStep>>

(* A custodian makes a database, removes one of theirs, or removes what a  *)
(* run left that has ended and has no command in it.                       *)
CustodianActs(at) ==
    /\ \/ rcDb[at].by = "nobody" /\ rcDb' = [rcDb EXCEPT ![at] = Custodians]
       \/ rcDb[at].by = "custodian" /\ rcDb' = [rcDb EXCEPT ![at] = NoDatabase]
       \/ /\ \E r \in RecoveryRuns :
               /\ rcDb[at].by = r /\ rcStep[r] \in {"reported", "failed"}
               /\ \A c \in DOMAIN CommandAfter : <<r, c>> \notin rcRunning
          /\ rcDb' = [rcDb EXCEPT ![at] = NoDatabase]
    /\ UNCHANGED <<rcAt, rcStep, rcRunning>>

RecoveryNext ==
    \/ \E r \in RecoveryRuns :
         \/ RunCommand(r) \/ CommandFails(r) \/ CommandTimesOut(r)
         \/ \E c \in DOMAIN CommandAfter : RunningCommandEnds(r, c)
    \/ \E at \in RecoveryDatabases : CustodianActs(at)

RecoverySpec == RecoveryInit /\ [][RecoveryNext]_rcvars

----------------------------------------------------------------------------
(* In a database a run has made, live API keys are never open to the       *)
(* public, not even for the moment between loading and disabling them or   *)
(* after a failure; and once the run has reported there are none.          *)
KeysQuarantined ==
    \A at \in RecoveryDatabases : rcDb[at].by \in RecoveryRuns =>
       /\ rcDb[at].keys = "enabled" => ~rcDb[at].public
       /\ rcStep[rcDb[at].by] = "reported" => rcDb[at].keys = "disabled"

(* The refinement: a run's database is kept, and recovered once reported.  *)
Standing(db, steps) ==
    CASE db.by = "nobody" -> "absent"
      [] db.by = "custodian" -> "theirs"
      [] db.by \in RecoveryRuns /\ db.keys = "enabled"
         /\ (db.public \/ steps[db.by] = "reported") -> "exposed"
      [] OTHER -> IF steps[db.by] = "reported" THEN "recovered" ELSE "kept"
Content(db) == IF db = Custodians THEN "theirs" ELSE "nothing"

Standings == [at \in RecoveryDatabases |-> Standing(rcDb[at], rcStep)]
Contents == [at \in RecoveryDatabases |-> Content(rcDb[at])]

Promise == INSTANCE RecoveredDatabases WITH
    Source <- {"source"} \X RecoveryNames,
    Elsewhere <- {"new"} \X RecoveryNames,
    standing <- Standings, content <- Contents

(* Runs that meet, commands that outlive their run and failures at every   *)
(* step keep the promise: no database of anybody else is touched, none on  *)
(* the source cluster, and none counts as recovered with a live key.       *)
KeepsThePromise == Promise!Spec
=============================================================================
