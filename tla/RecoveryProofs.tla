---------------------------- MODULE RecoveryProofs --------------------------
(***************************************************************************)
(* Restoring an authentication database, for any number of runs and names: *)
(* live API keys are quarantined at every moment, whichever command fails  *)
(* or outlives its run.                                                    *)
(***************************************************************************)
EXTENDS RecoveryRestore, TLAPS

Commands == {"checking", "counting", "creating", "revoking", "loading",
             "disabling", "verifying"}

LEMMA CommandsAre ==
    /\ DOMAIN CommandAfter = Commands
    /\ RecoverySteps = Commands \cup {"reported", "failed"}
  BY DEF CommandAfter, RecoverySteps, Commands

LEMMA NextCommands ==
    /\ CommandAfter["checking"] = "counting"
    /\ CommandAfter["counting"] = "creating"
    /\ CommandAfter["creating"] = "revoking"
    /\ CommandAfter["revoking"] = "loading"
    /\ CommandAfter["loading"] = "disabling"
    /\ CommandAfter["disabling"] = "verifying"
    /\ CommandAfter["verifying"] = "reported"
  BY DEF CommandAfter

LEMMA StepsFollow ==
    ASSUME NEW c \in Commands
    PROVE  CommandAfter[c] \in RecoverySteps
  BY NextCommands DEF Commands, CommandsAre, CommandAfter, RecoverySteps

(* What a command leaves, case by case. *)
LEMMA CommandsDo ==
    ASSUME NEW r, NEW db
    PROVE  /\ \A c \in {"checking", "counting", "verifying"} :
                 Done(c, r, db) = db
           /\ db.by = "nobody" =>
                 Done("creating", r, db) =
                    [by |-> r, public |-> TRUE, keys |-> "none"]
           /\ Done("revoking", r, db) = [db EXCEPT !.public = FALSE]
           /\ Done("loading", r, db) = [db EXCEPT !.keys = "enabled"]
           /\ Done("disabling", r, db) = [db EXCEPT !.keys = "disabled"]
  BY DEF Done

LEMMA CommandsAsk ==
    ASSUME NEW at
    PROVE  /\ Accepted("checking", at) => at[1] # "source"
           /\ Accepted("counting", at) => rcDb[at].by = "nobody"
           /\ Accepted("creating", at) => rcDb[at].by = "nobody"
           /\ Accepted("loading", at) => rcDb[at].keys = "none"
           /\ Accepted("verifying", at) => rcDb[at].keys # "none"
  BY DEF Accepted, CreateGuard

LEMMA DatabasesStay ==
    ASSUME NEW r \in RecoveryRuns, NEW db \in RecoveryDatabase,
           NEW c \in Commands, c = "creating" => db.by = "nobody"
    PROVE  Done(c, r, db) \in RecoveryDatabase
<1>1. [by |-> r, public |-> TRUE, keys |-> "none"] \in RecoveryDatabase
  BY DEF RecoveryDatabase
<1>2. [db EXCEPT !.public = FALSE] \in RecoveryDatabase
  BY DEF RecoveryDatabase
<1>3. [db EXCEPT !.keys = "enabled"] \in RecoveryDatabase
  BY DEF RecoveryDatabase
<1>4. [db EXCEPT !.keys = "disabled"] \in RecoveryDatabase
  BY DEF RecoveryDatabase
<1>5. CASE c \in {"checking", "counting", "verifying"}
  BY <1>5, CommandsDo
<1>6. CASE c = "creating"
  BY <1>1, <1>6, CommandsDo
<1>7. CASE c = "revoking"
  BY ONLY <1>2, <1>7, CommandsDo
<1>8. CASE c = "loading"
  BY ONLY <1>3, <1>8, CommandsDo
<1>9. CASE c = "disabling"
  BY ONLY <1>4, <1>9, CommandsDo
<1> QED BY <1>5, <1>6, <1>7, <1>8, <1>9 DEF Commands

LEMMA OthersDatabases ==
    NoDatabase \in RecoveryDatabase /\ Custodians \in RecoveryDatabase
  BY DEF NoDatabase, Custodians, RecoveryDatabase

(* A run and a command that changes its database: in its turn, or still    *)
(* running after it.                                                       *)
CarriesOut(r, c) ==
    /\ c \in Commands
    /\ rcStep[r] = c \/ <<r, c>> \in rcRunning
    /\ Accepted(c, rcAt[r]) /\ Carry(c, r)

LEMMA CarriedIsTyped ==
    ASSUME RecoveryTypeOK, NEW r \in RecoveryRuns, NEW c, CarriesOut(r, c)
    PROVE  rcDb' \in [RecoveryDatabases -> RecoveryDatabase]
<1> DEFINE at == rcAt[r]
           new == Done(c, r, rcDb[at])
<1>1. at \in RecoveryDatabases /\ rcDb[at] \in RecoveryDatabase
  BY DEF RecoveryTypeOK
<1>2. c = "creating" => rcDb[at].by = "nobody"
  BY CommandsAsk DEF CarriesOut
<1>3. new \in RecoveryDatabase
  BY <1>1, <1>2, DatabasesStay DEF CarriesOut
<1>4. rcDb' = [rcDb EXCEPT ![at] = new]
  BY <1>1 DEF CarriesOut, Carry, RecoveryTypeOK
<1> HIDE DEF at, new
<1> QED BY <1>1, <1>3, <1>4 DEF RecoveryTypeOK

(* Every reachable state of the databases and the runs is well typed. *)
THEOREM RecoveryTypeCorrect == RecoverySpec => []RecoveryTypeOK
<1>1. RecoveryInit => RecoveryTypeOK
  BY OthersDatabases, CommandsAre DEF RecoveryInit, RecoveryTypeOK, Commands
<1>2. ASSUME RecoveryTypeOK, [RecoveryNext]_rcvars
      PROVE  RecoveryTypeOK'
  <2> USE <1>2
  <2>1. ASSUME NEW r \in RecoveryRuns, RunCommand(r)
        PROVE  RecoveryTypeOK'
    <3>1. rcStep[r] \in Commands /\ CarriesOut(r, rcStep[r])
      BY <2>1, CommandsAre DEF RunCommand, CarriesOut
    <3>2. rcDb' \in [RecoveryDatabases -> RecoveryDatabase]
      BY <3>1, CarriedIsTyped
    <3>3. rcStep' \in [RecoveryRuns -> RecoverySteps]
      <4> DEFINE next == IF /\ rcStep[r] = "verifying"
                            /\ rcDb[rcAt[r]].keys = "enabled"
                         THEN "failed" ELSE CommandAfter[rcStep[r]]
      <4>1. next \in RecoverySteps
        BY <3>1, StepsFollow, CommandsAre
      <4>2. rcStep' = [rcStep EXCEPT ![r] = next]
        BY <2>1 DEF RunCommand, RecoveryTypeOK
      <4> QED BY <4>1, <4>2 DEF RecoveryTypeOK
    <3> QED BY <2>1, <3>2, <3>3 DEF RecoveryTypeOK, RunCommand
  <2>2. ASSUME NEW r \in RecoveryRuns, CommandFails(r) \/ CommandTimesOut(r)
        PROVE  RecoveryTypeOK'
    <3>1. rcStep' \in [RecoveryRuns -> RecoverySteps]
      BY <2>2, CommandsAre DEF CommandFails, CommandTimesOut, RecoveryTypeOK
    <3>2. rcRunning' \subseteq RecoveryRuns \X DOMAIN CommandAfter
      BY <2>2 DEF CommandFails, CommandTimesOut, RecoveryTypeOK
    <3> QED BY <2>2, <3>1, <3>2
            DEF CommandFails, CommandTimesOut, RecoveryTypeOK
  <2>3. ASSUME NEW r \in RecoveryRuns, NEW c \in DOMAIN CommandAfter,
               RunningCommandEnds(r, c)
        PROVE  RecoveryTypeOK'
    <3>1. rcDb' = rcDb \/ CarriesOut(r, c)
      BY <2>3, CommandsAre DEF RunningCommandEnds, CarriesOut
    <3>2. rcDb' \in [RecoveryDatabases -> RecoveryDatabase]
      BY <3>1, CarriedIsTyped DEF RecoveryTypeOK
    <3> QED BY <2>3, <3>2 DEF RecoveryTypeOK, RunningCommandEnds
  <2>4. ASSUME NEW at \in RecoveryDatabases, CustodianActs(at)
        PROVE  RecoveryTypeOK'
    BY <2>4, OthersDatabases DEF RecoveryTypeOK, CustodianActs
  <2>5. CASE UNCHANGED rcvars
    BY <2>5 DEF RecoveryTypeOK, rcvars
  <2> QED BY <2>1, <2>2, <2>3, <2>4, <2>5 DEF RecoveryNext
<1> QED BY <1>1, <1>2, PTL DEF RecoverySpec

----------------------------------------------------------------------------
(* A run is at one command, or has one that outlived it.  From the moment  *)
(* its database is made, the run works in that database and in no other,   *)
(* and from the moment live keys may be in it its doors are shut.          *)
Works(r, c) == rcStep[r] = c \/ <<r, c>> \in rcRunning
AfterCreating == {"revoking", "loading", "disabling", "verifying"}
AfterRevoking == {"loading", "disabling", "verifying"}

WorkersOwn ==
    \A r \in RecoveryRuns, c \in AfterCreating :
       Works(r, c) => rcDb[rcAt[r]].by = r
DoorsAreShut ==
    \A r \in RecoveryRuns, c \in AfterRevoking :
       Works(r, c) => ~rcDb[rcAt[r]].public
AwayFromSource ==
    \A r \in RecoveryRuns, c \in Commands \ {"checking"} :
       Works(r, c) => rcAt[r][1] # "source"
Quarantined(at) ==
    rcDb[at].by \in RecoveryRuns =>
       /\ rcAt[rcDb[at].by] = at /\ at[1] # "source"
       /\ rcDb[at].keys = "enabled" => ~rcDb[at].public
       /\ rcStep[rcDb[at].by] = "reported" => rcDb[at].keys = "disabled"
OutlivedHaveFailed ==
    \A r \in RecoveryRuns, c \in Commands :
       <<r, c>> \in rcRunning => rcStep[r] = "failed"

RecoveryInv ==
    /\ WorkersOwn /\ DoorsAreShut /\ AwayFromSource /\ OutlivedHaveFailed
    /\ \A at \in RecoveryDatabases : Quarantined(at)

(* What a command does to the database it is sent to: nothing, or it makes *)
(* it, or it changes one the run has made.                                 *)
Effect(r, c, db, new) ==
    \/ c \in {"checking", "counting", "verifying"} /\ new = db
    \/ /\ c = "creating" /\ db.by = "nobody"
       /\ new.by = r /\ new.keys = "none"
    \/ /\ c = "revoking" /\ db.by = r /\ new.by = r
       /\ new.public = FALSE
    \/ /\ c \in {"loading", "disabling"} /\ db.by = r /\ new.by = r
       /\ ~db.public /\ ~new.public

LEMMA CarriedEffect ==
    ASSUME RecoveryTypeOK, RecoveryInv, NEW r \in RecoveryRuns, NEW c,
           CarriesOut(r, c)
    PROVE  /\ rcAt[r] \in RecoveryDatabases
           /\ rcDb[rcAt[r]] \in RecoveryDatabase
           /\ \A d \in RecoveryDatabases \ {rcAt[r]} : rcDb'[d] = rcDb[d]
           /\ Effect(r, c, rcDb[rcAt[r]], rcDb'[rcAt[r]])
<1> DEFINE at == rcAt[r]
           db == rcDb[at]
           new == rcDb'[at]
<1> USE DEF Effect
<1>1. at \in RecoveryDatabases /\ db \in RecoveryDatabase
  BY DEF RecoveryTypeOK
<1>2. /\ new = Done(c, r, db)
      /\ \A d \in RecoveryDatabases \ {at} : rcDb'[d] = rcDb[d]
  BY <1>1 DEF CarriesOut, Carry, RecoveryTypeOK
<1>3. Works(r, c) /\ c \in Commands /\ Accepted(c, at)
  BY DEF CarriesOut, Works
<1>4. CASE c \in {"checking", "counting", "verifying"}
  BY <1>1, <1>2, <1>4, CommandsDo
<1>5. CASE c = "creating"
  BY <1>1, <1>2, <1>3, <1>5, CommandsDo, CommandsAsk
<1>6. CASE c = "revoking"
  <2>1. db.by = r
    BY <1>3, <1>6 DEF RecoveryInv, WorkersOwn, AfterCreating
  <2>2. Done("revoking", r, db) = [db EXCEPT !.public = FALSE]
    BY CommandsDo
  <2>3. new = Done("revoking", r, db)
    BY <1>2, <1>6
  <2>4. new = [db EXCEPT !.public = FALSE]
    BY <2>2, <2>3, Zenon
  <2> QED BY <1>1, <1>2, <1>6, <2>1, <2>4 DEF RecoveryDatabase
<1>7. CASE c \in {"loading", "disabling"}
  <2>1. db.by = r /\ ~db.public
    BY <1>3, <1>7 DEF RecoveryInv, WorkersOwn, DoorsAreShut, AfterCreating,
                      AfterRevoking
  <2>2. new = [db EXCEPT !.keys = "enabled"]
        \/ new = [db EXCEPT !.keys = "disabled"]
    BY <1>2, <1>7, CommandsDo
  <2> QED BY <1>1, <1>2, <1>7, <2>1, <2>2 DEF RecoveryDatabase
<1> QED BY <1>3, <1>4, <1>5, <1>6, <1>7 DEF Commands

(* A command carried out keeps all of it, whoever else works there.        *)
LEMMA CarriedKeeps ==
    ASSUME RecoveryTypeOK, RecoveryInv, NEW r \in RecoveryRuns, NEW c,
           CarriesOut(r, c), rcAt' = rcAt,
           \A q \in RecoveryRuns \ {r} :
              /\ rcStep'[q] = rcStep[q]
              /\ \A k \in Commands : Works(q, k)' => Works(q, k),
           \A k \in Commands :
              Works(r, k)' => Works(r, k)
                              \/ (rcStep[r] = c /\ k = CommandAfter[c]),
           rcStep'[r] = "reported" =>
              c = "verifying" /\ rcDb[rcAt[r]].keys = "disabled"
    PROVE  /\ WorkersOwn' /\ DoorsAreShut' /\ AwayFromSource'
           /\ \A at \in RecoveryDatabases : Quarantined(at)'
<1> DEFINE at == rcAt[r]
           db == rcDb[at]
           new == rcDb'[at]
<1>1. /\ at \in RecoveryDatabases /\ db \in RecoveryDatabase
      /\ \A d \in RecoveryDatabases \ {at} : rcDb'[d] = rcDb[d]
      /\ Effect(r, c, db, new)
  BY CarriedEffect
<1>2. Works(r, c) /\ c \in Commands /\ Accepted(c, at)
  BY DEF CarriesOut, Works
<1>3. r # "nobody" /\ "nobody" \notin RecoveryRuns
  BY RecoveryAssumption
<1> HIDE DEF at, db, new
<1> USE DEF Effect
<1>4. ASSUME NEW q \in RecoveryRuns, NEW k \in AfterCreating, Works(q, k)'
      PROVE  /\ rcDb'[rcAt[q]].by = q
             /\ k \in AfterRevoking => ~rcDb'[rcAt[q]].public
  <2>1. k \in Commands
    BY DEF AfterCreating, Commands
  <2>2. CASE Works(q, k)
    <3>1. rcDb[rcAt[q]].by = q
      BY <2>2 DEF RecoveryInv, WorkersOwn
    <3>2. k \in AfterRevoking => ~rcDb[rcAt[q]].public
      BY <2>2 DEF RecoveryInv, DoorsAreShut
    <3>3. rcAt[q] \in RecoveryDatabases
      BY DEF RecoveryTypeOK
    <3>4. CASE rcAt[q] = at
      BY <1>1, <1>3, <3>1, <3>2, <3>4 DEF db, new
    <3>5. CASE rcAt[q] # at
      BY <1>1, <3>1, <3>2, <3>3, <3>5
    <3> QED BY <3>4, <3>5
  <2>3. CASE ~Works(q, k)
    <3>1. q = r /\ k = CommandAfter[c]
      BY <1>4, <2>1, <2>3
    <3>2. c \in {"creating", "revoking", "loading", "disabling"}
      BY <1>2, <3>1, NextCommands DEF Commands, AfterCreating
    <3>3. new.by = r
      BY <1>1, <3>2
    <3>4. CASE c = "creating"
      BY <3>1, <3>3, <3>4, NextCommands DEF AfterRevoking, new, at
    <3>5. CASE c \in {"revoking", "loading", "disabling"}
      BY <1>1, <3>1, <3>3, <3>5 DEF new, at
    <3> QED BY <3>2, <3>4, <3>5
  <2> QED BY <2>2, <2>3
<1>5. WorkersOwn'
  BY <1>4 DEF WorkersOwn
<1>6. DoorsAreShut'
  <2>1. AfterRevoking \subseteq AfterCreating
    BY DEF AfterRevoking, AfterCreating
  <2> QED BY <1>4, <2>1 DEF DoorsAreShut
<1>7. AwayFromSource'
  <2>1. SUFFICES ASSUME NEW q \in RecoveryRuns,
                        NEW k \in Commands \ {"checking"}, Works(q, k)'
                 PROVE  rcAt[q][1] # "source"
    BY DEF AwayFromSource
  <2>2. CASE Works(q, k)
    BY <2>2 DEF RecoveryInv, AwayFromSource
  <2>3. CASE ~Works(q, k)
    <3>1. q = r
      BY <2>1, <2>3
    <3>2. CASE c = "checking"
      BY <1>2, <3>1, <3>2, CommandsAsk DEF at
    <3>3. CASE c # "checking"
      BY <1>2, <3>1, <3>3 DEF RecoveryInv, AwayFromSource
    <3> QED BY <3>2, <3>3
  <2> QED BY <2>2, <2>3
<1>8. ASSUME NEW d \in RecoveryDatabases, rcDb'[d].by \in RecoveryRuns
      PROVE  Quarantined(d)'
  <2> DEFINE q == rcDb'[d].by
  <2>1. CASE d # at
    <3>1. rcDb'[d] = rcDb[d]
      BY <1>1, <2>1
    <3>2. rcAt[q] = d
      BY <1>8, <3>1 DEF RecoveryInv, Quarantined
    <3>3. q # r
      BY <2>1, <3>2 DEF at
    <3>4. rcStep'[q] = rcStep[q]
      BY <1>8, <3>3
    <3> QED BY <1>8, <3>1, <3>4 DEF RecoveryInv, Quarantined
  <2>2. CASE d = at /\ new = db
    <3>1. rcDb'[d] = rcDb[d]
      BY <2>2 DEF db, new
    <3>2. rcStep'[q] = "reported" => rcDb[d].keys = "disabled"
      <4>1. CASE q = r
        BY <2>2, <4>1 DEF at
      <4>2. CASE q # r
        BY <1>8, <3>1, <4>2 DEF RecoveryInv, Quarantined
      <4> QED BY <4>1, <4>2
    <3> QED BY <1>8, <3>1, <3>2 DEF RecoveryInv, Quarantined
  <2>3. CASE d = at /\ new # db
    <3>1. q = r /\ rcAt[r] = d
      BY <1>1, <2>3 DEF new, at
    <3>2. c # "checking" /\ c # "verifying"
      BY <1>1, <2>3
    <3>3. d[1] # "source"
      BY <1>2, <2>3, <3>2 DEF RecoveryInv, AwayFromSource, at
    <3>4. rcDb'[d].keys = "enabled" => ~rcDb'[d].public
      BY <1>1, <2>3 DEF new
    <3> QED BY <3>1, <3>2, <3>3, <3>4 DEF Quarantined
  <2> QED BY <2>1, <2>2, <2>3
<1> QED BY <1>5, <1>6, <1>7, <1>8 DEF Quarantined

LEMMA RecoveryStep ==
    ASSUME RecoveryTypeOK, RecoveryInv, [RecoveryNext]_rcvars
    PROVE  RecoveryInv'
<1>1. ASSUME NEW r \in RecoveryRuns, RunCommand(r)
      PROVE  RecoveryInv'
  <2> DEFINE c == rcStep[r]
             next == IF c = "verifying" /\ rcDb[rcAt[r]].keys = "enabled"
                     THEN "failed" ELSE CommandAfter[c]
  <2>1. c \in Commands /\ CarriesOut(r, c) /\ rcAt' = rcAt
        /\ Accepted(c, rcAt[r])
    BY <1>1, CommandsAre DEF RunCommand, CarriesOut
  <2>2. rcStep'[r] = next /\ UNCHANGED rcRunning
        /\ \A q \in RecoveryRuns \ {r} : rcStep'[q] = rcStep[q]
    BY <1>1 DEF RunCommand, RecoveryTypeOK
  <2>3. \A k \in Commands : <<r, k>> \notin rcRunning
    BY <2>1 DEF RecoveryInv, OutlivedHaveFailed, Commands
  <2>4. \A k \in Commands : Works(r, k)' => k = CommandAfter[c]
    BY <2>2, <2>3 DEF Works, Commands
  <2>5. \A q \in RecoveryRuns \ {r}, k \in Commands : Works(q, k)' => Works(q, k)
    BY <2>2 DEF Works
  <2>6. rcStep'[r] = "reported" =>
           c = "verifying" /\ rcDb[rcAt[r]].keys = "disabled"
    <3>1. SUFFICES ASSUME next = "reported"
                   PROVE  c = "verifying" /\ rcDb[rcAt[r]].keys = "disabled"
      BY <2>2
    <3>2. c = "verifying"
      BY <2>1, <3>1, NextCommands DEF Commands
    <3>3. rcDb[rcAt[r]].keys # "enabled" /\ rcDb[rcAt[r]].keys # "none"
      BY <2>1, <3>1, <3>2, CommandsAsk
    <3>4. rcDb[rcAt[r]] \in RecoveryDatabase
      BY DEF RecoveryTypeOK
    <3> QED BY <3>2, <3>3, <3>4 DEF RecoveryDatabase
  <2>7. OutlivedHaveFailed'
    BY <2>2, <2>3 DEF RecoveryInv, OutlivedHaveFailed
  <2> HIDE DEF next
  <2> QED BY <2>1, <2>2, <2>4, <2>5, <2>6, <2>7, CarriedKeeps DEF RecoveryInv
<1>2. ASSUME NEW r \in RecoveryRuns, CommandFails(r) \/ CommandTimesOut(r)
      PROVE  RecoveryInv'
  <2>1. /\ UNCHANGED <<rcDb, rcAt>> /\ rcStep'[r] = "failed"
        /\ \A q \in RecoveryRuns \ {r} : rcStep'[q] = rcStep[q]
        /\ rcRunning' \in {rcRunning, rcRunning \cup {<<r, rcStep[r]>>}}
    BY <1>2 DEF CommandFails, CommandTimesOut, RecoveryTypeOK
  <2>2. \A q \in RecoveryRuns, k \in Commands : Works(q, k)' => Works(q, k)
    BY <2>1 DEF Works, Commands
  <2>3. \A q \in RecoveryRuns : rcStep'[q] = "reported" => rcStep[q] = "reported"
    BY <2>1
  <2>4. OutlivedHaveFailed'
    BY <2>1 DEF RecoveryInv, OutlivedHaveFailed
  <2>5. WorkersOwn' /\ DoorsAreShut' /\ AwayFromSource'
    BY <2>1, <2>2 DEF RecoveryInv, WorkersOwn, DoorsAreShut, AwayFromSource,
          AfterCreating, AfterRevoking, Commands
  <2>6. \A at \in RecoveryDatabases : Quarantined(at)'
    BY <2>1, <2>3 DEF RecoveryInv, Quarantined
  <2> QED BY <2>4, <2>5, <2>6 DEF RecoveryInv
<1>3. ASSUME NEW r \in RecoveryRuns, NEW c \in DOMAIN CommandAfter,
             RunningCommandEnds(r, c)
      PROVE  RecoveryInv'
  <2>1. /\ c \in Commands /\ <<r, c>> \in rcRunning
        /\ UNCHANGED <<rcAt, rcStep>> /\ rcRunning' \subseteq rcRunning
        /\ rcDb' = rcDb \/ CarriesOut(r, c)
    BY <1>3, CommandsAre DEF RunningCommandEnds, CarriesOut
  <2>2. OutlivedHaveFailed' /\ rcStep[r] = "failed"
    BY <2>1 DEF RecoveryInv, OutlivedHaveFailed
  <2>3. \A q \in RecoveryRuns, k \in Commands : Works(q, k)' => Works(q, k)
    BY <2>1 DEF Works
  <2>4. CASE CarriesOut(r, c)
    BY <2>1, <2>2, <2>3, <2>4, CarriedKeeps DEF RecoveryInv
  <2>5. CASE rcDb' = rcDb
    <3>1. WorkersOwn' /\ DoorsAreShut' /\ AwayFromSource'
      BY <2>1, <2>3, <2>5 DEF RecoveryInv, WorkersOwn, DoorsAreShut,
            AwayFromSource, AfterCreating, AfterRevoking, Commands
    <3>2. \A at \in RecoveryDatabases : Quarantined(at)'
      BY <2>1, <2>5 DEF RecoveryInv, Quarantined
    <3> QED BY <2>2, <3>1, <3>2 DEF RecoveryInv
  <2> QED BY <2>1, <2>4, <2>5
<1>4. ASSUME NEW at \in RecoveryDatabases, CustodianActs(at)
      PROVE  RecoveryInv'
  <2>1. /\ UNCHANGED <<rcAt, rcStep, rcRunning>>
        /\ rcDb'[at] \in {Custodians, NoDatabase}
        /\ \A d \in RecoveryDatabases \ {at} : rcDb'[d] = rcDb[d]
    BY <1>4 DEF CustodianActs, RecoveryTypeOK
  <2>2. ASSUME NEW q \in RecoveryRuns, NEW k \in AfterCreating, Works(q, k)
        PROVE  rcAt[q] # at
    <3>1. SUFFICES ASSUME rcAt[q] = at PROVE FALSE
      OBVIOUS
    <3>2. rcDb[at].by = q
      BY <2>2, <3>1 DEF RecoveryInv, WorkersOwn
    <3>3. q # "nobody" /\ q # "custodian"
      BY RecoveryAssumption
    <3>4. /\ rcStep[q] \in {"reported", "failed"}
          /\ \A c \in DOMAIN CommandAfter : <<q, c>> \notin rcRunning
      BY <1>4, <3>2, <3>3 DEF CustodianActs
    <3> QED BY <2>2, <3>4, CommandsAre DEF Works, AfterCreating, Commands
  <2>3. ASSUME NEW q \in RecoveryRuns
        PROVE  rcAt[q] \in RecoveryDatabases
    BY DEF RecoveryTypeOK
  <2>4. WorkersOwn' /\ DoorsAreShut'
    BY <2>1, <2>2, <2>3 DEF RecoveryInv, WorkersOwn, DoorsAreShut, Works,
          AfterCreating, AfterRevoking
  <2>5. AwayFromSource' /\ OutlivedHaveFailed'
    BY <2>1 DEF RecoveryInv, AwayFromSource, OutlivedHaveFailed, Works
  <2>6. rcDb'[at].by \notin RecoveryRuns
    BY <2>1, RecoveryAssumption DEF Custodians, NoDatabase
  <2>7. \A d \in RecoveryDatabases : Quarantined(d)'
    BY <2>1, <2>6 DEF RecoveryInv, Quarantined
  <2> QED BY <2>4, <2>5, <2>7 DEF RecoveryInv
<1>5. CASE UNCHANGED rcvars
  BY <1>5 DEF rcvars, RecoveryInv, WorkersOwn, DoorsAreShut, AwayFromSource,
              OutlivedHaveFailed, Quarantined, Works
<1> QED BY <1>1, <1>2, <1>3, <1>4, <1>5 DEF RecoveryNext

LEMMA RecoveryBegins == RecoveryInit => RecoveryInv
<1> SUFFICES ASSUME RecoveryInit PROVE RecoveryInv
  OBVIOUS
<1>1. \A r \in RecoveryRuns, c \in Commands \ {"checking"} : ~Works(r, c)
  BY DEF RecoveryInit, Works, Commands
<1>2. WorkersOwn /\ DoorsAreShut /\ AwayFromSource /\ OutlivedHaveFailed
  BY <1>1 DEF WorkersOwn, DoorsAreShut, AwayFromSource, OutlivedHaveFailed,
              AfterCreating, AfterRevoking, Commands, RecoveryInit
<1>3. \A at \in RecoveryDatabases : rcDb[at].by \notin RecoveryRuns
  BY RecoveryAssumption DEF RecoveryInit, NoDatabase, Custodians
<1> QED BY <1>2, <1>3 DEF RecoveryInv, Quarantined

LEMMA RecoveryHolds == RecoverySpec => [](RecoveryTypeOK /\ RecoveryInv)
  BY RecoveryTypeCorrect, RecoveryBegins, RecoveryStep, PTL DEF RecoverySpec

(* Live keys in a database that a run has made are never open to the       *)
(* public, and there are none once it has reported, whatever fails, times  *)
(* out, runs on or meets.                                                  *)
THEOREM KeysAreQuarantined == RecoverySpec => []KeysQuarantined
<1>1. RecoveryInv => KeysQuarantined
  BY DEF RecoveryInv, Quarantined, KeysQuarantined
<1> QED BY <1>1, RecoveryHolds, PTL

----------------------------------------------------------------------------
LEMMA StandingIs ==
    ASSUME NEW db, NEW steps
    PROVE  /\ db.by = "nobody" => Standing(db, steps) = "absent"
           /\ db.by = "custodian" => Standing(db, steps) = "theirs"
           /\ /\ db.by \in RecoveryRuns
              /\ db.keys = "enabled" => ~db.public
              /\ steps[db.by] = "reported" => db.keys = "disabled"
              => Standing(db, steps) = IF steps[db.by] = "reported"
                                       THEN "recovered" ELSE "kept"
<1>1. db.by = "nobody" => Standing(db, steps) = "absent"
  BY RecoveryAssumption DEF Standing
<1>2. db.by = "custodian" => Standing(db, steps) = "theirs"
  BY RecoveryAssumption DEF Standing
<1>3. ASSUME db.by \in RecoveryRuns, db.keys = "enabled" => ~db.public,
             steps[db.by] = "reported" => db.keys = "disabled"
      PROVE  Standing(db, steps) = IF steps[db.by] = "reported"
                                   THEN "recovered" ELSE "kept"
  <2>1. db.by # "nobody" /\ db.by # "custodian"
    BY <1>3, RecoveryAssumption
  <2>2. ~(db.keys = "enabled" /\ (db.public \/ steps[db.by] = "reported"))
    BY <1>3
  <2> QED BY <2>1, <2>2 DEF Standing
<1> QED BY <1>1, <1>2, <1>3

LEMMA ContentIs ==
    /\ Content(Custodians) = "theirs" /\ Content(NoDatabase) = "nothing"
    /\ \A db : db.by \in RecoveryRuns \cup {"nobody"} => Content(db) = "nothing"
<1>1. Custodians.by = "custodian" /\ NoDatabase.by = "nobody"
  BY DEF Custodians, NoDatabase
<1>2. "custodian" \notin RecoveryRuns \cup {"nobody"}
  BY RecoveryAssumption
<1> QED BY <1>1, <1>2 DEF Content

LEMMA PlacesAre ==
    /\ Promise!Databases = RecoveryDatabases
    /\ \A at \in RecoveryDatabases :
          at[1] # "source" => at \in {"new"} \X RecoveryNames
  BY DEF Promise!Databases, RecoveryDatabases, Clusters

LEMMA OneStands ==
    ASSUME NEW d \in RecoveryDatabases,
           \A e \in RecoveryDatabases \ {d} :
              Standing(rcDb'[e], rcStep') = Standing(rcDb[e], rcStep)
    PROVE  Standings' = [Standings EXCEPT ![d] = Standing(rcDb'[d], rcStep')]
  BY DEF Standings

LEMMA NoneStands ==
    ASSUME \A e \in RecoveryDatabases :
              Standing(rcDb'[e], rcStep') = Standing(rcDb[e], rcStep)
    PROVE  UNCHANGED Standings
  BY DEF Standings

LEMMA CarriedKeepsPromise ==
    ASSUME RecoveryTypeOK, RecoveryInv, RecoveryInv', NEW r \in RecoveryRuns,
           NEW c, CarriesOut(r, c), rcAt' = rcAt,
           \A q \in RecoveryRuns \ {r} : rcStep'[q] = rcStep[q],
           rcStep[r] # "reported",
           rcStep'[r] = "reported" => c = "verifying"
    PROVE  Promise!Next \/ UNCHANGED <<Standings, Contents>>
<1> DEFINE at == rcAt[r]
           db == rcDb[at]
           new == rcDb'[at]
<1>1. /\ at \in RecoveryDatabases /\ db \in RecoveryDatabase
      /\ \A d \in RecoveryDatabases \ {at} : rcDb'[d] = rcDb[d]
      /\ Effect(r, c, db, new)
  BY CarriedEffect
<1>2. Works(r, c) /\ c \in Commands
  BY DEF CarriesOut, Works
<1>3. /\ Quarantined(at)
      /\ new.by \in RecoveryRuns =>
            /\ new.keys = "enabled" => ~new.public
            /\ rcStep'[new.by] = "reported" => new.keys = "disabled"
  <2>1. \A d \in RecoveryDatabases : rcDb'[d].by \in RecoveryRuns =>
            /\ rcDb'[d].keys = "enabled" => ~rcDb'[d].public
            /\ rcStep'[rcDb'[d].by] = "reported" => rcDb'[d].keys = "disabled"
    BY DEF RecoveryInv, Quarantined
  <2> QED BY <1>1, <2>1 DEF RecoveryInv
<1>4. ASSUME NEW e \in RecoveryDatabases \ {at}
      PROVE  Standing(rcDb'[e], rcStep') = Standing(rcDb[e], rcStep)
  <2>1. rcDb'[e] = rcDb[e] /\ rcDb[e] \in RecoveryDatabase
    BY <1>1 DEF RecoveryTypeOK
  <2>2. CASE rcDb[e].by \in {"nobody", "custodian"}
    BY <2>1, <2>2, StandingIs
  <2>3. CASE rcDb[e].by \in RecoveryRuns
    <3>1. Quarantined(e) /\ Quarantined(e)'
      BY DEF RecoveryInv
    <3>2. rcDb[e].by # r
      BY <2>3, <3>1 DEF Quarantined
    <3>3. rcStep'[rcDb[e].by] = rcStep[rcDb[e].by]
      BY <2>3, <3>2
    <3> QED BY <2>1, <2>3, <3>1, <3>3, StandingIs DEF Quarantined
  <2> QED BY <2>1, <2>2, <2>3 DEF RecoveryDatabase
<1>5. Standings' = [Standings EXCEPT ![at] = Standing(new, rcStep')]
  BY <1>1, <1>4, OneStands
<1>6. Standings[at] = Standing(db, rcStep)
  BY <1>1 DEF Standings
<1>7. UNCHANGED Contents
  <2>1. new = db \/ (db.by \in {r, "nobody"} /\ new.by = r)
    BY <1>1 DEF Effect
  <2>2. Content(new) = Content(db)
    BY <2>1, ContentIs
  <2> QED BY <1>1, <2>2 DEF Contents
<1> HIDE DEF at, db, new
<1>8. CASE c = "creating"
  <2>1. db.by = "nobody" /\ new.by = r /\ new.keys = "none"
    BY <1>1, <1>8 DEF Effect
  <2>2. Standing(db, rcStep) = "absent"
    BY <2>1, StandingIs
  <2>3. Standing(new, rcStep') = "kept"
    BY <1>8, <2>1, StandingIs
  <2>4. at[1] # "source"
    BY <1>2, <1>8 DEF RecoveryInv, AwayFromSource, Commands, at
  <2> QED BY <1>1, <1>5, <1>6, <1>7, <2>2, <2>3, <2>4, PlacesAre
          DEF Promise!Next, Promise!Restores, Promise!Becomes
<1>9. CASE rcStep'[r] = "reported"
  <2>1. c = "verifying" /\ new = db
    BY <1>1, <1>9 DEF Effect
  <2>2. db.by = r
    BY <1>2, <2>1 DEF RecoveryInv, WorkersOwn, AfterCreating, db, at
  <2>3. Standing(db, rcStep) = "kept"
    BY <1>3, <2>2, StandingIs DEF Quarantined, db
  <2>4. Standing(new, rcStep') = "recovered"
    <3>1. new.by = r /\ rcStep'[new.by] = "reported"
      BY <1>9, <2>1, <2>2
    <3>2. /\ new.keys = "enabled" => ~new.public
          /\ rcStep'[new.by] = "reported" => new.keys = "disabled"
      BY <1>3, <3>1
    <3> QED BY <3>1, <3>2, StandingIs
  <2>5. at[1] # "source"
    BY <1>3, <2>2 DEF Quarantined, db
  <2> QED BY <1>1, <1>5, <1>6, <1>7, <2>3, <2>4, <2>5, PlacesAre
          DEF Promise!Next, Promise!Restores, Promise!Becomes
<1>10. CASE c # "creating" /\ rcStep'[r] # "reported"
  <2>1. Standing(new, rcStep') = Standing(db, rcStep)
    <3>1. CASE db.by = r
      <4>1. new.by = r
        BY <1>1, <1>10, <3>1 DEF Effect
      <4>2. /\ new.keys = "enabled" => ~new.public
            /\ db.keys = "enabled" => ~db.public
        BY <1>3, <3>1, <4>1 DEF Quarantined, db
      <4>3. rcStep[db.by] # "reported" /\ rcStep'[new.by] # "reported"
        BY <1>10, <3>1, <4>1
      <4>4. Standing(db, rcStep) = "kept"
        BY <3>1, <4>2, <4>3, StandingIs
      <4>5. Standing(new, rcStep') = "kept"
        BY <4>1, <4>2, <4>3, StandingIs
      <4> QED BY <4>4, <4>5
    <3>2. CASE db.by # r
      <4>1. new = db
        BY <1>1, <1>10, <3>2 DEF Effect
      <4>2. CASE db.by \in {"nobody", "custodian"}
        BY <4>1, <4>2, StandingIs
      <4>3. CASE db.by \in RecoveryRuns
        <5>1. rcStep'[db.by] = rcStep[db.by]
          BY <3>2, <4>3
        <5> QED BY <1>3, <4>1, <4>3, <5>1, StandingIs DEF Quarantined, db, new
      <4> QED BY <1>1, <4>2, <4>3 DEF RecoveryDatabase
    <3> QED BY <3>1, <3>2
  <2>2. Standings' = [Standings EXCEPT ![at] = Standings[at]]
    BY <1>5, <1>6, <2>1
  <2>3. UNCHANGED Standings
    BY <2>2 DEF Standings
  <2> QED BY <1>7, <2>3
<1> QED BY <1>8, <1>9, <1>10

LEMMA CustodianKeepsPromise ==
    ASSUME RecoveryTypeOK, RecoveryInv, NEW at \in RecoveryDatabases,
           CustodianActs(at)
    PROVE  Promise!Next
<1> DEFINE db == rcDb[at]
<1>1. /\ rcStep' = rcStep
      /\ \A e \in RecoveryDatabases \ {at} : rcDb'[e] = rcDb[e]
  BY DEF CustodianActs, RecoveryTypeOK
<1>2. Standings' = [Standings EXCEPT ![at] = Standing(rcDb'[at], rcStep')]
  BY <1>1, OneStands
<1>3. Contents' = [Contents EXCEPT ![at] = Content(rcDb'[at])]
  BY <1>1 DEF Contents
<1>4. Standings[at] = Standing(db, rcStep) /\ Contents[at] = Content(db)
  BY DEF Standings, Contents
<1>5. NoDatabase.by = "nobody" /\ Custodians.by = "custodian"
  BY DEF NoDatabase, Custodians
<1>6. CASE db.by = "nobody" /\ rcDb' = [rcDb EXCEPT ![at] = Custodians]
  <2>1. rcDb'[at] = Custodians
    BY <1>6 DEF RecoveryTypeOK
  <2>2. Promise!Becomes(at, "absent", "theirs")
    BY <1>2, <1>4, <1>5, <1>6, <2>1, StandingIs DEF Promise!Becomes
  <2>3. Contents' = [Contents EXCEPT ![at] = "theirs"]
    BY <1>3, <2>1, ContentIs
  <2> QED BY <2>2, <2>3, PlacesAre DEF Promise!Next, Promise!Theirs
<1>7. CASE db.by = "custodian" /\ rcDb' = [rcDb EXCEPT ![at] = NoDatabase]
  <2>1. rcDb'[at] = NoDatabase
    BY <1>7 DEF RecoveryTypeOK
  <2>2. Promise!Becomes(at, "theirs", "absent")
    <3>1. Standing(db, rcStep) = "theirs"
      BY <1>7, StandingIs
    <3>2. Standing(rcDb'[at], rcStep') = "absent"
      BY <1>5, <2>1, StandingIs
    <3> QED BY <1>2, <1>4, <3>1, <3>2 DEF Promise!Becomes
  <2>3. Contents' = [Contents EXCEPT ![at] = "nothing"]
    BY <1>3, <2>1, ContentIs
  <2> QED BY <2>2, <2>3, PlacesAre DEF Promise!Next, Promise!Theirs
<1>8. CASE db.by \in RecoveryRuns /\ rcDb' = [rcDb EXCEPT ![at] = NoDatabase]
  <2>1. rcDb'[at] = NoDatabase
    BY <1>8 DEF RecoveryTypeOK
  <2>2. Standing(db, rcStep) \in {"kept", "recovered"} /\ at[1] # "source"
    BY <1>8, StandingIs DEF RecoveryInv, Quarantined
  <2>3. Standing(rcDb'[at], rcStep') = "absent"
    BY <1>5, <2>1, StandingIs
  <2>4. Promise!Becomes(at, "kept", "absent")
        \/ Promise!Becomes(at, "recovered", "absent")
    BY <1>2, <1>4, <2>2, <2>3 DEF Promise!Becomes
  <2>5. Contents[at] = "nothing" /\ Content(rcDb'[at]) = "nothing"
    BY <1>4, <1>8, <2>1, ContentIs
  <2>6. UNCHANGED Contents
    BY <1>3, <2>5 DEF Contents
  <2> QED BY <2>2, <2>4, <2>6, PlacesAre DEF Promise!Next, Promise!Restores
<1> QED BY <1>6, <1>7, <1>8 DEF CustodianActs

LEMMA RecoveryStepKeepsPromise ==
    ASSUME RecoveryTypeOK, RecoveryInv, RecoveryInv', [RecoveryNext]_rcvars
    PROVE  [Promise!Next]_<<Standings, Contents>>
<1>1. ASSUME NEW r \in RecoveryRuns, RunCommand(r)
      PROVE  Promise!Next \/ UNCHANGED <<Standings, Contents>>
  <2>1. /\ rcStep[r] \in Commands /\ CarriesOut(r, rcStep[r])
        /\ rcAt' = rcAt
    BY <1>1, CommandsAre DEF RunCommand, CarriesOut
  <2>2. \A q \in RecoveryRuns \ {r} : rcStep'[q] = rcStep[q]
    BY <1>1 DEF RunCommand, RecoveryTypeOK
  <2>3. rcStep'[r] \in {"failed", CommandAfter[rcStep[r]]}
    BY <1>1 DEF RunCommand, RecoveryTypeOK
  <2>4. rcStep'[r] = "reported" => rcStep[r] = "verifying"
    BY <2>1, <2>3, NextCommands DEF Commands
  <2>5. rcStep[r] # "reported"
    BY <2>1 DEF Commands
  <2> QED BY <2>1, <2>2, <2>4, <2>5, CarriedKeepsPromise
<1>2. ASSUME NEW r \in RecoveryRuns, CommandFails(r) \/ CommandTimesOut(r)
      PROVE  UNCHANGED <<Standings, Contents>>
  <2>1. /\ rcDb' = rcDb /\ rcStep'[r] = "failed" /\ rcStep[r] \in Commands
        /\ \A q \in RecoveryRuns \ {r} : rcStep'[q] = rcStep[q]
    BY <1>2, CommandsAre DEF CommandFails, CommandTimesOut, RecoveryTypeOK
  <2>2. ASSUME NEW e \in RecoveryDatabases
        PROVE  Standing(rcDb'[e], rcStep') = Standing(rcDb[e], rcStep)
    <3>1. rcDb[e] \in RecoveryDatabase
      BY DEF RecoveryTypeOK
    <3>2. CASE rcDb[e].by \in {"nobody", "custodian"}
      BY <2>1, <3>2, StandingIs
    <3>3. CASE rcDb[e].by \in RecoveryRuns
      <4>1. Quarantined(e) /\ Quarantined(e)'
        BY DEF RecoveryInv
      <4>2. rcStep'[rcDb[e].by] = "reported" <=> rcStep[rcDb[e].by] = "reported"
        BY <2>1, <3>3 DEF Commands
      <4> QED BY <2>1, <3>3, <4>1, <4>2, StandingIs DEF Quarantined
    <3> QED BY <3>1, <3>2, <3>3 DEF RecoveryDatabase
  <2> QED BY <2>1, <2>2, NoneStands DEF Contents
<1>3. ASSUME NEW r \in RecoveryRuns, NEW c \in DOMAIN CommandAfter,
             RunningCommandEnds(r, c)
      PROVE  Promise!Next \/ UNCHANGED <<Standings, Contents>>
  <2>1. /\ c \in Commands /\ UNCHANGED <<rcAt, rcStep>>
        /\ rcStep[r] = "failed"
        /\ rcDb' = rcDb \/ CarriesOut(r, c)
    BY <1>3, CommandsAre
       DEF RunningCommandEnds, CarriesOut, RecoveryInv, OutlivedHaveFailed
  <2>2. CASE CarriesOut(r, c)
    BY <2>1, <2>2, CarriedKeepsPromise
  <2>3. CASE rcDb' = rcDb
    BY <2>1, <2>3 DEF Standings, Contents
  <2> QED BY <2>1, <2>2, <2>3
<1>4. ASSUME NEW at \in RecoveryDatabases, CustodianActs(at)
      PROVE  Promise!Next
  BY <1>4, CustodianKeepsPromise
<1>5. CASE UNCHANGED rcvars
  BY <1>5 DEF rcvars, Standings, Contents
<1> QED BY <1>1, <1>2, <1>3, <1>4, <1>5 DEF RecoveryNext

(* The tool implements what it promises of the databases it meets: nobody  *)
(* else's is touched, none of the source cluster, and none counts as       *)
(* recovered, or is kept, with a live key in reach.                        *)
THEOREM RecoveryKeepsThePromise == RecoverySpec => KeepsThePromise
<1>1. RecoveryInit => Promise!Init
  <2> SUFFICES ASSUME RecoveryInit PROVE Promise!Init
    OBVIOUS
  <2>1. ASSUME NEW at \in RecoveryDatabases
        PROVE  /\ Standing(rcDb[at], rcStep) \in {"absent", "theirs"}
               /\ Content(rcDb[at]) \in {"theirs", "nothing"}
    <3>1. rcDb[at] \in {NoDatabase, Custodians}
      BY DEF RecoveryInit
    <3>2. rcDb[at].by \in {"nobody", "custodian"}
      BY <3>1 DEF NoDatabase, Custodians
    <3> QED BY <3>2, StandingIs DEF Content
  <2> QED BY <2>1, PlacesAre DEF Promise!Init, Standings, Contents
<1> QED
  BY <1>1, RecoveryHolds, RecoveryStepKeepsPromise, PTL
     DEF RecoverySpec, KeepsThePromise, Promise!Spec
=============================================================================
