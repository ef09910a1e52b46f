------------------------- MODULE RecoveredDatabases ------------------------
(***************************************************************************)
(* What the recovery package promises of the databases it meets: one that  *)
(* somebody else made is left as it is; a restore makes one of its own,    *)
(* away from the source, and until it is reported as recovered it is kept: *)
(* for diagnosis if need be, and with no live API key open to the public.  *)
(***************************************************************************)
CONSTANTS Source, Elsewhere    \* databases of the source and of a new cluster

VARIABLES
    standing,    \* absent, theirs, kept, recovered or exposed
    content      \* what a database of somebody else holds

Databases == Source \cup Elsewhere

Init ==
    /\ standing \in [Databases -> {"absent", "theirs"}]
    /\ content \in [Databases -> {"theirs", "nothing"}]

Becomes(d, from, to) ==
    /\ standing[d] = from
    /\ standing' = [standing EXCEPT ![d] = to]

(* Its owners make and remove databases; a restore begins in a new one,    *)
(* ends it, and a custodian removes what it left.                          *)
Theirs(d) ==
    \/ Becomes(d, "absent", "theirs") /\ content' = [content EXCEPT ![d] = "theirs"]
    \/ Becomes(d, "theirs", "absent") /\ content' = [content EXCEPT ![d] = "nothing"]

Restores(d) ==
    /\ d \in Elsewhere /\ UNCHANGED content
    /\ \/ Becomes(d, "absent", "kept")
       \/ Becomes(d, "kept", "recovered")
       \/ Becomes(d, "kept", "absent")
       \/ Becomes(d, "recovered", "absent")

Next == \E d \in Databases : Theirs(d) \/ Restores(d)

Spec == Init /\ [][Next]_<<standing, content>>
=============================================================================
