------------------------------ MODULE Delivery ------------------------------
(***************************************************************************)
(* What one section of fexp promises, whichever direction it works in: a   *)
(* file that appears in the source directory waits there until its whole   *)
(* content is at the destination, and only then is it taken away (deleted, *)
(* or moved to the backup directory).  A version is one publication of one *)
(* file; republishing a name is a new version.                             *)
(***************************************************************************)
CONSTANT Versions

VARIABLES offered,    \* the versions that were ever published
          waiting,    \* those still in the source directory
          delivered   \* those whose whole content reached the destination

vars == <<offered, waiting, delivered>>

TypeOK == /\ offered \subseteq Versions
          /\ waiting \subseteq offered
          /\ delivered \subseteq offered

Init == /\ offered = {}
        /\ waiting = {}
        /\ delivered = {}

(* The producer puts a new file into the source directory. *)
Offer(v) == /\ v \notin offered
            /\ offered' = offered \cup {v}
            /\ waiting' = waiting \cup {v}
            /\ UNCHANGED delivered

(* The whole content of v appears at the destination. *)
Deliver(v) == /\ v \in waiting
              /\ delivered' = delivered \cup {v}
              /\ UNCHANGED <<offered, waiting>>

(* v leaves the source directory: never before it was delivered. *)
Retire(v) == /\ v \in waiting \cap delivered
             /\ waiting' = waiting \ {v}
             /\ UNCHANGED <<offered, delivered>>

Next == \E v \in Versions : Offer(v) \/ Deliver(v) \/ Retire(v)

Spec == Init /\ [][Next]_vars
=============================================================================
