--------------------------- MODULE EvidenceStore ---------------------------
(***************************************************************************)
(* What persistence promises (invariant 15), without a graph in it: a set  *)
(* of evidence identities, the custody hops and parents recorded for each, *)
(* and belief snapshots.  Recording a thing twice is recording it once.    *)
(***************************************************************************)
EXTENDS Integers, Sequences

CONSTANTS
    Copies,     \* evidence, with its custody, that recorders may persist
    Snapshots   \* <<subject, belief>> pairs they may persist

VARIABLES
    stored,     \* evidence ids
    custody,    \* [id -> set of hops]
    lineage,    \* set of <<child, parent>>
    beliefs     \* set of <<subject, belief>>

vars == <<stored, custody, lineage, beliefs>>

Ids == {e.evidence_id : e \in Copies}

Init ==
    /\ stored = {}
    /\ custody = [id \in Ids |-> {}]
    /\ lineage = {}
    /\ beliefs = {}

Store(e) ==
    /\ stored' = stored \cup {e.evidence_id}
    /\ UNCHANGED <<custody, lineage, beliefs>>

(* A chain is recorded from its first hop on.                               *)
RecordHop(e, i) ==
    /\ e.evidence_id \in stored
    /\ \A j \in 1..(i - 1) : e.provenance[j] \in custody[e.evidence_id]
    /\ custody' = [custody EXCEPT ![e.evidence_id] = @ \cup {e.provenance[i]}]
    /\ UNCHANGED <<stored, lineage, beliefs>>

RecordParent(e, i) ==
    /\ {e.evidence_id, e.parents[i]} \subseteq stored
    /\ lineage' = lineage \cup {<<e.evidence_id, e.parents[i]>>}
    /\ UNCHANGED <<stored, custody, beliefs>>

Snapshot(b) ==
    /\ beliefs' = beliefs \cup {b}
    /\ UNCHANGED <<stored, custody, lineage>>

Next ==
    \/ \E e \in Copies :
          \/ Store(e)
          \/ \E i \in DOMAIN e.provenance : RecordHop(e, i)
          \/ \E i \in DOMAIN e.parents : RecordParent(e, i)
    \/ \E b \in Snapshots : Snapshot(b)

Spec == Init /\ [][Next]_vars
=============================================================================
