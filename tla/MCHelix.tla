------------------------------ MODULE MCHelix ------------------------------
(***************************************************************************)
(* TLC instance of Helix with three workloads.  Copies: two recorders      *)
(* persist copies of one observation that travelled by different paths.    *)
(* Family: one recorder persists a parent while the other persists the     *)
(* child, which A relayed twice.  Career: one recorder persists a sighting *)
(* of ac, a relayed duplicate of it, and a conflicting sighting derived    *)
(* from the first and from evidence nobody persists.                       *)
(***************************************************************************)
EXTENDS Helix

CONSTANTS ac

MCSubjects == {ac}
MCDims == {"pos"}
MCNoise == [d \in MCDims |-> 1]
MCPos == [p1 |-> 0, p2 |-> 9]
MCMeasured == [p \in DOMAIN MCPos |-> [d \in MCDims |-> MCPos[p]]]

First == Originate("s1", ac, "p1", 1, 9)
Second == Originate("s1", ac, "p2", 2, 9)

Derived(e, parents) == [e EXCEPT !.parents = parents]

ThroughABA(e) == Forward(Forward(Forward(e, "A", 3), "B", 4), "A", 5)

Copies ==
    [jobs |-> [r1 |-> <<Forward(Forward(First, "A", 2), "B", 3)>>,
               r2 |-> <<Forward(First, "B", 5)>>],
     failures |-> 2]
Family ==
    [jobs |-> [r1 |-> <<First>>,
               r2 |-> <<ThroughABA(Derived(Second, <<First.evidence_id>>))>>],
     failures |-> 1]
Career ==
    [jobs |-> [r1 |-> <<Forward(First, "A", 2),
                        Forward(First, "B", 3),
                        Derived(Second, <<First.evidence_id, Blake3("p3")>>)>>],
     failures |-> 2]

MCWorkloads == {Copies, Family, Career}
=============================================================================
