------------------------------ MODULE MCBelief ------------------------------
(***************************************************************************)
(* TLC instance of Belief.  Two dimensions with different noise; payloads  *)
(* p1, p2, p3 are far enough apart that the 3-sigma test flags some orders *)
(* and not others, and "torn" does not decode.                             *)
(***************************************************************************)
EXTENDS Belief

CONSTANTS ac, uav

MCSubjects == {ac, uav}
MCDims == {"pos", "vel"}
MCNoise == [d \in MCDims |-> IF d = "pos" THEN 2 ELSE 1]
MCMeasured ==
    [p \in {"p1", "p2", "p3"} |->
        [d \in MCDims |->
            IF d = "vel" THEN 1
            ELSE CASE p = "p1" -> 0 [] p = "p2" -> 9 [] p = "p3" -> 4]]

Origin(source, s, p) == Originate(source, s, p, 1, 9)

(* p1 also arrives through a relay; p3 also arrives with its signature lost *)
(* and, altered in transit, under the identity of p1; "torn" is signed but  *)
(* does not decode; the second source sees uav, and ac in the very state    *)
(* the first one saw (two observers, one observation id).                   *)
MCInputs ==
    {Origin("s1", ac, p) : p \in {"p1", "p2", "p3", "torn"}}
      \cup {Forward(Origin("s1", ac, "p1"), "relay", 2)}
      \cup {[Origin("s1", ac, "p3") EXCEPT !.signature = NoSignature]}
      \cup {[Origin("s1", uav, "p1") EXCEPT !.payload = "p3"]}
      \cup {Origin("s2", ac, "p1")}
      \cup {Origin("s2", uav, p) : p \in {"p1", "p2", "p3"}}
      \cup {Forward(Origin("s2", uav, "p2"), "relay", 3)}
=============================================================================
