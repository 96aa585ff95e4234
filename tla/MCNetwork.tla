----------------------------- MODULE MCNetwork -----------------------------
(***************************************************************************)
(* TLC instances of Network.  Two sightings that conflict, each reported   *)
(* to a node of its own, and two nodes relaying to each other.             *)
(* MCNetwork.cfg: loss and duplication on every link, chains of three      *)
(* hops, so that evidence comes back to a relay that already passed it on. *)
(* MCNetworkFair.cfg: no loss, one relay hop; with fairness.               *)
(***************************************************************************)
EXTENDS Network

CONSTANTS ac

MCSubjects == {ac}
MCSegments == {ac, "aviation"}
MCDims == {"pos"}
MCNoise == [d \in MCDims |-> 1]
MCPos == [p1 |-> 0, p2 |-> 9]
MCMeasured == [p \in DOMAIN MCPos |-> [d \in MCDims |-> MCPos[p]]]
MCDecodable == DOMAIN MCPos

TwoSightings   == {<<"s1", ac, "p1">>, <<"s2", ac, "p2">>}

MCUplinks == {<<"s1", "A">>, <<"s2", "B">>}
BothWays == {<<"A", "B">>, <<"B", "A">>}
=============================================================================
