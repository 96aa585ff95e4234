----------------------------- MODULE MCImuTrack -----------------------------
(***************************************************************************)
(* TLC instance of ImuTrack: three observations that decode (one also      *)
(* arriving through a relay), one that does not, one unsigned copy.        *)
(***************************************************************************)
EXTENDS ImuTrack

CONSTANT ac

MCSubjects == {ac}
MCDecodable == {"p1", "p2", "p3"}
Origin(p) == Originate("s1", ac, p, 1, 9)
MCInputs == {Origin(p) : p \in {"p1", "p2", "p3", "torn"}}
              \cup {Forward(Origin("p1"), "relay", 2)}
              \cup {[Origin("p2") EXCEPT !.signature = NoSignature]}
=============================================================================
