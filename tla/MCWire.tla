------------------------------- MODULE MCWire -------------------------------
(***************************************************************************)
(* TLC instance of Wire: a fresh observation, the same after two relays,   *)
(* evidence derived from two parents, and an unsigned copy; up to three    *)
(* fields altered.  A payload becomes one that decodes, whose hash is what *)
(* changed digits spell, or one that does not.                             *)
(***************************************************************************)
EXTENDS Wire

CONSTANTS ac, s1

MCSubjects == {ac}
MCSegments == {ac, "aviation"}
MCDecodable == {"p1", "p2", "p3"}
MCOtherPayloads == {"p3", "p9"}
MCOtherBytes == Blake3("p3")
Fresh == Originate(s1, ac, "p1", 1, 9)
MCOriginals ==
    {Fresh,
     Forward(Forward(Fresh, "relayA", 2), "relayB", 3),
     [Originate(s1, ac, "p2", 4, 9) EXCEPT
        !.parents = <<Blake3("p0"), Blake3("p1")>>],
     [Fresh EXCEPT !.signature = NoSignature]}
=============================================================================
