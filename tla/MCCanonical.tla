---------------------------- MODULE MCCanonical ----------------------------
(***************************************************************************)
(* TLC instance of Canonical, the scale 1e6 cut down to 5 and the scales   *)
(* of lengths to 2 and 3.  A component of 1 has a square that is zero, one *)
(* of 2 a square that is rounded; 1 next to one of 12 rounds to zero, next *)
(* to two of them it vanishes before the sign is chosen; the squares of    *)
(* three components of 12 together overflow.  Lengths include ties, to     *)
(* even and to odd, both ends of the integers, and values beyond them.     *)
(***************************************************************************)
EXTENDS Canonical

CONSTANTS NaN, Inf

MCNotFinite == {NaN, Inf}

Components == {-12, -3, -1, 0, 1, 2, 12} \cup MCNotFinite
Lengths == {-100, -29, -10, -3, 0, 2, 6, 26, 100} \cup {NaN}

(* All attitudes at one place, and one attitude at all places.              *)
MCObservations ==
    [position : {<<6, 0, -3>>}, velocity : {<<2, 1, 0>>},
     attitude : [1..4 -> Components]]
      \cup [position : [1..3 -> Lengths], velocity : {<<0, v, 6>> : v \in Lengths},
            attitude : {<<3, 0, -1, 2>>}]
=============================================================================
