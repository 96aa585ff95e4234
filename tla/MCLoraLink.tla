----------------------------- MODULE MCLoraLink -----------------------------
(***************************************************************************)
(* TLC instance of LoraLink, three words to a fragment: a frame of two     *)
(* fragments, three of three, one of which is the same payload seen by     *)
(* another source and one a copy relayed twice, an unsigned frame of two   *)
(* fragments whose words do not line up with the first's, and an unsigned  *)
(* payload one unit longer than its length field can say.  The hop count   *)
(* saturates at 1.                                                         *)
(***************************************************************************)
EXTENDS LoraLink

CONSTANT ac

MCSubjects == {ac}
Payload(s) == [i \in DOMAIN s |-> Word("byte", s[i])]
Origin(source, s) == Originate(source, ac, Payload(s), 1, 9)
MCOutgoing ==
    {Origin("s1", <<"a">>), Origin("s1", <<"b", "c">>), Origin("s2", <<"b", "c">>),
     Forward(Forward(Origin("s1", <<"b", "c">>), "r1", 2), "r2", 3),
     [Origin("s1", <<"b", "d">>) EXCEPT !.signature = NoSignature],
     [Origin("s1", <<"b", "d", "a", "b", "c">>) EXCEPT !.signature = NoSignature]}
=============================================================================
