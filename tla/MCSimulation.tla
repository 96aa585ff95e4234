---------------------------- MODULE MCSimulation ----------------------------
(***************************************************************************)
(* TLC instances of Simulation.  MCSimulation.cfg: every log of up to      *)
(* MaxEvents events of every kind apply treats differently, and streams of *)
(* up to three messages sent beside shorter ones.  MCFingerprint.cfg: no   *)
(* stream, one message and one node whose names are both the byte 110,     *)
(* "n", and payloads of one byte.                                          *)
(***************************************************************************)
EXTENDS Simulation

CONSTANTS ac

MCSubjects == {ac}
MCDims == {"pos"}
MCNoise == [d \in MCDims |-> 1]
MCPos == [p1 |-> 0, p2 |-> 9]
MCMeasured == [p \in DOMAIN MCPos |-> [d \in MCDims |-> MCPos[p]]]

Origin(p) == Originate("s1", ac, p, 0, 9)

MCNames == << <<110>> >>
MCMessages == << <<97>>, <<98>>, <<99>>, <<110>> >>
MCSubjectOrder == <<ac>>

(* A message whose id is sent twice with different payloads; a node; a key  *)
(* written twice; reads; evidence that verifies, does not, does not decode; *)
(* and one of the kinds apply ignores.                                      *)
MCEvents ==
    {MessageSent(<<110>>, <<1>>), MessageSent(<<110>>, <<2>>),
     TransportLoss(<<110>>), MessageReceived(<<110>>),
     NodeOnline(<<110>>), NodeOffline(<<110>>),
     DbWrite(<<110>>, <<7>>), DbWrite(<<110>>, <<8>>), DbRead(<<110>>, <<7>>),
     Observation(Origin("p1")), Observation(Origin("p2")),
     Observation(Origin("torn")),
     Observation([Origin("p2") EXCEPT !.signature = NoSignature])}

(* Among the streams an empty one, one that sends an id twice and one of    *)
(* three distinct ids, which duplication brings to six arrivals.            *)
A == <<97>>
B == <<98>>
C == <<99>>
MCStreams ==
    {<< >>, <<A>>, <<A, A>>, <<A, B>>, <<A, B, A>>, <<A, B, C>>}

MCBeside == {NodeOnline(<<110>>)}

FingerprintEvents ==
    {MessageSent(<<110>>, <<p>>) : p \in {0, 1, 7}}
      \cup {NodeOnline(<<110>>), NodeOffline(<<110>>), DbWrite(<<110>>, <<7>>),
            Observation(Origin("p1")), Observation(Origin("p2"))}
NoStream == {<< >>}
=============================================================================
