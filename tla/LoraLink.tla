------------------------------ MODULE LoraLink ------------------------------
(***************************************************************************)
(* Senders broadcast the fragments of frames over a radio; a receiver      *)
(* hears some of them, in any order and any number of times, keeps them in *)
(* a list, and may at any moment hand the list to reassemble and decode.   *)
(* Frame ids are chosen by the callers of fragment, who do not coordinate, *)
(* so two frames may share one.                                            *)
(***************************************************************************)
EXTENDS Lora

CONSTANTS
    Outgoing,     \* evidence that may be sent
    FrameIds,
    MaxSends,     \* bound on the number of frames sent
    MaxHeard      \* bound on the receiver's list

(* What may be sent is as originate and forward make it, or has no          *)
(* signature; its payload is a list of bytes of any length.                 *)
ASSUME LoraLinkAssumption ==
    /\ {MaxSends, MaxHeard} \subseteq Nat
    /\ \A e \in Outgoing :
          /\ Verified(e) \/ e.signature = NoSignature
          /\ Word("signature", e.signature) # NoSignature
          /\ Len(e.payload) \in Nat
          /\ Len(e.provenance) \in Nat
          /\ e.payload = [i \in 1..Len(e.payload) |-> Word("byte", e.payload[i][2])]

VARIABLES
    sent,     \* <<frame id, evidence>> pairs
    heard     \* the receiver's list of fragments

link == <<sent, heard>>

LinkInit == sent = {} /\ heard = << >>

Wire(e) == Encode(FromEvidence(e))

OnAir == UNION {ToSet(Fragments(Wire(s[2]), s[1])) : s \in sent}

-----------------------------------------------------------------------------
(* A frame encode or fragment refuses is not sent.                          *)
Send(e, id) ==
    /\ Cardinality(sent) < MaxSends
    /\ Fits(FromEvidence(e)) /\ Fragmentable(Wire(e))
    /\ sent' = sent \cup {<<id, e>>}
    /\ UNCHANGED heard

(* A fragment that is never heard is lost.                                  *)
Hear(f) ==
    /\ Len(heard) < MaxHeard
    /\ heard' = Append(heard, f)
    /\ UNCHANGED sent

LinkNext ==
    \/ \E e \in Outgoing, id \in FrameIds : Send(e, id)
    \/ \E f \in OnAir : Hear(f)

LinkSpec == LinkInit /\ [][LinkNext]_link

-----------------------------------------------------------------------------
Received ==
    IF Reassemble(heard) = << >> THEN << >> ELSE Decode(Reassemble(heard)[1])

(* The evidence a receiver takes a frame for, as far as verify looks at it. *)
Claimed(f) ==
    [evidence_id |-> f.evidence_id[2],
     payload     |-> f.payload,
     source_id   |-> f.source_id[2],
     signature   |-> IF f.signature = NoSignature THEN NoSignature
                     ELSE IF f.signature[1] = "signature" THEN f.signature[2]
                     ELSE Sign("nobody", << >>)]

(* What a frame owes its evidence: ids, payload and signature, and the      *)
(* number of its hops or, where there are more, the largest there is.       *)
Summarises(f, e) ==
    /\ f.evidence_id = Word("id", e.evidence_id)
    /\ f.observation_id = Word("id", e.observation_id)
    /\ f.source_id = Word("id", e.source_id)
    /\ f.payload = e.payload
    /\ f.signature = IF e.signature = NoSignature THEN NoSignature
                     ELSE Word("signature", e.signature)
    /\ f.hop_count \in {Len(e.provenance), MaxHops}
    /\ f.hop_count <= Len(e.provenance) /\ f.hop_count <= MaxHops

(* Invariant 12 over LoRa while no id is shared: the list yields a frame as *)
(* soon as, and only when, it holds every fragment of one frame and nothing *)
(* else, whatever their order and number, and then the frame is the         *)
(* evidence sent under that id, its hops a number that never wraps.         *)
FrameOrNothing ==
    (\A s, t \in sent : s[1] = t[1] => s = t) =>
        LET whole == {s \in sent :
                        ToSet(heard) = ToSet(Fragments(Wire(s[2]), s[1]))}
        IN  IF whole = {} THEN Received = << >>
            ELSE /\ Len(Received) = 1
                 /\ \A s \in whole : Summarises(Received[1], s[2])

(* Invariant 16 over LoRa: where frames share an id, a list that mixes them *)
(* may reassemble and decode; but a frame that verifies carries identity,   *)
(* payload and source of evidence that was sent.                            *)
VerifiedFrameWasSent ==
    \A k \in DOMAIN Received :
        Verified(Claimed(Received[k])) =>
            \E s \in sent :
                /\ Verified(s[2])
                /\ Claimed(FromEvidence(s[2])) = Claimed(Received[k])
=============================================================================
