-------------------------------- MODULE Wire --------------------------------
(***************************************************************************)
(* One message between to_message and from_message.  On the way an older   *)
(* peer may have left out the extensions it did not know yet, and a        *)
(* corrupting link (the packet_corruption scenario of S17) may have        *)
(* damaged the payload and one extension after another.                    *)
(***************************************************************************)
EXTENDS Projection

CONSTANTS
    Originals,      \* evidence projected by the sender
    OtherBytes,     \* what a hex string encodes after a digit changed
    OtherPayloads,  \* what a payload may be after a byte changed
    SenderDomain,   \* the subject domain of the sender
    MaxDamage       \* bound on the number of fields altered

(* What the keys sign over a payload and its hash.                          *)
SignaturesOver(payload, keys) ==
    {Sign(k, <<"seven/evidence/v1", Blake3(payload), payload>>) : k \in keys}

(* Damage is not forgery: changed digits spell no signature and not the     *)
(* hash of the payload that was sent, nobody signs with the zero key or     *)
(* with one of changed digits, and the signature sent is over no other      *)
(* payload.  They may well spell the hash of the payload that arrives.      *)
ASSUME WireAssumption ==
    /\ MaxDamage \in Nat
    /\ SenderDomain \in Segments
    /\ \A e \in Originals :
          /\ IsEvidence(e) /\ Projectable(e, SenderDomain) /\ e.payload \in Decodable
          /\ OtherBytes # Blake3(e.payload)
          /\ e.signature \notin SignaturesOver(e.payload, {ZeroKey, OtherBytes})
          /\ \A p \in OtherPayloads \ {e.payload} :
                e.signature
                  \notin SignaturesOver(p, {e.source_id, ZeroKey, OtherBytes})
          /\ \A p \in OtherPayloads \cup {e.payload} :
                OtherBytes
                  \notin SignaturesOver(p, {e.source_id, ZeroKey, OtherBytes})

VARIABLES original, message, altered

wireVars == <<original, message, altered>>

HexFields     == {"evidence_id", "observation_id", "source_id", "signature"}
OptionalLater == {"source_id", "expires_at", "provenance", "parents"}
Damages       == {"bad_pair", "extra_pair", "odd"}

WireInit ==
    /\ original \in Originals
    /\ message = ToMessage(original, SenderDomain)
    /\ altered = {}

Alter(field, value) ==
    /\ field \notin altered
    /\ Cardinality(altered) < MaxDamage
    /\ message' = [message EXCEPT ![field] = value]
    /\ altered' = altered \cup {field}
    /\ UNCHANGED original

(* A pre-change sender: from_message's defaults stand in.  An absent list   *)
(* of parents reads as the empty list.                                      *)
Default(field) == IF field = "parents" THEN << >> ELSE Absent

LeftOut(field) == Alter(field, Default(field))

DamageHex(field, damage) ==
    /\ message[field] # Absent
    /\ Alter(field, [message[field] EXCEPT !.damage = damage])

(* A digit became another hexadecimal digit.                                *)
ChangeDigit(field) ==
    /\ message[field] # Absent
    /\ Alter(field, [message[field] EXCEPT !.encodes = OtherBytes])

DamageParent(i, damage) ==
    Alter("parents", [message.parents EXCEPT ![i].damage = damage])

WrongShape(field) == Alter(field, Malformed)

(* The subject seven.evidence.<id> older peers used.                        *)
OldSubject == Alter("subject", <<"seven", "evidence", original.subject>>)

OtherPayloadKind == Alter("kind", "Json")

(* A byte of the payload changed, its kind did not.                         *)
ChangePayload(payload) ==
    /\ payload # message.payload
    /\ Alter("payload", payload)

WireNext ==
    \/ \E field \in OptionalLater : LeftOut(field)
    \/ \E field \in HexFields, damage \in Damages : DamageHex(field, damage)
    \/ \E field \in HexFields : ChangeDigit(field)
    \/ \E i \in DOMAIN message.parents, damage \in Damages :
          DamageParent(i, damage)
    \/ \E field \in {"provenance", "expires_at"} : WrongShape(field)
    \/ OldSubject
    \/ OtherPayloadKind
    \/ \E payload \in OtherPayloads : ChangePayload(payload)

WireSpec == WireInit /\ [][WireNext]_wireVars

-----------------------------------------------------------------------------
Received == FromMessage(message)

(* Invariants 7 and 12: nothing but the receiver's own timestamp is lost    *)
(* across theMQL: identity, custody, ancestry, expiry and signature return. *)
RoundTrip ==
    altered = {} =>
        /\ Parse(message) = "Ok"
        /\ Received = [original EXCEPT !.received_at = 0]

(* Messages of a pre-change peer still parse; without a source id they can  *)
(* never be taken for authenticated evidence, and with one they are exactly *)
(* as authentic as what was sent.                                           *)
LegacyDegradesSafely ==
    (\A f \in altered : f \in OptionalLater /\ message[f] = Default(f)) =>
        /\ Parse(message) = "Ok"
        /\ Verified(Received) <=>
              Verified(original) /\ "source_id" \notin altered

(* Invariant 16: whatever happened to the payload and the extensions, also  *)
(* where a changed identity is the hash of the changed payload, evidence    *)
(* that parses and verifies carries the payload, the identity and the       *)
(* source of an observation its source signed.  (The signature covers no    *)
(* more than that: observation_id, subject, provenance and expiry may have  *)
(* changed.)                                                                *)
VerifiedIsIntact ==
    Parse(message) = "Ok" /\ Verified(Received) =>
        /\ Verified(original)
        /\ Received.payload = original.payload
        /\ Received.evidence_id = original.evidence_id
        /\ Received.source_id = original.source_id
=============================================================================
