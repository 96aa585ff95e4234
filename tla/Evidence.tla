------------------------------ MODULE Evidence ------------------------------
(***************************************************************************)
(* Evidence identity, provenance and authentication (crate seven-evidence).*)
(* Only values and the functions over them live here: the program keeps no *)
(* state in this crate.  The state machines that mint, forward and consume *)
(* evidence are Belief, ImuTrack, Network and Replay.                      *)
(*                                                                         *)
(* A payload is the canonical encoding of one CanonicalState and is left   *)
(* opaque; which payloads decode, and to what, is the Gaussian module's    *)
(* constant Measured.  observed_at is a function of the payload (originate *)
(* and from_message both copy it out of the state) and has no field here.  *)
(***************************************************************************)
EXTENDS Integers, Sequences

CONSTANTS
    Subjects,     \* SubjectId values: the tracked aircraft
    NoSignature   \* Evidence.signature = None

-----------------------------------------------------------------------------
(* blake3: distinct payloads have distinct digests, no payload is a digest. *)
Blake3(payload) == [blake3 |-> payload]

(* An ed25519 signature names the key that made it and what it covers; the  *)
(* verifying key of a signing key is written as the key itself.             *)
Sign(key, message) == [by |-> key, over |-> message]

(* A value of the Rust struct Evidence: its fields, parents a list.         *)
IsEvidence(e) ==
    /\ e = [evidence_id    |-> e.evidence_id,
            observation_id |-> e.observation_id,
            source_id      |-> e.source_id,
            subject        |-> e.subject,
            received_at    |-> e.received_at,
            expires_at     |-> e.expires_at,
            payload        |-> e.payload,
            provenance     |-> e.provenance,
            parents        |-> e.parents,
            signature      |-> e.signature]
    /\ Len(e.parents) \in Nat
    /\ e.parents = [i \in 1..Len(e.parents) |-> e.parents[i]]

(* A Provenance: a list of hops with their times.                           *)
IsChain(hops) ==
    /\ Len(hops) \in Nat
    /\ hops = [i \in 1..Len(hops) |-> [node        |-> hops[i].node,
                                       received_at |-> hops[i].received_at]]
    /\ \A i \in 1..Len(hops) : hops[i].received_at \in Int

SigningPreimage(e) == <<"seven/evidence/v1", e.evidence_id, e.payload>>

(* Fault: the newest hop comes first.                                       *)
Extended_NewestFirst(hops, node, received_at) ==
    << [node |-> node, received_at |-> received_at] >> \o hops

(* Provenance::extended appends a hop and returns a new chain.              *)
Extended(hops, node, received_at) ==
    Append(hops, [node |-> node, received_at |-> received_at])

(* Evidence::originate, the only constructor of a fresh identity.           *)
Originate(source, subject, payload, received_at, expires_at) ==
    LET unsigned == [evidence_id    |-> Blake3(payload),
                     observation_id |-> Blake3(payload),
                     source_id      |-> source,
                     subject        |-> subject,
                     received_at    |-> received_at,
                     expires_at     |-> expires_at,
                     payload        |-> payload,
                     provenance     |-> << >>,
                     parents        |-> << >>,
                     signature      |-> NoSignature]
    IN  [unsigned EXCEPT !.signature = Sign(source, SigningPreimage(unsigned))]

(* Faults: a forwarded copy counts as a new observation by the relay; it    *)
(* loses the origin's signature.                                            *)
Forward_NewObservation(e, node, received_at) ==
    [e EXCEPT !.received_at = received_at,
              !.observation_id = Blake3(<<node, e.payload>>),
              !.provenance  = Extended(@, node, received_at)]

Forward_Unsigned(e, node, received_at) ==
    [e EXCEPT !.received_at = received_at,
              !.signature   = NoSignature,
              !.provenance  = Extended(@, node, received_at)]

(* Evidence::forward: a copy that advances custody and nothing else.        *)
Forward(e, node, received_at) ==
    [e EXCEPT !.received_at = received_at,
              !.provenance  = Extended(@, node, received_at)]

(* Evidence::verify: integrity first, then the signature over the identity. *)
Integral(e) == Blake3(e.payload) = e.evidence_id
(* Fault: any signature will do.                                            *)
Authentic_AnySignature(e) == e.signature # NoSignature
Authentic(e) ==
    /\ e.signature # NoSignature
    /\ e.signature = Sign(e.source_id, SigningPreimage(e))

Verify(e) ==
    IF ~Integral(e) THEN "SignatureIdentityMismatch"
    ELSE IF ~Authentic(e) THEN "InvalidSignature"
    ELSE "Ok"

Verified(e) == Verify(e) = "Ok"
=============================================================================
