----------------------------- MODULE Projection -----------------------------
(***************************************************************************)
(* to_message and from_message of crate seven-mql: Evidence projected onto *)
(* a theMQL message and recovered from it.                                 *)
(*                                                                         *)
(* A message is the subject's segments, the payload and the extensions     *)
(* Seven writes; an extension that is not there is Absent.  A hex string   *)
(* is what it encodes together with the way it departs from a well-formed  *)
(* encoding:                                                               *)
(*   "none"       two digits per byte;                                     *)
(*   "bad_pair"   one pair is not hexadecimal;                             *)
(*   "extra_pair" a pair that is not hexadecimal was added;                *)
(*   "odd"        half a pair is missing.                                  *)
(***************************************************************************)
EXTENDS Evidence, SequencesExt, FiniteSetsExt

CONSTANTS
    Decodable,        \* payloads from_canonical_bytes accepts
    Segments,         \* names that are one non-empty subject segment
    ZeroKey           \* the all-zero source id of pre-change messages

(* No such extension, and one of the wrong JSON shape.                      *)
Absent    == [extension |-> "absent"]
Malformed == [extension |-> "malformed"]

NeverExpires == 2147483647    \* i64::MAX, scaled to the checker's integers

-----------------------------------------------------------------------------
Hex(bytes) == [encodes |-> bytes, damage |-> "none"]

(* hex_bytes slices the string two by two: an odd length ends in a slice    *)
(* out of range, a pair that is not hexadecimal is skipped.                 *)
HexPanics(h)  == h.damage = "odd"
HexIntact(h)  == h.damage \in {"none", "extra_pair"}

(* parse_hex32 of an extension read through `get`: absent reads as "".      *)
ParseHex32(h) ==
    IF h = Absent \/ h = Malformed THEN "Canonical"
    ELSE IF HexPanics(h) THEN "panic"
    ELSE IF HexIntact(h) THEN "Ok"
    ELSE "Canonical"

(* evidence_subject_inner.  Fault: the grammar older peers used.            *)
EvidenceSubject_OldGrammar(subject, domain) == <<"seven", "evidence", subject>>

EvidenceSubject(subject, domain) == <<"seven", domain, subject, "evidence">>

Projectable(e, domain) == {e.subject, domain} \subseteq Segments

(* to_message.  Hop times and received_at ride inside the provenance only.  *)
ToMessage(e, domain) ==
    [subject        |-> EvidenceSubject(e.subject, domain),
     kind           |-> "Bytes/Postcard",
     payload        |-> e.payload,
     evidence_id    |-> Hex(e.evidence_id),
     observation_id |-> Hex(e.observation_id),
     source_id      |-> Hex(e.source_id),
     provenance     |-> [hops |-> e.provenance],
     expires_at     |-> [nanos |-> e.expires_at],
     parents        |-> [i \in DOMAIN e.parents |-> Hex(e.parents[i])],
     signature      |-> IF e.signature = NoSignature THEN Absent
                        ELSE Hex(e.signature)]

(* Fault: a source id is required, so older peers are cut off.              *)
Checks_SourceRequired(msg) ==
    << ParseHex32(msg.evidence_id),
       ParseHex32(msg.observation_id),
       ParseHex32(msg.source_id) >>

(* The checks of from_message in the order it makes them.                   *)
Checks(msg) ==
    << IF msg.kind = "Bytes/Postcard" THEN "Ok" ELSE "UnexpectedPayload",
       ParseHex32(msg.evidence_id),
       ParseHex32(msg.observation_id),
       IF msg.provenance = Malformed THEN "Canonical" ELSE "Ok",
       IF \E i \in DOMAIN msg.parents : HexPanics(msg.parents[i])
         THEN "panic" ELSE "Ok",
       IF msg.payload \in Decodable THEN "Ok" ELSE "Canonical",
       IF msg.source_id = Absent THEN "Ok" ELSE ParseHex32(msg.source_id),
       IF msg.signature \notin {Absent, Malformed} /\ HexPanics(msg.signature)
         THEN "panic" ELSE "Ok",
       IF /\ Len(msg.subject) = 4
          /\ msg.subject[1] = "seven" /\ msg.subject[4] = "evidence"
         THEN "Ok" ELSE "Subject" >>

Parse(msg) ==
    LET failed == {i \in DOMAIN Checks(msg) : Checks(msg)[i] # "Ok"}
    IN  IF failed = {} THEN "Ok" ELSE Checks(msg)[Min(failed)]

(* Parent ids that do not parse are dropped; a signature keeps the pairs    *)
(* that are hexadecimal, too few of which can never be a signature.         *)
ParsedParents(hexes) ==
    LET parsed[n \in 0..Len(hexes)] ==
            IF n = 0 THEN << >>
            ELSE IF HexIntact(hexes[n])
                 THEN Append(parsed[n - 1], hexes[n].encodes)
            ELSE parsed[n - 1]
    IN  parsed[Len(hexes)]

ParsedSignature(h) ==
    IF h \in {Absent, Malformed} THEN NoSignature
    ELSE IF HexIntact(h) THEN h.encodes
    ELSE [by |-> Malformed, over |-> << >>]

(* Fault: the chain of custody starts anew at each receiver.                *)
FromMessage_FreshCustody(msg) ==
    [evidence_id    |-> msg.evidence_id.encodes,
     observation_id |-> msg.observation_id.encodes,
     source_id      |-> IF msg.source_id = Absent THEN ZeroKey
                        ELSE msg.source_id.encodes,
     subject        |-> msg.subject[3],
     received_at    |-> 0,
     expires_at     |-> IF msg.expires_at \in {Absent, Malformed}
                        THEN NeverExpires ELSE msg.expires_at.nanos,
     payload        |-> msg.payload,
     provenance     |-> << >>,
     parents        |-> ParsedParents(msg.parents),
     signature      |-> ParsedSignature(msg.signature)]

(* The evidence from_message returns when Parse(msg) = "Ok".                *)
FromMessage(msg) ==
    [evidence_id    |-> msg.evidence_id.encodes,
     observation_id |-> msg.observation_id.encodes,
     source_id      |-> IF msg.source_id = Absent THEN ZeroKey
                        ELSE msg.source_id.encodes,
     subject        |-> msg.subject[3],
     received_at    |-> 0,
     expires_at     |-> IF msg.expires_at \in {Absent, Malformed}
                        THEN NeverExpires ELSE msg.expires_at.nanos,
     payload        |-> msg.payload,
     provenance     |-> IF msg.provenance = Absent THEN << >>
                        ELSE msg.provenance.hops,
     parents        |-> ParsedParents(msg.parents),
     signature      |-> ParsedSignature(msg.signature)]
=============================================================================
