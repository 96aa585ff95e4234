-------------------------------- MODULE Lora --------------------------------
(***************************************************************************)
(* The compact LoRa frame of crate seven-mql and its fragments.            *)
(*                                                                         *)
(* A frame on the wire is a sequence of words.  The header's four bytes,   *)
(* each id, each unit of payload and the signature are one word, a pair of *)
(* what it is and its value; decode does not see what a word is and takes  *)
(* words by position, as the code takes bytes.                             *)
(***************************************************************************)
EXTENDS Evidence, FiniteSets, SequencesExt

CONSTANTS
    MaxHops,       \* the largest hop_count
    MaxPayload,    \* the largest payload_len
    MaxFragments,  \* the largest total
    PerFragment    \* mtu - HEADER, in words

ASSUME LoraAssumption ==
    /\ {MaxHops, MaxPayload, MaxFragments} \subseteq Nat
    /\ PerFragment \in Nat \ {0}

Word(kind, value) == <<kind, value>>

(* A length or an index cast to a field of one byte: what is above the      *)
(* largest value wraps round.                                               *)
AsByte(n, largest) == n % (largest + 1)

-----------------------------------------------------------------------------
(* LoraFrame::from_evidence: subject, times and the hops are left behind.   *)
(* Fault: the number of hops is cast without the limit before it.           *)
FromEvidence_HopsWrap(e) ==
    [evidence_id    |-> Word("id", e.evidence_id),
     observation_id |-> Word("id", e.observation_id),
     source_id      |-> Word("id", e.source_id),
     hop_count      |-> AsByte(Len(e.provenance), MaxHops),
     payload        |-> e.payload,
     signature      |-> IF e.signature = NoSignature THEN NoSignature
                        ELSE Word("signature", e.signature)]

FromEvidence(e) ==
    [evidence_id    |-> Word("id", e.evidence_id),
     observation_id |-> Word("id", e.observation_id),
     source_id      |-> Word("id", e.source_id),
     hop_count      |-> IF Len(e.provenance) > MaxHops THEN MaxHops
                        ELSE Len(e.provenance),
     payload        |-> e.payload,
     signature      |-> IF e.signature = NoSignature THEN NoSignature
                        ELSE Word("signature", e.signature)]

(* LoraFrame::encode refuses a payload longer than its length field can     *)
(* say; a signature is one word, so its own length check always passes.     *)
(* Fault: no payload is refused.                                            *)
Fits_Always(f) == TRUE

Fits(f) == Len(f.payload) <= MaxPayload

Encode(f) ==
    LET header == [signed |-> f.signature # NoSignature,
                   hop_count |-> f.hop_count,
                   payload_len |-> AsByte(Len(f.payload), MaxPayload)]
    IN  << Word("header", header), f.evidence_id, f.observation_id, f.source_id >>
          \o f.payload
          \o (IF header.signed THEN <<f.signature>> ELSE << >>)

(* LoraFrame::decode: << >> or the frame, in a sequence of one.             *)
Decode(words) ==
    LET header == words[1][2]
        end    == 4 + header.payload_len
    IN  IF Len(words) < 4 \/ Len(words) # end + (IF header.signed THEN 1 ELSE 0)
        THEN << >>
        ELSE << [evidence_id    |-> words[2],
                 observation_id |-> words[3],
                 source_id      |-> words[4],
                 hop_count      |-> header.hop_count,
                 payload        |-> SubSeq(words, 5, end),
                 signature      |-> IF header.signed THEN words[end + 1]
                                    ELSE NoSignature] >>

-----------------------------------------------------------------------------
(* fragment: total is the number of chunks, the last one possibly shorter;  *)
(* more of them than a byte can count are refused.                          *)
Total(words) == (Len(words) + PerFragment - 1) \div PerFragment

Fragmentable(words) == Total(words) <= MaxFragments

Fragments(words, frame_id) ==
    [i \in 1..Total(words) |->
        [frame_id |-> frame_id, index |-> AsByte(i - 1, MaxFragments),
         total |-> AsByte(Total(words), MaxFragments),
         chunk |-> SubSeq(words, PerFragment * (i - 1) + 1,
                          IF PerFragment * i < Len(words) THEN PerFragment * i
                          ELSE Len(words))]]

(* The fragment reassemble puts in a slot: the first of that index.         *)
Slot(frags, index) ==
    SelectInSeq(frags, LAMBDA f : f.index = index)

(* reassemble: << >> or the words, in a sequence of one.  Fault: fragments  *)
(* of several frames pass.                                                  *)
Reassemble_AnyFrame(frags) ==
    LET total == frags[1].total
    IN  IF \/ frags = << >>
           \/ \E i \in 0..(total - 1) : Slot(frags, i) = 0
        THEN << >>
        ELSE << FlattenSeq([i \in 1..total |-> frags[Slot(frags, i - 1)].chunk]) >>

Reassemble(frags) ==
    LET total == frags[1].total
    IN  IF \/ frags = << >>
           \/ \E k \in DOMAIN frags : \/ frags[k].frame_id # frags[1].frame_id
                                      \/ frags[k].total # total
                                      \/ frags[k].index >= total
           \/ \E i \in 0..(total - 1) : Slot(frags, i) = 0
        THEN << >>
        ELSE << FlattenSeq([i \in 1..total |-> frags[Slot(frags, i - 1)].chunk]) >>
=============================================================================
