----------------------------- MODULE QuicFrame -----------------------------
(***************************************************************************)
(* The QUIC framing of crate seven-mql: encode_frame, decode_frame and the *)
(* bytes a sender puts on its stream.                                      *)
(*                                                                         *)
(* A prefix, four bytes in the code, is one byte here.  What makes the two *)
(* kinds of stream recognisable survives the scaling: a body is JSON and   *)
(* begins with a brace, which read as a prefix exceeds every limit, while  *)
(* a prefix within the limit begins no JSON.                               *)
(***************************************************************************)
EXTENDS Integers, Sequences, SequencesExt

CONSTANTS
    Messages,
    BodyOf,      \* [Messages -> the bytes serde_json writes]
    SendMax,     \* max_message_bytes of the sender's configuration
    RecvMax      \* max_message_bytes of the receiver's

Brace == 123

ASSUME FrameAssumption ==
    /\ BodyOf \in [Messages -> Seq(0..255)] /\ IsInjective(BodyOf)
    /\ \A m \in Messages : BodyOf[m] # << >> /\ BodyOf[m][1] = Brace
    /\ SendMax \in 0..(Brace - 1) /\ RecvMax \in 0..(Brace - 1)

Frame(m) == <<Len(BodyOf[m])>> \o BodyOf[m]

(* encode_frame fails on a body that is too long.                           *)
Encodable(m) == Len(BodyOf[m]) <= SendMax

(* serde_json::from_slice: the messages of these bytes, at most one.        *)
Parsed(body) == {m \in Messages : BodyOf[m] = body}

(* Fault: the limit itself is too long.                                     *)
WithinLimit_Strict(len) == len < RecvMax
WithinLimit(len) == len <= RecvMax

(* Fault: a body as long as the limit is refused, here only.                *)
DecodeFrame_Strict(buf) ==
    IF buf = << >> THEN <<"more">>
    ELSE IF buf[1] >= RecvMax THEN <<"error">>
    ELSE IF Len(buf) < 1 + buf[1] THEN <<"more">>
    ELSE LET found == Parsed(SubSeq(buf, 2, 1 + buf[1]))
         IN  IF found = {} THEN <<"error">>
             ELSE <<"message", CHOOSE m \in found : TRUE>>

(* decode_frame of the front of a buffer.                                   *)
DecodeFrame(buf) ==
    IF buf = << >> THEN <<"more">>
    ELSE IF ~WithinLimit(buf[1]) THEN <<"error">>
    ELSE IF Len(buf) < 1 + buf[1] THEN <<"more">>
    ELSE LET found == Parsed(SubSeq(buf, 2, 1 + buf[1]))
         IN  IF found = {} THEN <<"error">>
             ELSE <<"message", CHOOSE m \in found : TRUE>>

-----------------------------------------------------------------------------
(* A job is a call of send_message, with one message, or send_messages.     *)
IsJob(job) ==
    /\ job.kind \in {"single", "batch"}
    /\ job.messages \in Seq(Messages)
    /\ job.kind = "single" => Len(job.messages) = 1

Completes(job) == \A i \in DOMAIN job.messages : Encodable(job.messages[i])

(* All the job writes before it finishes or meets a message too long.       *)
Script(job) ==
    LET tooLong == SelectInSeq(job.messages, LAMBDA m : ~Encodable(m))
        written == IF tooLong = 0 THEN job.messages
                   ELSE SubSeq(job.messages, 1, tooLong - 1)
    IN  (IF job.kind = "batch" THEN <<Len(job.messages)>> ELSE << >>)
          \o FlattenSeq([i \in DOMAIN written |-> Frame(written[i])])
=============================================================================
