---------------------------- MODULE ReplayEngine ----------------------------
(***************************************************************************)
(* ReplayEngine of crate seven-replay as a value: the effect of one event  *)
(* (apply), of a whole log (replay_pass), and the bytes whose hash is the  *)
(* state's fingerprint.                                                    *)
(*                                                                         *)
(* A byte of the fingerprint's input is <<"byte", b>>, a track is the one  *)
(* token <<"track", t>> and a subject's name one byte: tracks and names    *)
(* are long, and where one ends plays no part below.                       *)
(***************************************************************************)
EXTENDS BeliefEngine, SequencesExt

CONSTANTS
    MessageOrder,   \* message ids in the order a BTreeMap iterates them
    NodeOrder, KeyOrder, SubjectOrder,
    Nothing         \* no entry

ASSUME OrderAssumption == ToSet(SubjectOrder) = Subjects

NewReplay ==
    [beliefs       |-> NewEngine,
     seen_messages |-> [m \in ToSet(MessageOrder) |-> Nothing],
     nodes_online  |-> [n \in ToSet(NodeOrder) |-> Nothing],
     db            |-> [k \in ToSet(KeyOrder) |-> Nothing]]

Observation(e)       == [type |-> "Observation", evidence |-> e]
MessageSent(id, p)   == [type |-> "MessageSent", id |-> id, payload |-> p]
MessageReceived(id)  == [type |-> "MessageReceived", id |-> id]
TransportLoss(id)    == [type |-> "TransportLoss", message_id |-> id]
NodeOnline(n)        == [type |-> "NodeOnline", node_id |-> n]
NodeOffline(n)       == [type |-> "NodeOffline", node_id |-> n]
DbWrite(k, h)        == [type |-> "DbWrite", key |-> k, value_hash |-> h]
DbRead(k, h)         == [type |-> "DbRead", key |-> k, value_hash |-> h]

-----------------------------------------------------------------------------
(* Fault: reads are not checked.                                            *)
Fails_IgnoresReads(r, ev) ==
    /\ ev.type = "Observation"
    /\ Outcome(r.beliefs, ev.evidence) \in {"UnverifiedEvidence", "NonFinite"}

(* apply fails on evidence incorporate rejects and on a read of a key that  *)
(* was never written; the value read is not compared.                       *)
Fails(r, ev) ==
    \/ /\ ev.type = "Observation"
       /\ Outcome(r.beliefs, ev.evidence) \in {"UnverifiedEvidence", "NonFinite"}
    \/ /\ ev.type = "DbRead"
       /\ r.db[ev.key] = Nothing

(* Fault: a node coming back online starts from an empty message store.     *)
Effect_OnlineForgets(r, ev) ==
    CASE ev.type = "Observation" ->
           [r EXCEPT !.beliefs = EngineAfter(@, ev.evidence)]
      [] ev.type = "MessageSent" -> [r EXCEPT !.seen_messages[ev.id] = ev.payload]
      [] ev.type = "TransportLoss" ->
           [r EXCEPT !.seen_messages[ev.message_id] = Nothing]
      [] ev.type = "NodeOnline" ->
           [r EXCEPT !.nodes_online[ev.node_id] = TRUE,
                     !.seen_messages = NewReplay.seen_messages]
      [] ev.type = "NodeOffline" -> [r EXCEPT !.nodes_online[ev.node_id] = FALSE]
      [] ev.type = "DbWrite" -> [r EXCEPT !.db[ev.key] = ev.value_hash]
      [] OTHER -> r

(* The state apply leaves when it does not fail.                            *)
Effect(r, ev) ==
    CASE ev.type = "Observation" ->
           [r EXCEPT !.beliefs = EngineAfter(@, ev.evidence)]
      [] ev.type = "MessageSent" -> [r EXCEPT !.seen_messages[ev.id] = ev.payload]
      [] ev.type = "TransportLoss" ->
           [r EXCEPT !.seen_messages[ev.message_id] = Nothing]
      [] ev.type = "NodeOnline" -> [r EXCEPT !.nodes_online[ev.node_id] = TRUE]
      [] ev.type = "NodeOffline" -> [r EXCEPT !.nodes_online[ev.node_id] = FALSE]
      [] ev.type = "DbWrite" -> [r EXCEPT !.db[ev.key] = ev.value_hash]
      [] OTHER -> r

(* The state of a log none of whose events fails.                           *)
ReplayOf(log) == FoldLeft(Effect, NewReplay, log)

-----------------------------------------------------------------------------
Bytes(b) == [k \in DOMAIN b |-> <<"byte", b[k]>>]

(* Names are sequences of bytes; a map is its entries, one after the other. *)
Entries(order, map, Value(_)) ==
    FlattenSeq([k \in DOMAIN order |->
        IF map[order[k]] = Nothing THEN << >>
        ELSE Bytes(order[k]) \o Value(map[order[k]])])

(* state_fingerprint; blake3 of different bytes differs, so the bytes do.   *)
Fingerprint(r) ==
    Entries(MessageOrder, r.seen_messages, Bytes)
      \o Entries(NodeOrder, r.nodes_online,
                 LAMBDA on : Bytes(<<IF on THEN 1 ELSE 0>>))
      \o Entries(KeyOrder, r.db, Bytes)
      \o FlattenSeq([k \in DOMAIN SubjectOrder |->
            LET t == r.beliefs.tracks[SubjectOrder[k]]
            IN  IF t = NoTrack THEN << >>
                ELSE Bytes(<<SubjectOrder[k]>>) \o << <<"track", t>> >>])
=============================================================================
