----------------------------- MODULE Simulation -----------------------------
(***************************************************************************)
(* A simulated run and its replay: a recorder, which logs every message it *)
(* is about to send and other events beside, and LossyChannel, which logs  *)
(* its faults, append to one EventLog; afterwards ReplayEngine replays it. *)
(* Nothing in the repository logs MessageSent for the channel yet: that    *)
(* part, Announce, is the caller's.                                        *)
(*                                                                         *)
(* The channel is one LossyChannel::new returned, which refuses to build   *)
(* one of probabilities outside 0..1; a probability of zero or more than   *)
(* that is what MayLose, MayDuplicate and MayReorder tell apart.           *)
(***************************************************************************)
EXTENDS Replay

CONSTANTS
    Streams, MayLose, MayDuplicate, MayReorder,   \* of FaultyStream
    Beside,           \* bound: the events recorded beside a stream
    MaxReplayed       \* bound on the length of the logs that are replayed

(* Streams are of messages whose ids exist, and what is recorded beside a   *)
(* stream is not about its messages.                                        *)
ASSUME SimulationAssumption ==
    /\ {MayLose, MayDuplicate, MayReorder} \subseteq BOOLEAN
    /\ MaxReplayed \in Nat
    /\ \A s \in Streams :
          /\ s \in Seq(ToSet(MessageOrder))
          /\ \A k \in DOMAIN s : <<k>> # Nothing
    /\ \A ev \in Beside : \A s \in Streams :
          /\ ev.type # "TransportReorder"
          /\ ev.type = "MessageSent" => ev.id \notin ToSet(s)
          /\ ev.type \in {"TransportLoss", "TransportDuplicate"} =>
                ev.message_id \notin ToSet(s)

VARIABLES stream, next, arrivals, phase, i        \* of FaultyStream

channel == <<stream, next, arrivals, phase, i>>
engine  == <<pass, index, replay, first, verdict>>

Channel == INSTANCE FaultyStream

SimInit == Init /\ Channel!Init

-----------------------------------------------------------------------------
Announced ==
    Cardinality({k \in DOMAIN log : /\ log[k].type = "MessageSent"
                                    /\ log[k].id \in ToSet(stream)})

Announce ==
    /\ pass = 0 /\ Announced < Len(stream)
    /\ log' = Append(log, MessageSent(stream[Announced + 1], <<Announced + 1>>))
    /\ UNCHANGED <<channel, engine>>

Record(ev) ==
    /\ stream # << >> => ev \in Beside
    /\ Push(ev)
    /\ UNCHANGED channel

Transport ==
    /\ pass = 0 /\ Announced = Len(stream)
    /\ Channel!Next
    /\ UNCHANGED engine

ReplayLog ==
    /\ pass = 0 => phase = "done" /\ Len(log) <= MaxReplayed
    /\ Start \/ ApplyNext \/ FailEvent \/ SecondPass \/ Compare
    /\ UNCHANGED channel

SimNext ==
    \/ Announce \/ Transport \/ ReplayLog
    \/ \E ev \in Events : Record(ev)

SimSpec == SimInit /\ [][SimNext]_<<channel, log, engine>>

-----------------------------------------------------------------------------
(* Invariant 16, of the channel's part of the shared log: as many copies of *)
(* a message arrive as its losses and duplications in the log leave.        *)
CopiesAccountedFor == Channel!CopiesAccountedFor

(* From the stream and the shared log an auditor can rebuild the arrivals   *)
(* of distinct messages, order included, whatever else was logged between.  *)
LogExplainsArrivals == Channel!LogExplainsArrivals

(* S17 across the two crates: what a replay takes for seen is what arrived. *)
(* For distinct ids, after an Ok replay a message of the stream is in       *)
(* seen_messages, with the payload it was sent with, exactly if a copy of   *)
(* it came through, duplicated and reordered or not.                        *)
ReplayKnowsWhatArrived ==
    verdict = "Ok" /\ Channel!UniqueIds =>
        \A k \in DOMAIN stream :
            replay.seen_messages[stream[k]] =
                IF stream[k] \in ToSet(arrivals) THEN <<k>> ELSE Nothing
=============================================================================
