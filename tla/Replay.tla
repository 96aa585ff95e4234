------------------------------- MODULE Replay -------------------------------
(***************************************************************************)
(* ReplayEngine::replay: a log is recorded event by event, then replayed   *)
(* from scratch twice, the second pass checked against the first by        *)
(* fingerprint.  The first event that fails ends the replay with its index.*)
(***************************************************************************)
EXTENDS ReplayEngine, FiniteSets

CONSTANTS
    Events,      \* the events a recorder may push
    MaxEvents    \* bound on the length of the log

(* What recorders log names subjects, messages, nodes and keys that exist,  *)
(* and writes something.                                                    *)
IsEvent(ev) ==
    /\ ev.type = "Observation" => ev.evidence.subject \in Subjects
    /\ ev.type = "MessageSent" =>
          ev.id \in ToSet(MessageOrder) /\ ev.payload # Nothing
    /\ ev.type = "TransportLoss" => ev = TransportLoss(ev.message_id)
    /\ ev.type = "NodeOnline" =>
          ev = NodeOnline(ev.node_id) /\ ev.node_id \in ToSet(NodeOrder)
    /\ ev.type = "NodeOffline" =>
          ev = NodeOffline(ev.node_id) /\ ev.node_id \in ToSet(NodeOrder)
    /\ ev.type = "DbWrite" =>
          ev.key \in ToSet(KeyOrder) /\ ev.value_hash # Nothing
    /\ ev.type = "DbRead" => ev.key \in ToSet(KeyOrder)

ASSUME ReplayAssumption ==
    /\ MaxEvents \in Nat
    /\ \A ev \in Events : IsEvent(ev)

(* Evidence that verifies carries the observation id originate gave it.     *)
ASSUME LoggedEvidenceAssumption ==
    /\ NoTrack \notin Track
    /\ \A ev \in Events :
          ev.type = "Observation" /\ Verified(ev.evidence) =>
              ev.evidence.observation_id = Blake3(ev.evidence.payload)

VARIABLES
    log,         \* EventLog.events
    pass,        \* 0 while recording, then 1 and 2
    index,       \* events of this pass applied so far
    replay,      \* the ReplayEngine of this pass
    first,       \* fingerprint the first pass ended with, or Nothing
    verdict      \* "none", then "Ok", "NonDeterministic" or "EventFailed"

vars == <<log, pass, index, replay, first, verdict>>

Init ==
    /\ log = << >>
    /\ pass = 0
    /\ index = 0
    /\ replay = NewReplay
    /\ first = Nothing
    /\ verdict = "none"

Push(ev) ==
    /\ pass = 0 /\ Len(log) < MaxEvents
    /\ log' = Append(log, ev)
    /\ UNCHANGED <<pass, index, replay, first, verdict>>

Start ==
    /\ pass = 0
    /\ pass' = 1
    /\ UNCHANGED <<log, index, replay, first, verdict>>

Replaying == pass > 0 /\ verdict = "none"

ApplyNext ==
    /\ Replaying /\ index < Len(log)
    /\ ~Fails(replay, log[index + 1])
    /\ replay' = Effect(replay, log[index + 1])
    /\ index' = index + 1
    /\ UNCHANGED <<log, pass, first, verdict>>

FailEvent ==
    /\ Replaying /\ index < Len(log)
    /\ Fails(replay, log[index + 1])
    /\ verdict' = "EventFailed"
    /\ UNCHANGED <<log, pass, index, replay, first>>

SecondPass ==
    /\ Replaying /\ index = Len(log) /\ pass = 1
    /\ first' = Fingerprint(replay)
    /\ replay' = NewReplay
    /\ pass' = 2
    /\ index' = 0
    /\ UNCHANGED <<log, verdict>>

Compare ==
    /\ Replaying /\ index = Len(log) /\ pass = 2
    /\ verdict' = IF Fingerprint(replay) = first THEN "Ok" ELSE "NonDeterministic"
    /\ UNCHANGED <<log, pass, index, replay, first>>

Next ==
    \/ \E ev \in Events : Push(ev)
    \/ Start \/ ApplyNext \/ FailEvent \/ SecondPass \/ Compare

Spec == Init /\ [][Next]_vars

-----------------------------------------------------------------------------
Applied == SubSeq(log, 1, index)

(* The position of the last applied event the test holds of, or 0.          *)
LastOf(Test(_)) == SelectLastInSeq(Applied, Test)

(* Replay is last-writer-wins per key, stated over the log: a message is    *)
(* seen iff it was sent and no loss of its id came later, a node's status   *)
(* and a key's value are those of its last event.                           *)
StateIsLastWrite ==
    /\ \A m \in ToSet(MessageOrder) :
          LET k == LastOf(LAMBDA ev : \/ ev.type = "MessageSent" /\ ev.id = m
                                      \/ ev = TransportLoss(m))
          IN  replay.seen_messages[m] =
                IF k = 0 \/ log[k].type = "TransportLoss" THEN Nothing
                ELSE log[k].payload
    /\ \A n \in ToSet(NodeOrder) :
          LET k == LastOf(LAMBDA ev : ev \in {NodeOnline(n), NodeOffline(n)})
          IN  replay.nodes_online[n] =
                IF k = 0 THEN Nothing ELSE log[k].type = "NodeOnline"
    /\ \A q \in ToSet(KeyOrder) :
          LET k == LastOf(LAMBDA ev : ev.type = "DbWrite" /\ ev.key = q)
          IN  replay.db[q] = IF k = 0 THEN Nothing ELSE log[k].value_hash

(* What lets the k-th event be applied, stated over the log: a read follows *)
(* a write of its key; an observation verifies and, unless its id is        *)
(* already recorded for its subject, decodes.                               *)
Recorded(k, e) ==
    \E j \in 1..(k - 1) :
        /\ log[j].type = "Observation"
        /\ log[j].evidence.subject = e.subject
        /\ log[j].evidence.observation_id = e.observation_id

Justified(k) ==
    CASE log[k].type = "DbRead" ->
           \E j \in 1..(k - 1) : log[j].type = "DbWrite" /\ log[j].key = log[k].key
      [] log[k].type = "Observation" ->
           /\ Verified(log[k].evidence)
           /\ Decodes(log[k].evidence) \/ Recorded(k, log[k].evidence)
      [] OTHER -> TRUE

(* A verdict speaks of the whole log: "Ok" iff every event is justified;    *)
(* otherwise the first pass stopped at the first event that is not.         *)
(* Invariant 14: the second pass never differs from the first.              *)
VerdictIsAboutTheLog ==
    /\ verdict = "Ok" => \A k \in DOMAIN log : Justified(k)
    /\ verdict = "EventFailed" =>
          /\ pass = 1 /\ ~Justified(index + 1)
          /\ \A k \in 1..index : Justified(k)
    /\ verdict # "NonDeterministic"

(* Invariant 13 over logs: an Ok replay of the events in the reverse order  *)
(* would end in the same beliefs (not the same flags).                      *)
SameRat(a, b) == a.num * b.den = b.num * a.den

SameTracks(r, s) ==
    \A a \in Subjects :
        LET t == r.beliefs.tracks[a]
            u == s.beliefs.tracks[a]
        IN  IF NoTrack \in {t, u} THEN t = u
            ELSE \A d \in Dims : /\ SameRat(t.mean[d], u.mean[d])
                                 /\ SameRat(t.var[d], u.var[d])

BeliefsIgnoreLogOrder ==
    verdict = "Ok" => SameTracks(replay, ReplayOf(Reverse(log)))

(* The doc of state_fingerprint: a replay that reproduces one part of the   *)
(* state but diverges in another "must NOT compare equal".  The other       *)
(* replays are those of a single event.                                     *)
FingerprintSeparates ==
    verdict = "Ok" =>
        \A ev \in {x \in Events : ~Fails(NewReplay, x)} :
            LET other == ReplayOf(<<ev>>)
            IN  Fingerprint(other) = Fingerprint(replay) =>
                    /\ other.seen_messages = replay.seen_messages
                    /\ other.nodes_online = replay.nodes_online
                    /\ other.db = replay.db
                    /\ other.beliefs.tracks = replay.beliefs.tracks
=============================================================================
