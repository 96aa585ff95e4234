------------------------------- MODULE Belief -------------------------------
(***************************************************************************)
(* One node's BeliefEngine fed, in any order and any number of times, with *)
(* the evidence its callers may hold: originals, copies forwarded by       *)
(* relays, copies whose payload or signature did not survive.              *)
(***************************************************************************)
EXTENDS BeliefEngine, Sequences

CONSTANT Inputs     \* the evidence that may be presented

(* Evidence that verifies carries the observation id originate gave it:     *)
(* the hash of its payload.  forward copies both unchanged.                 *)
ASSUME InputsAssumption ==
    \A e \in Inputs :
        /\ e.subject \in Subjects
        /\ Verified(e) => e.observation_id = Blake3(e.payload)

ASSUME MarkersAssumption ==
    /\ NoEvidence \notin Inputs
    /\ NoTrack \notin Track

VARIABLE engine

Init == engine = NewEngine

Incorporate(e) == engine' = EngineAfter(engine, e)

Next == \E e \in Inputs : Incorporate(e)

Spec == Init /\ [][Next]_engine

-----------------------------------------------------------------------------
ObservationIds == {e.observation_id : e \in Inputs}

Conflict == Subjects \X Inputs \X Inputs

(* The engine's maps hold what their Rust types say, variances positive.    *)
TypeOK ==
    engine \in [tracks        : [Subjects -> Track \cup {NoTrack}],
                incorporated  : [Subjects -> SUBSET ObservationIds],
                conflicts     : Seq(Conflict),
                last_evidence : [Subjects -> Inputs \cup {NoEvidence}]]

(* The observations of s that reached the filter: ids whose payload decodes *)
Applied(s) == {o \in engine.incorporated[s] : o.blake3 \in DOMAIN Measured}

(* tracks and last_evidence are written by different statements of          *)
(* incorporate and read together by the conflict test: a subject has both   *)
(* or neither, and the last evidence is verified, about that subject and    *)
(* behind the dedup gate.                                                   *)
LastEvidenceBacksTrack ==
    \A s \in Subjects :
        /\ engine.tracks[s] = NoTrack <=> engine.last_evidence[s] = NoEvidence
        /\ engine.last_evidence[s] # NoEvidence =>
              /\ engine.last_evidence[s].subject = s
              /\ Verified(engine.last_evidence[s])
              /\ engine.last_evidence[s].observation_id \in Applied(s)

(* Decision 0004: a conflict pair is two DISTINCT, verified and             *)
(* incorporated observations of the one subject it names.                   *)
ConflictPairsSound ==
    \A i \in DOMAIN engine.conflicts :
        LET s    == engine.conflicts[i][1]
            prev == engine.conflicts[i][2]
            new  == engine.conflicts[i][3]
        IN  /\ prev.subject = s /\ new.subject = s
            /\ Verified(prev) /\ Verified(new)
            /\ prev.observation_id # new.observation_id
            /\ {prev.observation_id, new.observation_id} \subseteq Applied(s)

(* Decision 0004, "duplicates never flag": over the life of the engine an   *)
(* observation is the newcomer of at most one pair and the predecessor of   *)
(* at most one, however often relays redeliver it.                          *)
FlaggedOncePerRole ==
    \A i, j \in DOMAIN engine.conflicts :
        i # j /\ engine.conflicts[i][1] = engine.conflicts[j][1] =>
            /\ engine.conflicts[i][2].observation_id
                 # engine.conflicts[j][2].observation_id
            /\ engine.conflicts[i][3].observation_id
                 # engine.conflicts[j][3].observation_id

(* Why that is so: the last evidence of a subject has not been the          *)
(* predecessor of a pair yet.                                               *)
LastNotYetPredecessor ==
    \A i \in DOMAIN engine.conflicts :
        LET last == engine.last_evidence[engine.conflicts[i][1]]
        IN  /\ last # NoEvidence
            /\ engine.conflicts[i][2].observation_id # last.observation_id

(* Invariant 9: the update counter of a track is exactly one per dimension  *)
(* and independent observation, whatever duplicates and relays delivered    *)
(* (the field's doc promises one per evidence group).                       *)
CounterCountsObservations ==
    \A s \in Subjects :
        IF engine.tracks[s] = NoTrack
        THEN Applied(s) = {}
        ELSE engine.tracks[s].independent_updates
               = Cardinality(Dims) * Cardinality(Applied(s))

(* Invariant 11: a step never drops or rewrites a retained conflict pair,   *)
(* forgets an incorporated id, or loses a track.                            *)
NothingForgotten ==
    [][/\ Len(engine.conflicts) <= Len(engine'.conflicts)
       /\ SubSeq(engine'.conflicts, 1, Len(engine.conflicts)) = engine.conflicts
       /\ \A s \in Subjects :
             /\ engine.incorporated[s] \subseteq engine'.incorporated[s]
             /\ engine'.tracks[s] = NoTrack => engine.tracks[s] = NoTrack]_engine

(* A call that does not return Ok(true) leaves belief untouched: the step   *)
(* either fuses exactly one new observation into exactly one subject's      *)
(* track or changes no track and flags nothing.                             *)
OneObservationPerUpdate ==
    [][engine'.tracks # engine.tracks \/ engine'.conflicts # engine.conflicts =>
         \E s \in Subjects :
            /\ \A t \in Subjects \ {s} :
                  /\ engine'.tracks[t] = engine.tracks[t]
                  /\ engine'.incorporated[t] = engine.incorporated[t]
            /\ \E o \in Applied(s)' :
                  Applied(s)' \ Applied(s) = {o}]_engine

-----------------------------------------------------------------------------
(* The mapping to BeliefOfSet: the observations of a subject are the applied *)
(* ones, and its fractions are brought to the textbook denominator.         *)
(* The numerator of r over a given denominator, if r has one.               *)
NumeratorOver(r, over) ==
    IF (r.num * over) % r.den = 0 THEN (r.num * over) \div r.den ELSE NoTrack

AbstractPosterior(s) ==
    LET track   == engine.tracks[s]
        over(d) == Noise[d] + Cardinality(Applied(s)) * PriorVar
    IN  IF track = NoTrack THEN NoTrack
        ELSE [over |-> [d \in Dims |-> over(d)],
              mean |-> [d \in Dims |-> NumeratorOver(track.mean[d], over(d))],
              var  |-> [d \in Dims |-> NumeratorOver(track.var[d], over(d))],
              updates |-> track.independent_updates]

AbstractBelief ==
    INSTANCE BeliefOfSet
        WITH NoBelief  <- NoTrack,
             observed  <- [s \in Subjects |-> Applied(s)],
             posterior <- [s \in Subjects |-> AbstractPosterior(s)]

(* Invariants 8, 9 and 13: the engine's recursive updates implement the     *)
(* belief that is a function of the set of independent observations.        *)
BeliefIsFunctionOfSet == AbstractBelief!Spec
=============================================================================
