---------------------------- MODULE BeliefProofs ----------------------------
(***************************************************************************)
(* Theorems about Belief for every choice of subjects, dimensions, noise,  *)
(* payloads and inputs that meets the assumptions, in two inductive        *)
(* invariants.  ConflictInv is TypeOK, LastEvidenceBacksTrack,             *)
(* ConflictPairsSound and the strengthening LastNotYetPredecessor, on      *)
(* which a pair's uniqueness rests.  KnowsWhatReached, of the engine as a  *)
(* value, says of every subject that its track is the posterior of the     *)
(* observations incorporated; the refinement of BeliefOfSet follows.       *)
(***************************************************************************)
EXTENDS Belief, EvidenceProofs

-----------------------------------------------------------------------------
(* The cases of a step, with the fields each writes.                        *)
LEMMA StepCases ==
    ASSUME TypeOK, NEW e \in Inputs, Incorporate(e)
    PROVE  \/ UNCHANGED engine
           \/ /\ Verified(e) /\ ~Duplicate(engine, e) /\ ~Decodes(e)
              /\ engine' = Gated(engine, e)
           \/ /\ Verified(e) /\ ~Duplicate(engine, e) /\ Decodes(e)
              /\ engine' = Fused(Gated(engine, e), e)
  BY DEF Incorporate, EngineAfter

Engine == [tracks        : [Subjects -> Track \cup {NoTrack}],
           incorporated  : [Subjects -> SUBSET ObservationIds],
           conflicts     : Seq(Conflict),
           last_evidence : [Subjects -> Inputs \cup {NoEvidence}]]

(* What the dedup gate writes and leaves.                                   *)
LEMMA GatedFields ==
    ASSUME TypeOK, NEW e \in Inputs
    PROVE  /\ Gated(engine, e) \in Engine
           /\ Gated(engine, e).tracks = engine.tracks
           /\ Gated(engine, e).conflicts = engine.conflicts
           /\ Gated(engine, e).last_evidence = engine.last_evidence
           /\ Gated(engine, e).incorporated =
                 [engine.incorporated EXCEPT
                    ![e.subject] = @ \cup {e.observation_id}]
  <1>1. e.subject \in Subjects /\ e.observation_id \in ObservationIds
    BY InputsAssumption DEF InputsAssumption, ObservationIds
  <1> QED
    BY <1>1 DEF TypeOK, Engine, Gated

(* What a step that fuses e writes.                                         *)
LEMMA FusedFields ==
    ASSUME TypeOK, NEW e \in Inputs, Decodes(e)
    PROVE  LET f == Fused(Gated(engine, e), e) IN
           /\ f \in Engine
           /\ f.tracks = [engine.tracks EXCEPT ![e.subject] =
                 Updated(TrackOrPrior(engine, e.subject), Measured[e.payload])]
           /\ f.conflicts = Flagged(engine, e)
           /\ f.last_evidence =
                 [engine.last_evidence EXCEPT ![e.subject] = e]
           /\ f.incorporated = [engine.incorporated EXCEPT
                  ![e.subject] = @ \cup {e.observation_id}]
  <1> DEFINE g == Gated(engine, e)
             u == Updated(TrackOrPrior(engine, e.subject), Measured[e.payload])
  <1>1. /\ g \in Engine
        /\ g.tracks = engine.tracks
        /\ g.conflicts = engine.conflicts
        /\ g.last_evidence = engine.last_evidence
        /\ g.incorporated = [engine.incorporated EXCEPT
                  ![e.subject] = @ \cup {e.observation_id}]
    BY GatedFields
  <1>2. /\ TrackOrPrior(g, e.subject) = TrackOrPrior(engine, e.subject)
        /\ Flagged(g, e) = Flagged(engine, e)
    BY <1>1 DEF TrackOrPrior, Flagged, Conflicting
  <1>3. e.subject \in Subjects
    BY InputsAssumption DEF InputsAssumption
  <1>4. TrackOrPrior(engine, e.subject) \in Track
    BY <1>3, UninformativeType DEF TrackOrPrior, TypeOK
  <1>5. Measured[e.payload] \in [Dims -> Int]
    BY GaussianAssumption DEF Decodes, GaussianAssumption
  <1>6. u \in Track
    BY <1>4, <1>5, UpdatedType
  <1>7. Flagged(engine, e) \in Seq(Conflict)
    BY <1>3 DEF Flagged, Conflict, TypeOK
  <1> DEFINE t == [g.tracks EXCEPT ![e.subject] = u]
             l == [g.last_evidence EXCEPT ![e.subject] = e]
             c == Flagged(engine, e)
  <1>8. Fused(g, e) = [g EXCEPT !.tracks = t, !.conflicts = c,
                                !.last_evidence = l]
    BY <1>1, <1>2 DEF Fused, Engine
  <1> HIDE DEF g, u
  <1>9. /\ t \in [Subjects -> Track \cup {NoTrack}]
        /\ l \in [Subjects -> Inputs \cup {NoEvidence}]
    BY <1>1, <1>3, <1>6 DEF Engine
  <1> HIDE DEF t, l, c
  <1>10. /\ Fused(g, e) \in Engine
         /\ Fused(g, e).tracks = t
         /\ Fused(g, e).conflicts = c
         /\ Fused(g, e).last_evidence = l
         /\ Fused(g, e).incorporated = g.incorporated
    BY <1>1, <1>7, <1>8, <1>9 DEF Engine, c
  <1> QED
    BY <1>1, <1>10 DEF g, u, t, l, c

-----------------------------------------------------------------------------
(* The engine's maps always hold what their Rust types say, and every       *)
(* variance a division by which would be undefined stays positive.          *)
THEOREM TypeCorrect == Spec => []TypeOK
  <1>1. Init => TypeOK
    BY DEF Init, NewEngine, TypeOK
  <1>2. TypeOK /\ [Next]_engine => TypeOK'
    <2> SUFFICES ASSUME TypeOK, [Next]_engine PROVE TypeOK'
      OBVIOUS
    <2>1. CASE UNCHANGED engine
      BY <2>1 DEF TypeOK
    <2>2. ASSUME NEW e \in Inputs, Incorporate(e) PROVE TypeOK'
      <3>1. CASE engine' = Gated(engine, e)
        BY <3>1, GatedFields DEF TypeOK, Engine
      <3>2. CASE Decodes(e) /\ engine' = Fused(Gated(engine, e), e)
        BY <3>2, FusedFields DEF TypeOK, Engine
      <3> QED
        BY <2>1, <2>2, <3>1, <3>2, StepCases
    <2> QED
      BY <2>1, <2>2 DEF Next
  <1> QED
    BY <1>1, <1>2, PTL DEF Spec

-----------------------------------------------------------------------------
(* The observation a fusing step adds to the applied set is new, and no     *)
(* other subject's set changes; a step that fails to decode adds none.      *)
LEMMA AppliedAfterFused ==
    ASSUME TypeOK, NEW e \in Inputs, Verified(e), ~Duplicate(engine, e),
           Decodes(e), engine' = Fused(Gated(engine, e), e)
    PROVE  /\ e.subject \in Subjects
           /\ e.observation_id \notin Applied(e.subject)
           /\ Applied(e.subject)' = Applied(e.subject) \cup {e.observation_id}
           /\ \A s \in Subjects \ {e.subject} : Applied(s)' = Applied(s)
  <1>1. e.subject \in Subjects /\ e.observation_id = Blake3(e.payload)
    BY InputsAssumption DEF InputsAssumption
  <1>2. e.observation_id.blake3 \in DOMAIN Measured
    BY <1>1 DEF Blake3, Decodes
  <1>3. e.observation_id \notin engine.incorporated[e.subject]
    BY DEF Duplicate
  <1>4. engine.incorporated \in [Subjects -> SUBSET ObservationIds]
    BY DEF TypeOK
  <1>5. engine'.incorporated = [engine.incorporated EXCEPT
                  ![e.subject] = @ \cup {e.observation_id}]
    BY FusedFields
  <1> QED
    BY <1>1, <1>2, <1>3, <1>4, <1>5 DEF Applied

(* Recording an undecodable id leaves every subject's applied set alone.    *)
LEMMA AppliedAfterGated ==
    ASSUME TypeOK, NEW e \in Inputs, Verified(e), ~Decodes(e),
           engine' = Gated(engine, e)
    PROVE  \A s \in Subjects : Applied(s)' = Applied(s)
  <1>1. e.subject \in Subjects /\ e.observation_id = Blake3(e.payload)
    BY InputsAssumption DEF InputsAssumption
  <1>2. e.observation_id.blake3 \notin DOMAIN Measured
    BY <1>1 DEF Blake3, Decodes
  <1>3. engine.incorporated \in [Subjects -> SUBSET ObservationIds]
    BY DEF TypeOK
  <1>4. engine'.incorporated = [engine.incorporated EXCEPT
                  ![e.subject] = @ \cup {e.observation_id}]
    BY GatedFields
  <1> QED
    BY <1>1, <1>2, <1>3, <1>4 DEF Applied

-----------------------------------------------------------------------------
ConflictInv ==
    /\ LastEvidenceBacksTrack
    /\ ConflictPairsSound
    /\ FlaggedOncePerRole
    /\ LastNotYetPredecessor

(* A new engine has no tracks, no last evidence and no pairs.               *)
LEMMA ConflictInvInit == Init => ConflictInv
  BY DEF Init, NewEngine, ConflictInv, LastEvidenceBacksTrack,
         ConflictPairsSound, FlaggedOncePerRole, LastNotYetPredecessor

(* A step that only records an id disturbs none of the conflict facts.      *)
LEMMA ConflictInvGated ==
    ASSUME TypeOK, ConflictInv, NEW e \in Inputs, Verified(e), ~Decodes(e),
           engine' = Gated(engine, e)
    PROVE  ConflictInv'
  <1>1. \A s \in Subjects : Applied(s)' = Applied(s)
    BY AppliedAfterGated
  <1>2. /\ engine'.tracks = engine.tracks
        /\ engine'.conflicts = engine.conflicts
        /\ engine'.last_evidence = engine.last_evidence
    BY GatedFields
  <1>3. \A i \in DOMAIN engine.conflicts : engine.conflicts[i][1] \in Subjects
    BY DEF TypeOK, Conflict
  <1>4. LastEvidenceBacksTrack'
    BY <1>1, <1>2 DEF ConflictInv, LastEvidenceBacksTrack
  <1>5. ConflictPairsSound'
    BY <1>1, <1>2, <1>3 DEF ConflictInv, ConflictPairsSound
  <1> QED
    BY <1>2, <1>4, <1>5
    DEF ConflictInv, FlaggedOncePerRole, LastNotYetPredecessor

(* A fusing step keeps them: the new pair is the last evidence, which has   *)
(* not been a predecessor, and an observation that was not applied before.  *)
LEMMA ConflictInvFused ==
    ASSUME TypeOK, ConflictInv, NEW e \in Inputs, Verified(e),
           ~Duplicate(engine, e), Decodes(e),
           engine' = Fused(Gated(engine, e), e)
    PROVE  ConflictInv'
  <1> DEFINE s    == e.subject
             prev == engine.last_evidence[s]
             cs   == engine.conflicts
  <1>1. /\ s \in Subjects
        /\ e.observation_id \notin Applied(s)
        /\ Applied(s)' = Applied(s) \cup {e.observation_id}
        /\ \A t \in Subjects \ {s} : Applied(t)' = Applied(t)
    BY AppliedAfterFused
  <1>2. /\ engine'.tracks = [engine.tracks EXCEPT ![s] =
                Updated(TrackOrPrior(engine, s), Measured[e.payload])]
        /\ engine'.conflicts = Flagged(engine, e)
        /\ engine'.last_evidence = [engine.last_evidence EXCEPT ![s] = e]
    BY FusedFields
  <1>3. /\ engine.tracks \in [Subjects -> Track \cup {NoTrack}]
        /\ engine.last_evidence \in [Subjects -> Inputs \cup {NoEvidence}]
        /\ cs \in Seq(Conflict)
    BY DEF TypeOK
  <1>4. e # NoEvidence
    BY MarkersAssumption DEF MarkersAssumption
  <1>5. engine'.tracks[s] # NoTrack
    <2>1. TrackOrPrior(engine, s) \in Track
      BY <1>1, <1>3, UninformativeType DEF TrackOrPrior
    <2>2. Measured[e.payload] \in [Dims -> Int]
      BY GaussianAssumption DEF Decodes, GaussianAssumption
    <2> QED
      BY <1>1, <1>2, <1>3, <2>1, <2>2, UpdatedType, MarkersAssumption
      DEF MarkersAssumption
  <1>6. LastEvidenceBacksTrack'
    <2> SUFFICES ASSUME NEW t \in Subjects
                 PROVE  /\ engine'.tracks[t] = NoTrack
                              <=> engine'.last_evidence[t] = NoEvidence
                        /\ engine'.last_evidence[t] # NoEvidence =>
                              /\ engine'.last_evidence[t].subject = t
                              /\ Verified(engine'.last_evidence[t])
                              /\ engine'.last_evidence[t].observation_id
                                    \in Applied(t)'
      BY DEF LastEvidenceBacksTrack, Verified, Verify, Integral, Authentic
    <2>1. CASE t = s
      BY <1>1, <1>2, <1>3, <1>4, <1>5, <2>1
    <2>2. CASE t # s
      BY <1>1, <1>2, <1>3, <2>2 DEF ConflictInv, LastEvidenceBacksTrack
    <2> QED
      BY <2>1, <2>2
  (* A pair already retained names applied observations, so never e's.      *)
  <1>7. ASSUME NEW i \in DOMAIN cs
        PROVE  /\ cs[i][1] \in Subjects
               /\ \A t \in Subjects : t = cs[i][1] =>
                    {cs[i][2].observation_id, cs[i][3].observation_id}
                       \subseteq Applied(t)'
               /\ cs[i][1] = s => /\ cs[i][2].observation_id # e.observation_id
                                  /\ cs[i][3].observation_id # e.observation_id
    <2>1. cs[i][1] \in Subjects
      BY <1>3 DEF Conflict
    <2>2. ASSUME NEW t \in Subjects, t = cs[i][1]
          PROVE  {cs[i][2].observation_id, cs[i][3].observation_id}
                    \subseteq Applied(t)
      BY <2>2 DEF ConflictInv, ConflictPairsSound
    <2> QED
      BY <1>1, <2>1, <2>2
  (* ConflictPairsSound of the next state, pair by pair.                    *)
  <1> DEFINE Sound(c, t) ==
               /\ c[2].subject = t /\ c[3].subject = t
               /\ Verified(c[2]) /\ Verified(c[3])
               /\ c[2].observation_id # c[3].observation_id
               /\ {c[2].observation_id, c[3].observation_id} \subseteq Applied(t)'
  <1>11. ASSUME \A i \in DOMAIN engine'.conflicts : \A t \in Subjects :
                  t = engine'.conflicts[i][1] => Sound(engine'.conflicts[i], t),
               \A i \in DOMAIN engine'.conflicts :
                  engine'.conflicts[i][1] \in Subjects
        PROVE  ConflictPairsSound'
    BY <1>11 DEF ConflictPairsSound, Applied
  <1>12. ASSUME NEW i \in DOMAIN cs, NEW t \in Subjects, t = cs[i][1]
        PROVE  Sound(cs[i], t)
    BY <1>7, <1>12 DEF ConflictInv, ConflictPairsSound
  <1>8. CASE engine'.conflicts = cs
    <2>1. ConflictPairsSound'
      BY <1>7, <1>8, <1>11, <1>12
    <2>2. FlaggedOncePerRole'
      BY <1>8 DEF ConflictInv, FlaggedOncePerRole
    <2>3. LastNotYetPredecessor'
      BY <1>1, <1>2, <1>3, <1>4, <1>7, <1>8
      DEF ConflictInv, LastNotYetPredecessor
    <2> QED
      BY <1>6, <2>1, <2>2, <2>3 DEF ConflictInv
  <1>9. CASE /\ prev # NoEvidence
             /\ engine'.conflicts = Append(cs, <<s, prev, e>>)
    <2>1. /\ prev.subject = s
          /\ Verified(prev)
          /\ prev.observation_id \in Applied(s)
          /\ prev.observation_id # e.observation_id
      BY <1>1, <1>9 DEF ConflictInv, LastEvidenceBacksTrack
    <2>2. /\ DOMAIN engine'.conflicts = DOMAIN cs \cup {Len(cs) + 1}
          /\ engine'.conflicts[Len(cs) + 1] = <<s, prev, e>>
          /\ \A i \in DOMAIN cs : engine'.conflicts[i] = cs[i]
          /\ Len(cs) + 1 \notin DOMAIN cs
      BY <1>3, <1>9
    <2>3. ASSUME NEW i \in DOMAIN cs, cs[i][1] = s
          PROVE  cs[i][2].observation_id # prev.observation_id
      BY <2>3 DEF ConflictInv, LastNotYetPredecessor
    <2>4. ConflictPairsSound'
      <3>1. ASSUME NEW i \in DOMAIN engine'.conflicts
            PROVE  engine'.conflicts[i][1] \in Subjects
        BY <1>1, <1>7, <2>2
      <3>2. ASSUME NEW i \in DOMAIN engine'.conflicts, NEW t \in Subjects,
                   t = engine'.conflicts[i][1]
            PROVE  Sound(engine'.conflicts[i], t)
        <4>1. CASE i \in DOMAIN cs
          BY <1>12, <2>2, <3>2, <4>1
        <4>2. CASE i = Len(cs) + 1
          BY <1>1, <2>1, <2>2, <3>2, <4>2
        <4> QED
          BY <2>2, <4>1, <4>2
      <3> QED
        BY <1>11, <3>1, <3>2
    <2>5. FlaggedOncePerRole'
      <3> SUFFICES ASSUME NEW i \in DOMAIN engine'.conflicts,
                          NEW j \in DOMAIN engine'.conflicts,
                          i # j,
                          engine'.conflicts[i][1] = engine'.conflicts[j][1]
                   PROVE  /\ engine'.conflicts[i][2].observation_id
                               # engine'.conflicts[j][2].observation_id
                          /\ engine'.conflicts[i][3].observation_id
                               # engine'.conflicts[j][3].observation_id
        BY DEF FlaggedOncePerRole
      <3>1. CASE i \in DOMAIN cs /\ j \in DOMAIN cs
        BY <2>2, <3>1 DEF ConflictInv, FlaggedOncePerRole
      <3>2. CASE i \in DOMAIN cs /\ j = Len(cs) + 1
        BY <1>7, <2>2, <2>3, <3>2
      <3>3. CASE i = Len(cs) + 1 /\ j \in DOMAIN cs
        BY <1>7, <2>2, <2>3, <3>3
      <3> QED
        BY <2>2, <3>1, <3>2, <3>3
    <2>6. LastNotYetPredecessor'
      <3> SUFFICES ASSUME NEW i \in DOMAIN engine'.conflicts
                   PROVE  LET c    == engine'.conflicts[i]
                              last == engine'.last_evidence[c[1]]
                          IN  /\ last # NoEvidence
                              /\ c[2].observation_id # last.observation_id
        BY DEF LastNotYetPredecessor
      <3>1. CASE i \in DOMAIN cs
        BY <1>1, <1>2, <1>3, <1>4, <1>7, <2>2, <3>1
        DEF ConflictInv, LastNotYetPredecessor
      <3>2. CASE i = Len(cs) + 1
        BY <1>1, <1>2, <1>3, <1>4, <2>1, <2>2, <3>2
      <3> QED
        BY <2>2, <3>1, <3>2
    <2> QED
      BY <1>6, <2>4, <2>5, <2>6 DEF ConflictInv
  <1> QED
    BY <1>2, <1>8, <1>9 DEF Flagged

(* Every step of the engine keeps the conflict facts.                       *)
LEMMA ConflictInvStep ==
    TypeOK /\ ConflictInv /\ [Next]_engine => ConflictInv'
  <1> SUFFICES ASSUME TypeOK, ConflictInv, [Next]_engine PROVE ConflictInv'
    OBVIOUS
  <1>1. CASE UNCHANGED engine
    BY <1>1 DEF ConflictInv, LastEvidenceBacksTrack, ConflictPairsSound,
                FlaggedOncePerRole, LastNotYetPredecessor, Applied
  <1>2. ASSUME NEW e \in Inputs, Incorporate(e) PROVE ConflictInv'
    BY <1>1, <1>2, StepCases, ConflictInvGated, ConflictInvFused
  <1> QED
    BY <1>1, <1>2 DEF Next

(* Decision 0004: every retained pair is two distinct verified observations *)
(* of one subject that both reached the filter.                             *)
THEOREM ConflictPairsAreSound == Spec => []ConflictPairsSound
  <1>1. ConflictInv => ConflictPairsSound
    BY DEF ConflictInv
  <1> QED
    BY <1>1, TypeCorrect, ConflictInvInit, ConflictInvStep, PTL DEF Spec

(* No observation is ever flagged twice in the same role.                   *)
THEOREM ObservationsFlagOnce == Spec => []FlaggedOncePerRole
  <1>1. ConflictInv => FlaggedOncePerRole
    BY DEF ConflictInv
  <1> QED
    BY <1>1, TypeCorrect, ConflictInvInit, ConflictInvStep, PTL DEF Spec

(* The map of tracks and the map of last evidence agree.                    *)
THEOREM TracksAreBacked == Spec => []LastEvidenceBacksTrack
  <1>1. ConflictInv => LastEvidenceBacksTrack
    BY DEF ConflictInv
  <1> QED
    BY <1>1, TypeCorrect, ConflictInvInit, ConflictInvStep, PTL DEF Spec
-----------------------------------------------------------------------------
(* The engine of a state is an engine of EvidenceProofs, and what           *)
(* reached it is what is applied.                                           *)
LEMMA EngineIsEngine ==
    TypeOK => IsEngine(engine) /\ \A s \in Subjects : Applied(s) = Reached(engine, s)
  BY DEF TypeOK, IsEngine, Applied, Reached

(* An engine knows what reached it: at the start ...                        *)
LEMMA KnowsInit == Init => KnowsWhatReached(engine)
  BY NewEngineKnows DEF Init

(* ... and after every step.                                                *)
LEMMA KnowsStep ==
    TypeOK /\ KnowsWhatReached(engine) /\ [Next]_engine
      => KnowsWhatReached(engine)'
  <1> SUFFICES ASSUME TypeOK, KnowsWhatReached(engine), [Next]_engine
               PROVE  KnowsWhatReached(engine')
    BY DEF KnowsWhatReached, Reached, TrackOrPrior, IsPosterior, Over
  <1>1. CASE UNCHANGED engine
    BY <1>1
  <1>2. ASSUME NEW e \in Inputs, Incorporate(e) PROVE KnowsWhatReached(engine')
    <2>1. CASE Verified(e) /\ ~Decodes(e) /\ engine' = Gated(engine, e)
      <3>1. \A s \in Subjects : Reached(engine', s) = Reached(engine, s)
        BY <2>1, AppliedAfterGated DEF Applied, Reached
      <3>2. engine'.tracks = engine.tracks
        BY <2>1, GatedFields
      <3> QED
        BY <3>1, <3>2 DEF KnowsWhatReached, TrackOrPrior
    <2>2. CASE /\ Verified(e) /\ ~Duplicate(engine, e) /\ Decodes(e)
               /\ engine' = Fused(Gated(engine, e), e)
      <3>1. e.subject \in Subjects /\ e.observation_id = Blake3(e.payload)
        BY <2>2, InputsAssumption DEF InputsAssumption
      <3> QED
        BY <2>2, <3>1, EngineIsEngine, FusedKnows, MarkersAssumption
        DEF MarkersAssumption
    <2> QED
      BY <1>1, <1>2, <2>1, <2>2, StepCases
  <1> QED
    BY <1>1, <1>2 DEF Next

(* Invariant 9: each independent observation is counted exactly once per    *)
(* dimension, whatever was redelivered.                                     *)
THEOREM NoDoubleCounting == Spec => []CounterCountsObservations
  <1>1. TypeOK /\ KnowsWhatReached(engine) => CounterCountsObservations
    BY EngineIsEngine
    DEF CounterCountsObservations, KnowsWhatReached, TrackOrPrior
  <1> QED
    BY <1>1, TypeCorrect, KnowsInit, KnowsStep, PTL DEF Spec

-----------------------------------------------------------------------------
(* Invariant 11: no step rewrites a retained pair or forgets an id or track *)
THEOREM EngineForgetsNothing == Spec => NothingForgotten
  <1> DEFINE Kept ==
               /\ Len(engine.conflicts) <= Len(engine'.conflicts)
               /\ SubSeq(engine'.conflicts, 1, Len(engine.conflicts))
                    = engine.conflicts
               /\ \A s \in Subjects :
                    /\ engine.incorporated[s] \subseteq engine'.incorporated[s]
                    /\ engine'.tracks[s] = NoTrack => engine.tracks[s] = NoTrack
  <1>1. TypeOK /\ [Next]_engine => [Kept]_engine
    <2> SUFFICES ASSUME TypeOK, NEW e \in Inputs, Incorporate(e),
                        engine' # engine
                 PROVE  Kept
      BY DEF Next
    <2>0. engine.conflicts \in Seq(Conflict)
      BY DEF TypeOK
    <2>1. CASE Verified(e) /\ engine' = Gated(engine, e)
      <3>1. /\ engine'.tracks = engine.tracks
            /\ engine'.conflicts = engine.conflicts
            /\ engine'.incorporated = [engine.incorporated EXCEPT
                  ![e.subject] = @ \cup {e.observation_id}]
        BY <2>1, GatedFields
      <3> QED
        BY <2>0, <3>1 DEF TypeOK
    <2>2. CASE /\ Verified(e) /\ ~Duplicate(engine, e) /\ Decodes(e)
               /\ engine' = Fused(Gated(engine, e), e)
      <3>1. /\ engine'.tracks = [engine.tracks EXCEPT ![e.subject] =
                 Updated(TrackOrPrior(engine, e.subject), Measured[e.payload])]
            /\ engine'.conflicts = Flagged(engine, e)
            /\ engine'.incorporated = [engine.incorporated EXCEPT
                  ![e.subject] = @ \cup {e.observation_id}]
        BY <2>2, FusedFields
      <3>2. Updated(TrackOrPrior(engine, e.subject), Measured[e.payload]) # NoTrack
        <4>1. TrackOrPrior(engine, e.subject) \in Track
          BY InputsAssumption, UninformativeType
          DEF InputsAssumption, TrackOrPrior, TypeOK
        <4>2. Measured[e.payload] \in [Dims -> Int]
          BY <2>2, GaussianAssumption DEF Decodes, GaussianAssumption
        <4> QED
          BY <4>1, <4>2, UpdatedType, MarkersAssumption DEF MarkersAssumption
      <3>3. \A s \in Subjects :
              /\ engine.incorporated[s] \subseteq engine'.incorporated[s]
              /\ engine'.tracks[s] = NoTrack => engine.tracks[s] = NoTrack
        BY <3>1, <3>2 DEF TypeOK
      <3>4. /\ Len(engine.conflicts) <= Len(engine'.conflicts)
            /\ SubSeq(engine'.conflicts, 1, Len(engine.conflicts))
                 = engine.conflicts
        BY <2>0, <3>1 DEF Flagged
      <3> QED
        BY <3>3, <3>4
    <2> QED
      BY <2>1, <2>2, StepCases
  <1> QED
    BY <1>1, TypeCorrect, PTL DEF Spec, NothingForgotten

(* A call that does not return Ok(true) leaves belief and flags untouched,  *)
(* and one that does adds one observation to one subject.                   *)
THEOREM EngineFusesOneObservation == Spec => OneObservationPerUpdate
  <1> DEFINE FusesOne ==
               engine'.tracks # engine.tracks \/ engine'.conflicts # engine.conflicts =>
                 \E s \in Subjects :
                    /\ \A t \in Subjects \ {s} :
                          /\ engine'.tracks[t] = engine.tracks[t]
                          /\ engine'.incorporated[t] = engine.incorporated[t]
                    /\ \E o \in Applied(s)' : Applied(s)' \ Applied(s) = {o}
  <1>1. TypeOK /\ [Next]_engine => [FusesOne]_engine
    <2> SUFFICES ASSUME TypeOK, NEW e \in Inputs, Incorporate(e),
                        engine' # engine
                 PROVE  FusesOne
      BY DEF Next
    <2>1. CASE Verified(e) /\ engine' = Gated(engine, e)
      BY <2>1, GatedFields
    <2>2. CASE /\ Verified(e) /\ ~Duplicate(engine, e) /\ Decodes(e)
               /\ engine' = Fused(Gated(engine, e), e)
      <3> DEFINE s == e.subject
                 o == e.observation_id
      <3>1. /\ s \in Subjects /\ o \notin Applied(s)
            /\ Applied(s)' = Applied(s) \cup {o}
        BY <2>2, AppliedAfterFused
      <3>2. /\ engine'.tracks = [engine.tracks EXCEPT ![s] =
                 Updated(TrackOrPrior(engine, s), Measured[e.payload])]
            /\ engine'.incorporated = [engine.incorporated EXCEPT ![s] = @ \cup {o}]
        BY <2>2, FusedFields
      <3>3. \A t \in Subjects \ {s} :
              /\ engine'.tracks[t] = engine.tracks[t]
              /\ engine'.incorporated[t] = engine.incorporated[t]
        BY <3>2 DEF TypeOK
      <3>4. o \in Applied(s)' /\ Applied(s)' \ Applied(s) = {o}
        BY <3>1
      <3> HIDE DEF s, o
      <3> QED
        BY <3>1, <3>3, <3>4
    <2> QED
      BY <2>1, <2>2, StepCases
  <1> QED
    BY <1>1, TypeCorrect, PTL DEF Spec, OneObservationPerUpdate

-----------------------------------------------------------------------------
(* Every track is, through the mapping, the posterior BeliefOfSet promises. *)
TracksAreTextbook ==
    \A s \in Subjects, S \in SUBSET Observations :
        engine.tracks[s] # NoTrack /\ Applied(s) = S =>
            AbstractPosterior(s) = AbstractBelief!PosteriorOf(S)

(* Over the textbook denominator a posterior's numerators are those of      *)
(* BeliefOfSet: the divisions of the mapping leave no remainder.            *)
LEMMA PosteriorsAreTextbook == 
    TypeOK /\ KnowsWhatReached(engine) => TracksAreTextbook
  <1> SUFFICES ASSUME TypeOK, KnowsWhatReached(engine), NEW s \in Subjects,
                      engine.tracks[s] # NoTrack
               PROVE  AbstractPosterior(s) = AbstractBelief!PosteriorOf(Applied(s))
    BY DEF TracksAreTextbook
  <1> DEFINE t == engine.tracks[s]
             S == Applied(s)
  <1>1. /\ IsPosterior(t, ValueOf, S)
        /\ IsFiniteSet(S)
        /\ t.independent_updates = Cardinality(Dims) * Cardinality(S)
        /\ \A d \in Dims : \A x \in S : ValueOf[d][x] \in Int
    BY EngineIsEngine, ValueOfType DEF KnowsWhatReached, TrackOrPrior
  <1>2. ASSUME NEW d \in Dims
        PROVE  /\ NumeratorOver(t.mean[d], Over(d, S))
                     = PriorVar * SumOver(ValueOf[d], S)
               /\ NumeratorOver(t.var[d], Over(d, S)) = PriorVar * Noise[d]
    <2> DEFINE q == PriorVar * SumOver(ValueOf[d], S)
               r == PriorVar * Noise[d]
    <2>1. q \in Int /\ r \in Int
      <3>1. PriorVar \in Int /\ Noise[d] \in Int
        BY GaussianAssumption DEF GaussianAssumption, PosInt
      <3>2. SumOver(ValueOf[d], S) \in Int
        BY <1>1, SumType
      <3> QED
        BY <3>1, <3>2
    <2>2. t.mean[d].den \in PosInt /\ t.var[d].den \in PosInt
      BY <1>1 DEF IsPosterior, Track, Rationals, PosRationals
    <2>3. /\ t.mean[d].num * Over(d, S) = t.mean[d].den * q
          /\ t.var[d].num * Over(d, S) = t.var[d].den * r
      BY <1>1 DEF IsPosterior
    <2> HIDE DEF q, r
    <2>4. NumeratorOver(t.mean[d], Over(d, S)) = q
      BY <2>1, <2>2, <2>3, ExactDivision DEF NumeratorOver
    <2>5. NumeratorOver(t.var[d], Over(d, S)) = r
      BY <2>1, <2>2, <2>3, ExactDivision DEF NumeratorOver
    <2> QED
      BY <2>4, <2>5 DEF q, r
  <1> DEFINE abstract ==
               [over    |-> [d \in Dims |-> Over(d, S)],
                mean    |-> [d \in Dims |-> PriorVar * SumOver(ValueOf[d], S)],
                var     |-> [d \in Dims |-> PriorVar * Noise[d]],
                updates |-> Cardinality(Dims) * Cardinality(S)]
  <1>3. AbstractPosterior(s) = abstract
    BY <1>1, <1>2 DEF AbstractPosterior, Over
  <1>4. AbstractBelief!PosteriorOf(S) = abstract
    <2>1. \A d \in Dims :
            AbstractBelief!SumOver(ValueOf[d], S) = SumOver(ValueOf[d], S)
      BY DEF SumOver, MapThenSumSet, MapThenFoldSet, AbstractBelief!SumOver,
             AbstractBelief!MapThenSumSet, AbstractBelief!MapThenFoldSet
    <2>2. /\ AbstractBelief!Cardinality(S) = Cardinality(S)
          /\ AbstractBelief!Cardinality(Dims) = Cardinality(Dims)
      BY DEF AbstractBelief!Cardinality, Cardinality
    <2> QED
      BY <2>1, <2>2 DEF AbstractBelief!PosteriorOf, Over
  <1> QED
    BY <1>3, <1>4

(* An engine without tracks is a belief about nothing.                      *)
LEMMA RefinementInit == Init => AbstractBelief!Init
  <1> SUFFICES ASSUME Init PROVE AbstractBelief!Init
    OBVIOUS
  <1>1. \A s \in Subjects : Applied(s) = {} /\ AbstractPosterior(s) = NoTrack
    BY DEF Init, NewEngine, Applied, AbstractPosterior
  <1> QED
    BY <1>1 DEF AbstractBelief!Init

(* A step that fuses an observation is Observe of the abstract              *)
(* specification; every other step changes nothing there.                   *)
LEMMA RefinementStep ==
    ASSUME TypeOK, TypeOK', KnowsWhatReached(engine)', TracksAreTextbook',
           [Next]_engine
    PROVE  [AbstractBelief!Next]_AbstractBelief!vars
  <1>1. ASSUME \A s \in Subjects : Applied(s)' = Applied(s),
               engine'.tracks = engine.tracks
        PROVE  UNCHANGED AbstractBelief!vars
    BY <1>1 DEF AbstractBelief!vars, AbstractPosterior
  <1>2. CASE UNCHANGED engine
    BY <1>1, <1>2 DEF Applied
  <1>3. ASSUME NEW e \in Inputs, Verified(e), ~Duplicate(engine, e), Decodes(e),
               engine' = Fused(Gated(engine, e), e)
        PROVE  AbstractBelief!Next
    <2> DEFINE s == e.subject
               o == e.observation_id
               observed  == [r \in Subjects |-> Applied(r)]
               posterior == [r \in Subjects |-> AbstractPosterior(r)]
    <2>1. /\ s \in Subjects /\ o \notin Applied(s)
          /\ Applied(s)' = Applied(s) \cup {o}
          /\ \A r \in Subjects \ {s} : Applied(r)' = Applied(r)
      BY <1>3, AppliedAfterFused
    <2>6. /\ Applied(s)' \subseteq Observations
          /\ engine'.tracks[s] = NoTrack <=> Applied(s)' = {}
      BY <2>1 DEF KnowsWhatReached, Applied, Reached
    <2>2. o \in Observations
      BY <2>1, <2>6
    <2>3. \A r \in Subjects \ {s} : AbstractPosterior(r)' = AbstractPosterior(r)
      <3>1. engine'.tracks = [engine.tracks EXCEPT ![s] =
                 Updated(TrackOrPrior(engine, s), Measured[e.payload])]
        BY <1>3, FusedFields
      <3>2. \A r \in Subjects \ {s} : engine'.tracks[r] = engine.tracks[r]
        BY <2>1, <3>1 DEF TypeOK
      <3> QED
        BY <2>1, <3>2 DEF AbstractPosterior
    <2>4. AbstractPosterior(s)' = AbstractBelief!PosteriorOf(Applied(s)')
      <3>1. engine'.tracks[s] # NoTrack
        BY <2>1, <2>6
      <3>2. Applied(s)' \in SUBSET Observations
        BY <2>1, <2>6
      <3> QED
        BY <2>1, <3>1, <3>2 DEF TracksAreTextbook
    <2>5. AbstractBelief!Observe(s, o)
      BY <2>1, <2>3, <2>4 DEF AbstractBelief!Observe
    <2> QED
      BY <2>1, <2>2, <2>5 DEF AbstractBelief!Next
  <1>4. ASSUME NEW e \in Inputs, Incorporate(e)
        PROVE  AbstractBelief!Next \/ UNCHANGED AbstractBelief!vars
    <2>1. CASE Verified(e) /\ ~Decodes(e) /\ engine' = Gated(engine, e)
      BY <1>1, <2>1, AppliedAfterGated, GatedFields
    <2> QED
      BY <1>2, <1>3, <1>4, <2>1, StepCases
  <1> QED
    BY <1>2, <1>4 DEF Next

(* Invariants 8, 9 and 13: whatever the order and the repetitions in which  *)
(* evidence is presented, the engine is a belief that is a function of the  *)
(* set of independent observations.                                         *)
THEOREM EngineImplementsBeliefOfSet == Spec => BeliefIsFunctionOfSet
  <1>1. /\ TypeOK /\ TypeOK' /\ KnowsWhatReached(engine)'
        /\ TracksAreTextbook' /\ [Next]_engine
        => [AbstractBelief!Next]_AbstractBelief!vars
    BY RefinementStep
  <1> QED
    BY <1>1, TypeCorrect, KnowsInit, KnowsStep,
       PosteriorsAreTextbook, RefinementInit, PTL
    DEF Spec, BeliefIsFunctionOfSet, AbstractBelief!Spec
=============================================================================
