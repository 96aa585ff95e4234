---------------------------- MODULE BeliefEngine ----------------------------
(***************************************************************************)
(* BeliefEngine of crate seven-belief as a value and the function          *)
(* incorporate over it, so that one engine (Belief), an engine per node    *)
(* (Network) and an engine inside a replay (Replay) share one definition.  *)
(* A BTreeMap entry that does not exist is NoTrack, NoEvidence or {}.      *)
(***************************************************************************)
EXTENDS Evidence, Gaussian

CONSTANTS NoTrack, NoEvidence

NewEngine ==
    [tracks        |-> [s \in Subjects |-> NoTrack],
     incorporated  |-> [s \in Subjects |-> {}],
     conflicts     |-> << >>,
     last_evidence |-> [s \in Subjects |-> NoEvidence]]

-----------------------------------------------------------------------------
Decodes(e) == e.payload \in DOMAIN Measured

(* Fault: the gate remembers only the last observation.                     *)
Duplicate_LastOnly(eng, e) ==
    /\ eng.last_evidence[e.subject] # NoEvidence
    /\ eng.last_evidence[e.subject].observation_id = e.observation_id

Duplicate(eng, e) == e.observation_id \in eng.incorporated[e.subject]

(* What incorporate returns: Err(UnverifiedEvidence), Ok(false),            *)
(* Err(NonFinite) or Ok(true), tested in this order.                        *)
Outcome(eng, e) ==
    IF ~Verified(e) THEN "UnverifiedEvidence"
    ELSE IF Duplicate(eng, e) THEN "duplicate"
    ELSE IF ~Decodes(e) THEN "NonFinite"
    ELSE "applied"

(* The dedup gate: the id is recorded before the payload is decoded.        *)
Gated(eng, e) ==
    [eng EXCEPT !.incorporated[e.subject] = @ \cup {e.observation_id}]

(* The prior of the update, and the conflict test against an EXISTING track *)
TrackOrPrior(eng, s) ==
    IF eng.tracks[s] = NoTrack THEN Uninformative ELSE eng.tracks[s]

Conflicting(eng, e) ==
    /\ eng.tracks[e.subject] # NoTrack
    /\ Disagrees(eng.tracks[e.subject], Measured[e.payload])

(* Faults: the last evidence is replaced before the pair is built; the list *)
(* keeps only the newest pair.                                              *)
Flagged_AfterRemembering(eng, e) ==
    IF Conflicting(eng, e) THEN Append(eng.conflicts, <<e.subject, e, e>>)
    ELSE eng.conflicts
Flagged_Overwrites(eng, e) ==
    IF Conflicting(eng, e) /\ eng.last_evidence[e.subject] # NoEvidence
    THEN << <<e.subject, eng.last_evidence[e.subject], e>> >>
    ELSE eng.conflicts

Flagged(eng, e) ==
    IF Conflicting(eng, e) /\ eng.last_evidence[e.subject] # NoEvidence
    THEN Append(eng.conflicts, <<e.subject, eng.last_evidence[e.subject], e>>)
    ELSE eng.conflicts

(* Fault: evidence that disagrees is not remembered as the last.            *)
Fused_RemembersAgreeing(eng, e) ==
    [eng EXCEPT !.tracks[e.subject] =
                    Updated(TrackOrPrior(eng, e.subject), Measured[e.payload]),
                !.conflicts = Flagged(eng, e),
                !.last_evidence[e.subject] = IF Conflicting(eng, e) THEN @ ELSE e]

Fused(eng, e) ==
    [eng EXCEPT !.tracks[e.subject] =
                    Updated(TrackOrPrior(eng, e.subject), Measured[e.payload]),
                !.conflicts = Flagged(eng, e),
                !.last_evidence[e.subject] = e]

(* Faults: evidence is not verified; the last evidence is set before the    *)
(* payload is decoded; a fused observation is never recorded as seen.       *)
EngineAfter_Unverified(eng, e) ==
    IF Duplicate(eng, e) THEN eng
    ELSE IF ~Decodes(e) THEN Gated(eng, e)
    ELSE Fused(Gated(eng, e), e)
EngineAfter_RemembersUndecoded(eng, e) ==
    IF ~Verified(e) \/ Duplicate(eng, e) THEN eng
    ELSE IF ~Decodes(e) THEN [Gated(eng, e) EXCEPT !.last_evidence[e.subject] = e]
    ELSE Fused(Gated(eng, e), e)
EngineAfter_Ungated(eng, e) ==
    IF ~Verified(e) \/ Duplicate(eng, e) THEN eng
    ELSE IF ~Decodes(e) THEN Gated(eng, e)
    ELSE Fused(eng, e)

(* The engine after incorporate(e), whatever it returned.                   *)
EngineAfter(eng, e) ==
    IF ~Verified(e) \/ Duplicate(eng, e) THEN eng
    ELSE IF ~Decodes(e) THEN Gated(eng, e)
    ELSE Fused(Gated(eng, e), e)

(* The observations that can reach a filter, and what they measure.         *)
Observations == {Blake3(p) : p \in DOMAIN Measured}

ValueOf == [d \in Dims |-> [o \in Observations |-> Measured[o.blake3][d]]]
=============================================================================
