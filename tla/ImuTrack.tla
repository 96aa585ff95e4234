------------------------------ MODULE ImuTrack ------------------------------
(***************************************************************************)
(* ImuFusedTrack of crate seven-belief: the evidence gate in front of an   *)
(* external EKF (themql_estimation::Ekf).  The filter's numbers are out of *)
(* scope: a call of it may fail, its innovation test may go either way,    *)
(* and what it has accepted is recorded in order in ekf.  The evidence all *)
(* concerns one subject, as the type's documentation requires of callers.  *)
(***************************************************************************)
EXTENDS Evidence, FiniteSets, SequencesExt

CONSTANTS
    Inputs,        \* evidence callers may present
    Decodable,     \* payloads from_canonical_bytes accepts
    NoEvidence, Imu,
    MaxPredicts    \* bound on the number of successful IMU steps

ASSUME ImuAssumption ==
    /\ MaxPredicts \in Nat
    /\ NoEvidence \notin Inputs
    /\ \A e \in Inputs : Verified(e) => e.observation_id = Blake3(e.payload)
    /\ \A e \in Inputs : e.observation_id # Imu

VARIABLES
    ekf,                  \* what the filter accepted: Imu or an observation
    incorporated,         \* BTreeSet<ObservationId>
    independent_updates,
    predict_steps,
    conflicts,            \* <<previous, new>> pairs; the subject is theirs
    last_evidence,
    returned              \* of the last call: <<observation or Imu, result>>

vars == <<ekf, incorporated, independent_updates, predict_steps, conflicts,
          last_evidence, returned>>

Init ==
    /\ ekf = << >>
    /\ incorporated = {}
    /\ independent_updates = 0
    /\ predict_steps = 0
    /\ conflicts = << >>
    /\ last_evidence = NoEvidence
    /\ returned = <<Imu, "none">>

-----------------------------------------------------------------------------
(* predict: counted only when the filter accepted the step.                 *)
Predict ==
    /\ predict_steps < MaxPredicts
    /\ ekf' = Append(ekf, Imu)
    /\ predict_steps' = predict_steps + 1
    /\ returned' = <<Imu, "ok">>
    /\ UNCHANGED <<incorporated, independent_updates, conflicts, last_evidence>>

(* dt <= 0, a non-finite reading or a diverged covariance.                  *)
PredictFails ==
    /\ returned' = <<Imu, "Estimator">>
    /\ UNCHANGED <<ekf, incorporated, independent_updates, predict_steps,
                   conflicts, last_evidence>>

RefuseUnverified(e) ==
    /\ ~Verified(e)
    /\ returned' = <<e.observation_id, "UnverifiedEvidence">>
    /\ UNCHANGED <<ekf, incorporated, independent_updates, predict_steps,
                   conflicts, last_evidence>>

CollapseDuplicate(e) ==
    /\ Verified(e)
    /\ e.observation_id \in incorporated
    /\ returned' = <<e.observation_id, "duplicate">>
    /\ UNCHANGED <<ekf, incorporated, independent_updates, predict_steps,
                   conflicts, last_evidence>>

RefuseUndecodable(e) ==
    /\ Verified(e)
    /\ e.observation_id \notin incorporated
    /\ e.payload \notin Decodable
    /\ incorporated' = incorporated \cup {e.observation_id}
    /\ returned' = <<e.observation_id, "NonFinite">>
    /\ UNCHANGED <<ekf, independent_updates, predict_steps, conflicts,
                   last_evidence>>

(* The common part of update_gps succeeding and failing: by the time the    *)
(* filter is asked, the id, the flag and the last evidence are recorded.    *)
(* Fault: a flagged newcomer is not remembered as last.                     *)
RecordBeforeFilter_OnlyAgreeing(e, disagrees) ==
    /\ Verified(e)
    /\ e.observation_id \notin incorporated
    /\ e.payload \in Decodable
    /\ incorporated' = incorporated \cup {e.observation_id}
    /\ conflicts' = IF disagrees /\ last_evidence # NoEvidence
                    THEN Append(conflicts, <<last_evidence, e>>) ELSE conflicts
    /\ last_evidence' = IF disagrees /\ last_evidence # NoEvidence
                        THEN last_evidence ELSE e

RecordBeforeFilter(e, disagrees) ==
    /\ Verified(e)
    /\ e.observation_id \notin incorporated
    /\ e.payload \in Decodable
    /\ incorporated' = incorporated \cup {e.observation_id}
    /\ conflicts' = IF disagrees /\ last_evidence # NoEvidence
                    THEN Append(conflicts, <<last_evidence, e>>) ELSE conflicts
    /\ last_evidence' = e

Fuse(e) ==
    /\ \E disagrees \in BOOLEAN : RecordBeforeFilter(e, disagrees)
    /\ ekf' = Append(ekf, e.observation_id)
    /\ independent_updates' = independent_updates + 1
    /\ returned' = <<e.observation_id, "applied">>
    /\ UNCHANGED predict_steps

(* Fault: the counter is bumped before the filter is asked.                 *)
FilterRejects_Counted(e) ==
    /\ \E disagrees \in BOOLEAN : RecordBeforeFilter(e, disagrees)
    /\ independent_updates' = independent_updates + 1
    /\ returned' = <<e.observation_id, "Estimator">>
    /\ UNCHANGED <<ekf, predict_steps>>

FilterRejects(e) ==
    /\ \E disagrees \in BOOLEAN : RecordBeforeFilter(e, disagrees)
    /\ returned' = <<e.observation_id, "Estimator">>
    /\ UNCHANGED <<ekf, independent_updates, predict_steps>>

Next ==
    \/ Predict
    \/ PredictFails
    \/ \E e \in Inputs :
          \/ RefuseUnverified(e)
          \/ CollapseDuplicate(e)
          \/ RefuseUndecodable(e)
          \/ Fuse(e)
          \/ FilterRejects(e)

Spec == Init /\ [][Next]_vars

-----------------------------------------------------------------------------
FusedCount(x) == Cardinality({i \in DOMAIN ekf : ekf[i] = x})

(* Invariant 9 on the EKF path: whatever fails and is retried, no           *)
(* observation enters the filter twice and both counters say exactly what   *)
(* the filter accepted.                                                     *)
CountersMatchFilter ==
    /\ \A o \in incorporated : FusedCount(o) <= 1
    /\ \A i \in DOMAIN ekf : ekf[i] # Imu => ekf[i] \in incorporated
    /\ predict_steps = FusedCount(Imu)
    /\ independent_updates = Len(ekf) - FusedCount(Imu)

(* Decision 0004 on the EKF path: pairs are distinct incorporated           *)
(* observations and chain through time: a pair's predecessor was gated      *)
(* later than every observation of the pairs before it, except that it may  *)
(* be the newcomer of the pair just before.                                 *)
ConflictPairsChain ==
    \A i, j \in DOMAIN conflicts :
        /\ conflicts[i][1].observation_id # conflicts[i][2].observation_id
        /\ {conflicts[i][1].observation_id, conflicts[i][2].observation_id}
              \subseteq incorporated
        /\ i < j =>
             /\ conflicts[j][2].observation_id
                  \notin {conflicts[i][1].observation_id,
                          conflicts[i][2].observation_id}
             /\ conflicts[j][1].observation_id # conflicts[i][1].observation_id
             /\ conflicts[j][1].observation_id = conflicts[i][2].observation_id
                  => j = i + 1

(* The doc of ImuFusedTrack: "Duplicate observation_ids collapse to one     *)
(* update": an observation refused as a duplicate has been fused once.      *)
DuplicatesWereFused ==
    returned[2] = "duplicate" => FusedCount(returned[1]) = 1
=============================================================================
