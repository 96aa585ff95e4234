--------------------------- MODULE ImuTrackProofs ---------------------------
(***************************************************************************)
(* Theorems about ImuTrack for any evidence, any bound on the predictions  *)
(* and a filter that may refuse any step.                                  *)
(*                                                                         *)
(* FilterInv says what the filter has accepted and where it was gated.     *)
(* ChainInv adds to the chain of pairs what the next pair needs: the       *)
(* evidence that will be its predecessor has not been one, and was a       *)
(* newcomer in the last pair at most.                                      *)
(***************************************************************************)
EXTENDS ImuTrack, FiniteSetTheorems, TLAPS

Positions(x) == {i \in DOMAIN ekf : ekf[i] = x}

FilterInv ==
    /\ ekf \in Seq(incorporated \cup {Imu})
    /\ Imu \notin incorporated
    /\ \A i, j \in DOMAIN ekf : ekf[i] = ekf[j] => i = j \/ ekf[i] = Imu
    /\ IsFiniteSet(Positions(Imu))
    /\ predict_steps = FusedCount(Imu)
    /\ independent_updates = Len(ekf) - FusedCount(Imu)

LastFits ==
    last_evidence # NoEvidence =>
        /\ last_evidence.observation_id \in incorporated
        /\ \A i \in DOMAIN conflicts :
              /\ conflicts[i][1].observation_id # last_evidence.observation_id
              /\ conflicts[i][2].observation_id = last_evidence.observation_id
                    => i = Len(conflicts)

ChainInv ==
    /\ conflicts \in Seq(Inputs \X Inputs)
    /\ last_evidence \in Inputs \cup {NoEvidence}
    /\ LastFits
    /\ ConflictPairsChain

-----------------------------------------------------------------------------
(* What recording does, whether the filter then accepts or refuses: a new   *)
(* observation is behind the gate.                                          *)
LEMMA Recorded ==
    ASSUME NEW e \in Inputs, NEW disagrees \in BOOLEAN,
           RecordBeforeFilter(e, disagrees)
    PROVE  /\ incorporated' = incorporated \cup {e.observation_id}
           /\ e.observation_id \notin incorporated
           /\ e.observation_id # Imu
           /\ last_evidence' = e
           /\ \/ conflicts' = conflicts
              \/ /\ last_evidence # NoEvidence
                 /\ conflicts' = Append(conflicts, <<last_evidence, e>>)
  BY ImuAssumption DEF RecordBeforeFilter, ImuAssumption

(* Nothing has been accepted at the start.                                  *)
LEMMA FilterInvInit == Init => FilterInv
  <1> SUFFICES ASSUME Init PROVE FilterInv
    OBVIOUS
  <1>1. ekf = << >> /\ Positions(Imu) = {} /\ FusedCount(Imu) = 0
    BY FS_EmptySet DEF Init, Positions, FusedCount
  <1> QED
    BY <1>1, FS_EmptySet DEF Init, FilterInv

(* Another observation behind the gate disturbs nothing.                    *)
LEMMA FilterInvGated ==
    ASSUME FilterInv, NEW o, o # Imu, incorporated' = incorporated \cup {o},
           UNCHANGED <<ekf, predict_steps, independent_updates>>
    PROVE  FilterInv'
  BY DEF FilterInv, Positions, FusedCount

(* A step of the filter appends one entry to what it accepted.              *)
LEMMA FilterInvAppend ==
    ASSUME FilterInv, NEW x, ekf' = Append(ekf, x),
           incorporated \subseteq incorporated', Imu \notin incorporated',
           \/ /\ x = Imu
              /\ predict_steps' = predict_steps + 1
              /\ independent_updates' = independent_updates
           \/ /\ x \in incorporated' \ incorporated
              /\ predict_steps' = predict_steps
              /\ independent_updates' = independent_updates + 1
    PROVE  FilterInv'
  <1> DEFINE n == Len(ekf)
  <1>1. /\ ekf \in Seq(incorporated \cup {Imu})
        /\ n \in Nat /\ DOMAIN ekf = 1..n
    BY DEF FilterInv
  <1>2. /\ ekf' \in Seq(incorporated' \cup {Imu})
        /\ Len(ekf') = n + 1
        /\ DOMAIN ekf' = 1..(n + 1)
        /\ \A i \in 1..n : ekf'[i] = ekf[i] /\ ekf[i] \in incorporated \cup {Imu}
        /\ ekf'[n + 1] = x
    <2>1. x \in incorporated' \cup {Imu} /\ ekf \in Seq(incorporated' \cup {Imu})
      BY <1>1
    <2> QED
      BY <1>1, <2>1
  <1>3. \A i, j \in DOMAIN ekf' : ekf'[i] = ekf'[j] => i = j \/ ekf'[i] = Imu
    <2> SUFFICES ASSUME NEW i \in 1..(n + 1), NEW j \in 1..(n + 1),
                        ekf'[i] = ekf'[j]
                 PROVE  i = j \/ ekf'[i] = Imu
      BY <1>2
    <2>1. CASE i \in 1..n /\ j \in 1..n
      BY <1>1, <1>2, <2>1 DEF FilterInv
    <2>2. CASE i = n + 1 /\ j = n + 1
      BY <2>2
    <2>3. CASE \/ i = n + 1 /\ j \in 1..n
               \/ i \in 1..n /\ j = n + 1
      BY <1>2, <2>3
    <2> QED
      BY <1>1, <2>1, <2>2, <2>3
  <1>4. CASE x = Imu /\ predict_steps' = predict_steps + 1
             /\ independent_updates' = independent_updates
    <2>1. Positions(Imu)' = Positions(Imu) \cup {n + 1}
          /\ n + 1 \notin Positions(Imu)
      BY <1>1, <1>2, <1>4 DEF Positions
    <2>2. IsFiniteSet(Positions(Imu)')
          /\ FusedCount(Imu)' = FusedCount(Imu) + 1
          /\ FusedCount(Imu) \in Nat
      <3>1. IsFiniteSet(Positions(Imu))
        BY DEF FilterInv
      <3>2. /\ FusedCount(Imu) = Cardinality(Positions(Imu))
            /\ FusedCount(Imu)' = Cardinality(Positions(Imu)')
        BY DEF FusedCount, Positions
      <3> QED
        BY <2>1, <3>1, <3>2, FS_AddElement, FS_CardinalityType
    <2> QED
      BY <1>1, <1>2, <1>3, <1>4, <2>2 DEF FilterInv
  <1>5. CASE x \in incorporated' \ incorporated /\ predict_steps' = predict_steps
             /\ independent_updates' = independent_updates + 1
    <2>1. Positions(Imu)' = Positions(Imu)
      BY <1>1, <1>2, <1>5 DEF Positions
    <2>2. FusedCount(Imu)' = FusedCount(Imu) /\ FusedCount(Imu) \in Nat
      BY <2>1, FS_CardinalityType DEF FilterInv, FusedCount, Positions
    <2> QED
      BY <1>1, <1>2, <1>3, <1>5, <2>1, <2>2 DEF FilterInv
  <1> QED
    BY <1>4, <1>5

(* Every way a prediction or an update ends keeps counters and filter equal. *)
LEMMA FilterInvStep == FilterInv /\ [Next]_vars => FilterInv'
  <1> SUFFICES ASSUME FilterInv, [Next]_vars PROVE FilterInv'
    OBVIOUS
  <1>1. CASE UNCHANGED <<ekf, incorporated, independent_updates, predict_steps>>
    BY <1>1 DEF FilterInv, Positions, FusedCount
  <1>2. CASE Predict
    BY <1>2, FilterInvAppend DEF Predict, FilterInv
  <1>3. CASE PredictFails
    BY <1>1, <1>3 DEF PredictFails
  <1>4. ASSUME NEW e \in Inputs,
               RefuseUnverified(e) \/ CollapseDuplicate(e)
        PROVE  FilterInv'
    BY <1>1, <1>4 DEF RefuseUnverified, CollapseDuplicate
  <1>5. ASSUME NEW e \in Inputs, RefuseUndecodable(e) PROVE FilterInv'
    <2>1. e.observation_id # Imu
      BY ImuAssumption DEF ImuAssumption
    <2> QED
      BY <1>5, <2>1, FilterInvGated DEF RefuseUndecodable
  <1>6. ASSUME NEW e \in Inputs, Fuse(e) PROVE FilterInv'
    <2>1. PICK disagrees \in BOOLEAN : RecordBeforeFilter(e, disagrees)
      BY <1>6 DEF Fuse
    <2>2. /\ incorporated' = incorporated \cup {e.observation_id}
          /\ e.observation_id \notin incorporated
          /\ e.observation_id # Imu
      BY <2>1, Recorded
    <2> QED
      BY <1>6, <2>2, FilterInvAppend DEF Fuse, FilterInv
  <1>7. ASSUME NEW e \in Inputs, FilterRejects(e) PROVE FilterInv'
    <2>1. PICK disagrees \in BOOLEAN : RecordBeforeFilter(e, disagrees)
      BY <1>7 DEF FilterRejects
    <2>2. /\ incorporated' = incorporated \cup {e.observation_id}
          /\ e.observation_id # Imu
      BY <2>1, Recorded
    <2> QED
      BY <1>7, <2>2, FilterInvGated DEF FilterRejects
  <1> QED
    BY <1>1, <1>2, <1>3, <1>4, <1>5, <1>6, <1>7 DEF Next, vars

(* Invariant 9 on the EKF path: whatever the filter refuses and whatever is *)
(* retried, it accepts no observation twice, and the counters are exact.    *)
THEOREM FilterCountsOnce == Spec => []CountersMatchFilter
  <1>1. FilterInv => CountersMatchFilter
    <2> SUFFICES ASSUME FilterInv PROVE CountersMatchFilter
      OBVIOUS
    <2>1. ASSUME NEW o \in incorporated PROVE FusedCount(o) <= 1
      <3>1. CASE Positions(o) = {}
        BY <3>1, FS_EmptySet DEF FusedCount, Positions
      <3>2. CASE Positions(o) # {}
        <4>1. PICK i \in Positions(o) : TRUE
          BY <3>2
        <4>2. Positions(o) = {i}
          BY <4>1 DEF Positions, FilterInv
        <4> QED
          BY <4>2, FS_Singleton DEF FusedCount, Positions
      <3> QED
        BY <3>1, <3>2
    <2>2. \A i \in DOMAIN ekf : ekf[i] # Imu => ekf[i] \in incorporated
      BY DEF FilterInv
    <2> QED
      BY <2>1, <2>2 DEF FilterInv, CountersMatchFilter
  <1> QED
    BY <1>1, FilterInvInit, FilterInvStep, PTL DEF Spec

-----------------------------------------------------------------------------
(* There is no pair and no last evidence at the start.                      *)
LEMMA ChainInvInit == Init => ChainInv
  BY DEF Init, ChainInv, LastFits, ConflictPairsChain

(* Another observation behind the gate does not disturb the chain.          *)
LEMMA ChainInvGated ==
    ASSUME ChainInv, incorporated \subseteq incorporated',
           UNCHANGED <<conflicts, last_evidence>>
    PROVE  ChainInv'
  BY DEF ChainInv, LastFits, ConflictPairsChain

(* A newcomer follows whatever was gated before it.                         *)
LEMMA ChainInvRecorded ==
    ASSUME ChainInv, NEW e \in Inputs, NEW disagrees \in BOOLEAN,
           RecordBeforeFilter(e, disagrees)
    PROVE  ChainInv'
  <1> DEFINE n == Len(conflicts)
             p == last_evidence
             o == e.observation_id
  <1>1. /\ incorporated' = incorporated \cup {o}
        /\ o \notin incorporated
        /\ last_evidence' = e
    BY Recorded
  <1>2. /\ n \in Nat /\ DOMAIN conflicts = 1..n
        /\ conflicts \in Seq(Inputs \X Inputs)
    BY DEF ChainInv
  <1>3. \A i \in 1..n : {conflicts[i][1].observation_id,
                         conflicts[i][2].observation_id} \subseteq incorporated
    BY <1>2 DEF ChainInv, ConflictPairsChain
  <1>4. CASE conflicts' = conflicts
    BY <1>1, <1>2, <1>3, <1>4 DEF ChainInv, LastFits, ConflictPairsChain
  <1>5. CASE p # NoEvidence /\ conflicts' = Append(conflicts, <<p, e>>)
    <2>1. /\ p \in Inputs /\ p.observation_id \in incorporated
          /\ \A i \in 1..n :
                /\ conflicts[i][1].observation_id # p.observation_id
                /\ conflicts[i][2].observation_id = p.observation_id => i = n
      BY <1>2, <1>5 DEF ChainInv, LastFits
    <2>2. /\ conflicts' \in Seq(Inputs \X Inputs)
          /\ Len(conflicts') = n + 1 /\ DOMAIN conflicts' = 1..(n + 1)
          /\ \A i \in 1..n : conflicts'[i] = conflicts[i]
          /\ conflicts'[n + 1] = <<p, e>>
      <3> DEFINE pair == <<p, e>>
      <3>1. pair \in Inputs \X Inputs /\ conflicts' = Append(conflicts, pair)
        BY <1>5, <2>1
      <3> HIDE DEF pair
      <3>2. /\ conflicts' \in Seq(Inputs \X Inputs)
            /\ Len(conflicts') = n + 1 /\ DOMAIN conflicts' = 1..(n + 1)
            /\ \A i \in 1..n : conflicts'[i] = conflicts[i]
            /\ conflicts'[n + 1] = pair
        BY <1>2, <3>1
      <3> QED
        BY <3>2 DEF pair
    <2> HIDE DEF p
    <2>3. /\ conflicts'[n + 1][1].observation_id = p.observation_id
          /\ conflicts'[n + 1][2].observation_id = o
      BY <2>2
    <2>4. LastFits'
      <3> SUFFICES ASSUME NEW i \in 1..(n + 1)
                   PROVE  /\ conflicts'[i][1].observation_id # o
                          /\ conflicts'[i][2].observation_id = o => i = n + 1
        BY <1>1, <2>2 DEF LastFits
      <3>1. CASE i \in 1..n
        BY <1>1, <1>3, <2>2, <3>1
      <3>2. CASE i = n + 1
        BY <1>1, <2>1, <2>3, <3>2
      <3> QED
        BY <1>2, <3>1, <3>2
    <2>5. ConflictPairsChain'
      <3> DEFINE first(i) == conflicts'[i][1].observation_id
                 second(i) == conflicts'[i][2].observation_id
      <3>1. ASSUME NEW i \in 1..(n + 1)
            PROVE  first(i) # second(i)
                   /\ {first(i), second(i)} \subseteq incorporated'
        <4>1. CASE i \in 1..n
          BY <1>1, <1>2, <1>3, <2>2, <4>1 DEF ChainInv, ConflictPairsChain
        <4>2. CASE i = n + 1
          BY <1>1, <2>1, <2>3, <4>2
        <4> QED
          BY <1>2, <4>1, <4>2
      <3>2. ASSUME NEW i \in 1..(n + 1), NEW j \in 1..(n + 1), i < j
            PROVE  /\ second(j) \notin {first(i), second(i)}
                   /\ first(j) # first(i)
                   /\ first(j) = second(i) => j = i + 1
        <4>1. i \in 1..n
          BY <1>2, <3>2
        <4>2. CASE j \in 1..n
          BY <1>2, <2>2, <3>2, <4>1, <4>2, ZenonT(30) DEF ChainInv, ConflictPairsChain
        <4>3. CASE j = n + 1
          BY <1>1, <1>3, <2>1, <2>2, <2>3, <4>1, <4>3
        <4> QED
          BY <1>2, <4>2, <4>3
      <3> QED
        BY <2>2, <3>1, <3>2 DEF ConflictPairsChain
    <2> QED
      BY <1>1, <2>2, <2>4, <2>5 DEF ChainInv
  <1> QED
    BY <1>4, <1>5, Recorded

(* Every way an update ends keeps the pairs chained.                        *)
LEMMA ChainInvStep == ChainInv /\ [Next]_vars => ChainInv'
  <1> SUFFICES ASSUME ChainInv, [Next]_vars PROVE ChainInv'
    OBVIOUS
  <1>1. CASE /\ incorporated \subseteq incorporated'
             /\ UNCHANGED <<conflicts, last_evidence>>
    BY <1>1, ChainInvGated
  <1>2. CASE UNCHANGED vars \/ Predict \/ PredictFails
    BY <1>1, <1>2 DEF vars, Predict, PredictFails
  <1>3. ASSUME NEW e \in Inputs,
               \/ RefuseUnverified(e)
               \/ CollapseDuplicate(e)
               \/ RefuseUndecodable(e)
        PROVE  ChainInv'
    BY <1>1, <1>3 DEF RefuseUnverified, CollapseDuplicate, RefuseUndecodable
  <1>4. ASSUME NEW e \in Inputs, Fuse(e) \/ FilterRejects(e) PROVE ChainInv'
    BY <1>4, ChainInvRecorded DEF Fuse, FilterRejects
  <1> QED
    BY <1>2, <1>3, <1>4 DEF Next

(* Decision 0004 on the EKF path: pairs are of distinct incorporated        *)
(* observations and chain through time, for any run of any length.          *)
THEOREM PairsChain == Spec => []ConflictPairsChain
  <1>1. ChainInv => ConflictPairsChain
    BY DEF ChainInv
  <1> QED
    BY <1>1, ChainInvInit, ChainInvStep, PTL DEF Spec
=============================================================================
