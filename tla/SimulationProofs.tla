-------------------------- MODULE SimulationProofs --------------------------
(***************************************************************************)
(* Theorems about Simulation for any subjects, events, streams, faults and  *)
(* lengths of logs: what replaying an EventLog computes, and what the log   *)
(* of a lossy channel says about its arrivals.                              *)
(*                                                                          *)
(* The first half is about replays of any log: ReplayOf is a fold of        *)
(* Effect, so its state, its failures and its beliefs can be read off the   *)
(* log (ReplayHolds, SameObservationsSameTracks).  ReplayInv carries that   *)
(* to the passes of replay.  The second half is about the channel:          *)
(* CopiesInv counts, ArrivalInv relates announcements, losses and arrivals, *)
(* and RebuildInv reconstructs the arrivals.                                *)
(***************************************************************************)
EXTENDS Simulation, EvidenceProofs

(* The function whose value at 1..n is the replay of the first n events:    *)
(* what the fold in ReplayOf picks by CHOOSE.                               *)
Folds(g, s, n) ==
    g = [S \in SUBSET (1..n) |->
           IF S = {} THEN NewReplay
           ELSE Effect(g[S \ {Max(S)}], s[Max(S)])]

(* Such a function exists for every length; by the least length without     *)
(* one, as the provers cannot instantiate the library's induction.          *)
LEMMA FoldsExist == ASSUME NEW s, NEW m \in Nat PROVE \E g : Folds(g, s, m)
  <1> DEFINE Bad == {n \in Nat : ~\E g : Folds(g, s, n)}
  <1> SUFFICES ASSUME Bad # {} PROVE FALSE
    OBVIOUS
  <1>1. PICK n \in Bad : \A k \in Bad : n <= k
    BY LeastNatural
  <1>2. CASE n = 0
    <2> DEFINE g == [S \in SUBSET (1..0) |-> NewReplay]
    <2>1. SUBSET (1..0) = {{}}
      OBVIOUS
    <2>2. g = [S \in SUBSET (1..0) |->
                 IF S = {} THEN NewReplay
                 ELSE Effect(g[S \ {Max(S)}], s[Max(S)])]
      BY <2>1
    <2>3. Folds(g, s, 0)
      BY <2>2 DEF Folds
    <2> QED
      BY <1>1, <1>2, <2>3
  <1>3. CASE n # 0
    <2>1. n - 1 \in Nat /\ n - 1 \notin Bad
      BY <1>1, <1>3
    <2>2. PICK g : Folds(g, s, n - 1)
      BY <2>1
    <2> DEFINE h == [S \in SUBSET (1..n) |->
                       IF n \in S THEN Effect(g[S \ {n}], s[n]) ELSE g[S]]
               r(S) == IF S = {} THEN NewReplay
                       ELSE Effect(h[S \ {Max(S)}], s[Max(S)])
    <2>3. ASSUME NEW S \in SUBSET (1..n) PROVE h[S] = r(S)
      <3>1. \A R \in SUBSET (1..n) : n \notin R => R \in SUBSET (1..(n - 1)) /\ h[R] = g[R]
        BY <2>1
      <3>2. CASE n \in S
        <4>1. Max(S) = n
          BY <1>1, <3>2, MaxIs
        <4>2. h[S \ {n}] = g[S \ {n}]
          BY <3>1
        <4>3. h[S] = Effect(g[S \ {n}], s[n])
          BY <3>2
        <4> HIDE DEF h
        <4> QED
          BY <3>2, <4>1, <4>2, <4>3
      <3>3. CASE n \notin S
        <4>1. h[S] = g[S] /\ S \in SUBSET (1..(n - 1))
          BY <3>1, <3>3
        <4>2. g[S] = IF S = {} THEN NewReplay
                     ELSE Effect(g[S \ {Max(S)}], s[Max(S)])
          BY <2>2, <4>1 DEF Folds
        <4>3. h[S \ {Max(S)}] = g[S \ {Max(S)}]
          BY <3>1, <3>3
        <4> HIDE DEF h
        <4> QED
          BY <4>1, <4>2, <4>3
      <3> QED
        BY <3>2, <3>3
    <2>4. h = [S \in SUBSET (1..n) |-> r(S)]
      <3>1. h = [S \in SUBSET (1..n) |-> h[S]]
        OBVIOUS
      <3> HIDE DEF h
      <3> QED
        BY <2>3, <3>1
    <2>5. Folds(h, s, n)
      <3> HIDE DEF h
      <3> QED
        BY <2>4 DEF Folds
    <2> QED
      BY <1>1, <2>5
  <1> QED
    BY <1>2, <1>3

(* ReplayOf is the last value of such a function.                           *)
LEMMA ReplayOfFolds ==
    ASSUME NEW s, NEW n \in Nat, DOMAIN s = 1..n
    PROVE  \E g : Folds(g, s, n) /\ ReplayOf(s) = g[1..n]
  <1> DEFINE g == CHOOSE g : Folds(g, s, n)
  <1>1. Folds(g, s, n)
    BY FoldsExist
  <1>2. ReplayOf(s) = g[1..n]
    BY DEF ReplayOf, FoldLeft, MapThenFoldSet, Folds
  <1> QED
    BY <1>1, <1>2

(* Its values at the prefixes of a log are one Effect apart.                *)
LEMMA FoldsStep ==
    ASSUME NEW s, NEW n \in Nat, NEW g, Folds(g, s, n)
    PROVE  /\ g[1..0] = NewReplay
           /\ \A k \in 1..n : g[1..k] = Effect(g[1..(k - 1)], s[k])
  <1>1. ASSUME NEW k \in 1..n PROVE g[1..k] = Effect(g[1..(k - 1)], s[k])
    <2>1. /\ 1..k \in SUBSET (1..n) /\ 1..k # {}
          /\ (1..k) \ {k} = 1..(k - 1) /\ k \in 1..k /\ k \in Nat
      OBVIOUS
    <2>2. Max(1..k) = k
      BY <2>1, MaxIs
    <2> QED
      BY <2>1, <2>2 DEF Folds
  <1>2. 1..0 \in SUBSET (1..n) /\ 1..0 = {}
    OBVIOUS
  <1> QED
    BY <1>1, <1>2 DEF Folds

(* Logs that agree up to an event have the same replay up to it.            *)
LEMMA FoldsAgree ==
    ASSUME NEW s, NEW n \in Nat, NEW g, Folds(g, s, n),
           NEW t, NEW m \in Nat, NEW h, Folds(h, t, m),
           m <= n, \A k \in 1..m : s[k] = t[k]
    PROVE  g[1..m] = h[1..m]
  <1> DEFINE Bad == {k \in 0..m : g[1..k] # h[1..k]}
  <1> SUFFICES ASSUME Bad # {} PROVE FALSE
    OBVIOUS
  <1>1. Bad \in SUBSET Nat
    OBVIOUS
  <1>2. PICK k \in Bad : \A j \in Bad : k <= j
    <2> HIDE DEF Bad
    <2> QED
      BY <1>1, LeastNatural
  <1>3. k # 0
    BY <1>2, FoldsStep
  <1>4. k \in 1..m /\ k \in 1..n /\ k - 1 \in 0..m /\ ~(k <= k - 1)
    BY <1>2, <1>3
  <1>5. g[1..(k - 1)] = h[1..(k - 1)]
    BY <1>2, <1>4
  <1>6. s[k] = t[k]
    BY <1>4
  <1>7. g[1..k] = Effect(g[1..(k - 1)], s[k])
    BY <1>4, FoldsStep
  <1>8. h[1..k] = Effect(h[1..(k - 1)], t[k])
    BY <1>4, FoldsStep
  <1> QED
    BY <1>2, <1>5, <1>6, <1>7, <1>8

(* The replay of the first n events of a log is NewReplay, one Effect at a  *)
(* time; the replay of all of them is ReplayOf.                             *)
Upto(s, n) == ReplayOf(SubSeq(s, 1, n))

(* The fold again, one event at a time.                                     *)
LEMMA ReplayOfPrefix ==
    ASSUME NEW A, NEW s \in Seq(A)
    PROVE  /\ Upto(s, 0) = NewReplay
           /\ \A n \in 1..Len(s) : Upto(s, n) = Effect(Upto(s, n - 1), s[n])
           /\ Upto(s, Len(s)) = ReplayOf(s)
  <1>1. ASSUME NEW n \in 0..Len(s)
        PROVE  /\ n \in Nat
               /\ DOMAIN SubSeq(s, 1, n) = 1..n
               /\ \A k \in 1..n : SubSeq(s, 1, n)[k] = s[k]
    OBVIOUS
  <1>9. Len(s) \in Nat
    OBVIOUS
  <1>2. PICK r : Folds(r, s, Len(s))
    BY <1>9, FoldsExist
  <1>3. ASSUME NEW n \in 0..Len(s) PROVE Upto(s, n) = r[1..n]
    <2>1. PICK h : Folds(h, SubSeq(s, 1, n), n) /\ Upto(s, n) = h[1..n]
      BY <1>1, ReplayOfFolds DEF Upto
    <2>2. r[1..n] = h[1..n]
      <3> DEFINE t == SubSeq(s, 1, n)
      <3>1. /\ n \in Nat /\ Len(s) \in Nat /\ n <= Len(s)
            /\ \A k \in 1..n : s[k] = t[k]
        BY <1>1
      <3>2. Folds(h, t, n)
        BY <2>1
      <3> HIDE DEF t
      <3> QED
        BY <1>2, <3>1, <3>2, FoldsAgree
    <2> QED
      BY <2>1, <2>2
  <1>4. /\ r[1..0] = NewReplay
        /\ \A k \in 1..Len(s) : r[1..k] = Effect(r[1..(k - 1)], s[k])
    BY <1>2, FoldsStep
  <1>5. Upto(s, Len(s)) = ReplayOf(s)
    <2> DEFINE t == SubSeq(s, 1, Len(s))
    <2>1. /\ t \in Seq(A) /\ Len(t) = Len(s)
          /\ \A k \in 1..Len(s) : t[k] = s[k]
      OBVIOUS
    <2> HIDE DEF t
    <2>2. t = s
      BY <2>1
    <2> QED
      BY <2>2 DEF t, Upto
  <1>6. Upto(s, 0) = NewReplay
    BY <1>3, <1>4
  <1>7. ASSUME NEW n \in 1..Len(s) PROVE Upto(s, n) = Effect(Upto(s, n - 1), s[n])
    <2>1. n \in 0..Len(s) /\ n - 1 \in 0..Len(s)
      OBVIOUS
    <2> QED
      BY <1>3, <1>4, <2>1
  <1> QED
    BY <1>5, <1>6, <1>7

-----------------------------------------------------------------------------
(* What one call of incorporate records: the id of evidence that verifies,  *)
(* for its subject, whether it was fused, a duplicate or undecodable.       *)
LEMMA EngineAfterRecords ==
    ASSUME NEW eng, IsEngine(eng), NEW e, e.subject \in Subjects
    PROVE  /\ IsEngine(EngineAfter(eng, e))
           /\ \A s \in Subjects :
                 EngineAfter(eng, e).incorporated[s] =
                    IF s = e.subject /\ Verified(e)
                    THEN eng.incorporated[s] \cup {e.observation_id}
                    ELSE eng.incorporated[s]
  <1> DEFINE s == e.subject
             J == [eng.incorporated EXCEPT ![s] = @ \cup {e.observation_id}]
             f == EngineAfter(eng, e)
  <1>1. /\ DOMAIN J = Subjects
        /\ \A x \in Subjects : J[x] = IF x = s
                                      THEN eng.incorporated[x] \cup {e.observation_id}
                                      ELSE eng.incorporated[x]
    BY DEF IsEngine
  <1>2. CASE ~Verified(e)
    BY <1>2 DEF EngineAfter
  <1>3. CASE Verified(e) /\ Duplicate(eng, e)
    BY <1>3 DEF EngineAfter, Duplicate
  <1>4. CASE Verified(e) /\ ~Duplicate(eng, e) /\ ~Decodes(e)
    <2>1. f = Gated(eng, e)
      BY <1>4 DEF EngineAfter
    <2> HIDE DEF J, f
    <2>2. Gated(eng, e) = [tracks        |-> eng.tracks,
                           incorporated  |-> J,
                           conflicts     |-> eng.conflicts,
                           last_evidence |-> eng.last_evidence]
      BY GatedRecord DEF J
    <2>3. IsEngine(f) /\ f.incorporated = J
      BY <1>1, <2>1, <2>2 DEF IsEngine
    <2> QED
      BY <1>1, <1>4, <2>3 DEF f
  <1>5. CASE Verified(e) /\ ~Duplicate(eng, e) /\ Decodes(e)
    <2> DEFINE u == Updated(TrackOrPrior(eng, s), Measured[e.payload])
               T == [eng.tracks EXCEPT ![s] = u]
    <2>1. f = Fused(Gated(eng, e), e)
      BY <1>5 DEF EngineAfter
    <2>2. Measured[e.payload] \in [Dims -> Int]
      BY <1>5, GaussianAssumption DEF GaussianAssumption, Decodes
    <2>3. TrackOrPrior(eng, s) \in Track
      BY UninformativeType DEF TrackOrPrior, IsEngine
    <2>4. u \in Track
      BY <2>2, <2>3, UpdatedType
    <2> HIDE DEF u
    <2>5. T \in [Subjects -> Track \cup {NoTrack}]
      BY <2>4 DEF IsEngine
    <2> HIDE DEF T, J, f
    <2>6. Fused(Gated(eng, e), e) =
             [tracks        |-> T,
              incorporated  |-> J,
              conflicts     |-> Flagged(eng, e),
              last_evidence |-> [eng.last_evidence EXCEPT ![s] = e]]
      BY FusedRecord DEF T, J, u
    <2>7. IsEngine(f) /\ f.incorporated = J
      BY <1>1, <2>1, <2>5, <2>6 DEF IsEngine
    <2> QED
      BY <1>1, <1>5, <2>7 DEF f
  <1> QED
    BY <1>2, <1>3, <1>4, <1>5

(* The engine stays an exact function of the observations it knows through  *)
(* every call, whatever the evidence is.                                    *)
LEMMA EngineAfterKnows ==
    ASSUME NEW eng, IsEngine(eng), KnowsWhatReached(eng), NoTrack \notin Track,
           NEW e, e.subject \in Subjects,
           Verified(e) => e.observation_id = Blake3(e.payload)
    PROVE  KnowsWhatReached(EngineAfter(eng, e))
  <1>1. CASE ~Verified(e) \/ Duplicate(eng, e)
    BY <1>1 DEF EngineAfter
  <1>2. CASE Verified(e) /\ ~Duplicate(eng, e) /\ ~Decodes(e)
    <2> DEFINE f == Gated(eng, e)
               J == [eng.incorporated EXCEPT
                       ![e.subject] = @ \cup {e.observation_id}]
    <2>1. EngineAfter(eng, e) = f
      BY <1>2 DEF EngineAfter
    <2>5. \A s \in Subjects : J[s] = IF s = e.subject
                                   THEN eng.incorporated[s] \cup {e.observation_id}
                                   ELSE eng.incorporated[s]
      BY DEF IsEngine
    <2>6. f = [tracks        |-> eng.tracks,
               incorporated  |-> J,
               conflicts     |-> eng.conflicts,
               last_evidence |-> eng.last_evidence]
      BY GatedRecord
    <2> HIDE DEF f, J
    <2>2. f.tracks = eng.tracks /\ f.incorporated = J
      BY <2>6
    <2>3. e.observation_id.blake3 \notin DOMAIN Measured
      BY <1>2 DEF Blake3, Decodes
    <2>4. \A s \in Subjects : Reached(f, s) = Reached(eng, s)
      BY <2>2, <2>3, <2>5 DEF Reached
    <2> QED
      BY <2>1, <2>2, <2>4 DEF KnowsWhatReached, TrackOrPrior
  <1>3. CASE Verified(e) /\ ~Duplicate(eng, e) /\ Decodes(e)
    <2>1. EngineAfter(eng, e) = Fused(Gated(eng, e), e)
      BY <1>3 DEF EngineAfter
    <2> QED
      <3>1. e.observation_id = Blake3(e.payload)
        BY <1>3
      <3> HIDE DEF KnowsWhatReached
      <3>2. KnowsWhatReached(Fused(Gated(eng, e), e))
        BY <1>3, <3>1, FusedKnows
      <3> QED
        BY <2>1, <3>2
  <1> QED
    BY <1>1, <1>2, <1>3

-----------------------------------------------------------------------------
(* A replay's state is what its four fields say, and each kind of event     *)
(* changes one field of it.                                                 *)
IsReplay(r) ==
    /\ r = [beliefs       |-> r.beliefs,
            seen_messages |-> r.seen_messages,
            nodes_online  |-> r.nodes_online,
            db            |-> r.db]
    /\ IsEngine(r.beliefs)
    /\ DOMAIN r.seen_messages = ToSet(MessageOrder)
    /\ DOMAIN r.nodes_online = ToSet(NodeOrder)
    /\ DOMAIN r.db = ToSet(KeyOrder)

(* Effect, by fields.                                                       *)
LEMMA EffectFields ==
    ASSUME NEW r, IsReplay(r), NEW ev, IsEvent(ev)
    PROVE  LET q == Effect(r, ev) IN
           /\ IsReplay(q)
           /\ q.beliefs = IF ev.type = "Observation"
                          THEN EngineAfter(r.beliefs, ev.evidence) ELSE r.beliefs
           /\ q.seen_messages =
                CASE ev.type = "MessageSent" ->
                       [r.seen_messages EXCEPT ![ev.id] = ev.payload]
                  [] ev.type = "TransportLoss" ->
                       [r.seen_messages EXCEPT ![ev.message_id] = Nothing]
                  [] OTHER -> r.seen_messages
           /\ q.nodes_online =
                CASE ev.type = "NodeOnline" ->
                       [r.nodes_online EXCEPT ![ev.node_id] = TRUE]
                  [] ev.type = "NodeOffline" ->
                       [r.nodes_online EXCEPT ![ev.node_id] = FALSE]
                  [] OTHER -> r.nodes_online
           /\ q.db = IF ev.type = "DbWrite"
                     THEN [r.db EXCEPT ![ev.key] = ev.value_hash] ELSE r.db
  <1> DEFINE B == r.beliefs
             M == r.seen_messages
             N == r.nodes_online
             D == r.db
             q == Effect(r, ev)
  <1>1. r = [beliefs |-> B, seen_messages |-> M, nodes_online |-> N, db |-> D]
    BY DEF IsReplay
  <1>2. /\ IsEngine(B) /\ DOMAIN M = ToSet(MessageOrder)
        /\ DOMAIN N = ToSet(NodeOrder) /\ DOMAIN D = ToSet(KeyOrder)
    BY DEF IsReplay
  <1> HIDE DEF B, M, N, D
  <1>3. CASE ev.type = "Observation"
    <2> DEFINE C == EngineAfter(B, ev.evidence)
    <2>1. IsEngine(C)
      BY <1>2, <1>3, EngineAfterRecords DEF IsEvent
    <2>2. q = [r EXCEPT !.beliefs = C]
      BY <1>3 DEF Effect, B
    <2> HIDE DEF C, q
    <2>3. q = [beliefs |-> C, seen_messages |-> M, nodes_online |-> N, db |-> D]
      BY <1>1, <2>2
    <2> QED
      BY <1>2, <1>3, <2>1, <2>3 DEF IsReplay, B, M, N, D, C, q
  <1>4. CASE ev.type = "MessageSent"
    <2> DEFINE C == [M EXCEPT ![ev.id] = ev.payload]
    <2>1. DOMAIN C = DOMAIN M
      OBVIOUS
    <2>2. q = [r EXCEPT !.seen_messages = C]
      BY <1>4 DEF Effect, M
    <2> HIDE DEF C, q
    <2>3. q = [beliefs |-> B, seen_messages |-> C, nodes_online |-> N, db |-> D]
      BY <1>1, <2>2
    <2> QED
      BY <1>2, <1>4, <2>1, <2>3 DEF IsReplay, B, M, N, D, C, q
  <1>5. CASE ev.type = "TransportLoss"
    <2> DEFINE C == [M EXCEPT ![ev.message_id] = Nothing]
    <2>1. DOMAIN C = DOMAIN M
      OBVIOUS
    <2>2. q = [r EXCEPT !.seen_messages = C]
      BY <1>5 DEF Effect, M
    <2> HIDE DEF C, q
    <2>3. q = [beliefs |-> B, seen_messages |-> C, nodes_online |-> N, db |-> D]
      BY <1>1, <2>2
    <2> QED
      BY <1>2, <1>5, <2>1, <2>3 DEF IsReplay, B, M, N, D, C, q
  <1>6. CASE ev.type = "NodeOnline"
    <2> DEFINE C == [N EXCEPT ![ev.node_id] = TRUE]
    <2>1. DOMAIN C = DOMAIN N
      OBVIOUS
    <2>2. q = [r EXCEPT !.nodes_online = C]
      BY <1>6 DEF Effect, N
    <2> HIDE DEF C, q
    <2>3. q = [beliefs |-> B, seen_messages |-> M, nodes_online |-> C, db |-> D]
      BY <1>1, <2>2
    <2> QED
      BY <1>2, <1>6, <2>1, <2>3 DEF IsReplay, B, M, N, D, C, q
  <1>7. CASE ev.type = "NodeOffline"
    <2> DEFINE C == [N EXCEPT ![ev.node_id] = FALSE]
    <2>1. DOMAIN C = DOMAIN N
      OBVIOUS
    <2>2. q = [r EXCEPT !.nodes_online = C]
      BY <1>7 DEF Effect, N
    <2> HIDE DEF C, q
    <2>3. q = [beliefs |-> B, seen_messages |-> M, nodes_online |-> C, db |-> D]
      BY <1>1, <2>2
    <2> QED
      BY <1>2, <1>7, <2>1, <2>3 DEF IsReplay, B, M, N, D, C, q
  <1>8. CASE ev.type = "DbWrite"
    <2> DEFINE C == [D EXCEPT ![ev.key] = ev.value_hash]
    <2>1. DOMAIN C = DOMAIN D
      OBVIOUS
    <2>2. q = [r EXCEPT !.db = C]
      BY <1>8 DEF Effect, D
    <2> HIDE DEF C, q
    <2>3. q = [beliefs |-> B, seen_messages |-> M, nodes_online |-> N, db |-> C]
      BY <1>1, <2>2
    <2> QED
      BY <1>2, <1>8, <2>1, <2>3 DEF IsReplay, B, M, N, D, C, q
  <1>9. CASE ev.type \notin {"Observation", "MessageSent", "TransportLoss",
                             "NodeOnline", "NodeOffline", "DbWrite"}
    BY <1>9 DEF Effect
  <1> QED
    BY <1>3, <1>4, <1>5, <1>6, <1>7, <1>8, <1>9

-----------------------------------------------------------------------------
(* The last of a set of positions, 0 if there is none.                      *)
LastIn(I) == IF I # {} THEN Max(I) ELSE 0

(* A new last position is the last.                                         *)
LEMMA LastInGrows ==
    ASSUME NEW n \in Nat, NEW I \in SUBSET (1..n)
    PROVE  LastIn(I \cup {n + 1}) = n + 1 /\ n + 1 # 0
  <1>1. /\ I \cup {n + 1} \in SUBSET (1..(n + 1)) /\ n + 1 \in I \cup {n + 1}
        /\ n + 1 \in Nat /\ n + 1 # 0
    OBVIOUS
  <1> QED
    BY <1>1, MaxIs DEF LastIn

(* The last position is one of them, and none is later.                     *)
LEMMA LastInBounds ==
    ASSUME NEW n \in Nat, NEW I \in SUBSET (1..n), I # {}
    PROVE  LastIn(I) \in I /\ \A x \in I : LastIn(I) >= x
  <1> DEFINE Above == {k \in Nat : \A x \in I : x <= k}
  <1>1. n \in Above
    OBVIOUS
  <1>2. PICK m \in Above : \A k \in Above : m <= k
    <2>1. Above \in SUBSET Nat /\ Above # {}
      BY <1>1
    <2> HIDE DEF Above
    <2> QED
      BY <2>1, LeastNatural
  <1>3. m \in Nat /\ \A x \in I : x \in Int /\ x >= 1 /\ x <= m
    BY <1>2
  <1>4. m # 0
    <2>1. PICK x \in I : TRUE
      OBVIOUS
    <2> QED
      BY <1>3, <2>1
  <1>5. m \in I
    <2> SUFFICES ASSUME m \notin I PROVE FALSE
      OBVIOUS
    <2>1. m - 1 \in Nat /\ ~(m <= m - 1)
      BY <1>3, <1>4
    <2>2. \A x \in I : x <= m - 1
      BY <1>3
    <2> QED
      BY <1>2, <2>1, <2>2
  <1>6. \E x \in I : \A y \in I : x >= y
    BY <1>3, <1>5
  <1>7. Max(I) \in I /\ \A x \in I : Max(I) >= x
    BY <1>6 DEF Max
  <1> QED
    BY <1>7 DEF LastIn

(* The positions among the first n events that speak of a message, a node   *)
(* or a key, and what the last of them leaves.                              *)
AboutMessage(s, n, m) ==
    {k \in 1..n : \/ s[k].type = "MessageSent" /\ s[k].id = m
                  \/ s[k] = TransportLoss(m)}
AboutNode(s, n, x) == {k \in 1..n : s[k] \in {NodeOnline(x), NodeOffline(x)}}
AboutKey(s, n, q) == {k \in 1..n : s[k].type = "DbWrite" /\ s[k].key = q}

SeenAfter(s, k) ==
    IF k = 0 \/ s[k].type = "TransportLoss" THEN Nothing ELSE s[k].payload
OnlineAfter(s, k) == IF k = 0 THEN Nothing ELSE s[k].type = "NodeOnline"
ValueAfter(s, k) == IF k = 0 THEN Nothing ELSE s[k].value_hash

(* The state after n events is what the last event about each message, node *)
(* and key left.                                                            *)
HoldsLast(r, s, n) ==
    /\ \A m \in ToSet(MessageOrder) :
          r.seen_messages[m] = SeenAfter(s, LastIn(AboutMessage(s, n, m)))
    /\ \A x \in ToSet(NodeOrder) :
          r.nodes_online[x] = OnlineAfter(s, LastIn(AboutNode(s, n, x)))
    /\ \A q \in ToSet(KeyOrder) :
          r.db[q] = ValueAfter(s, LastIn(AboutKey(s, n, q)))

(* NewReplay holds nothing.                                                 *)
LEMMA HoldsLastInit == ASSUME NEW s PROVE HoldsLast(NewReplay, s, 0)
  <1>1. LastIn({}) = 0
    BY DEF LastIn
  <1>2. /\ \A m : AboutMessage(s, 0, m) = {}
        /\ \A x : AboutNode(s, 0, x) = {}
        /\ \A q : AboutKey(s, 0, q) = {}
    BY DEF AboutMessage, AboutNode, AboutKey
  <1> QED
    BY <1>1, <1>2 DEF HoldsLast, NewReplay, SeenAfter, OnlineAfter, ValueAfter

(* An event about a message, node or key becomes the last about it; others  *)
(* leave it alone.                                                          *)
LEMMA HoldsLastStep ==
    ASSUME NEW s, NEW n \in Nat, NEW r, IsReplay(r), HoldsLast(r, s, n),
           IsEvent(s[n + 1])
    PROVE  HoldsLast(Effect(r, s[n + 1]), s, n + 1)
  <1> DEFINE ev == s[n + 1]
             q == Effect(r, ev)
  <1>1. 1..(n + 1) = (1..n) \cup {n + 1}
    OBVIOUS
  <1>5. /\ q.seen_messages =
             CASE ev.type = "MessageSent" ->
                    [r.seen_messages EXCEPT ![ev.id] = ev.payload]
               [] ev.type = "TransportLoss" ->
                    [r.seen_messages EXCEPT ![ev.message_id] = Nothing]
               [] OTHER -> r.seen_messages
        /\ q.nodes_online =
             CASE ev.type = "NodeOnline" ->
                    [r.nodes_online EXCEPT ![ev.node_id] = TRUE]
               [] ev.type = "NodeOffline" ->
                    [r.nodes_online EXCEPT ![ev.node_id] = FALSE]
               [] OTHER -> r.nodes_online
        /\ q.db = IF ev.type = "DbWrite"
                  THEN [r.db EXCEPT ![ev.key] = ev.value_hash] ELSE r.db
    BY EffectFields
  <1>6. ev = s[n + 1] /\ IsEvent(ev)
    OBVIOUS
  <1> HIDE DEF ev, q
  <1>2. ASSUME NEW m \in ToSet(MessageOrder)
        PROVE  q.seen_messages[m] = SeenAfter(s, LastIn(AboutMessage(s, n + 1, m)))
    <2> DEFINE I == AboutMessage(s, n, m)
               J == AboutMessage(s, n + 1, m)
    <2>1. I \in SUBSET (1..n) /\ r.seen_messages[m] = SeenAfter(s, LastIn(I))
      BY DEF AboutMessage, HoldsLast
    <2>2. CASE ev.type = "MessageSent" /\ ev.id = m
      <3>1. J = I \cup {n + 1}
        BY <1>1, <1>6, <2>2 DEF AboutMessage
      <3>2. q.seen_messages[m] = ev.payload
        BY <1>5, <2>2 DEF IsReplay
      <3>3. LastIn(J) = n + 1 /\ n + 1 # 0
        BY <2>1, <3>1, LastInGrows
      <3> QED
        BY <1>6, <2>2, <3>2, <3>3 DEF SeenAfter
    <2>3. CASE ev = TransportLoss(m)
      <3>1. J = I \cup {n + 1}
        BY <1>1, <1>6, <2>3 DEF AboutMessage
      <3>2. ev.type = "TransportLoss" /\ ev.message_id = m
        BY <2>3 DEF TransportLoss
      <3>3. q.seen_messages[m] = Nothing
        BY <1>5, <3>2 DEF IsReplay
      <3>4. LastIn(J) = n + 1 /\ n + 1 # 0
        BY <2>1, <3>1, LastInGrows
      <3> QED
        BY <1>6, <3>2, <3>3, <3>4 DEF SeenAfter
    <2>4. CASE /\ ~(ev.type = "MessageSent" /\ ev.id = m)
               /\ ev # TransportLoss(m)
      <3>1. J = I
        BY <1>1, <1>6, <2>4 DEF AboutMessage
      <3>2. ev.type = "TransportLoss" => ev.message_id # m
        BY <1>6, <2>4 DEF IsEvent
      <3>3. q.seen_messages[m] = r.seen_messages[m]
        BY <1>5, <2>4, <3>2 DEF IsReplay
      <3> QED
        BY <2>1, <3>1, <3>3
    <2> QED
      BY <2>2, <2>3, <2>4
  <1>3. ASSUME NEW x \in ToSet(NodeOrder)
        PROVE  q.nodes_online[x] = OnlineAfter(s, LastIn(AboutNode(s, n + 1, x)))
    <2> DEFINE I == AboutNode(s, n, x)
               J == AboutNode(s, n + 1, x)
    <2>1. I \in SUBSET (1..n) /\ r.nodes_online[x] = OnlineAfter(s, LastIn(I))
      BY DEF AboutNode, HoldsLast
    <2>2. CASE ev \in {NodeOnline(x), NodeOffline(x)}
      <3>1. J = I \cup {n + 1}
        BY <1>1, <1>6, <2>2 DEF AboutNode
      <3>2. ev.type \in {"NodeOnline", "NodeOffline"} /\ ev.node_id = x
        BY <2>2 DEF NodeOnline, NodeOffline
      <3>3. q.nodes_online[x] = (ev.type = "NodeOnline")
        <4>1. x \in DOMAIN r.nodes_online
          BY DEF IsReplay
        <4>2. CASE ev.type = "NodeOnline"
          BY <1>5, <3>2, <4>1, <4>2
        <4>3. CASE ev.type = "NodeOffline"
          BY <1>5, <3>2, <4>1, <4>3
        <4> QED
          BY <3>2, <4>2, <4>3
      <3>4. LastIn(J) = n + 1 /\ n + 1 # 0
        BY <2>1, <3>1, LastInGrows
      <3> QED
        BY <1>6, <3>3, <3>4 DEF OnlineAfter
    <2>3. CASE ev \notin {NodeOnline(x), NodeOffline(x)}
      <3>1. J = I
        BY <1>1, <1>6, <2>3 DEF AboutNode
      <3>2. ev.type \in {"NodeOnline", "NodeOffline"} => ev.node_id # x
        BY <1>6, <2>3 DEF IsEvent
      <3>3. q.nodes_online[x] = r.nodes_online[x]
        BY <1>5, <3>2 DEF IsReplay
      <3> QED
        BY <2>1, <3>1, <3>3
    <2> QED
      BY <2>2, <2>3
  <1>4. ASSUME NEW k \in ToSet(KeyOrder)
        PROVE  q.db[k] = ValueAfter(s, LastIn(AboutKey(s, n + 1, k)))
    <2> DEFINE I == AboutKey(s, n, k)
               J == AboutKey(s, n + 1, k)
    <2>1. I \in SUBSET (1..n) /\ r.db[k] = ValueAfter(s, LastIn(I))
      BY DEF AboutKey, HoldsLast
    <2>2. CASE ev.type = "DbWrite" /\ ev.key = k
      <3>1. J = I \cup {n + 1}
        BY <1>1, <1>6, <2>2 DEF AboutKey
      <3>2. q.db[k] = ev.value_hash
        BY <1>5, <2>2 DEF IsReplay
      <3>3. LastIn(J) = n + 1 /\ n + 1 # 0
        BY <2>1, <3>1, LastInGrows
      <3> QED
        BY <1>6, <3>2, <3>3 DEF ValueAfter
    <2>3. CASE ~(ev.type = "DbWrite" /\ ev.key = k)
      <3>1. J = I
        BY <1>1, <1>6, <2>3 DEF AboutKey
      <3>2. q.db[k] = r.db[k]
        BY <1>5, <2>3 DEF IsReplay
      <3> QED
        BY <2>1, <3>1, <3>2
    <2> QED
      BY <2>2, <2>3
  <1> QED
    BY <1>2, <1>3, <1>4 DEF HoldsLast, ev, q

-----------------------------------------------------------------------------
(* The ids of the verified observations of a subject among the first n      *)
(* events; after them, the engine has recorded exactly these.               *)
IdsLogged(s, n, a) ==
    {s[k].evidence.observation_id :
        k \in {j \in 1..n : /\ s[j].type = "Observation"
                           /\ s[j].evidence.subject = a
                           /\ Verified(s[j].evidence)}}

(* Both, and the type of the state.                                         *)
Holds(r, s, n) ==
    /\ IsReplay(r)
    /\ HoldsLast(r, s, n)
    /\ \A a \in Subjects : r.beliefs.incorporated[a] = IdsLogged(s, n, a)

(* The same with what the engine has recorded.                              *)
LEMMA HoldsStep ==
    ASSUME NEW s, NEW n \in Nat, NEW r, Holds(r, s, n), IsEvent(s[n + 1])
    PROVE  Holds(Effect(r, s[n + 1]), s, n + 1)
  <1> DEFINE ev == s[n + 1]
             q == Effect(r, ev)
  <1>1. IsReplay(r) /\ HoldsLast(r, s, n)
    BY DEF Holds
  <1>2. /\ IsReplay(q)
        /\ q.beliefs = IF ev.type = "Observation"
                       THEN EngineAfter(r.beliefs, ev.evidence) ELSE r.beliefs
    BY <1>1, EffectFields
  <1>3. HoldsLast(q, s, n + 1)
    BY <1>1, HoldsLastStep
  <1>4. 1..(n + 1) = (1..n) \cup {n + 1}
    OBVIOUS
  <1>5. ev = s[n + 1] /\ IsEvent(ev)
    OBVIOUS
  <1> HIDE DEF ev, q
  <1>6. ASSUME NEW a \in Subjects
        PROVE  q.beliefs.incorporated[a] = IdsLogged(s, n + 1, a)
    <2> DEFINE Adds == /\ ev.type = "Observation" /\ ev.evidence.subject = a
                       /\ Verified(ev.evidence)
    <2>1. r.beliefs.incorporated[a] = IdsLogged(s, n, a)
      BY DEF Holds
    <2>4. ASSUME ev.type = "Observation"
          PROVE  q.beliefs.incorporated[a] =
                   IF a = ev.evidence.subject /\ Verified(ev.evidence)
                   THEN r.beliefs.incorporated[a] \cup {ev.evidence.observation_id}
                   ELSE r.beliefs.incorporated[a]
      <3> DEFINE f == EngineAfter(r.beliefs, ev.evidence)
      <3>1. q.beliefs = f
        BY <1>2, <2>4
      <3>2. ev.evidence.subject \in Subjects
        BY <1>5, <2>4 DEF IsEvent
      <3>3. IsEngine(r.beliefs)
        BY <1>1 DEF IsReplay
      <3>4. \A x \in Subjects :
              f.incorporated[x] =
                 IF x = ev.evidence.subject /\ Verified(ev.evidence)
                 THEN r.beliefs.incorporated[x] \cup {ev.evidence.observation_id}
                 ELSE r.beliefs.incorporated[x]
        BY <3>2, <3>3, EngineAfterRecords
      <3> HIDE DEF f
      <3> QED
        BY <3>1, <3>4
    <2>2. CASE Adds
      <3>1. IdsLogged(s, n + 1, a)
              = IdsLogged(s, n, a) \cup {ev.evidence.observation_id}
        BY <1>4, <1>5, <2>2 DEF IdsLogged
      <3>2. q.beliefs.incorporated[a]
              = r.beliefs.incorporated[a] \cup {ev.evidence.observation_id}
        BY <2>2, <2>4
      <3> QED
        BY <2>1, <3>1, <3>2
    <2>3. CASE ~Adds
      <3>1. IdsLogged(s, n + 1, a) = IdsLogged(s, n, a)
        BY <1>4, <1>5, <2>3 DEF IdsLogged
      <3>2. q.beliefs.incorporated[a] = r.beliefs.incorporated[a]
        <4>1. CASE ev.type = "Observation"
          BY <2>3, <2>4, <4>1
        <4> QED
          BY <1>2, <4>1
      <3> QED
        BY <2>1, <3>1, <3>2
    <2> QED
      BY <2>2, <2>3
  <1> QED
    BY <1>2, <1>3, <1>6 DEF Holds, ev, q

(* A new engine has recorded nothing.                                       *)
LEMMA HoldsInit == ASSUME NEW s PROVE Holds(NewReplay, s, 0)
  <1>1. IsReplay(NewReplay) /\ NewReplay.beliefs = NewEngine
    BY NewEngineKnows DEF NewReplay, IsReplay
  <1>2. \A a \in Subjects : IdsLogged(s, 0, a) = {}
    BY DEF IdsLogged
  <1> QED
    BY <1>1, <1>2, HoldsLastInit DEF Holds, NewEngine

(* A log as recorders write it.                                             *)
IsLog(s) == \A k \in 1..Len(s) : IsEvent(s[k])

(* Every replay of every log, not only the runs' of Replay: Holds at each   *)
(* of its positions, by the least position at which it would not.           *)
LEMMA ReplayHolds ==
    ASSUME NEW A, NEW s \in Seq(A), IsLog(s)
    PROVE  \A n \in 0..Len(s) : Holds(Upto(s, n), s, n)
  <1> DEFINE Bad == {n \in 0..Len(s) : ~Holds(Upto(s, n), s, n)}
  <1> SUFFICES ASSUME Bad # {} PROVE FALSE
    OBVIOUS
  <1>1. PICK n \in Bad : \A k \in Bad : n <= k
    <2>1. Bad \in SUBSET Nat
      OBVIOUS
    <2> HIDE DEF Bad
    <2> QED
      BY <2>1, LeastNatural
  <1>2. n # 0
    BY <1>1, ReplayOfPrefix, HoldsInit
  <1>3. /\ n \in 1..Len(s) /\ n - 1 \in Nat /\ (n - 1) + 1 = n
        /\ n - 1 \in 0..Len(s) /\ ~(n <= n - 1)
    BY <1>1, <1>2
  <1>4. Holds(Upto(s, n - 1), s, n - 1)
    BY <1>1, <1>3
  <1>5. Upto(s, n) = Effect(Upto(s, n - 1), s[n])
    BY <1>3, ReplayOfPrefix
  <1>6. IsEvent(s[n])
    BY <1>3 DEF IsLog
  <1>7. Holds(Effect(Upto(s, n - 1), s[(n - 1) + 1]), s, (n - 1) + 1)
    BY <1>3, <1>4, <1>6, HoldsStep
  <1> QED
    BY <1>1, <1>3, <1>5, <1>7

(* Logs whose verified evidence carries the id originate gave it; a replay  *)
(* of such a log keeps the engine an exact function of what it knows.       *)
IsGenuine(s) ==
    \A k \in 1..Len(s) :
        s[k].type = "Observation" /\ Verified(s[k].evidence) =>
            s[k].evidence.observation_id = Blake3(s[k].evidence.payload)

(* ReplayHolds for KnowsWhatReached.                                        *)
LEMMA ReplayKnows ==
    ASSUME NEW A, NEW s \in Seq(A), IsLog(s), IsGenuine(s), NoTrack \notin Track
    PROVE  \A n \in 0..Len(s) : KnowsWhatReached(Upto(s, n).beliefs)
  <1> DEFINE Bad == {n \in 0..Len(s) : ~KnowsWhatReached(Upto(s, n).beliefs)}
  <1> SUFFICES ASSUME Bad # {} PROVE FALSE
    OBVIOUS
  <1>1. PICK n \in Bad : \A k \in Bad : n <= k
    <2>1. Bad \in SUBSET Nat
      OBVIOUS
    <2> HIDE DEF Bad
    <2> QED
      BY <2>1, LeastNatural
  <1>2. n # 0
    BY <1>1, ReplayOfPrefix, NewEngineKnows DEF NewReplay
  <1>3. n \in 1..Len(s) /\ n - 1 \in 0..Len(s) /\ ~(n <= n - 1)
    BY <1>1, <1>2
  <1> DEFINE r == Upto(s, n - 1)
             ev == s[n]
  <1>4. KnowsWhatReached(r.beliefs)
    BY <1>1, <1>3
  <1>5. IsReplay(r)
    BY <1>3, ReplayHolds DEF Holds
  <1>6. IsEvent(ev)
    BY <1>3 DEF IsLog
  <1>7. Upto(s, n) = Effect(r, ev)
    BY <1>3, ReplayOfPrefix
  <1>8. ev.type = "Observation" /\ Verified(ev.evidence) =>
          ev.evidence.observation_id = Blake3(ev.evidence.payload)
    BY <1>3 DEF IsGenuine
  <1>9. ~KnowsWhatReached(Upto(s, n).beliefs)
    BY <1>1
  <1> HIDE DEF r, ev, Bad
  <1>10. Upto(s, n).beliefs = IF ev.type = "Observation"
                              THEN EngineAfter(r.beliefs, ev.evidence)
                              ELSE r.beliefs
    <2>1. Effect(r, ev).beliefs = IF ev.type = "Observation"
                                  THEN EngineAfter(r.beliefs, ev.evidence)
                                  ELSE r.beliefs
      BY <1>5, <1>6, EffectFields
    <2> QED
      BY <1>7, <2>1
  <1>11. KnowsWhatReached(Upto(s, n).beliefs)
    <2>1. CASE ev.type = "Observation"
      <3>1. ev.evidence.subject \in Subjects /\ IsEngine(r.beliefs)
        BY <1>5, <1>6, <2>1 DEF IsEvent, IsReplay
      <3> HIDE DEF KnowsWhatReached
      <3>2. KnowsWhatReached(EngineAfter(r.beliefs, ev.evidence))
        BY <1>4, <1>8, <2>1, <3>1, EngineAfterKnows
      <3> QED
        BY <1>10, <2>1, <3>2
    <2> QED
      BY <1>4, <1>10, <2>1
  <1> QED
    BY <1>9, <1>11

-----------------------------------------------------------------------------
(* What the shared log can hold: recorded events, announcements and faults; *)
(* and where the channel can be.                                            *)
LogEvents ==
    Events \cup {MessageSent(stream[k], <<k>>) : k \in DOMAIN stream}
      \cup {Channel!Loss(m) : m \in ToSet(stream)}
      \cup {Channel!Duplicate(m) : m \in ToSet(stream)}
      \cup {Channel!Reorder(a, b) : a \in Int, b \in Int}

(* Where the channel and the log can be.                                    *)
ChannelType ==
    /\ stream \in Streams
    /\ next \in 1..(Len(stream) + 1)
    /\ arrivals \in Seq(ToSet(stream))
    /\ i \in Int
    /\ phase = "shuffle" => i \in 1..Len(arrivals)
    /\ log \in Seq(LogEvents)

(* What SimulationAssumption says of the stream at hand.                    *)
LEMMA StreamFacts ==
    ASSUME stream \in Streams
    PROVE  /\ stream \in Seq(ToSet(MessageOrder)) /\ stream \in Seq(ToSet(stream))
           /\ \A k \in DOMAIN stream : <<k>> # Nothing /\ stream[k] \in ToSet(MessageOrder)
  <1>1. /\ stream \in Seq(ToSet(MessageOrder))
        /\ \A k \in DOMAIN stream : <<k>> # Nothing
    BY SimulationAssumption DEF SimulationAssumption
  <1>2. \A k \in 1..Len(stream) : stream[k] \in ToSet(stream)
    BY <1>1 DEF ToSet
  <1>3. stream \in Seq(ToSet(stream))
    BY <1>1, <1>2
  <1> QED
    BY <1>1, <1>3

(* Every event of the shared log is well formed, so a replay of it is       *)
(* covered by ReplayHolds and ReplayKnows.                                  *)
LEMMA LogEventsAre ==
    ASSUME stream \in Streams, NEW ev \in LogEvents
    PROVE  /\ IsEvent(ev)
           /\ ev.type = "Observation" /\ Verified(ev.evidence) =>
                 ev.evidence.observation_id = Blake3(ev.evidence.payload)
  <1>1. CASE ev \in Events
    BY <1>1, ReplayAssumption, LoggedEvidenceAssumption
    DEF ReplayAssumption, LoggedEvidenceAssumption
  <1>2. CASE \E k \in DOMAIN stream : ev = MessageSent(stream[k], <<k>>)
    BY <1>2, StreamFacts DEF MessageSent, IsEvent
  <1>3. CASE \E m \in ToSet(stream) : ev \in {Channel!Loss(m), Channel!Duplicate(m)}
    BY <1>3 DEF Channel!Loss, Channel!Duplicate, IsEvent, TransportLoss
  <1>4. CASE \E a, b \in Int : ev = Channel!Reorder(a, b)
    BY <1>4 DEF Channel!Reorder, IsEvent
  <1> QED
    BY <1>1, <1>2, <1>3, <1>4 DEF LogEvents

(* The shared log is a log in both senses.                                  *)
LEMMA LogIsLog ==
    ChannelType => IsLog(log) /\ IsGenuine(log)
  <1> SUFFICES ASSUME ChannelType, NEW k \in 1..Len(log)
               PROVE  /\ IsEvent(log[k])
                      /\ log[k].type = "Observation" /\ Verified(log[k].evidence) =>
                            log[k].evidence.observation_id
                              = Blake3(log[k].evidence.payload)
    BY DEF IsLog, IsGenuine
  <1>1. log[k] \in LogEvents /\ stream \in Streams
    BY DEF ChannelType
  <1> QED
    BY <1>1, LogEventsAre

(* No message has been sent at first.                                       *)
LEMMA ChannelTypeInit == SimInit => ChannelType
  BY DEF SimInit, Init, Channel!Init, ChannelType

(* Announcements in a log can be counted.                                   *)
LEMMA AnnouncedType == ChannelType => Announced \in Nat
  <1> SUFFICES ASSUME ChannelType PROVE Announced \in Nat
    OBVIOUS
  <1>1. IsFiniteSet(DOMAIN log)
    <2>1. DOMAIN log = 1..Len(log) /\ Len(log) \in Nat
      BY DEF ChannelType
    <2> QED
      BY <2>1, FS_Interval
  <1> QED
    BY <1>1, FS_Subset, FS_CardinalityType DEF Announced

(* A step either records, at most one event and before any replay, or       *)
(* replays, and then leaves log and channel alone.                          *)
Recording ==
    /\ pass = 0
    /\ UNCHANGED <<stream, pass, index, replay, first, verdict>>
    /\ \/ log' = log
       \/ \E ev \in LogEvents : log' = Append(log, ev)

(* A step of the replay.                                                    *)
ReplayStep ==
    /\ UNCHANGED <<channel, log>>
    /\ \/ UNCHANGED engine
       \/ Start \/ ApplyNext \/ FailEvent \/ SecondPass \/ Compare

(* One step per action of the channel, the recorder and the replay.         *)
LEMMA StepCases ==
    ASSUME ChannelType, [SimNext]_<<channel, log, engine>>
    PROVE  ChannelType' /\ (Recording \/ ReplayStep)
  <1>1. CASE UNCHANGED <<channel, log, engine>>
    BY <1>1 DEF channel, engine, ReplayStep, ChannelType, LogEvents
  <1>2. CASE Announce
    <2>1. Announced + 1 \in DOMAIN stream
      BY <1>2, AnnouncedType, StreamFacts DEF Announce, ChannelType
    <2>2. MessageSent(stream[Announced + 1], <<Announced + 1>>) \in LogEvents
      BY <2>1 DEF LogEvents
    <2>3. UNCHANGED <<channel, engine>> /\ pass = 0
      BY <1>2 DEF Announce
    <2>4. PICK ev \in LogEvents : log' = Append(log, ev)
      BY <1>2, <2>2 DEF Announce
    <2>5. LogEvents' = LogEvents
      BY <2>3 DEF channel, LogEvents
    <2>6. log' \in Seq(LogEvents)
      BY <2>4 DEF ChannelType
    <2> QED
      BY <2>3, <2>4, <2>5, <2>6 DEF channel, engine, Recording, ChannelType
  <1>3. ASSUME NEW ev \in Events, Record(ev)
        PROVE  ChannelType' /\ Recording
    <2>1. ev \in LogEvents
      BY DEF LogEvents
    <2>2. /\ pass = 0 /\ log' = Append(log, ev)
          /\ UNCHANGED <<channel, pass, index, replay, first, verdict>>
      BY <1>3 DEF Record, Push
    <2>3. LogEvents' = LogEvents
      BY <2>2 DEF channel, LogEvents
    <2>4. log' \in Seq(LogEvents)
      BY <2>1, <2>2 DEF ChannelType
    <2> QED
      BY <2>1, <2>2, <2>3, <2>4 DEF channel, Recording, ChannelType
  <1>4. CASE Transport
    <2>1. /\ pass = 0 /\ UNCHANGED <<pass, index, replay, first, verdict>>
          /\ Channel!Next
      BY <1>4 DEF Transport, engine
    <2>2. /\ UNCHANGED stream
          /\ \/ log' = log
             \/ \E ev \in LogEvents : log' = Append(log, ev)
          /\ next' \in 1..(Len(stream) + 1)
          /\ arrivals' \in Seq(ToSet(stream))
          /\ i' \in Int
          /\ phase' = "shuffle" => i' \in 1..Len(arrivals')
      <3>1. /\ Len(stream) \in Nat /\ next \in 1..(Len(stream) + 1)
            /\ arrivals \in Seq(ToSet(stream))
            /\ i \in Int
            /\ phase = "shuffle" => i \in 1..Len(arrivals)
            /\ \A k \in 1..Len(stream) : stream[k] \in ToSet(stream)
        BY StreamFacts DEF ChannelType, ToSet
      <3>2. CASE Channel!Lose
        <4>1. next \in 1..Len(stream)
          BY <3>1, <3>2 DEF Channel!Lose, Channel!Sending
        <4>2. Channel!Loss(stream[next]) \in LogEvents
          BY <3>1, <4>1 DEF LogEvents
        <4> QED
          BY <3>1, <3>2, <4>1, <4>2 DEF Channel!Lose, Channel!Sending
      <3>3. CASE Channel!Double
        <4>1. next \in 1..Len(stream)
          BY <3>1, <3>3 DEF Channel!Double, Channel!Sending
        <4>2. Channel!Duplicate(stream[next]) \in LogEvents
          BY <3>1, <4>1 DEF LogEvents
        <4>3. <<stream[next], stream[next]>> \in Seq(ToSet(stream))
          BY <3>1, <4>1
        <4> QED
          BY <3>1, <3>3, <4>1, <4>2, <4>3 DEF Channel!Double, Channel!Sending
      <3>4. CASE Channel!Pass
        <4>1. next \in 1..Len(stream)
          BY <3>1, <3>4 DEF Channel!Pass, Channel!Sending
        <4> QED
          BY <3>1, <3>4, <4>1 DEF Channel!Pass, Channel!Sending
      <3>5. CASE Channel!Shuffle \/ Channel!Deliver \/ Channel!Shuffled
        BY <3>1, <3>5 DEF Channel!Shuffle, Channel!Deliver, Channel!Shuffled
      <3>6. ASSUME NEW j \in 1..Len(arrivals), Channel!Swap(j)
            PROVE  /\ UNCHANGED stream
                   /\ \/ log' = log
                      \/ \E ev \in LogEvents : log' = Append(log, ev)
                   /\ next' \in 1..(Len(stream) + 1)
                   /\ arrivals' \in Seq(ToSet(stream))
                   /\ i' \in Int
                   /\ phase' = "shuffle" => i' \in 1..Len(arrivals')
        <4>1. i \in 1..Len(arrivals) /\ i > 1 /\ i' = i - 1 /\ UNCHANGED <<stream, next, phase>>
          BY <3>1, <3>6 DEF Channel!Swap
        <4>2. Channel!SwapEvent(i, j) \in LogEvents
          BY <4>1, SMTT(30) DEF Channel!SwapEvent, LogEvents
        <4>3. /\ Channel!Swapped(arrivals, i, j) \in Seq(ToSet(stream))
              /\ Len(Channel!Swapped(arrivals, i, j)) = Len(arrivals)
          BY <3>1, <4>1 DEF Channel!Swapped
        <4> QED
          BY <3>1, <3>6, <4>1, <4>2, <4>3 DEF Channel!Swap
      <3> QED
        BY <2>1, <3>2, <3>3, <3>4, <3>5, <3>6 DEF Channel!Next
    <2>3. LogEvents' = LogEvents
      BY <2>2 DEF LogEvents
    <2>4. log' \in Seq(LogEvents)
      BY <2>2, SMTT(30) DEF ChannelType
    <2> QED
      BY <2>1, <2>2, <2>3, <2>4 DEF Recording, ChannelType
  <1>5. CASE ReplayLog
    BY <1>5 DEF ReplayLog, Start, ApplyNext, FailEvent, SecondPass, Compare, channel,
       engine, ReplayStep, ChannelType, LogEvents
  <1> QED
    BY <1>1, <1>2, <1>3, <1>4, <1>5 DEF SimNext

-----------------------------------------------------------------------------
(* What ApplyNext accumulates is the replay of the log's first index        *)
(* events, in both passes, and the first pass left the fingerprint of the   *)
(* whole.                                                                   *)
ReplayInv ==
    /\ pass \in 0..2
    /\ index \in 0..Len(log)
    /\ pass = 0 => index = 0 /\ verdict = "none"
    /\ replay = Upto(log, index)
    /\ pass = 2 => first = Fingerprint(Upto(log, Len(log)))

(* Nothing has been replayed at first.                                      *)
LEMMA ReplayInvInit == SimInit => ReplayInv
  <1> SUFFICES ASSUME SimInit PROVE ReplayInv
    OBVIOUS
  <1>1. log = << >> /\ << >> \in Seq({}) /\ Len(log) = 0
    BY DEF SimInit, Init
  <1>2. Upto(log, 0) = NewReplay
    BY <1>1, ReplayOfPrefix
  <1> QED
    BY <1>1, <1>2 DEF SimInit, Init, ReplayInv

(* Inductive with ChannelType: appending to the log happens before the      *)
(* first pass, and does not change the replay of none of it.                *)
LEMMA ReplayInvStep ==
    ASSUME ChannelType, ReplayInv, [SimNext]_<<channel, log, engine>>
    PROVE  ReplayInv'
  <1>1. log \in Seq(LogEvents) /\ Len(log) \in Nat
    BY DEF ChannelType
  <1>2. log' \in Seq(LogEvents')
    BY StepCases DEF ChannelType
  <1>3. Upto(log', 0) = NewReplay
    BY <1>2, ReplayOfPrefix
  <1>4. CASE Recording
    <2>1. /\ pass = 0 /\ index = 0 /\ verdict = "none" /\ replay = Upto(log, 0)
          /\ UNCHANGED <<pass, index, replay, verdict>>
      BY <1>4 DEF Recording, ReplayInv
    <2>2. Upto(log, 0) = NewReplay
      BY <1>1, ReplayOfPrefix
    <2>3. Len(log') \in Nat
      BY <1>2
    <2> QED
      BY <1>3, <2>1, <2>2, <2>3 DEF ReplayInv
  <1>5. CASE ReplayStep
    <2>1. log' = log
      BY <1>5 DEF ReplayStep
    <2>2. CASE UNCHANGED engine \/ Start \/ FailEvent \/ Compare
      BY <2>1, <2>2 DEF engine, Start, FailEvent, Compare, Replaying, ReplayInv
    <2>3. CASE ApplyNext
      <3>1. /\ index < Len(log) /\ index' = index + 1
            /\ replay' = Effect(Upto(log, index), log[index + 1])
            /\ pass > 0 /\ UNCHANGED <<pass, first, verdict>>
        BY <2>3 DEF ApplyNext, Replaying, ReplayInv
      <3>2. index + 1 \in 1..Len(log) /\ index + 1 \in 0..Len(log) /\ (index + 1) - 1 = index
        BY <1>1, <3>1 DEF ReplayInv
      <3>3. Upto(log, index + 1) = Effect(Upto(log, index), log[index + 1])
        BY <1>1, <3>2, ReplayOfPrefix
      <3> QED
        BY <2>1, <3>1, <3>2, <3>3 DEF ReplayInv
    <2>4. CASE SecondPass
      <3>1. /\ index = Len(log) /\ pass' = 2 /\ index' = 0 /\ replay' = NewReplay
            /\ first' = Fingerprint(replay) /\ UNCHANGED verdict
        BY <2>4 DEF SecondPass
      <3>2. first' = Fingerprint(Upto(log', Len(log')))
        BY <2>1, <3>1 DEF ReplayInv
      <3> QED
        BY <1>1, <1>3, <2>1, <3>1, <3>2 DEF ReplayInv
    <2> QED
      BY <1>5, <2>2, <2>3, <2>4 DEF ReplayStep
  <1> QED
    BY <1>4, <1>5, StepCases

(* From both: in every reachable state the replay is a fold of the log.     *)
LEMMA ReplaysAreFolds == SimSpec => [](ChannelType /\ ReplayInv)
  <1>1. SimInit => ChannelType /\ ReplayInv
    BY ChannelTypeInit, ReplayInvInit
  <1>2. ChannelType /\ ReplayInv /\ [SimNext]_<<channel, log, engine>>
          => ChannelType' /\ ReplayInv'
    BY StepCases, ReplayInvStep
  <1> QED
    BY <1>1, <1>2, PTL DEF SimSpec

(* At any point of any replay the state is last-writer-wins over the        *)
(* applied events: a message is seen iff it was sent and no loss of its id  *)
(* came later, a node's status and a key's value are those of their last    *)
(* event (apply in seven-replay).                                           *)
THEOREM ReplayIsLastWrite == SimSpec => []StateIsLastWrite
  <1>1. ChannelType /\ ReplayInv => StateIsLastWrite
    <2> SUFFICES ASSUME ChannelType, ReplayInv PROVE StateIsLastWrite
      OBVIOUS
    <2>1. log \in Seq(LogEvents) /\ index \in 0..Len(log)
      BY DEF ChannelType, ReplayInv
    <2>2. /\ Len(Applied) = index
          /\ \A k \in 1..index : Applied[k] = log[k]
      BY <2>1 DEF Applied
    <2>3. HoldsLast(replay, log, index)
      BY <2>1, LogIsLog, ReplayHolds DEF ReplayInv, Holds
    <2>4. ASSUME NEW m \in ToSet(MessageOrder)
          PROVE  LET k == LastOf(LAMBDA ev : \/ ev.type = "MessageSent" /\ ev.id = m
                                             \/ ev = TransportLoss(m))
                 IN  replay.seen_messages[m] =
                       IF k = 0 \/ log[k].type = "TransportLoss" THEN Nothing
                       ELSE log[k].payload
      <3>1. {k \in 1..Len(Applied) : \/ Applied[k].type = "MessageSent" /\ Applied[k].id = m
                                     \/ Applied[k] = TransportLoss(m)}
              = AboutMessage(log, index, m)
        BY <2>2 DEF AboutMessage
      <3> DEFINE l == LastOf(LAMBDA ev : \/ ev.type = "MessageSent" /\ ev.id = m
                                         \/ ev = TransportLoss(m))
      <3>2. l = LastIn(AboutMessage(log, index, m))
        BY <3>1 DEF LastOf, SelectLastInSeq, LastIn
      <3> HIDE DEF l
      <3>3. replay.seen_messages[m] = SeenAfter(log, l)
        BY <2>3, <3>2 DEF HoldsLast
      <3>4. replay.seen_messages[m] =
              IF l = 0 \/ log[l].type = "TransportLoss" THEN Nothing
              ELSE log[l].payload
        BY <3>3 DEF SeenAfter
      <3> QED
        BY <3>4 DEF l
    <2>5. ASSUME NEW n \in ToSet(NodeOrder)
          PROVE  LET k == LastOf(LAMBDA ev : ev \in {NodeOnline(n), NodeOffline(n)})
                 IN  replay.nodes_online[n] =
                       IF k = 0 THEN Nothing ELSE log[k].type = "NodeOnline"
      <3>1. {k \in 1..Len(Applied) : Applied[k] \in {NodeOnline(n), NodeOffline(n)}}
              = AboutNode(log, index, n)
        BY <2>2 DEF AboutNode
      <3> DEFINE l == LastOf(LAMBDA ev : ev \in {NodeOnline(n), NodeOffline(n)})
      <3>2. l = LastIn(AboutNode(log, index, n))
        BY <3>1 DEF LastOf, SelectLastInSeq, LastIn
      <3> HIDE DEF l
      <3>3. replay.nodes_online[n] = OnlineAfter(log, l)
        BY <2>3, <3>2 DEF HoldsLast
      <3>4. replay.nodes_online[n] =
              IF l = 0 THEN Nothing ELSE log[l].type = "NodeOnline"
        BY <3>3 DEF OnlineAfter
      <3> QED
        BY <3>4 DEF l
    <2>6. ASSUME NEW q \in ToSet(KeyOrder)
          PROVE  LET k == LastOf(LAMBDA ev : ev.type = "DbWrite" /\ ev.key = q)
                 IN  replay.db[q] = IF k = 0 THEN Nothing ELSE log[k].value_hash
      <3>1. {k \in 1..Len(Applied) : Applied[k].type = "DbWrite" /\ Applied[k].key = q}
              = AboutKey(log, index, q)
        BY <2>2 DEF AboutKey
      <3> DEFINE l == LastOf(LAMBDA ev : ev.type = "DbWrite" /\ ev.key = q)
      <3>2. l = LastIn(AboutKey(log, index, q))
        BY <3>1 DEF LastOf, SelectLastInSeq, LastIn
      <3> HIDE DEF l
      <3>3. replay.db[q] = ValueAfter(log, l)
        BY <2>3, <3>2 DEF HoldsLast
      <3>4. replay.db[q] = IF l = 0 THEN Nothing ELSE log[l].value_hash
        BY <3>3 DEF ValueAfter
      <3> QED
        BY <3>4 DEF l
    <2> QED
      BY <2>4, <2>5, <2>6 DEF StateIsLastWrite
  <1> QED
    BY <1>1, ReplaysAreFolds, PTL

-----------------------------------------------------------------------------
(* apply returns an error exactly at an event that the log before it does   *)
(* not justify: what the engine and the database of the replay know is a    *)
(* matter of the log.                                                       *)
LEMMA FailsIfUnjustified ==
    ASSUME ChannelType, ReplayInv, index < Len(log),
           \A k \in 1..index : Justified(k)
    PROVE  Fails(replay, log[index + 1]) <=> ~Justified(index + 1)
  <1> DEFINE ev == log[index + 1]
  <1>1. /\ log \in Seq(LogEvents) /\ Len(log) \in Nat /\ index \in 0..Len(log)
        /\ index \in Nat /\ index + 1 \in 1..Len(log) /\ (index + 1) - 1 = index
    BY DEF ChannelType, ReplayInv
  <1>2. Holds(replay, log, index)
    BY <1>1, LogIsLog, ReplayHolds DEF ReplayInv
  <1>3. IsEvent(ev)
    BY <1>1, LogIsLog DEF IsLog
  <1>4. CASE ev.type = "DbRead"
    <2> DEFINE I == AboutKey(log, index, ev.key)
    <2>1. ev.key \in ToSet(KeyOrder)
      BY <1>3, <1>4 DEF IsEvent
    <2>2. replay.db[ev.key] = ValueAfter(log, LastIn(I))
      BY <1>2, <2>1 DEF Holds, HoldsLast
    <2>3. I \in SUBSET (1..index)
      BY DEF AboutKey
    <2>4. Justified(index + 1) <=> I # {}
      BY <1>1, <1>4 DEF Justified, AboutKey
    <2>5. CASE I = {}
      <3>1. LastIn(I) = 0
        BY <2>5 DEF LastIn
      <3>2. replay.db[ev.key] = Nothing
        BY <2>2, <3>1 DEF ValueAfter
      <3> QED
        BY <1>4, <2>4, <2>5, <3>2 DEF Fails
    <2>6. CASE I # {}
      <3> DEFINE l == LastIn(I)
      <3>1. l \in I
        BY <1>1, <2>3, <2>6, LastInBounds
      <3> HIDE DEF l
      <3>2. l \in 1..index /\ log[l].type = "DbWrite"
        BY <3>1 DEF AboutKey
      <3>3. l # 0 /\ l \in 1..Len(log)
        BY <1>1, <3>2
      <3>4. IsEvent(log[l])
        BY <3>3, LogIsLog DEF IsLog
      <3>5. log[l].value_hash # Nothing
        BY <3>2, <3>4 DEF IsEvent
      <3>6. replay.db[ev.key] = log[l].value_hash
        BY <2>2, <3>3 DEF ValueAfter, l
      <3> QED
        BY <1>4, <2>4, <2>6, <3>5, <3>6 DEF Fails
    <2> QED
      BY <2>5, <2>6
  <1>5. CASE ev.type = "Observation"
    <2> DEFINE e == ev.evidence
               a == ev.evidence.subject
    <2>1. a \in Subjects
      BY <1>3, <1>5 DEF IsEvent
    <2>2. replay.beliefs.incorporated[a] = IdsLogged(log, index, a)
      BY <1>2, <2>1 DEF Holds
    <2>3. \A j \in 1..index : log[j].type = "Observation" => Verified(log[j].evidence)
      BY DEF Justified
    <2>4. Duplicate(replay.beliefs, e) <=> Recorded(index + 1, e)
      BY <1>1, <2>2, <2>3 DEF Duplicate, Recorded, IdsLogged
    <2>5. Fails(replay, ev) <=>
             Outcome(replay.beliefs, e) \in {"UnverifiedEvidence", "NonFinite"}
      BY <1>5 DEF Fails
    <2>6. Justified(index + 1) <=>
             Verified(e) /\ (Decodes(e) \/ Recorded(index + 1, e))
      BY <1>5 DEF Justified
    <2> HIDE DEF e, ev
    <2> QED
      BY <2>4, <2>5, <2>6 DEF Outcome, ev
  <1>6. CASE ev.type \notin {"DbRead", "Observation"}
    BY <1>6 DEF Fails, Justified
  <1> QED
    BY <1>4, <1>5, <1>6

(* Everything applied is justified; in the second pass everything is, so    *)
(* that it cannot fail, and it ends in the fingerprint of the first.        *)
VerdictInv ==
    /\ \A k \in 1..index : Justified(k)
    /\ pass = 2 => \A k \in 1..Len(log) : Justified(k)
    /\ verdict = "Ok" => pass = 2 /\ index = Len(log)
    /\ verdict = "EventFailed" =>
          pass = 1 /\ index < Len(log) /\ ~Justified(index + 1)
    /\ verdict # "NonDeterministic"

(* Fails of the next event is the negation of Justified, in either pass.    *)
LEMMA VerdictInvStep ==
    ASSUME ChannelType, ReplayInv, VerdictInv, [SimNext]_<<channel, log, engine>>
    PROVE  VerdictInv'
  <1>1. Len(log) \in Nat /\ index \in 0..Len(log)
    BY DEF ChannelType, ReplayInv
  <1>2. CASE Recording
    <2>1. pass' = 0 /\ index' = 0 /\ verdict' = "none"
      BY <1>2 DEF Recording, ReplayInv
    <2> QED
      BY <2>1 DEF VerdictInv
  <1>3. CASE ReplayStep
    <2>1. log' = log
      BY <1>3 DEF ReplayStep
    <2>2. \A k : Justified(k)' <=> Justified(k)
      BY <2>1 DEF Justified, Recorded
    <2>3. CASE UNCHANGED engine \/ Start
      <3>1. /\ UNCHANGED <<index, verdict>>
            /\ pass' = pass \/ (pass' = 1 /\ pass = 0)
        BY <2>3 DEF engine, Start
      <3>2. pass = 0 => verdict = "none"
        BY DEF ReplayInv
      <3> HIDE DEF Justified
      <3> QED
        BY <2>1, <2>2, <3>1, <3>2 DEF VerdictInv
    <2>4. CASE ApplyNext
      <3>1. /\ index < Len(log) /\ index' = index + 1 /\ verdict = "none"
            /\ ~Fails(replay, log[index + 1]) /\ UNCHANGED <<pass, verdict>>
        BY <2>4 DEF ApplyNext, Replaying
      <3>2. Justified(index + 1)
        BY <3>1, FailsIfUnjustified DEF VerdictInv
      <3>3. \A k \in 1..index' : k \in 1..index \/ k = index + 1
        BY <1>1, <3>1
      <3> QED
        BY <2>1, <2>2, <3>1, <3>2, <3>3 DEF VerdictInv
    <2>5. CASE FailEvent
      <3>1. /\ index < Len(log) /\ verdict' = "EventFailed" /\ pass > 0
            /\ Fails(replay, log[index + 1]) /\ UNCHANGED <<pass, index>>
        BY <2>5 DEF FailEvent, Replaying
      <3>2. ~Justified(index + 1)
        BY <3>1, FailsIfUnjustified DEF VerdictInv
      <3>3. index + 1 \in 1..Len(log)
        BY <1>1, <3>1
      <3>4. pass = 1
        BY <3>1, <3>2, <3>3 DEF VerdictInv, ReplayInv
      <3> QED
        BY <2>1, <2>2, <3>1, <3>2, <3>4 DEF VerdictInv
    <2>6. CASE SecondPass
      <3>1. /\ index = Len(log) /\ pass' = 2 /\ index' = 0 /\ verdict = "none"
            /\ UNCHANGED verdict
        BY <2>6 DEF SecondPass, Replaying
      <3> QED
        BY <1>1, <2>1, <2>2, <3>1 DEF VerdictInv
    <2>7. CASE Compare
      <3>1. /\ index = Len(log) /\ pass = 2 /\ UNCHANGED <<pass, index>>
            /\ verdict' = IF Fingerprint(replay) = first THEN "Ok"
                          ELSE "NonDeterministic"
        BY <2>7 DEF Compare
      <3>2. Fingerprint(replay) = first
        BY <3>1 DEF ReplayInv
      <3> QED
        BY <2>1, <2>2, <3>1, <3>2 DEF VerdictInv
    <2> QED
      BY <1>3, <2>3, <2>4, <2>5, <2>6, <2>7 DEF ReplayStep
  <1> QED
    BY <1>2, <1>3, StepCases

(* From the steps: verdicts are sound in every reachable state.             *)
LEMMA VerdictsAreSound == SimSpec => [](ChannelType /\ ReplayInv /\ VerdictInv)
  <1>1. SimInit => ChannelType /\ ReplayInv /\ VerdictInv
    BY ChannelTypeInit, ReplayInvInit DEF SimInit, Init, VerdictInv
  <1>2. ChannelType /\ ReplayInv /\ VerdictInv /\ [SimNext]_<<channel, log, engine>>
          => ChannelType' /\ ReplayInv' /\ VerdictInv'
    BY StepCases, ReplayInvStep, VerdictInvStep
  <1> QED
    BY <1>1, <1>2, PTL DEF SimSpec

(* A verdict of replay speaks of the whole log: Ok means that every event   *)
(* is justified, EventFailed names the first that is not, and the two       *)
(* passes never differ (invariant 14).                                      *)
THEOREM ReplayVerdict == SimSpec => []VerdictIsAboutTheLog
  <1>1. ChannelType /\ VerdictInv => VerdictIsAboutTheLog
    BY DEF ChannelType, VerdictInv, VerdictIsAboutTheLog
  <1> QED
    BY <1>1, VerdictsAreSound, PTL

-----------------------------------------------------------------------------
(* Invariant 13 for any two logs: if they hold the same verified            *)
(* observations of each subject, in whatever order, number and company,     *)
(* their replays end in the same tracks. Each track is the posterior of its *)
(* set.                                                                     *)
LEMMA SameObservationsSameTracks ==
    ASSUME NEW A, NEW s \in Seq(A), IsLog(s), IsGenuine(s),
           NEW B, NEW t \in Seq(B), IsLog(t), IsGenuine(t),
           NoTrack \notin Track,
           \A a \in Subjects : IdsLogged(s, Len(s), a) = IdsLogged(t, Len(t), a)
    PROVE  SameTracks(ReplayOf(s), ReplayOf(t))
  <1> DEFINE p == ReplayOf(s)
             q == ReplayOf(t)
  <1>1. Len(s) \in 0..Len(s) /\ Len(t) \in 0..Len(t)
    OBVIOUS
  <1>2. p = Upto(s, Len(s)) /\ q = Upto(t, Len(t))
    BY ReplayOfPrefix
  <1>3. Holds(p, s, Len(s)) /\ Holds(q, t, Len(t))
    BY <1>1, <1>2, ReplayHolds
  <1>4. KnowsWhatReached(p.beliefs) /\ KnowsWhatReached(q.beliefs)
    <2> HIDE DEF p, q, KnowsWhatReached
    <2> QED
      BY <1>1, <1>2, ReplayKnows
  <1> HIDE DEF p, q
  <1> SUFFICES ASSUME NEW a \in Subjects
               PROVE  LET x == p.beliefs.tracks[a]
                          y == q.beliefs.tracks[a]
                      IN  IF NoTrack \in {x, y} THEN x = y
                          ELSE \A d \in Dims : /\ SameRat(x.mean[d], y.mean[d])
                                               /\ SameRat(x.var[d], y.var[d])
    BY DEF SameTracks, p, q
  <1> DEFINE x == p.beliefs.tracks[a]
             y == q.beliefs.tracks[a]
             S == Reached(p.beliefs, a)
  <1>5. p.beliefs.incorporated[a] = q.beliefs.incorporated[a]
    BY <1>3 DEF Holds
  <1>6. Reached(q.beliefs, a) = S
    BY <1>5 DEF Reached
  <1>7. /\ IsFiniteSet(S) /\ S \subseteq Observations
        /\ x = NoTrack <=> S = {}
        /\ IsPosterior(TrackOrPrior(p.beliefs, a), ValueOf, S)
    BY <1>4 DEF KnowsWhatReached
  <1>8. /\ y = NoTrack <=> S = {}
        /\ IsPosterior(TrackOrPrior(q.beliefs, a), ValueOf, S)
    BY <1>4, <1>6 DEF KnowsWhatReached
  <1>9. CASE S = {}
    BY <1>7, <1>8, <1>9
  <1>10. CASE S # {}
    <2>1. /\ x # NoTrack /\ y # NoTrack
          /\ TrackOrPrior(p.beliefs, a) = x /\ TrackOrPrior(q.beliefs, a) = y
      BY <1>7, <1>8, <1>10 DEF TrackOrPrior
    <2> HIDE DEF x, y, S
    <2>2. \A d \in Dims : \A o \in S : ValueOf[d][o] \in Int
      BY <1>7, ValueOfType
    <2>3. \A d \in Dims :
            /\ x.mean[d].num * y.mean[d].den = y.mean[d].num * x.mean[d].den
            /\ x.var[d].num * y.var[d].den = y.var[d].num * x.var[d].den
      BY <1>7, <1>8, <2>1, <2>2, PosteriorIsUnique, SMTT(30)
    <2> QED
      BY <2>1, <2>3 DEF SameRat, x, y
  <1> QED
    BY <1>9, <1>10

(* Reversing a log keeps its observations.                                  *)
LEMMA ReverseIsLog ==
    ASSUME NEW A, NEW s \in Seq(A), IsLog(s), IsGenuine(s)
    PROVE  LET t == Reverse(s) IN
           /\ t \in Seq(A) /\ Len(t) = Len(s) /\ IsLog(t) /\ IsGenuine(t)
           /\ \A a : IdsLogged(s, Len(s), a) = IdsLogged(t, Len(t), a)
  <1> DEFINE t == Reverse(s)
             n == Len(s)
  <1>1. n \in Nat /\ \A k \in 1..n : s[k] \in A
    OBVIOUS
  <1>2. \A k \in 1..n : (n - k) + 1 \in 1..n /\ (n - ((n - k) + 1)) + 1 = k
    BY <1>1
  <1>3. t = [k \in 1..n |-> s[(n - k) + 1]]
    BY DEF Reverse
  <1> HIDE DEF t, n
  <1>4. t \in Seq(A)
    BY <1>1, <1>2, <1>3
  <1>5. Len(t) = n
    BY <1>1, <1>3
  <1>6. /\ \A k \in 1..n : t[k] = s[(n - k) + 1]
        /\ \A k \in 1..n : s[k] = t[(n - k) + 1]
    BY <1>2, <1>3
  <1>7. IsLog(t) /\ IsGenuine(t)
    <2>1. ASSUME NEW k \in 1..n PROVE \E j \in 1..Len(s) : t[k] = s[j]
      BY <1>2, <1>6 DEF n
    <2> QED
      BY <1>5, <2>1 DEF IsLog, IsGenuine
  <1>8. ASSUME NEW a PROVE IdsLogged(s, n, a) = IdsLogged(t, n, a)
    BY <1>2, <1>6 DEF IdsLogged
  <1> QED
    BY <1>4, <1>5, <1>7, <1>8 DEF t, n

(* After an Ok replay, a replay of the events in reverse order would end in *)
(* the same beliefs (invariant 13): an instance of the lemma above.         *)
THEOREM ReplayIgnoresOrder == SimSpec => []BeliefsIgnoreLogOrder
  <1>1. ChannelType /\ ReplayInv /\ VerdictInv => BeliefsIgnoreLogOrder
    <2> SUFFICES ASSUME ChannelType, ReplayInv, VerdictInv, verdict = "Ok"
                 PROVE  SameTracks(replay, ReplayOf(Reverse(log)))
      BY DEF BeliefsIgnoreLogOrder
    <2>1. log \in Seq(LogEvents) /\ IsLog(log) /\ IsGenuine(log)
      BY LogIsLog DEF ChannelType
    <2>2. replay = ReplayOf(log)
      BY <2>1, ReplayOfPrefix DEF ReplayInv, VerdictInv
    <2>3. NoTrack \notin Track
      BY LoggedEvidenceAssumption DEF LoggedEvidenceAssumption
    <2> DEFINE t == Reverse(log)
    <2>4. /\ t \in Seq(LogEvents) /\ IsLog(t) /\ IsGenuine(t)
          /\ \A a \in Subjects : IdsLogged(log, Len(log), a) = IdsLogged(t, Len(t), a)
      <3>1. /\ t \in Seq(LogEvents) /\ Len(t) = Len(log) /\ IsLog(t) /\ IsGenuine(t)
            /\ \A a : IdsLogged(log, Len(log), a) = IdsLogged(t, Len(t), a)
        BY <2>1, ReverseIsLog
      <3> HIDE DEF t
      <3> QED
        BY <3>1
    <2> HIDE DEF t
    <2>5. SameTracks(ReplayOf(log), ReplayOf(t))
      BY <2>1, <2>3, <2>4, SameObservationsSameTracks
    <2> QED
      BY <2>2, <2>5 DEF t
  <1> QED
    BY <1>1, VerdictsAreSound, PTL

-----------------------------------------------------------------------------
(* Counting in a sequence: appending adds one where the new element         *)
(* belongs, and swapping two positions changes no count.                    *)
Places(s, V) == {k \in DOMAIN s : s[k] \in V}

(* Positions can be counted.                                                *)
LEMMA PlacesFinite ==
    ASSUME NEW A, NEW s \in Seq(A), NEW V
    PROVE  IsFiniteSet(Places(s, V)) /\ Cardinality(Places(s, V)) \in Nat
  <1>1. DOMAIN s = 1..Len(s) /\ Len(s) \in Nat
    OBVIOUS
  <1>2. IsFiniteSet(DOMAIN s)
    BY <1>1, FS_Interval
  <1>3. Places(s, V) \subseteq DOMAIN s
    BY DEF Places
  <1> QED
    BY <1>2, <1>3, FS_Subset, FS_CardinalityType

(* Appending adds one position where the element belongs.                   *)
LEMMA PlacesAppend ==
    ASSUME NEW A, NEW s \in Seq(A), NEW y, NEW V
    PROVE  Cardinality(Places(Append(s, y), V))
             = Cardinality(Places(s, V)) + (IF y \in V THEN 1 ELSE 0)
  <1> DEFINE t == Append(s, y)
             n == Len(s)
             S == Places(s, V)
  <1>1. /\ n \in Nat /\ DOMAIN s = 1..n /\ DOMAIN t = 1..(n + 1)
        /\ \A k \in 1..n : t[k] = s[k]
        /\ t[n + 1] = y
    OBVIOUS
  <1> HIDE DEF t, n
  <1>2. n + 1 \notin S
    BY <1>1 DEF Places
  <1>3. 1..(n + 1) = (1..n) \cup {n + 1}
    BY <1>1
  <1>4. y \in V => Places(t, V) = S \cup {n + 1}
    BY <1>1, <1>3 DEF Places
  <1>5. y \notin V => Places(t, V) = S
    BY <1>1, <1>3 DEF Places
  <1> HIDE DEF S
  <1>6. IsFiniteSet(S) /\ Cardinality(S) \in Nat
    BY PlacesFinite DEF S
  <1>7. Cardinality(S \cup {n + 1}) = Cardinality(S) + 1
    BY <1>2, <1>6, FS_AddElement
  <1>8. Cardinality(Places(t, V)) = Cardinality(S) + (IF y \in V THEN 1 ELSE 0)
    <2>1. CASE y \in V
      BY <1>4, <1>7, <2>1
    <2>2. CASE y \notin V
      BY <1>5, <1>6, <2>2
    <2> QED
      BY <2>1, <2>2
  <1> QED
    BY <1>8 DEF S, t

(* How often a value occurs.                                                *)
Copies(s, x) == Cardinality(Places(s, {x}))

(* CountIn of FaultyStream is Copies.                                       *)
LEMMA CountInIs == ASSUME NEW s, NEW x PROVE Channel!CountIn(s, x) = Copies(s, x)
  <1>1. Places(s, {x}) = {k \in DOMAIN s : s[k] = x}
    BY DEF Places
  <1> QED
    BY <1>1 DEF Channel!CountIn, Copies, Cardinality, Channel!Cardinality

(* A count is a natural number.                                             *)
LEMMA CopiesType ==
    ASSUME NEW A, NEW s \in Seq(A), NEW x PROVE Copies(s, x) \in Nat
  BY PlacesFinite DEF Copies

(* Appending counts for the value appended.                                 *)
LEMMA CopiesAppend ==
    ASSUME NEW A, NEW s \in Seq(A), NEW y, NEW x
    PROVE  Copies(Append(s, y), x) = Copies(s, x) + (IF x = y THEN 1 ELSE 0)
  <1>1. y \in {x} <=> x = y
    OBVIOUS
  <1> QED
    BY <1>1, PlacesAppend DEF Copies

(* Nothing occurs in the empty sequence.                                    *)
LEMMA CopiesOfNone == ASSUME NEW x PROVE Copies(<< >>, x) = 0
  <1>1. Places(<< >>, {x}) = {}
    BY DEF Places
  <1> QED
    BY <1>1, FS_EmptySet DEF Copies

(* The positions of a value before and after a swap are in bijection.       *)
LEMMA CopiesSwapped ==
    ASSUME NEW A, NEW s \in Seq(A), NEW a \in DOMAIN s, NEW b \in DOMAIN s, NEW x
    PROVE  Copies(Channel!Swapped(s, a, b), x) = Copies(s, x)
  <1> DEFINE t == Channel!Swapped(s, a, b)
             S == Places(s, {x})
             T == Places(t, {x})
             To(k) == IF k = a THEN b ELSE IF k = b THEN a ELSE k
             f == [k \in S |-> To(k)]
  <1>1. /\ DOMAIN t = DOMAIN s
        /\ \A k \in DOMAIN s : To(k) \in DOMAIN s /\ t[To(k)] = s[k] /\ To(To(k)) = k
    BY DEF Channel!Swapped
  <1> HIDE DEF t
  <1>2. f \in Bijection(S, T)
    <2>1. \A k \in S : To(k) \in T
      BY <1>1 DEF Places
    <2>2. \A k \in T : To(k) \in S /\ To(To(k)) = k
      BY <1>1 DEF Places
    <2>3. \A j, k \in S : To(j) = To(k) => j = k
      OBVIOUS
    <2> QED
      BY <2>1, <2>2, <2>3 DEF Bijection, Injection, Surjection, IsInjective
  <1>3. IsFiniteSet(S)
    BY PlacesFinite
  <1> HIDE DEF S, T, f
  <1>4. Cardinality(T) = Cardinality(S)
    BY <1>2, <1>3, FS_Bijection DEF ExistsBijection
  <1> QED
    BY <1>4 DEF Copies, S, T, t

-----------------------------------------------------------------------------
(* The kinds of events of the shared log, and that what is recorded beside  *)
(* a stream is none of the channel's.                                       *)
IsSend(ev) == ev.type = "MessageSent" /\ ev.id \in ToSet(stream)

(* Channel events and the recorder's, told apart by type.                   *)
LEMMA EventKinds ==
    /\ \A m : /\ Channel!Loss(m) = TransportLoss(m)
              /\ TransportLoss(m).type = "TransportLoss"
              /\ TransportLoss(m).message_id = m
              /\ Channel!Duplicate(m).type = "TransportDuplicate"
              /\ Channel!Duplicate(m).message_id = m
    /\ \A a, b : Channel!Reorder(a, b).type = "TransportReorder"
    /\ \A m, p : /\ MessageSent(m, p).type = "MessageSent"
                 /\ MessageSent(m, p).id = m /\ MessageSent(m, p).payload = p
  BY DEF Channel!Loss, TransportLoss, Channel!Duplicate, Channel!Reorder, MessageSent

(* What is recorded beside a stream is no announcement, fault or swap of    *)
(* it.                                                                      *)
LEMMA BesideIsOther ==
    ASSUME ChannelType, NEW ev \in Events, Record(ev)
    PROVE  /\ ~IsSend(ev)
           /\ \A m \in ToSet(stream) : ev # TransportLoss(m) /\ ev # Channel!Duplicate(m)
           /\ stream # << >> => ev.type # "TransportReorder"
  <1> SUFFICES ASSUME stream # << >>
               PROVE  /\ ~IsSend(ev)
                      /\ \A m \in ToSet(stream) :
                            ev # TransportLoss(m) /\ ev # Channel!Duplicate(m)
                      /\ ev.type # "TransportReorder"
    BY DEF IsSend, ToSet
  <1>1. ev \in Beside /\ stream \in Streams
    BY DEF Record, ChannelType
  <1>2. /\ ev.type # "TransportReorder"
        /\ ev.type = "MessageSent" => ev.id \notin ToSet(stream)
        /\ ev.type \in {"TransportLoss", "TransportDuplicate"} =>
              ev.message_id \notin ToSet(stream)
    BY <1>1, SimulationAssumption DEF SimulationAssumption
  <1> QED
    BY <1>2, EventKinds DEF IsSend

(* Of every id: copies arrived = copies sent - losses + duplications.       *)
(* Inductive by itself; each action adds to both sides alike.               *)
Sent == SubSeq(stream, 1, next - 1)

Balanced(m) ==
    Copies(arrivals, m)
      = Copies(Sent, m) - Copies(log, Channel!Loss(m)) + Copies(log, Channel!Duplicate(m))

CopiesInv == \A m \in ToSet(stream) : Balanced(m)

(* CopiesInv is CopiesAccountedFor, counted with Copies.                    *)
LEMMA CopiesInvMeans == CopiesInv => CopiesAccountedFor
  <1>1. Channel!Range(stream) = ToSet(stream)
    BY DEF Channel!Range, ToSet
  <1> QED
    BY <1>1, CountInIs
    DEF CopiesInv, Balanced, Sent, CopiesAccountedFor, Channel!CopiesAccountedFor,
        Channel!Logged, Channel!Loss, Channel!Duplicate

(* One step per action of the channel; recorders and replays disturb no     *)
(* count of the stream's messages.                                          *)
LEMMA CopiesInvStep ==
    ASSUME ChannelType, CopiesInv, [SimNext]_<<channel, log, engine>>
    PROVE  CopiesInv'
  <1>1. /\ stream \in Seq(ToSet(stream)) /\ Len(stream) \in Nat
        /\ arrivals \in Seq(ToSet(stream)) /\ log \in Seq(LogEvents)
        /\ next \in 1..(Len(stream) + 1)
    BY StreamFacts DEF ChannelType
  <1>2. Sent \in Seq(ToSet(stream))
    BY <1>1 DEF Sent
  <1>3. ASSUME NEW m
        PROVE  /\ Copies(arrivals, m) \in Nat /\ Copies(Sent, m) \in Nat
               /\ Copies(log, Channel!Loss(m)) \in Nat
               /\ Copies(log, Channel!Duplicate(m)) \in Nat
    BY <1>1, <1>2, CopiesType
  <1>4. ASSUME UNCHANGED <<stream, next, arrivals>>, NEW ev, log' = Append(log, ev),
               \A m \in ToSet(stream) : ev # Channel!Loss(m) /\ ev # Channel!Duplicate(m)
        PROVE  CopiesInv'
    <2> SUFFICES ASSUME NEW m \in ToSet(stream) PROVE Balanced(m)'
      BY <1>4 DEF CopiesInv
    <2>1. /\ Copies(log', Channel!Loss(m)) = Copies(log, Channel!Loss(m))
          /\ Copies(log', Channel!Duplicate(m)) = Copies(log, Channel!Duplicate(m))
      BY <1>1, <1>3, <1>4, CopiesAppend
    <2>2. Balanced(m)
      BY DEF CopiesInv
    <2> QED
      BY <1>4, <2>1, <2>2 DEF Balanced, Sent
  <1>5. CASE UNCHANGED <<channel, log>>
    BY <1>5 DEF channel, CopiesInv, Balanced, Sent
  <1>6. CASE Announce
    <2>1. UNCHANGED <<stream, next, arrivals>>
      BY <1>6 DEF Announce, channel
    <2>2. PICK k : log' = Append(log, MessageSent(stream[k], <<k>>))
      BY <1>6 DEF Announce
    <2> DEFINE ev == MessageSent(stream[k], <<k>>)
    <2>3. \A m : ev # Channel!Loss(m) /\ ev # Channel!Duplicate(m)
      BY EventKinds
    <2> HIDE DEF ev
    <2> QED
      BY <1>4, <2>1, <2>2, <2>3 DEF ev
  <1>7. ASSUME NEW ev \in Events, Record(ev) PROVE CopiesInv'
    <2>1. UNCHANGED <<stream, next, arrivals>> /\ log' = Append(log, ev)
      BY <1>7 DEF Record, Push, channel
    <2>2. \A m \in ToSet(stream) : ev # Channel!Loss(m) /\ ev # Channel!Duplicate(m)
      BY <1>7, BesideIsOther, EventKinds
    <2> QED
      BY <1>4, <2>1, <2>2
  <1>8. CASE Transport
    <2>1. Channel!Next
      BY <1>8 DEF Transport
    <2> DEFINE x == stream[next]
    <2>2. ASSUME Channel!Sending, next' = next + 1, stream' = stream, NEW m
          PROVE  /\ Copies(Sent', m) = Copies(Sent, m) + (IF m = x THEN 1 ELSE 0)
                 /\ x \in ToSet(stream)
      <3>1. next \in 1..Len(stream)
        BY <1>1, <2>2 DEF Channel!Sending
      <3>2. Sent' = Append(Sent, x)
        <4> DEFINE s == SubSeq(stream, 1, next)
                   t == Append(SubSeq(stream, 1, next - 1), stream[next])
        <4>1. /\ Len(s) = next /\ s \in Seq(ToSet(stream))
              /\ \A k \in 1..next : s[k] = stream[k]
          BY <1>1, <3>1
        <4>2. /\ Len(t) = next /\ t \in Seq(ToSet(stream))
              /\ \A k \in 1..next : t[k] = stream[k]
          BY <1>1, <3>1
        <4>3. s = t
          <5> HIDE DEF s, t
          <5> QED
            BY <1>1, <4>1, <4>2
        <4>4. next' - 1 = next
          BY <1>1, <2>2
        <4> QED
          BY <2>2, <4>3, <4>4 DEF Sent
      <3> QED
        BY <1>1, <1>2, <3>1, <3>2, CopiesAppend
    <2> HIDE DEF x
    <2>3. ASSUME NEW m PROVE
              /\ \A n : Channel!Loss(n) = Channel!Loss(m) <=> n = m
              /\ \A n : Channel!Duplicate(n) = Channel!Duplicate(m) <=> n = m
              /\ \A n : Channel!Loss(n) # Channel!Duplicate(m)
              /\ \A a, b : Channel!Reorder(a, b) # Channel!Loss(m)
              /\ \A a, b : Channel!Reorder(a, b) # Channel!Duplicate(m)
      BY EventKinds
    <2>4. CASE Channel!Lose
      <3> SUFFICES ASSUME NEW m \in ToSet(stream) PROVE Balanced(m)'
        BY <2>4 DEF CopiesInv, Channel!Lose
      <3>1. /\ Channel!Sending /\ next' = next + 1 /\ UNCHANGED <<stream, arrivals>>
            /\ log' = Append(log, Channel!Loss(x))
        BY <2>4 DEF Channel!Lose, x
      <3>2. Copies(Sent', m) = Copies(Sent, m) + (IF m = x THEN 1 ELSE 0)
        BY <2>2, <3>1
      <3>3. /\ Copies(log', Channel!Loss(m)) =
                  Copies(log, Channel!Loss(m)) + (IF m = x THEN 1 ELSE 0)
            /\ Copies(log', Channel!Duplicate(m)) = Copies(log, Channel!Duplicate(m))
        BY <1>1, <1>3, <2>3, <3>1, CopiesAppend
      <3>4. Balanced(m)
        BY DEF CopiesInv
      <3> QED
        BY <1>3, <3>1, <3>2, <3>3, <3>4 DEF Balanced
    <2>5. CASE Channel!Double
      <3> SUFFICES ASSUME NEW m \in ToSet(stream) PROVE Balanced(m)'
        BY <2>5 DEF CopiesInv, Channel!Double
      <3>1. /\ Channel!Sending /\ next' = next + 1 /\ UNCHANGED stream
            /\ log' = Append(log, Channel!Duplicate(x))
            /\ arrivals' = arrivals \o <<x, x>>
        BY <2>5 DEF Channel!Double, x
      <3>2. /\ Copies(Sent', m) = Copies(Sent, m) + (IF m = x THEN 1 ELSE 0)
            /\ x \in ToSet(stream)
        BY <2>2, <3>1
      <3>3. /\ Copies(log', Channel!Loss(m)) = Copies(log, Channel!Loss(m))
            /\ Copies(log', Channel!Duplicate(m)) =
                  Copies(log, Channel!Duplicate(m)) + (IF m = x THEN 1 ELSE 0)
        BY <1>1, <1>3, <2>3, <3>1, CopiesAppend, SMTT(30)
      <3>4. arrivals \o <<x, x>> = Append(Append(arrivals, x), x)
        BY <1>1, <3>2
      <3>5. Append(arrivals, x) \in Seq(ToSet(stream))
        BY <1>1, <3>2
      <3>6. Copies(Append(arrivals, x), m) =
               Copies(arrivals, m) + (IF m = x THEN 1 ELSE 0)
        BY <1>1, CopiesAppend
      <3>7. Copies(arrivals', m) =
               Copies(Append(arrivals, x), m) + (IF m = x THEN 1 ELSE 0)
        <4> DEFINE a == Append(arrivals, x)
        <4>1. arrivals' = Append(a, x) /\ a \in Seq(ToSet(stream))
          BY <3>1, <3>4, <3>5
        <4> HIDE DEF a
        <4>2. Copies(Append(a, x), m) = Copies(a, m) + (IF m = x THEN 1 ELSE 0)
          BY <4>1, CopiesAppend
        <4> QED
          BY <4>1, <4>2 DEF a
      <3>8. Balanced(m)
        BY DEF CopiesInv
      <3> QED
        BY <1>3, <3>2, <3>3, <3>6, <3>7, <3>8 DEF Balanced
    <2>6. CASE Channel!Pass
      <3> SUFFICES ASSUME NEW m \in ToSet(stream) PROVE Balanced(m)'
        BY <2>6 DEF CopiesInv, Channel!Pass
      <3>1. /\ Channel!Sending /\ next' = next + 1 /\ UNCHANGED <<stream, log>>
            /\ arrivals' = Append(arrivals, x)
        BY <2>6 DEF Channel!Pass, x
      <3>2. Copies(Sent', m) = Copies(Sent, m) + (IF m = x THEN 1 ELSE 0)
        BY <2>2, <3>1
      <3>3. Copies(arrivals', m) = Copies(arrivals, m) + (IF m = x THEN 1 ELSE 0)
        BY <1>1, <3>1, CopiesAppend
      <3>4. Balanced(m)
        BY DEF CopiesInv
      <3> QED
        BY <1>3, <3>1, <3>2, <3>3, <3>4 DEF Balanced
    <2>7. CASE Channel!Shuffle \/ Channel!Deliver \/ Channel!Shuffled
      BY <2>7 DEF Channel!Shuffle, Channel!Deliver, Channel!Shuffled, CopiesInv,
         Balanced, Sent
    <2>8. ASSUME NEW j \in 1..Len(arrivals), Channel!Swap(j) PROVE CopiesInv'
      <3>1. UNCHANGED <<stream, next>> /\ i \in DOMAIN arrivals /\ j \in DOMAIN arrivals
        BY <1>1, <2>8 DEF Channel!Swap, ChannelType
      <3>2. CASE j = i
        BY <2>8, <3>1, <3>2 DEF Channel!Swap, CopiesInv, Balanced, Sent
      <3>3. CASE j # i
        <4> SUFFICES ASSUME NEW m \in ToSet(stream) PROVE Balanced(m)'
          BY <3>1 DEF CopiesInv
        <4>1. /\ arrivals' = Channel!Swapped(arrivals, i, j)
              /\ log' = Append(log, Channel!Reorder(i - 1, j - 1))
          BY <2>8, <3>3 DEF Channel!Swap, Channel!SwapEvent
        <4>2. Copies(arrivals', m) = Copies(arrivals, m)
          BY <1>1, <3>1, <4>1, CopiesSwapped
        <4>3. /\ Copies(log', Channel!Loss(m)) = Copies(log, Channel!Loss(m))
              /\ Copies(log', Channel!Duplicate(m)) = Copies(log, Channel!Duplicate(m))
          BY <1>1, <1>3, <2>3, <4>1, CopiesAppend
        <4>4. Balanced(m)
          BY DEF CopiesInv
        <4> QED
          BY <3>1, <4>2, <4>3, <4>4 DEF Balanced, Sent
      <3> QED
        BY <3>2, <3>3
    <2> QED
      BY <2>1, <2>4, <2>5, <2>6, <2>7, <2>8 DEF Channel!Next
  <1>9. CASE ReplayLog
    <2>1. UNCHANGED <<channel, log>>
      BY <1>9 DEF ReplayLog, Start, ApplyNext, FailEvent, SecondPass, Compare
    <2> QED
      BY <1>5, <2>1
  <1> QED
    BY <1>5, <1>6, <1>7, <1>8, <1>9 DEF SimNext

(* Nothing has been sent, lost or doubled at first.                         *)
LEMMA CopiesInvInit == SimInit => CopiesInv
  <1> SUFFICES ASSUME SimInit, NEW m \in ToSet(stream) PROVE Balanced(m)
    BY DEF CopiesInv
  <1>1. arrivals = << >> /\ log = << >> /\ next = 1
    BY DEF SimInit, Init, Channel!Init
  <1>2. Sent = << >>
    BY <1>1, ChannelTypeInit, StreamFacts DEF Sent, ChannelType
  <1> QED
    BY <1>1, <1>2, CopiesOfNone DEF Balanced

(* Every fault of LossyChannel is in the log (invariant 16, S17): of every  *)
(* id as many copies arrive as were sent, less its losses, plus its         *)
(* duplications, for any stream, also with ids sent many times, and after   *)
(* any swaps.                                                               *)
THEOREM FaultsAreLogged == SimSpec => []CopiesAccountedFor
  <1>1. SimInit => ChannelType /\ CopiesInv
    BY ChannelTypeInit, CopiesInvInit
  <1>2. ChannelType /\ CopiesInv /\ [SimNext]_<<channel, log, engine>>
          => ChannelType' /\ CopiesInv'
    BY StepCases, CopiesInvStep
  <1> QED
    BY <1>1, <1>2, CopiesInvMeans, PTL DEF SimSpec

-----------------------------------------------------------------------------
(* How the log tells the fate of a message: announcements are in the order  *)
(* of the stream and before every loss; nothing is transported before all   *)
(* is announced, and nothing is replayed before all is transported; a       *)
(* message of distinct id is lost iff it did not arrive.                    *)
Lost(m) == \E p \in DOMAIN log : log[p] = TransportLoss(m)

AnnounceInv ==
    /\ Announced \in 0..Len(stream)
    /\ \A k \in 1..Announced :
          \E p \in DOMAIN log : log[p] = MessageSent(stream[k], <<k>>)
    /\ \A p \in DOMAIN log : IsSend(log[p]) =>
          \E k \in DOMAIN stream : log[p] = MessageSent(stream[k], <<k>>)
    /\ \A p, q \in DOMAIN log : \A m \in ToSet(stream) :
          IsSend(log[p]) /\ log[q] = TransportLoss(m) => p < q

PhaseInv ==
    /\ Announced < Len(stream) => next = 1 /\ phase = "send"
    /\ phase # "send" => next = Len(stream) + 1
    /\ pass > 0 => phase = "done"

FateInv ==
    /\ next = 1 => \A m \in ToSet(stream) : ~Lost(m)
    /\ Channel!UniqueIds =>
          \A k \in DOMAIN stream :
             IF k < next
             THEN Lost(stream[k]) <=> stream[k] \notin ToSet(arrivals)
             ELSE ~Lost(stream[k]) /\ stream[k] \notin ToSet(arrivals)

ArrivalInv == AnnounceInv /\ PhaseInv /\ FateInv

(* Appending an announcement counts, and nothing else does.                 *)
LEMMA AnnouncedAppend ==
    ASSUME ChannelType, UNCHANGED stream, NEW ev \in LogEvents, log' = Append(log, ev)
    PROVE  Announced' = Announced + (IF IsSend(ev) THEN 1 ELSE 0)
  <1> DEFINE V == {e \in LogEvents : IsSend(e)}
  <1>1. log \in Seq(LogEvents)
    BY DEF ChannelType
  <1>2. \A k \in DOMAIN log : log[k] \in LogEvents
    BY <1>1
  <1>3. Announced = Cardinality(Places(log, V))
    <2>1. Places(log, V) = {k \in DOMAIN log : /\ log[k].type = "MessageSent"
                                               /\ log[k].id \in ToSet(stream)}
      BY <1>2 DEF Places, IsSend
    <2> QED
      BY <2>1 DEF Announced
  <1>4. Announced' = Cardinality(Places(log', V))
    <2>1. \A k \in DOMAIN log' : log'[k] \in LogEvents
      BY <1>1
    <2>2. Places(log', V) = {k \in DOMAIN log' : /\ log'[k].type = "MessageSent"
                                                 /\ log'[k].id \in ToSet(stream)}
      BY <2>1 DEF Places, IsSend
    <2>3. ToSet(stream)' = ToSet(stream)
      BY DEF ToSet
    <2> QED
      BY <2>2, <2>3 DEF Announced
  <1>5. ev \in V <=> IsSend(ev)
    OBVIOUS
  <1> HIDE DEF V
  <1> QED
    BY <1>1, <1>3, <1>4, <1>5, PlacesAppend

(* Announcements stay in order and before losses when anything else is      *)
(* logged.                                                                  *)
LEMMA OtherAppends ==
    ASSUME ChannelType, AnnounceInv, UNCHANGED stream,
           NEW ev \in LogEvents, log' = Append(log, ev), ~IsSend(ev)
    PROVE  AnnounceInv' /\ Announced' = Announced
  <1> DEFINE n == Len(log)
  <1>1. /\ n \in Nat /\ DOMAIN log = 1..n /\ DOMAIN log' = 1..(n + 1)
        /\ \A k \in 1..n : log'[k] = log[k]
        /\ log'[n + 1] = ev
    BY DEF ChannelType
  <1>2. Announced' = Announced
    BY AnnouncedAppend, AnnouncedType
  <1>3. ToSet(stream)' = ToSet(stream) /\ \A e : IsSend(e)' <=> IsSend(e)
    BY DEF ToSet, IsSend
  <1> HIDE DEF n
  <1>4. \A p \in 1..(n + 1) : p \in 1..n \/ p = n + 1
    BY <1>1
  <1> HIDE DEF IsSend
  <1>5. \A k \in 1..Announced :
          \E p \in DOMAIN log' : log'[p] = MessageSent(stream[k], <<k>>)
    <2> SUFFICES ASSUME NEW k \in 1..Announced
                 PROVE  \E p \in DOMAIN log' : log'[p] = MessageSent(stream[k], <<k>>)
      OBVIOUS
    <2>1. PICK p \in DOMAIN log : log[p] = MessageSent(stream[k], <<k>>)
      BY DEF AnnounceInv
    <2>2. p \in 1..n /\ p \in 1..(n + 1)
      BY <1>1, <2>1
    <2> QED
      BY <1>1, <2>1, <2>2
  <1>6. ASSUME NEW p \in DOMAIN log', IsSend(log'[p])
        PROVE  p \in 1..n /\ IsSend(log[p])
    <2>1. p # n + 1
      BY <1>1, <1>6 DEF IsSend
    <2>2. p \in 1..n
      BY <1>1, <1>4, <2>1
    <2> QED
      BY <1>1, <1>6, <2>2
  <1>7. \A p \in DOMAIN log' : IsSend(log'[p]) =>
          \E k \in DOMAIN stream : log'[p] = MessageSent(stream[k], <<k>>)
    BY <1>1, <1>6, ZenonT(30) DEF AnnounceInv
  <1>8. ASSUME NEW p \in DOMAIN log', NEW q \in DOMAIN log', NEW m \in ToSet(stream),
               IsSend(log'[p]), log'[q] = TransportLoss(m)
        PROVE  p < q
    <2>1. p \in 1..n /\ IsSend(log[p])
      BY <1>6, <1>8
    <2>2. CASE q = n + 1
      BY <1>1, <2>1, <2>2
    <2>3. CASE q \in 1..n
      BY <1>1, <1>8, <2>1, <2>3 DEF AnnounceInv
    <2> QED
      BY <1>1, <1>4, <2>2, <2>3
  <1>9. Announced' \in 0..Len(stream')
    BY <1>2 DEF AnnounceInv
  <1>10. AnnounceInv'
    <2> QED
      BY <1>2, <1>3, <1>5, <1>7, <1>8, <1>9 DEF AnnounceInv
  <1> QED
    BY <1>2, <1>10

(* What an event changes of which messages are lost.                        *)
LEMMA LostAppend ==
    ASSUME ChannelType, NEW ev, log' = Append(log, ev), NEW m
    PROVE  Lost(m)' <=> Lost(m) \/ ev = TransportLoss(m)
  <1> DEFINE n == Len(log)
  <1>1. /\ n \in Nat /\ DOMAIN log = 1..n /\ DOMAIN log' = 1..(n + 1)
        /\ \A k \in 1..n : log'[k] = log[k]
        /\ log'[n + 1] = ev
    BY DEF ChannelType
  <1> HIDE DEF n
  <1>2. 1..(n + 1) = (1..n) \cup {n + 1}
    BY <1>1
  <1> QED
    BY <1>1, <1>2 DEF Lost

(* The members of a longer sequence.                                        *)
LEMMA SetOfAppend ==
    ASSUME NEW A, NEW s \in Seq(A), NEW x
    PROVE  ToSet(Append(s, x)) = ToSet(s) \cup {x}
  <1> DEFINE t == Append(s, x)
             n == Len(s)
  <1>1. /\ n \in Nat /\ DOMAIN s = 1..n
        /\ DOMAIN t = 1..(n + 1) /\ t[n + 1] = x
        /\ \A k \in 1..n : t[k] = s[k]
    OBVIOUS
  <1> HIDE DEF t, n
  <1>2. /\ \A k \in 1..(n + 1) : k \in 1..n \/ k = n + 1
        /\ n + 1 \in 1..(n + 1) /\ \A k \in 1..n : k \in 1..(n + 1)
    BY <1>1
  <1>3. ToSet(t) = ToSet(s) \cup {x}
    BY <1>1, <1>2 DEF ToSet
  <1> QED
    BY <1>3 DEF t

(* A swap changes no member of the arrivals.                                *)
LEMMA SwappedSet ==
    ASSUME NEW A, NEW s \in Seq(A), NEW a \in DOMAIN s, NEW b \in DOMAIN s
    PROVE  ToSet(Channel!Swapped(s, a, b)) = ToSet(s)
  BY DEF ToSet, Channel!Swapped

(* Nothing has been announced at first.                                     *)
LEMMA ArrivalInvInit == SimInit => ArrivalInv
  <1> SUFFICES ASSUME SimInit PROVE ArrivalInv
    OBVIOUS
  <1>1. /\ log = << >> /\ arrivals = << >> /\ next = 1 /\ pass = 0 /\ phase = "send"
    BY DEF SimInit, Init, Channel!Init
  <1>2. Len(stream) \in Nat /\ DOMAIN stream = 1..Len(stream)
    BY ChannelTypeInit, StreamFacts DEF ChannelType
  <1>3. DOMAIN log = {}
    BY <1>1
  <1>4. Announced = 0
    <2>1. {k \in DOMAIN log : /\ log[k].type = "MessageSent"
                              /\ log[k].id \in ToSet(stream)} = {}
      BY <1>3
    <2> QED
      BY <2>1, FS_EmptySet DEF Announced
  <1>5. AnnounceInv
    BY <1>2, <1>3, <1>4 DEF AnnounceInv
  <1>6. PhaseInv
    BY <1>1 DEF PhaseInv
  <1>7. \A m : ~Lost(m)
    BY <1>3 DEF Lost
  <1>8. ToSet(arrivals) = {}
    BY <1>1 DEF ToSet
  <1>9. FateInv
    BY <1>1, <1>2, <1>7, <1>8 DEF FateInv
  <1> QED
    BY <1>5, <1>6, <1>9 DEF ArrivalInv

(* One lemma for each of the actions that can disturb ArrivalInv: Announce, *)
(* Record, and Transport, whose sends advance next by one.                  *)
LEMMA AnnounceKeeps ==
    ASSUME ChannelType, ArrivalInv, Announce PROVE ArrivalInv'
  <1> DEFINE n == Len(log)
             a == Announced + 1
             ev == MessageSent(stream[a], <<a>>)
  <1>1. /\ UNCHANGED <<stream, next, arrivals, phase, pass>> /\ pass = 0
        /\ Announced < Len(stream) /\ log' = Append(log, ev)
    BY DEF Announce, channel, engine
  <1>2. Announced \in 0..Len(stream) /\ Len(stream) \in Nat /\ DOMAIN stream = 1..Len(stream)
    BY StreamFacts DEF ArrivalInv, AnnounceInv, ChannelType
  <1>3. a \in 1..Len(stream) /\ a \in DOMAIN stream /\ a \in Nat
    BY <1>1, <1>2
  <1>4. next = 1 /\ phase = "send" /\ \A m \in ToSet(stream) : ~Lost(m)
    BY <1>1 DEF ArrivalInv, PhaseInv, FateInv
  <1>5. IsSend(ev) /\ ev \in LogEvents /\ \A m : ev # TransportLoss(m)
    BY <1>3, EventKinds DEF IsSend, ToSet, LogEvents
  <1>6. Announced' = a
    BY <1>1, <1>5, AnnouncedAppend
  <1>7. ToSet(stream)' = ToSet(stream) /\ \A e : IsSend(e)' <=> IsSend(e)
    BY <1>1 DEF ToSet, IsSend
  <1>8. /\ n \in Nat /\ DOMAIN log = 1..n /\ DOMAIN log' = 1..(n + 1)
        /\ \A k \in 1..n : log'[k] = log[k]
        /\ log'[n + 1] = ev
    BY <1>1 DEF ChannelType
  <1>9. ev = MessageSent(stream[a], <<a>>)
    OBVIOUS
  <1>10. \A m \in ToSet(stream) : ~Lost(m)'
    BY <1>1, <1>4, <1>5, LostAppend
  <1> HIDE DEF n, a, ev
  <1>11. ASSUME NEW k \in 1..a
         PROVE  \E p \in DOMAIN log' : log'[p] = MessageSent(stream[k], <<k>>)
    <2>1. CASE k = a
      <3>1. n + 1 \in DOMAIN log'
        BY <1>8
      <3> QED
        BY <1>8, <1>9, <2>1, <3>1
    <2>2. CASE k # a
      <3>1. k \in 1..Announced
        BY <1>2, <1>3, <2>2 DEF a
      <3>2. PICK p \in DOMAIN log : log[p] = MessageSent(stream[k], <<k>>)
        BY <3>1 DEF ArrivalInv, AnnounceInv
      <3>3. p \in DOMAIN log'
        BY <1>8
      <3> QED
        BY <1>8, <3>2, <3>3
    <2> QED
      BY <2>1, <2>2
  <1>12. ASSUME NEW p \in DOMAIN log', IsSend(log'[p])
         PROVE  \E k \in DOMAIN stream : log'[p] = MessageSent(stream[k], <<k>>)
    <2>1. CASE p = n + 1
      BY <1>3, <1>8, <1>9, <2>1
    <2>2. CASE p # n + 1
      <3>1. p \in 1..n
        BY <1>8, <2>2
      <3> QED
        BY <1>8, <1>12, <3>1 DEF ArrivalInv, AnnounceInv
    <2> QED
      BY <2>1, <2>2
  <1>13. AnnounceInv'
    <2>1. \A q \in DOMAIN log' : \A m \in ToSet(stream) : log'[q] # TransportLoss(m)
      BY <1>10 DEF Lost
    <2>2. Announced' \in 0..Len(stream')
      BY <1>1, <1>2, <1>3, <1>6
    <2>3. \A k \in 1..Announced' :
            \E p \in DOMAIN log' : log'[p] = MessageSent(stream'[k], <<k>>)
      BY <1>1, <1>6, <1>11
    <2>4. \A p \in DOMAIN log' : IsSend(log[p])' =>
            \E k \in DOMAIN stream' : log'[p] = MessageSent(stream'[k], <<k>>)
      BY <1>1, <1>12 DEF IsSend, ToSet
    <2>5. \A p, q \in DOMAIN log' : \A m \in ToSet(stream') :
            IsSend(log[p])' /\ log'[q] = TransportLoss(m) => p < q
      BY <1>7, <2>1
    <2> HIDE DEF IsSend
    <2> QED
      BY <2>2, <2>3, <2>4, <2>5 DEF AnnounceInv
  <1>14. PhaseInv'
    BY <1>1, <1>2, <1>4 DEF PhaseInv
  <1>15. FateInv'
    <2>1. \A k \in DOMAIN stream : stream[k] \in ToSet(stream) /\ ~(k < next)
      BY <1>2, <1>4 DEF ToSet
    <2>2. Channel!UniqueIds' <=> Channel!UniqueIds
      BY <1>1 DEF Channel!UniqueIds, Channel!IsInjective
    <2>3. ToSet(arrivals)' = ToSet(arrivals)
      BY <1>1 DEF ToSet
    <2> HIDE DEF Lost
    <2> QED
      BY <1>1, <1>7, <1>10, <2>1, <2>2, <2>3 DEF FateInv, ArrivalInv
  <1> QED
    BY <1>13, <1>14, <1>15 DEF ArrivalInv

(* Steps that send nothing keep every fate.                                 *)
LEMMA FateKept ==
    ASSUME ChannelType, FateInv, UNCHANGED <<stream, next>>,
           ToSet(arrivals)' = ToSet(arrivals),
           \A m \in ToSet(stream) : Lost(m)' <=> Lost(m)
    PROVE  FateInv'
  <1>1. \A k \in DOMAIN stream : stream[k] \in ToSet(stream)
    BY DEF ToSet
  <1>2. Channel!UniqueIds' <=> Channel!UniqueIds
    BY DEF Channel!UniqueIds, Channel!IsInjective
  <1>3. ToSet(stream)' = ToSet(stream)
    BY DEF ToSet
  <1> HIDE DEF Lost
  <1> QED
    BY <1>1, <1>2, <1>3 DEF FateInv

(* Record.                                                                  *)
LEMMA RecordKeeps ==
    ASSUME ChannelType, ArrivalInv, NEW ev \in Events, Record(ev) PROVE ArrivalInv'
  <1>1. UNCHANGED <<stream, next, arrivals, phase, pass>> /\ log' = Append(log, ev)
    BY DEF Record, Push, channel
  <1>2. ev \in LogEvents /\ ~IsSend(ev) /\ \A m \in ToSet(stream) : ev # TransportLoss(m)
    BY BesideIsOther DEF LogEvents
  <1>3. AnnounceInv' /\ Announced' = Announced
    BY <1>1, <1>2, OtherAppends DEF ArrivalInv
  <1>4. \A m \in ToSet(stream) : Lost(m)' <=> Lost(m)
    BY <1>1, <1>2, LostAppend
  <1>5. FateInv'
    BY <1>1, <1>4, FateKept DEF ArrivalInv, ToSet
  <1>6. PhaseInv'
    BY <1>1, <1>3 DEF ArrivalInv, PhaseInv
  <1> QED
    BY <1>3, <1>5, <1>6 DEF ArrivalInv

(* Sending decides the fate of the message at next: lost or arrived.        *)
LEMMA FateAdvances ==
    ASSUME ChannelType, FateInv, UNCHANGED stream, Channel!Sending, next' = next + 1,
           \/ /\ ToSet(arrivals)' = ToSet(arrivals)
              /\ \A m : Lost(m)' <=> Lost(m) \/ m = stream[next]
           \/ /\ ToSet(arrivals)' = ToSet(arrivals) \cup {stream[next]}
              /\ \A m : Lost(m)' <=> Lost(m)
    PROVE  FateInv'
  <1>1. /\ Len(stream) \in Nat /\ DOMAIN stream = 1..Len(stream)
        /\ next \in 1..Len(stream)
    BY StreamFacts DEF ChannelType, Channel!Sending
  <1>2. next' # 1
    BY <1>1
  <1>3. ASSUME Channel!UniqueIds', NEW k \in DOMAIN stream
        PROVE  IF k < next'
               THEN Lost(stream[k])' <=> stream[k] \notin ToSet(arrivals)'
               ELSE ~Lost(stream[k])' /\ stream[k] \notin ToSet(arrivals)'
    <2>1. Channel!UniqueIds
      BY <1>3 DEF Channel!UniqueIds, Channel!IsInjective
    <2>2. IF k < next
          THEN Lost(stream[k]) <=> stream[k] \notin ToSet(arrivals)
          ELSE ~Lost(stream[k]) /\ stream[k] \notin ToSet(arrivals)
      BY <2>1 DEF FateInv
    <2>3. stream[k] = stream[next] => k = next
      BY <1>1, <2>1 DEF Channel!UniqueIds, Channel!IsInjective
    <2>4. k \in Int /\ next \in Int
      BY <1>1
    <2> DEFINE m == stream[k]
               L == Lost(m)
               M == Lost(m)'
               a == ToSet(arrivals)
               b == ToSet(arrivals)'
    <2>5. \/ b = a /\ (M <=> L \/ m = stream[next])
          \/ b = a \cup {stream[next]} /\ (M <=> L)
      OBVIOUS
    <2>6. CASE k = next
      <3>1. ~L /\ m \notin a /\ k < next' /\ m = stream[next]
        BY <2>2, <2>4, <2>6
      <3>2. M <=> m \notin b
        <4> HIDE DEF L, M, a, b, m
        <4> QED
          BY <2>5, <3>1
      <3> QED
        BY <3>1, <3>2
    <2>7. CASE k # next
      <3>1. k < next' <=> k < next
        BY <2>4, <2>7
      <3>2. m # stream[next]
        BY <2>3, <2>7
      <3>3. (M <=> L) /\ (m \in b <=> m \in a)
        <4> HIDE DEF L, M, a, b, m
        <4> QED
          BY <2>5, <3>2
      <3> QED
        BY <2>2, <3>1, <3>3
    <2> QED
      BY <2>6, <2>7
  <1> HIDE DEF Lost
  <1> QED
    BY <1>2, <1>3 DEF FateInv

(* Swaps and replays leave the announcements and losses alone.              *)
LEMMA SameLogAnnounces ==
    ASSUME AnnounceInv, UNCHANGED <<stream, log>>
    PROVE  AnnounceInv' /\ Announced' = Announced /\ \A m : Lost(m)' <=> Lost(m)
  BY DEF AnnounceInv, Announced, Lost, IsSend, ToSet

(* Transport, by the channel's actions.                                     *)
LEMMA TransportKeeps ==
    ASSUME ChannelType, ArrivalInv, Transport PROVE ArrivalInv'
  <1>1. /\ Channel!Next /\ UNCHANGED pass /\ pass = 0 /\ Announced = Len(stream)
    BY DEF Transport, engine
  <1>2. AnnounceInv /\ PhaseInv /\ FateInv
    BY DEF ArrivalInv
  <1>3. /\ Len(stream) \in Nat /\ next \in 1..(Len(stream) + 1)
        /\ DOMAIN stream = 1..Len(stream)
        /\ arrivals \in Seq(ToSet(stream))
        /\ \A k \in 1..Len(stream) : stream[k] \in ToSet(stream)
        /\ i \in Int
        /\ phase = "shuffle" => i \in 1..Len(arrivals)
    BY StreamFacts DEF ChannelType, ToSet
  <1>4. ASSUME UNCHANGED stream, Announced' = Announced,
               phase' # "send" => next' = Len(stream) + 1
        PROVE  PhaseInv'
    BY <1>1, <1>3, <1>4 DEF PhaseInv
  <1>5. ASSUME Channel!Sending
        PROVE  next \in 1..Len(stream) /\ phase = "send" /\ stream[next] \in ToSet(stream)
    BY <1>3, <1>5 DEF Channel!Sending
  <1>6. CASE Channel!Lose
    <2>1. /\ Channel!Sending /\ next' = next + 1 /\ UNCHANGED <<stream, arrivals, phase>>
          /\ log' = Append(log, TransportLoss(stream[next]))
      BY <1>6, EventKinds DEF Channel!Lose
    <2> DEFINE ev == TransportLoss(stream[next])
    <2>2. ev \in LogEvents /\ ~IsSend(ev)
      BY <1>5, <2>1, EventKinds DEF LogEvents, IsSend
    <2>3. AnnounceInv' /\ Announced' = Announced
      BY <1>2, <2>1, <2>2, OtherAppends
    <2>4. \A m : Lost(m)' <=> Lost(m) \/ m = stream[next]
      <3>1. \A m : ev = TransportLoss(m) <=> m = stream[next]
        BY EventKinds
      <3> QED
        BY <2>1, <3>1, LostAppend
    <2>5. FateInv'
      BY <1>2, <2>1, <2>4, FateAdvances DEF ToSet
    <2> QED
      BY <1>4, <1>5, <2>1, <2>3, <2>5 DEF ArrivalInv
  <1>7. CASE Channel!Double
    <2>1. /\ Channel!Sending /\ next' = next + 1 /\ UNCHANGED <<stream, phase>>
          /\ log' = Append(log, Channel!Duplicate(stream[next]))
          /\ arrivals' = arrivals \o <<stream[next], stream[next]>>
      BY <1>7 DEF Channel!Double
    <2> DEFINE ev == Channel!Duplicate(stream[next])
    <2>2. ev \in LogEvents /\ ~IsSend(ev) /\ \A m : ev # TransportLoss(m)
      BY <1>5, <2>1, EventKinds DEF LogEvents, IsSend
    <2>3. AnnounceInv' /\ Announced' = Announced
      BY <1>2, <2>1, <2>2, OtherAppends
    <2>4. \A m : Lost(m)' <=> Lost(m)
      BY <2>1, <2>2, LostAppend
    <2>5. ToSet(arrivals)' = ToSet(arrivals) \cup {stream[next]}
      <3> DEFINE x == stream[next]
                 s == Append(arrivals, x)
      <3>1. ToSet(s) = ToSet(arrivals) \cup {x}
        <4> HIDE DEF x
        <4> QED
          BY <1>3, SetOfAppend
      <3>2. s \in Seq(ToSet(stream)) /\ arrivals' = Append(s, x)
        BY <1>3, <1>5, <2>1
      <3> HIDE DEF s, x
      <3>3. ToSet(Append(s, x)) = ToSet(s) \cup {x}
        BY <3>2, SetOfAppend
      <3> QED
        BY <3>1, <3>2, <3>3 DEF x
    <2>6. FateInv'
      BY <1>2, <2>1, <2>4, <2>5, FateAdvances
    <2> QED
      BY <1>4, <1>5, <2>1, <2>3, <2>6 DEF ArrivalInv
  <1>8. CASE Channel!Pass
    <2>1. /\ Channel!Sending /\ next' = next + 1 /\ UNCHANGED <<stream, phase, log>>
          /\ arrivals' = Append(arrivals, stream[next])
      BY <1>8 DEF Channel!Pass
    <2>2. AnnounceInv' /\ Announced' = Announced /\ \A m : Lost(m)' <=> Lost(m)
      BY <1>2, <2>1, SameLogAnnounces
    <2>3. ToSet(arrivals)' = ToSet(arrivals) \cup {stream[next]}
      <3> DEFINE x == stream[next]
      <3> HIDE DEF x
      <3>1. ToSet(Append(arrivals, x)) = ToSet(arrivals) \cup {x}
        BY <1>3, SetOfAppend
      <3> QED
        BY <2>1, <3>1 DEF x
    <2>4. FateInv'
      BY <1>2, <2>1, <2>2, <2>3, FateAdvances
    <2> QED
      BY <1>4, <1>5, <2>1, <2>2, <2>4 DEF ArrivalInv
  <1>9. CASE Channel!Shuffle \/ Channel!Deliver \/ Channel!Shuffled
    <2>1. UNCHANGED <<stream, next, arrivals, log>> /\ next = Len(stream) + 1
      BY <1>2, <1>3, <1>9 DEF Channel!Shuffle, Channel!Deliver, Channel!Shuffled, PhaseInv
    <2>2. AnnounceInv' /\ Announced' = Announced /\ \A m : Lost(m)' <=> Lost(m)
      BY <1>2, <2>1, SameLogAnnounces
    <2>3. FateInv'
      BY <1>2, <2>1, <2>2, FateKept DEF ToSet
    <2> QED
      BY <1>4, <2>1, <2>2, <2>3 DEF ArrivalInv
  <1>10. ASSUME NEW j \in 1..Len(arrivals), Channel!Swap(j) PROVE ArrivalInv'
    <2>1. /\ UNCHANGED <<stream, next, phase>>
          /\ i \in DOMAIN arrivals /\ j \in DOMAIN arrivals
      <3>1. phase = "shuffle" /\ UNCHANGED <<stream, next, phase>>
        BY <1>10 DEF Channel!Swap
      <3>2. DOMAIN arrivals = 1..Len(arrivals)
        BY <1>3
      <3> QED
        BY <1>3, <3>1, <3>2
    <2>2. CASE j = i
      <3>1. UNCHANGED <<arrivals, log>>
        BY <1>10, <2>2 DEF Channel!Swap
      <3>2. AnnounceInv' /\ Announced' = Announced /\ \A m : Lost(m)' <=> Lost(m)
        BY <1>2, <2>1, <3>1, SameLogAnnounces
      <3>3. FateInv'
        BY <1>2, <2>1, <3>1, <3>2, FateKept DEF ToSet
      <3> QED
        BY <1>2, <1>4, <2>1, <3>2, <3>3 DEF ArrivalInv, PhaseInv
    <2>3. CASE j # i
      <3> DEFINE ev == Channel!Reorder(i - 1, j - 1)
      <3>1. log' = Append(log, ev) /\ arrivals' = Channel!Swapped(arrivals, i, j)
        BY <1>10, <2>3 DEF Channel!Swap, Channel!SwapEvent
      <3>2. ev \in LogEvents /\ ~IsSend(ev) /\ \A m : ev # TransportLoss(m)
        <4>1. i - 1 \in Int /\ j - 1 \in Int
          BY <1>3
        <4>2. ev \in LogEvents
          BY <4>1 DEF LogEvents
        <4>3. ev.type = "TransportReorder"
          BY EventKinds
        <4> HIDE DEF ev
        <4> QED
          BY <4>2, <4>3, EventKinds DEF IsSend
      <3>3. AnnounceInv' /\ Announced' = Announced
        BY <1>2, <2>1, <3>1, <3>2, OtherAppends
      <3>4. \A m : Lost(m)' <=> Lost(m)
        BY <3>1, <3>2, LostAppend
      <3>5. ToSet(arrivals)' = ToSet(arrivals)
        BY <1>3, <2>1, <3>1, SwappedSet
      <3>6. FateInv'
        BY <1>2, <2>1, <3>4, <3>5, FateKept
      <3> QED
        BY <1>2, <1>4, <2>1, <3>3, <3>6 DEF ArrivalInv, PhaseInv
    <2> QED
      BY <2>2, <2>3
  <1> QED
    BY <1>1, <1>6, <1>7, <1>8, <1>9, <1>10 DEF Channel!Next

(* From the lemmas for each action.                                         *)
LEMMA ArrivalInvStep ==
    ASSUME ChannelType, ArrivalInv, [SimNext]_<<channel, log, engine>>
    PROVE  ArrivalInv'
  <1>1. ASSUME UNCHANGED <<channel, log>>, pass' > 0 => pass > 0 \/ phase = "done"
        PROVE  ArrivalInv'
    <2>1. UNCHANGED <<stream, next, arrivals, phase, log>>
      BY <1>1 DEF channel
    <2>2. AnnounceInv' /\ Announced' = Announced /\ \A m : Lost(m)' <=> Lost(m)
      BY <2>1, SameLogAnnounces DEF ArrivalInv
    <2>3. FateInv'
      BY <2>1, <2>2, FateKept DEF ArrivalInv, ToSet
    <2>4. PhaseInv'
      BY <1>1, <2>1, <2>2 DEF ArrivalInv, PhaseInv
    <2> QED
      BY <2>2, <2>3, <2>4 DEF ArrivalInv
  <1>2. CASE UNCHANGED <<channel, log, engine>>
    BY <1>1, <1>2 DEF engine
  <1>3. CASE ReplayLog
    <2>1. UNCHANGED <<channel, log>>
      BY <1>3 DEF ReplayLog, Start, ApplyNext, FailEvent, SecondPass, Compare
    <2>2. pass' > 0 => pass > 0 \/ phase = "done"
      BY <1>3 DEF ReplayLog, Start, ApplyNext, FailEvent, SecondPass, Compare, Replaying
    <2> QED
      BY <1>1, <2>1, <2>2
  <1> QED
    BY <1>2, <1>3, AnnounceKeeps, RecordKeeps, TransportKeeps DEF SimNext

(* Across the two crates: after an Ok replay of the log of a stream of      *)
(* distinct ids, the replay takes a message for seen, with the payload it   *)
(* was sent with, iff a copy of it arrived. The last event about it is its  *)
(* loss, or its announcement if there was none.                             *)
THEOREM ReplayTellsArrivals == SimSpec => []ReplayKnowsWhatArrived
  <1>1. ChannelType /\ ReplayInv /\ VerdictInv /\ ArrivalInv => ReplayKnowsWhatArrived
    <2> SUFFICES ASSUME ChannelType, ReplayInv, VerdictInv, ArrivalInv,
                        verdict = "Ok", Channel!UniqueIds, NEW k \in DOMAIN stream
                 PROVE  replay.seen_messages[stream[k]] =
                          IF stream[k] \in ToSet(arrivals) THEN <<k>> ELSE Nothing
      BY DEF ReplayKnowsWhatArrived
    <2> DEFINE m == stream[k]
               n == Len(log)
               I == AboutMessage(log, n, m)
               l == LastIn(I)
    <2>1. /\ log \in Seq(LogEvents) /\ n \in Nat /\ DOMAIN log = 1..n
          /\ Len(stream) \in Nat /\ DOMAIN stream = 1..Len(stream)
          /\ m \in ToSet(MessageOrder) /\ m \in ToSet(stream)
          /\ next \in 1..(Len(stream) + 1)
      BY StreamFacts DEF ChannelType, ToSet
    <2>2. /\ pass = 2 /\ index = n /\ phase = "done" /\ next = Len(stream) + 1
          /\ k < next
      BY <2>1 DEF VerdictInv, ArrivalInv, PhaseInv
    <2>3. Announced = Len(stream)
      <3>1. Announced \in 0..Len(stream)
        BY DEF ArrivalInv, AnnounceInv
      <3>2. ~(Announced < Len(stream))
        BY <2>2 DEF ArrivalInv, PhaseInv
      <3>3. Len(stream) \in Nat
        BY <2>1
      <3> HIDE DEF m, n, I, l
      <3> QED
        BY <3>1, <3>2, <3>3
    <2>4. replay.seen_messages[m] = SeenAfter(log, l)
      <3>1. Holds(replay, log, n)
        BY <2>1, <2>2, LogIsLog, ReplayHolds DEF ReplayInv
      <3> QED
        BY <2>1, <3>1 DEF Holds, HoldsLast
    <2>5. PICK p \in DOMAIN log : log[p] = MessageSent(m, <<k>>)
      BY <2>1, <2>3 DEF ArrivalInv, AnnounceInv
    <2>6. p \in I
      BY <2>1, <2>5, EventKinds DEF AboutMessage
    <2>7. l \in I /\ \A q \in I : l >= q
      BY <2>1, <2>6, LastInBounds DEF AboutMessage
    <2>8. Lost(m) <=> m \notin ToSet(arrivals)
      BY <2>2 DEF ArrivalInv, FateInv
    <2> HIDE DEF l, m, n
    <2>9. /\ l \in 1..n /\ l # 0
          /\ \/ log[l].type = "MessageSent" /\ log[l].id = m
             \/ log[l] = TransportLoss(m)
      BY <2>1, <2>7 DEF AboutMessage
    <2>10. CASE Lost(m)
      <3>1. PICK q \in DOMAIN log : log[q] = TransportLoss(m)
        BY <2>10 DEF Lost
      <3>2. q \in I
        BY <2>1, <3>1 DEF AboutMessage
      <3>3. l >= q /\ l \in Int /\ q \in Int
        BY <2>1, <2>7, <2>9, <3>1, <3>2
      <3>4. ~(log[l].type = "MessageSent" /\ log[l].id = m)
        <4> SUFFICES ASSUME log[l].type = "MessageSent", log[l].id = m PROVE FALSE
          OBVIOUS
        <4>1. l < q
          BY <2>1, <2>9, <3>1 DEF ArrivalInv, AnnounceInv, IsSend
        <4> QED
          BY <3>3, <4>1
      <3>5. log[l].type = "TransportLoss"
        BY <2>9, <3>4, EventKinds
      <3> QED
        BY <2>4, <2>8, <2>10, <3>5 DEF SeenAfter, m
    <2>11. CASE ~Lost(m)
      <3>1. log[l].type = "MessageSent" /\ log[l].id = m
        BY <2>1, <2>9, <2>11 DEF Lost
      <3>2. PICK j \in DOMAIN stream : log[l] = MessageSent(stream[j], <<j>>)
        BY <2>1, <2>9, <3>1 DEF ArrivalInv, AnnounceInv, IsSend
      <3>3. stream[j] = stream[k]
        BY <3>1, <3>2, EventKinds DEF m
      <3>4. j = k
        BY <3>3 DEF Channel!UniqueIds, Channel!IsInjective
      <3>5. log[l].payload = <<k>>
        BY <3>2, <3>4, EventKinds
      <3> QED
        BY <2>4, <2>8, <2>9, <2>11, <3>1, <3>5 DEF SeenAfter, m
    <2> QED
      BY <2>10, <2>11
  <1>2. SimInit => ArrivalInv
    BY ArrivalInvInit
  <1>3. ChannelType /\ ArrivalInv /\ [SimNext]_<<channel, log, engine>> => ArrivalInv'
    BY ArrivalInvStep
  <1> QED
    BY <1>1, <1>2, <1>3, VerdictsAreSound, PTL DEF SimSpec

-----------------------------------------------------------------------------
(* A sequence of values each of which follows from the one before.          *)
Flattens(g, F, n) ==
    /\ g[0] = << >>
    /\ \A k \in 1..n : g[k] = g[k - 1] \o F[k]

Redoes(g, b, s, n) ==
    /\ g[0] = b
    /\ \A k \in 1..n : g[k] = Channel!Redo(g[k - 1], s[k])

(* The same as equations of functions, the form of the model's definitions. *)
IsFlattening(g, F, n) ==
    g = [k \in 0..n |-> IF k = 0 THEN << >> ELSE g[k - 1] \o F[k]]

IsRedoing(g, b, s, n) ==
    g = [k \in 0..n |-> IF k = 0 THEN b ELSE Channel!Redo(g[k - 1], s[k])]

(* The recursive functions Survived and Rebuilt are such sequences: each    *)
(* exists for every length, and its value depends on its inputs alone.      *)
LEMMA FlatteningExists ==
    ASSUME NEW F, NEW m \in Nat
    PROVE  \E g : IsFlattening(g, F, m)
  <1> DEFINE Bad == {n \in Nat : ~\E g : IsFlattening(g, F, n)}
  <1> SUFFICES ASSUME Bad # {} PROVE FALSE
    OBVIOUS
  <1>1. PICK n \in Bad : \A k \in Bad : n <= k
    BY LeastNatural
  <1>2. CASE n = 0
    <2> DEFINE g == [k \in 0..0 |-> << >>]
    <2>1. \A k \in 0..0 : k = 0
      OBVIOUS
    <2>2. \A k \in 0..0 : g[k] = IF k = 0 THEN << >> ELSE g[k - 1] \o F[k]
      BY <2>1
    <2>3. g = [k \in 0..0 |-> g[k]]
      OBVIOUS
    <2> HIDE DEF g
    <2>4. IsFlattening(g, F, 0)
      BY <2>2, <2>3 DEF IsFlattening
    <2> QED
      BY <1>1, <1>2, <2>4
  <1>3. CASE n # 0
    <2>1. n - 1 \in Nat /\ n - 1 \notin Bad
      <3>1. n - 1 \in Nat /\ ~(n <= n - 1)
        BY <1>1, <1>3
      <3> HIDE DEF Bad
      <3> QED
        BY <1>1, <3>1
    <2>2. PICK g : IsFlattening(g, F, n - 1)
      BY <2>1
    <2> DEFINE h == [k \in 0..n |-> IF k = n THEN g[n - 1] \o F[n] ELSE g[k]]
    <2>3. ASSUME NEW k \in 0..n
          PROVE  h[k] = IF k = 0 THEN << >> ELSE h[k - 1] \o F[k]
      <3>1. CASE k = n
        <4>1. n - 1 \in 0..n /\ n - 1 # n
          BY <2>1, <1>1
        <4> QED
          BY <1>3, <3>1, <4>1
      <3>2. CASE k # n
        <4>1. k \in 0..(n - 1) /\ (k # 0 => k - 1 \in 0..n /\ k - 1 # n)
          BY <3>2, <1>1
        <4>2. g[k] = IF k = 0 THEN << >> ELSE g[k - 1] \o F[k]
          BY <2>2, <4>1 DEF IsFlattening
        <4> QED
          BY <3>2, <4>1, <4>2
      <3> QED
        BY <3>1, <3>2
    <2>4. h = [k \in 0..n |-> h[k]]
      OBVIOUS
    <2> HIDE DEF h
    <2>5. IsFlattening(h, F, n)
      BY <2>3, <2>4 DEF IsFlattening
    <2> QED
      BY <1>1, <2>5
  <1> QED
    BY <1>2, <1>3

(* The same for Rebuilt.                                                    *)
LEMMA RedoingExists ==
    ASSUME NEW b, NEW s, NEW m \in Nat
    PROVE  \E g : IsRedoing(g, b, s, m)
  <1> DEFINE Bad == {n \in Nat : ~\E g : IsRedoing(g, b, s, n)}
  <1> SUFFICES ASSUME Bad # {} PROVE FALSE
    OBVIOUS
  <1>1. PICK n \in Bad : \A k \in Bad : n <= k
    BY LeastNatural
  <1>2. CASE n = 0
    <2> DEFINE g == [k \in 0..0 |-> b]
    <2>1. \A k \in 0..0 : k = 0
      OBVIOUS
    <2>2. \A k \in 0..0 : g[k] = IF k = 0 THEN b ELSE Channel!Redo(g[k - 1], s[k])
      BY <2>1
    <2>3. g = [k \in 0..0 |-> g[k]]
      OBVIOUS
    <2> HIDE DEF g
    <2>4. IsRedoing(g, b, s, 0)
      BY <2>2, <2>3 DEF IsRedoing
    <2> QED
      BY <1>1, <1>2, <2>4
  <1>3. CASE n # 0
    <2>1. n - 1 \in Nat /\ n - 1 \notin Bad
      <3>1. n - 1 \in Nat /\ ~(n <= n - 1)
        BY <1>1, <1>3
      <3> HIDE DEF Bad
      <3> QED
        BY <1>1, <3>1
    <2>2. PICK g : IsRedoing(g, b, s, n - 1)
      BY <2>1
    <2> DEFINE h == [k \in 0..n |-> IF k = n THEN Channel!Redo(g[n - 1], s[n]) ELSE g[k]]
    <2>3. ASSUME NEW k \in 0..n
          PROVE  h[k] = IF k = 0 THEN b ELSE Channel!Redo(h[k - 1], s[k])
      <3>1. CASE k = n
        <4>1. n - 1 \in 0..n /\ n - 1 # n
          BY <2>1, <1>1
        <4> QED
          BY <1>3, <3>1, <4>1
      <3>2. CASE k # n
        <4>1. k \in 0..(n - 1) /\ (k # 0 => k - 1 \in 0..n /\ k - 1 # n)
          BY <3>2, <1>1
        <4>2. g[k] = IF k = 0 THEN b ELSE Channel!Redo(g[k - 1], s[k])
          BY <2>2, <4>1 DEF IsRedoing
        <4> QED
          BY <3>2, <4>1, <4>2
      <3> QED
        BY <3>1, <3>2
    <2>4. h = [k \in 0..n |-> h[k]]
      OBVIOUS
    <2> HIDE DEF h
    <2>5. IsRedoing(h, b, s, n)
      BY <2>3, <2>4 DEF IsRedoing
    <2> QED
      BY <1>1, <2>5
  <1> QED
    BY <1>2, <1>3

(* What survived depends on what is flattened alone.                        *)
LEMMA FlatteningsAgree ==
    ASSUME NEW n \in Nat, NEW g, NEW F, Flattens(g, F, n),
           NEW h, NEW G, Flattens(h, G, n), \A k \in 1..n : F[k] = G[k]
    PROVE  g[n] = h[n]
  <1> DEFINE Bad == {k \in 0..n : g[k] # h[k]}
  <1> SUFFICES ASSUME Bad # {} PROVE FALSE
    OBVIOUS
  <1>1. PICK k \in Bad : \A j \in Bad : k <= j
    <2>1. Bad \in SUBSET Nat
      OBVIOUS
    <2> HIDE DEF Bad
    <2> QED
      BY <2>1, LeastNatural
  <1>2. k # 0
    BY <1>1 DEF Flattens
  <1>3. k \in 1..n /\ k - 1 \in 0..n /\ ~(k <= k - 1)
    BY <1>1, <1>2
  <1>4. g[k - 1] = h[k - 1]
    BY <1>1, <1>3
  <1> QED
    BY <1>1, <1>3, <1>4 DEF Flattens

(* What is rebuilt depends on where it starts and on the events.            *)
LEMMA RedoingsAgree ==
    ASSUME NEW n \in Nat, NEW b, NEW g, NEW s, Redoes(g, b, s, n),
           NEW h, NEW t, Redoes(h, b, t, n), \A k \in 1..n : s[k] = t[k]
    PROVE  g[n] = h[n]
  <1> DEFINE Bad == {k \in 0..n : g[k] # h[k]}
  <1> SUFFICES ASSUME Bad # {} PROVE FALSE
    OBVIOUS
  <1>1. PICK k \in Bad : \A j \in Bad : k <= j
    <2>1. Bad \in SUBSET Nat
      OBVIOUS
    <2> HIDE DEF Bad
    <2> QED
      BY <2>1, LeastNatural
  <1>2. k # 0
    BY <1>1 DEF Redoes
  <1>3. k \in 1..n /\ k - 1 \in 0..n /\ ~(k <= k - 1)
    BY <1>1, <1>2
  <1>4. g[k - 1] = h[k - 1]
    BY <1>1, <1>3
  <1> QED
    BY <1>1, <1>3, <1>4 DEF Redoes

(* Without swaps there is nothing to redo.                                  *)
LEMMA NothingRedone ==
    ASSUME NEW n \in Nat, NEW b, NEW g, NEW s, Redoes(g, b, s, n),
           \A k \in 1..n : s[k].type # "TransportReorder"
    PROVE  g[n] = b
  <1> DEFINE Bad == {k \in 0..n : g[k] # b}
  <1> SUFFICES ASSUME Bad # {} PROVE FALSE
    OBVIOUS
  <1>1. PICK k \in Bad : \A j \in Bad : k <= j
    <2>1. Bad \in SUBSET Nat
      OBVIOUS
    <2> HIDE DEF Bad
    <2> QED
      BY <2>1, LeastNatural
  <1>2. k # 0
    BY <1>1 DEF Redoes
  <1>3. k \in 1..n /\ k - 1 \in 0..n /\ ~(k <= k - 1)
    BY <1>1, <1>2
  <1>4. g[k - 1] = b
    BY <1>1, <1>3
  <1> QED
    BY <1>1, <1>3, <1>4 DEF Redoes, Channel!Redo

-----------------------------------------------------------------------------
(* What the log leaves of each message; Survived and Rebuilt in terms of    *)
(* it.                                                                      *)
Kept == [k \in 1..Len(stream) |-> Channel!Survivors(stream[k])]

(* Survived flattens Kept.                                                  *)
LEMMA SurvivedFlattens ==
    Len(stream) \in Nat => Flattens(Channel!Survived, Kept, Len(stream))
  <1>1. ASSUME Len(stream) \in Nat
        PROVE  Flattens(Channel!Survived, Kept, Len(stream))
    <2> DEFINE n == Len(stream)
               S == Channel!Survived
    <2>1. PICK g : IsFlattening(g, Kept, n)
      BY <1>1, FlatteningExists
    <2>2. g = [k \in 0..n |->
                 IF k = 0 THEN << >> ELSE g[k - 1] \o Channel!Survivors(stream[k])]
      <3>1. \A k \in 0..n : k # 0 => Kept[k] = Channel!Survivors(stream[k])
        BY <1>1 DEF Kept
      <3> QED
        BY <2>1, <3>1 DEF IsFlattening
    <2>3. S = [k \in 0..n |->
                 IF k = 0 THEN << >> ELSE S[k - 1] \o Channel!Survivors(stream[k])]
      BY <2>2 DEF Channel!Survived
    <2> HIDE DEF S
    <2>4. \A k \in 1..n : Kept[k] = Channel!Survivors(stream[k])
      BY DEF Kept
    <2>5. S[0] = << >> /\ \A k \in 1..n : S[k] = S[k - 1] \o Channel!Survivors(stream[k])
      BY <1>1, <2>3
    <2> QED
      BY <2>4, <2>5 DEF Flattens, S
  <1> QED
    BY <1>1

(* Rebuilt redoes the log from what survived.                               *)
LEMMA RebuiltRedoes ==
    Len(log) \in Nat =>
        Redoes(Channel!Rebuilt, Channel!Survived[next - 1], log, Len(log))
  <1> SUFFICES ASSUME Len(log) \in Nat
               PROVE  Redoes(Channel!Rebuilt, Channel!Survived[next - 1], log, Len(log))
    OBVIOUS
  <1> DEFINE n == Len(log)
             R == Channel!Rebuilt
             b == Channel!Survived[next - 1]
  <1>1. PICK g : IsRedoing(g, b, log, n)
    BY RedoingExists
  <1>2. R = [k \in 0..n |-> IF k = 0 THEN b ELSE Channel!Redo(R[k - 1], log[k])]
    BY <1>1 DEF Channel!Rebuilt, IsRedoing
  <1> HIDE DEF R, b
  <1>3. R[0] = b /\ \A k \in 1..n : R[k] = Channel!Redo(R[k - 1], log[k])
    BY <1>2
  <1> QED
    BY <1>3 DEF Redoes, R, b

(* The arrivals are at any time what an auditor rebuilds. While messages    *)
(* are being sent there are no swaps to redo, and no fault of a message yet *)
(* to be sent is in the log, so that what it leaves can be appended.        *)
Unfaulted(m) ==
    Copies(log, Channel!Loss(m)) = 0 /\ Copies(log, Channel!Duplicate(m)) = 0

RebuildInv ==
    Channel!UniqueIds =>
      /\ arrivals = Channel!Rebuilt[Len(log)]
      /\ phase = "send" /\ stream # << >> =>
            /\ arrivals = Channel!Survived[next - 1]
            /\ \A p \in DOMAIN log : log[p].type # "TransportReorder"
      /\ \A k \in next..Len(stream) : Unfaulted(stream[k])

SurvivorsAre(m) ==
    Channel!Survivors(m) =
      IF Copies(log, Channel!Loss(m)) > 0 THEN << >>
      ELSE IF Copies(log, Channel!Duplicate(m)) > 0 THEN <<m, m>>
      ELSE <<m>>

(* Survivors in terms of Copies.                                            *)
LEMMA SurvivorsOf == \A m : SurvivorsAre(m)
  <1> SUFFICES ASSUME NEW m PROVE SurvivorsAre(m)
    OBVIOUS
  <1>1. /\ Channel!Logged("TransportLoss", m) = Copies(log, Channel!Loss(m))
        /\ Channel!Logged("TransportDuplicate", m) = Copies(log, Channel!Duplicate(m))
    BY CountInIs DEF Channel!Logged, Channel!Loss, Channel!Duplicate
  <1> QED
    BY <1>1 DEF Channel!Survivors, SurvivorsAre

(* The three lemmas in the next state.                                      *)
LEMMA FlattenedNext ==
    /\ (\A m : SurvivorsAre(m))'
    /\ (Len(stream) \in Nat => Flattens(Channel!Survived, Kept, Len(stream)))'
    /\ (Len(log) \in Nat =>
           Redoes(Channel!Rebuilt, Channel!Survived[next - 1], log, Len(log)))'
  BY SurvivorsOf, SurvivedFlattens, RebuiltRedoes, PTL

(* Events that are no faults of the stream's messages leave what survived   *)
(* as it is, and are redone once, at the end.                               *)
SameFaults(m) ==
    /\ Copies(log, Channel!Loss(m))' = Copies(log, Channel!Loss(m))
    /\ Copies(log, Channel!Duplicate(m))' = Copies(log, Channel!Duplicate(m))

(* Without new faults the same messages survive.                            *)
LEMMA SurvivedKept ==
    ASSUME ChannelType, UNCHANGED stream, NEW n \in 0..Len(stream),
           \A k \in 1..n : SameFaults(stream[k])
    PROVE  Channel!Survived'[n] = Channel!Survived[n]
  <1>1. Len(stream) \in Nat /\ n \in Nat /\ n <= Len(stream)
    BY StreamFacts DEF ChannelType
  <1>2. \A k \in 1..n : Kept'[k] = Kept[k]
    <2> SUFFICES ASSUME NEW k \in 1..n PROVE Kept'[k] = Kept[k]
      OBVIOUS
    <2> DEFINE m == stream[k]
    <2>1. k \in 1..Len(stream)
      BY <1>1
    <2>2. Kept[k] = Channel!Survivors(m) /\ Kept'[k] = Channel!Survivors(m)'
      BY <2>1 DEF Kept
    <2>3. SameFaults(m)
      OBVIOUS
    <2>4. SurvivorsAre(m) /\ SurvivorsAre(m)'
      BY SurvivorsOf, FlattenedNext
    <2> QED
      BY <2>2, <2>3, <2>4 DEF SurvivorsAre, SameFaults
  <1>3. /\ Flattens(Channel!Survived, Kept, n)
        /\ Flattens(Channel!Survived', Kept', n)
    <2>1. /\ Flattens(Channel!Survived, Kept, Len(stream))
          /\ Flattens(Channel!Survived', Kept', Len(stream))
      BY <1>1, SurvivedFlattens, FlattenedNext
    <2>2. \A k \in 1..n : k \in 1..Len(stream)
      BY <1>1
    <2> QED
      BY <2>1, <2>2 DEF Flattens
  <1> QED
    BY <1>1, <1>2, <1>3, FlatteningsAgree

(* One more event without new faults is redone last.                        *)
LEMMA RebuiltAppend ==
    ASSUME ChannelType, UNCHANGED <<stream, next>>, NEW ev, log' = Append(log, ev),
           \A m \in ToSet(stream) : SameFaults(m)
    PROVE  Channel!Rebuilt'[Len(log')] = Channel!Redo(Channel!Rebuilt[Len(log)], ev)
  <1> DEFINE n == Len(log)
             b == Channel!Survived[next - 1]
             R == Channel!Rebuilt
             Q == Channel!Rebuilt'
  <1>1. /\ n \in Nat /\ Len(log') = n + 1 /\ log'[n + 1] = ev
        /\ \A k \in 1..n : log'[k] = log[k]
    BY DEF ChannelType
  <1>2. Channel!Survived'[next' - 1] = b
    <2>1. next - 1 \in 0..Len(stream) /\ \A k \in 1..(next - 1) : stream[k] \in ToSet(stream)
      BY StreamFacts DEF ChannelType, ToSet
    <2> QED
      BY <2>1, SurvivedKept
  <1>3. Redoes(R, b, log, n)
    BY <1>1, RebuiltRedoes
  <1>4. Redoes(Q, b, log', n + 1)
    <2> DEFINE c == Channel!Survived'[next' - 1]
    <2>1. Redoes(Q, c, log', Len(log'))
      BY <1>1, FlattenedNext
    <2> HIDE DEF Q, c, b
    <2>2. c = b
      BY <1>2 DEF b, c
    <2> QED
      BY <1>1, <2>1, <2>2
  <1> HIDE DEF R, Q, b, n
  <1>5. Redoes(Q, b, log', n)
    <2>1. \A k \in 1..n : k \in 1..(n + 1)
      BY <1>1
    <2> QED
      BY <1>4, <2>1 DEF Redoes
  <1>6. Q[n] = R[n]
    <2>1. n \in Nat /\ \A k \in 1..n : log[k] = log'[k]
      BY <1>1
    <2> DEFINE s == log
               t == log'
    <2>2. Redoes(R, b, s, n) /\ Redoes(Q, b, t, n) /\ \A k \in 1..n : s[k] = t[k]
      BY <1>3, <1>5, <2>1
    <2> HIDE DEF s, t
    <2>3. R[n] = Q[n]
      BY <2>1, <2>2, RedoingsAgree
    <2> QED
      BY <2>3
  <1>7. n + 1 \in 1..(n + 1) /\ (n + 1) - 1 = n
    BY <1>1
  <1>8. Q[n + 1] = Channel!Redo(Q[n], log'[n + 1])
    <2>1. Q[n + 1] = Channel!Redo(Q[(n + 1) - 1], log'[n + 1])
      BY <1>4, <1>7 DEF Redoes
    <2> QED
      BY <1>7, <2>1
  <1> QED
    BY <1>1, <1>6, <1>8 DEF R, Q, n

-----------------------------------------------------------------------------
(* What can disturb RebuildInv: nothing but the phase changes; another      *)
(* event is logged; a message is sent, doubled or lost.                     *)
LEMMA RebuildKeptIfSame ==
    ASSUME ChannelType, RebuildInv, UNCHANGED <<stream, next, arrivals, log>>,
           phase' = "send" => phase = "send"
    PROVE  RebuildInv'
  <1> DEFINE n == Len(log)
             b == Channel!Survived[next - 1]
             R == Channel!Rebuilt
             Q == Channel!Rebuilt'
  <1>1. n \in Nat /\ n = Len(log') /\ next - 1 \in 0..Len(stream)
    BY StreamFacts DEF ChannelType
  <1>2. \A m : SameFaults(m) /\ (Unfaulted(m)' <=> Unfaulted(m))
    BY DEF SameFaults, Unfaulted, Channel!Loss, Channel!Duplicate
  <1>3. Channel!Survived'[next' - 1] = b
    BY <1>1, <1>2, SurvivedKept
  <1>4. Redoes(R, b, log, n)
    BY <1>1, RebuiltRedoes
  <1>5. Redoes(Q, b, log, n)
    <2> DEFINE c == Channel!Survived'[next' - 1]
    <2>1. Redoes(Q, c, log', Len(log'))
      BY <1>1, FlattenedNext
    <2> HIDE DEF Q, c, b
    <2>2. c = b
      BY <1>3 DEF b, c
    <2> QED
      BY <1>1, <2>1, <2>2
  <1>6. Q[n] = R[n]
    <2> HIDE DEF n, b, R, Q
    <2> QED
      BY <1>1, <1>4, <1>5, RedoingsAgree
  <1>7. Channel!UniqueIds' <=> Channel!UniqueIds
    BY DEF Channel!UniqueIds, Channel!IsInjective
  <1> HIDE DEF Unfaulted
  <1> QED
    BY <1>1, <1>2, <1>3, <1>6, <1>7 DEF RebuildInv

(* An event that is neither a fault of a message of the stream nor a swap.  *)
LEMMA RebuildKeptByOther ==
    ASSUME ChannelType, RebuildInv, UNCHANGED <<stream, next, arrivals, phase>>,
           NEW ev, log' = Append(log, ev),
           \A m \in ToSet(stream) : ev # TransportLoss(m) /\ ev # Channel!Duplicate(m),
           stream # << >> => ev.type # "TransportReorder"
    PROVE  RebuildInv'
  <1> SUFFICES ASSUME Channel!UniqueIds'
               PROVE  /\ arrivals' = Channel!Rebuilt'[Len(log')]
                      /\ phase' = "send" /\ stream' # << >> =>
                            /\ arrivals' = Channel!Survived'[next' - 1]
                            /\ \A p \in DOMAIN log' : log'[p].type # "TransportReorder"
                      /\ \A k \in next'..Len(stream') : Unfaulted(stream[k])'
    BY DEF RebuildInv
  <1>1. Channel!UniqueIds
    BY DEF Channel!UniqueIds, Channel!IsInjective
  <1>2. /\ log \in Seq(LogEvents) /\ Len(stream) \in Nat
        /\ next \in 1..(Len(stream) + 1) /\ arrivals \in Seq(ToSet(stream))
        /\ \A k \in 1..Len(stream) : stream[k] \in ToSet(stream)
    BY StreamFacts DEF ChannelType, ToSet
  <1>3. ASSUME NEW m \in ToSet(stream) PROVE SameFaults(m)
    <2>1. ev # Channel!Loss(m) /\ ev # Channel!Duplicate(m)
      BY EventKinds
    <2>2. /\ Copies(log, Channel!Loss(m)) \in Nat
          /\ Copies(log, Channel!Duplicate(m)) \in Nat
      BY <1>2, CopiesType
    <2> QED
      BY <1>2, <2>1, <2>2, CopiesAppend DEF SameFaults
  <1>4. arrivals = Channel!Rebuilt[Len(log)]
    BY <1>1 DEF RebuildInv
  <1>5. Channel!Rebuilt'[Len(log')] = Channel!Redo(arrivals, ev)
    BY <1>3, <1>4, RebuiltAppend
  <1>6. Channel!Redo(arrivals, ev) = arrivals
    <2>1. CASE stream = << >>
      <3>1. ToSet(stream) = {}
        BY <2>1 DEF ToSet
      <3>2. arrivals = << >>
        BY <1>2, <3>1
      <3> QED
        BY <3>2 DEF Channel!Redo
    <2>2. CASE stream # << >>
      BY <2>2 DEF Channel!Redo
    <2> QED
      BY <2>1, <2>2
  <1>7. ASSUME phase' = "send", stream' # << >>
        PROVE  /\ arrivals' = Channel!Survived'[next' - 1]
               /\ \A p \in DOMAIN log' : log'[p].type # "TransportReorder"
    <2>1. /\ arrivals = Channel!Survived[next - 1]
          /\ \A p \in DOMAIN log : log[p].type # "TransportReorder"
      BY <1>1, <1>7 DEF RebuildInv
    <2>2. next - 1 \in 0..Len(stream) /\ \A k \in 1..(next - 1) : SameFaults(stream[k])
      BY <1>2, <1>3
    <2>3. Channel!Survived'[next - 1] = Channel!Survived[next - 1]
      BY <2>2, SurvivedKept
    <2>4. \A p \in DOMAIN log' : log'[p].type # "TransportReorder"
      BY <1>2, <1>7, <2>1
    <2> QED
      BY <2>1, <2>3, <2>4
  <1>8. ASSUME NEW k \in next..Len(stream) PROVE Unfaulted(stream[k])'
    <2>1. stream[k] \in ToSet(stream) /\ Unfaulted(stream[k])
      BY <1>1, <1>2, <1>8 DEF RebuildInv
    <2> QED
      BY <1>3, <2>1 DEF SameFaults, Unfaulted
  <1> QED
    BY <1>4, <1>5, <1>6, <1>7, <1>8

(* A message is sent: kept, doubled or lost.                                *)
LEMMA RebuildKeptBySend ==
    ASSUME ChannelType, RebuildInv, UNCHANGED <<stream, phase>>, phase = "send",
           next \in 1..Len(stream), next' = next + 1,
           \A p \in DOMAIN log' : log'[p].type # "TransportReorder"
                                  \/ (p \in DOMAIN log /\ log'[p] = log[p]),
           log' \in Seq(LogEvents),
           NEW x, x = stream[next], \A m : m # x => SameFaults(m),
           Unfaulted(x) => arrivals' = arrivals \o Channel!Survivors(x)'
    PROVE  RebuildInv'
  <1> SUFFICES ASSUME Channel!UniqueIds'
               PROVE  /\ arrivals' = Channel!Rebuilt'[Len(log')]
                      /\ arrivals' = Channel!Survived'[next' - 1]
                      /\ \A p \in DOMAIN log' : log'[p].type # "TransportReorder"
                      /\ \A k \in next'..Len(stream') : Unfaulted(stream[k])'
    BY DEF RebuildInv
  <1>1. Channel!UniqueIds
    BY DEF Channel!UniqueIds, Channel!IsInjective
  <1>2. /\ Len(stream) \in Nat /\ DOMAIN stream = 1..Len(stream)
        /\ next \in Nat /\ next - 1 \in 0..Len(stream) /\ next' - 1 = next
        /\ stream # << >>
    BY StreamFacts DEF ChannelType
  <1>3. \A k \in 1..Len(stream) : k # next => SameFaults(stream[k])
    BY <1>1, <1>2 DEF Channel!UniqueIds, Channel!IsInjective
  <1>4. /\ arrivals = Channel!Survived[next - 1]
        /\ \A p \in DOMAIN log : log[p].type # "TransportReorder"
    BY <1>1, <1>2 DEF RebuildInv
  <1>5. Unfaulted(x)
    BY <1>1, <1>2 DEF RebuildInv
  <1>6. Channel!Survived'[next - 1] = Channel!Survived[next - 1]
    <2>1. \A k \in 1..(next - 1) : SameFaults(stream[k])
      BY <1>2, <1>3
    <2> QED
      BY <1>2, <2>1, SurvivedKept
  <1>7. Channel!Survived'[next] = Channel!Survived'[next - 1] \o Channel!Survivors(x)'
    <2>1. Flattens(Channel!Survived', Kept', Len(stream))
      BY <1>2, FlattenedNext
    <2>2. Kept'[next] = Channel!Survivors(x)'
      BY <1>2 DEF Kept
    <2> QED
      BY <2>1, <2>2 DEF Flattens
  <1>8. arrivals' = Channel!Survived'[next' - 1]
    BY <1>2, <1>4, <1>5, <1>6, <1>7
  <1>9. \A p \in DOMAIN log' : log'[p].type # "TransportReorder"
    BY <1>4
  <1>10. Channel!Rebuilt'[Len(log')] = Channel!Survived'[next' - 1]
    <2> DEFINE n == Len(log')
               R == Channel!Rebuilt'
               b == Channel!Survived'[next' - 1]
    <2>1. n \in Nat /\ DOMAIN log' = 1..n
      OBVIOUS
    <2>2. Redoes(R, b, log', n)
      BY <2>1, FlattenedNext
    <2> HIDE DEF n, R, b
    <2>3. R[n] = b
      BY <1>9, <2>1, <2>2, NothingRedone
    <2> QED
      BY <2>3 DEF n, R, b
  <1>11. ASSUME NEW k \in next'..Len(stream') PROVE Unfaulted(stream[k])'
    <2>1. k \in 1..Len(stream) /\ k # next /\ k \in next..Len(stream)
      BY <1>2
    <2>2. SameFaults(stream[k]) /\ Unfaulted(stream[k])
      BY <1>1, <1>3, <2>1 DEF RebuildInv
    <2> QED
      BY <2>2 DEF SameFaults, Unfaulted
  <1> QED
    BY <1>8, <1>9, <1>10, <1>11

(* One step per action, from the three lemmas above.                        *)
LEMMA RebuildInvStep ==
    ASSUME ChannelType, RebuildInv, [SimNext]_<<channel, log, engine>>
    PROVE  RebuildInv'
  <1>1. /\ Len(stream) \in Nat /\ next \in 1..(Len(stream) + 1)
        /\ log \in Seq(LogEvents)
        /\ arrivals \in Seq(ToSet(stream))
        /\ \A k \in 1..Len(stream) : stream[k] \in ToSet(stream)
        /\ i \in Int
        /\ phase = "shuffle" => i \in 1..Len(arrivals)
    BY StreamFacts DEF ChannelType, ToSet
  <1>2. CASE UNCHANGED <<channel, log, engine>> \/ ReplayLog
    <2>1. UNCHANGED <<stream, next, arrivals, log, phase>>
      BY <1>2 DEF channel, ReplayLog, Start, ApplyNext, FailEvent, SecondPass, Compare
    <2> QED
      BY <2>1, RebuildKeptIfSame
  <1>3. CASE Announce
    <2> DEFINE ev == MessageSent(stream[Announced + 1], <<Announced + 1>>)
    <2>1. UNCHANGED <<stream, next, arrivals, phase>> /\ log' = Append(log, ev)
      BY <1>3 DEF Announce, channel
    <2>2. /\ ev.type # "TransportReorder"
          /\ \A m : ev # TransportLoss(m) /\ ev # Channel!Duplicate(m)
      BY EventKinds
    <2> HIDE DEF ev
    <2> QED
      BY <2>1, <2>2, RebuildKeptByOther
  <1>4. ASSUME NEW ev \in Events, Record(ev) PROVE RebuildInv'
    <2>1. UNCHANGED <<stream, next, arrivals, phase>> /\ log' = Append(log, ev)
      BY <1>4 DEF Record, Push, channel
    <2> QED
      BY <1>4, <2>1, BesideIsOther, RebuildKeptByOther
  <1>5. CASE Transport
    <2>1. Channel!Next /\ log' \in Seq(LogEvents)
      <3>1. ChannelType' /\ UNCHANGED stream
        BY <1>5, StepCases DEF Recording, ReplayStep, channel
      <3>2. LogEvents' = LogEvents
        BY <3>1 DEF LogEvents
      <3> QED
        BY <1>5, <3>1, <3>2 DEF Transport, ChannelType
    <2>2. \A m : SurvivorsAre(m)'
      BY FlattenedNext
    <2>3. ASSUME NEW m
          PROVE  /\ Copies(log, Channel!Loss(m)) \in Nat
                 /\ Copies(log, Channel!Duplicate(m)) \in Nat
      BY <1>1, CopiesType
    <2>4. CASE Channel!Lose
      <3> PICK x : x = stream[next]
        OBVIOUS
      <3> DEFINE ev == Channel!Loss(x)
      <3>1. /\ UNCHANGED <<stream, phase, arrivals>> /\ phase = "send"
            /\ next \in 1..Len(stream) /\ next' = next + 1
            /\ log' = Append(log, ev)
        BY <1>1, <2>4 DEF Channel!Lose, Channel!Sending
      <3>2. /\ ev.type = "TransportLoss"
            /\ \A m : ev # Channel!Duplicate(m) /\ (ev = Channel!Loss(m) => m = x)
        BY EventKinds
      <3> HIDE DEF ev
      <3>3. \A m : m # x => SameFaults(m)
        BY <1>1, <2>3, <3>1, <3>2, CopiesAppend DEF SameFaults
      <3>4. Channel!Survivors(x)' = << >>
        <4>1. Copies(log', Channel!Loss(x)) = Copies(log, Channel!Loss(x)) + 1
          BY <1>1, <3>1, CopiesAppend DEF ev
        <4>2. Copies(log', Channel!Loss(x)) > 0
          BY <2>3, <4>1
        <4> QED
          BY <2>2, <3>1, <4>2 DEF SurvivorsAre
      <3>5. arrivals \o << >> = arrivals
        BY <1>1
      <3>6. \A p \in DOMAIN log' : log'[p].type # "TransportReorder"
                                   \/ (p \in DOMAIN log /\ log'[p] = log[p])
        BY <1>1, <3>1, <3>2
      <3> QED
        BY <2>1, <3>1, <3>3, <3>4, <3>5, <3>6, RebuildKeptBySend
    <2>5. CASE Channel!Double
      <3> PICK x : x = stream[next]
        OBVIOUS
      <3> DEFINE ev == Channel!Duplicate(x)
      <3>1. /\ UNCHANGED <<stream, phase>> /\ phase = "send"
            /\ next \in 1..Len(stream) /\ next' = next + 1
            /\ log' = Append(log, ev) /\ arrivals' = arrivals \o <<x, x>>
        BY <1>1, <2>5 DEF Channel!Double, Channel!Sending
      <3>2. /\ ev.type = "TransportDuplicate"
            /\ \A m : ev # Channel!Loss(m) /\ (ev = Channel!Duplicate(m) => m = x)
        BY EventKinds
      <3> HIDE DEF ev
      <3>3. \A m : m # x => SameFaults(m)
        BY <1>1, <2>3, <3>1, <3>2, CopiesAppend DEF SameFaults
      <3>4. Unfaulted(x) => Channel!Survivors(x)' = <<x, x>>
        <4>1. /\ Copies(log', Channel!Duplicate(x)) = Copies(log, Channel!Duplicate(x)) + 1
              /\ Copies(log', Channel!Loss(x)) = Copies(log, Channel!Loss(x)) + 0
          BY <1>1, <3>1, <3>2, CopiesAppend DEF ev
        <4>2. /\ Copies(log', Channel!Duplicate(x)) > 0
              /\ Unfaulted(x) => ~(Copies(log', Channel!Loss(x)) > 0)
          BY <2>3, <4>1 DEF Unfaulted
        <4> QED
          BY <2>2, <3>1, <4>2 DEF SurvivorsAre
      <3>5. \A p \in DOMAIN log' : log'[p].type # "TransportReorder"
                                   \/ (p \in DOMAIN log /\ log'[p] = log[p])
        BY <1>1, <3>1, <3>2, SMTT(30)
      <3> QED
        BY <2>1, <3>1, <3>3, <3>4, <3>5, RebuildKeptBySend
    <2>6. CASE Channel!Pass
      <3> PICK x : x = stream[next]
        OBVIOUS
      <3>1. /\ UNCHANGED <<stream, phase, log>> /\ phase = "send"
            /\ next \in 1..Len(stream) /\ next' = next + 1
            /\ arrivals' = Append(arrivals, x)
        BY <1>1, <2>6 DEF Channel!Pass, Channel!Sending
      <3>2. \A m : SameFaults(m)
        BY <3>1 DEF SameFaults, Channel!Loss, Channel!Duplicate
      <3>3. Append(arrivals, x) = arrivals \o <<x>>
        BY <1>1, <3>1
      <3>4. Unfaulted(x) => Channel!Survivors(x)' = <<x>>
        <4>1. Unfaulted(x) => /\ ~(Copies(log', Channel!Loss(x)) > 0)
                              /\ ~(Copies(log', Channel!Duplicate(x)) > 0)
          BY <3>1 DEF Unfaulted
        <4> QED
          BY <2>2, <3>1, <4>1 DEF SurvivorsAre
      <3>5. \A p \in DOMAIN log' : p \in DOMAIN log /\ log'[p] = log[p]
        BY <3>1
      <3> QED
        BY <2>1, <3>1, <3>2, <3>3, <3>4, <3>5, RebuildKeptBySend
    <2>7. CASE Channel!Shuffle \/ Channel!Deliver \/ Channel!Shuffled
      <3>1. UNCHANGED <<stream, next, arrivals, log>> /\ phase' # "send"
        BY <2>7 DEF Channel!Shuffle, Channel!Deliver, Channel!Shuffled
      <3> QED
        BY <3>1, RebuildKeptIfSame
    <2>8. ASSUME NEW j \in 1..Len(arrivals), Channel!Swap(j) PROVE RebuildInv'
      <3>1. /\ UNCHANGED <<stream, next, phase>> /\ phase = "shuffle"
            /\ i \in 1..Len(arrivals)
        BY <1>1, <2>8 DEF Channel!Swap
      <3>2. CASE j = i
        <4>1. UNCHANGED <<arrivals, log>>
          BY <2>8, <3>2 DEF Channel!Swap
        <4> QED
          BY <3>1, <4>1, RebuildKeptIfSame
      <3>3. CASE j # i
        <4> DEFINE ev == Channel!Reorder(i - 1, j - 1)
        <4>1. log' = Append(log, ev) /\ arrivals' = Channel!Swapped(arrivals, i, j)
          BY <2>8, <3>3 DEF Channel!Swap, Channel!SwapEvent
        <4>2. /\ ev.type = "TransportReorder"
              /\ \A m : ev # Channel!Loss(m) /\ ev # Channel!Duplicate(m)
          BY EventKinds
        <4>3. Channel!Redo(arrivals, ev) = Channel!Swapped(arrivals, i, j)
          <5>1. /\ ev.from_index + 1 = i /\ ev.to_index + 1 = j
            BY <1>1 DEF Channel!Reorder
          <5> HIDE DEF ev
          <5> QED
            BY <4>2, <5>1 DEF Channel!Redo, Channel!Swapped
        <4> HIDE DEF ev
        <4>4. \A m : SameFaults(m)
          BY <1>1, <2>3, <4>1, <4>2, CopiesAppend DEF SameFaults
        <4>5. ASSUME Channel!UniqueIds'
              PROVE  /\ arrivals' = Channel!Rebuilt'[Len(log')]
                     /\ \A k \in next'..Len(stream') : Unfaulted(stream[k])'
          <5>1. Channel!UniqueIds
            BY <3>1, <4>5 DEF Channel!UniqueIds, Channel!IsInjective
          <5>2. /\ arrivals = Channel!Rebuilt[Len(log)]
                /\ \A k \in next..Len(stream) : Unfaulted(stream[k])
            BY <5>1 DEF RebuildInv
          <5>3. Channel!Rebuilt'[Len(log')] = Channel!Redo(arrivals, ev)
            BY <3>1, <4>1, <4>4, <5>2, RebuiltAppend
          <5>4. \A k \in next..Len(stream) : Unfaulted(stream[k])'
            BY <3>1, <4>4, <5>2 DEF SameFaults, Unfaulted
          <5> QED
            BY <3>1, <4>1, <4>3, <5>3, <5>4
        <4> QED
          BY <3>1, <4>5 DEF RebuildInv
      <3> QED
        BY <3>2, <3>3
    <2> QED
      BY <2>1, <2>4, <2>5, <2>6, <2>7, <2>8 DEF Channel!Next
  <1> QED
    BY <1>2, <1>3, <1>4, <1>5 DEF SimNext

(* Nothing has arrived and there is nothing to rebuild at first.            *)
LEMMA RebuildInvInit == SimInit => RebuildInv
  <1> SUFFICES ASSUME SimInit PROVE RebuildInv
    OBVIOUS
  <1>1. /\ log = << >> /\ arrivals = << >> /\ next = 1 /\ Len(log) = 0 /\ DOMAIN log = {}
    BY DEF SimInit, Init, Channel!Init
  <1>2. Len(stream) \in Nat
    BY ChannelTypeInit, StreamFacts DEF ChannelType
  <1>3. Channel!Survived[next - 1] = << >>
    BY <1>1, <1>2, SurvivedFlattens DEF Flattens
  <1>4. Channel!Rebuilt[Len(log)] = << >>
    BY <1>1, <1>3, RebuiltRedoes DEF Redoes
  <1>5. \A m : Unfaulted(m)
    BY <1>1, CopiesOfNone DEF Unfaulted
  <1> QED
    BY <1>1, <1>3, <1>4, <1>5 DEF RebuildInv

(* The log explains the arrivals completely: for a stream of distinct ids   *)
(* the stream and the shared log determine the sequence of arrivals, order  *)
(* included, whatever was recorded between.                                 *)
THEOREM LogRebuildsArrivals == SimSpec => []LogExplainsArrivals
  <1>1. RebuildInv => LogExplainsArrivals
    BY DEF RebuildInv, LogExplainsArrivals, Channel!LogExplainsArrivals
  <1>2. SimInit => ChannelType /\ RebuildInv
    BY ChannelTypeInit, RebuildInvInit
  <1>3. ChannelType /\ RebuildInv /\ [SimNext]_<<channel, log, engine>>
          => ChannelType' /\ RebuildInv'
    BY StepCases, RebuildInvStep
  <1> QED
    BY <1>1, <1>2, <1>3, PTL DEF SimSpec
=============================================================================
