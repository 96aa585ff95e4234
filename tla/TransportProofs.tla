--------------------------- MODULE TransportProofs ---------------------------
(***************************************************************************)
(* Theorems about the two transports of seven-mql that carry bytes.  They   *)
(* have no state in common; what the proofs share is the joining of frames  *)
(* and fragments at the head of the module.                                 *)
(*                                                                          *)
(* LoraLink, for any evidence, fragment size, frame ids and pattern of      *)
(* loss, repetition and reordering.  The invariant is small: all that was   *)
(* heard was sent (LoraInv).  The work is in the operators: fragments       *)
(* joined in order are the frame (ChunksJoin), decode inverts encode        *)
(* (DecodeInverts), and reassemble yields words of frames that were sent,   *)
(* whatever it mixes (ReassembledType).                                     *)
(*                                                                          *)
(* QuicSession, for any messages, limits, window, tasks and workloads.      *)
(* SessionInv says of every stream how much of its sender's job it carries, *)
(* and of every receiver where in that job it stands (Matched) or, if it    *)
(* called the other function, why it must fail (Crossed).  The rest is      *)
(* where the frames of a job lie in its script (FrameAt) and what a read of *)
(* each kind makes of them (ReadsCount, ReadsLength, ReadsBody).            *)
(***************************************************************************)
EXTENDS LoraLink, QuicSession, SequenceTheorems, WellFoundedInduction, TLAPS

(* A set of naturals that is not empty has a least element.                 *)
LEMMA LeastNatural ==
    ASSUME NEW T \in SUBSET Nat, T # {}
    PROVE  \E x \in T : \A y \in T : x <= y
  <1> DEFINE Less == {p \in Nat \X Nat : p[1] < p[2]}
  <1>1. IsWellFoundedOn(Less, Nat)
    <2>1. OpToRel(<, Nat) = Less
      BY DEF OpToRel
    <2> QED
      BY <2>1, NatLessThanWellFounded
  <1> HIDE DEF Less
  <1>2. PICK x \in T : \A y \in T : <<y, x>> \notin Less
    BY <1>1, WFMin
  <1>3. ASSUME NEW y \in T PROVE x <= y
    <2>1. x \in Nat /\ y \in Nat
      OBVIOUS
    <2>2. ~(y < x)
      BY <1>2, <2>1 DEF Less
    <2> QED
      BY <2>1, <2>2
  <1> QED
    BY <1>3

(* The recursive function in FlattenSeq, and that there is one for every    *)
(* number of chunks.                                                        *)
IsJoining(g, c, n) ==
    g = [k \in 1..n |-> IF k = 1 THEN c[k] ELSE g[k - 1] \o c[k]]

(* By the least number of chunks without one.                               *)
LEMMA JoiningExists ==
    ASSUME NEW c, NEW m \in Nat \ {0}
    PROVE  \E g : IsJoining(g, c, m)
  <1> DEFINE Bad == {n \in Nat \ {0} : ~\E g : IsJoining(g, c, n)}
  <1> SUFFICES ASSUME Bad # {} PROVE FALSE
    OBVIOUS
  <1>1. PICK n \in Bad : \A k \in Bad : n <= k
    BY LeastNatural
  <1>2. CASE n = 1
    <2> DEFINE g == [k \in 1..1 |-> c[k]]
    <2>1. \A k \in 1..1 : k = 1
      OBVIOUS
    <2>2. \A k \in 1..1 : g[k] = IF k = 1 THEN c[k] ELSE g[k - 1] \o c[k]
      BY <2>1
    <2>3. g = [k \in 1..1 |-> g[k]]
      OBVIOUS
    <2> HIDE DEF g
    <2>4. IsJoining(g, c, 1)
      BY <2>2, <2>3 DEF IsJoining
    <2> QED
      BY <1>1, <1>2, <2>4
  <1>3. CASE n # 1
    <2>1. n - 1 \in Nat \ {0} /\ n - 1 \notin Bad
      <3>1. n - 1 \in Nat \ {0} /\ ~(n <= n - 1)
        BY <1>1, <1>3
      <3> HIDE DEF Bad
      <3> QED
        BY <1>1, <3>1
    <2>2. PICK g : IsJoining(g, c, n - 1)
      BY <2>1
    <2> DEFINE h == [k \in 1..n |-> IF k = n THEN g[n - 1] \o c[n] ELSE g[k]]
    <2>3. ASSUME NEW k \in 1..n
          PROVE  h[k] = IF k = 1 THEN c[k] ELSE h[k - 1] \o c[k]
      <3>1. CASE k = n
        <4>1. n - 1 \in 1..n /\ n - 1 # n
          BY <2>1, <1>1
        <4> QED
          BY <1>3, <3>1, <4>1
      <3>2. CASE k # n
        <4>1. k \in 1..(n - 1) /\ (k # 1 => k - 1 \in 1..n /\ k - 1 # n)
          BY <3>2, <1>1
        <4>2. g[k] = IF k = 1 THEN c[k] ELSE g[k - 1] \o c[k]
          BY <2>2, <4>1 DEF IsJoining
        <4> QED
          BY <3>2, <4>1, <4>2
      <3> QED
        BY <3>1, <3>2
    <2>4. h = [k \in 1..n |-> h[k]]
      OBVIOUS
    <2> HIDE DEF h
    <2>5. IsJoining(h, c, n)
      BY <2>3, <2>4 DEF IsJoining
    <2> QED
      BY <1>1, <2>5
  <1> QED
    BY <1>2, <1>3

(* FlattenSeq joins one chunk after another.                                *)
LEMMA FlattenJoins ==
    ASSUME NEW c, NEW n \in Nat \ {0}, Len(c) = n
    PROVE  \E g : /\ FlattenSeq(c) = g[n]
                  /\ g[1] = c[1]
                  /\ \A k \in 2..n : g[k] = g[k - 1] \o c[k]
  <1> DEFINE g == CHOOSE g : IsJoining(g, c, Len(c))
  <1>1. IsJoining(g, c, n)
    BY JoiningExists
  <1>2. FlattenSeq(c) = g[Len(c)]
    BY DEF FlattenSeq, IsJoining
  <1> HIDE DEF g
  <1>3. \A k \in 1..n : g[k] = IF k = 1 THEN c[k] ELSE g[k - 1] \o c[k]
    BY <1>1 DEF IsJoining
  <1>4. 1 \in 1..n /\ \A k \in 2..n : k \in 1..n /\ k # 1
    OBVIOUS
  <1>5. g[1] = c[1]
    BY <1>3, <1>4
  <1>6. ASSUME NEW k \in 2..n PROVE g[k] = g[k - 1] \o c[k]
    BY <1>3, <1>4
  <1> QED
    BY <1>2, <1>5, <1>6

-----------------------------------------------------------------------------
(* Joining chunks yields no word that is in none of them.                   *)
LEMMA FlattenType ==
    ASSUME NEW c, NEW n \in Nat \ {0}, Len(c) = n, NEW A,
           \A k \in 1..n : c[k] \in Seq(A)
    PROVE  FlattenSeq(c) \in Seq(A)
  <1>1. PICK g : /\ FlattenSeq(c) = g[n]
                 /\ g[1] = c[1]
                 /\ \A k \in 2..n : g[k] = g[k - 1] \o c[k]
    BY FlattenJoins
  <1> DEFINE Bad == {k \in 1..n : g[k] \notin Seq(A)}
  <1>2. Bad = {}
    <2> SUFFICES ASSUME Bad # {} PROVE FALSE
      OBVIOUS
    <2>0. Bad \in SUBSET Nat
      OBVIOUS
    <2> HIDE DEF Bad
    <2>1. PICK k \in Bad : \A j \in Bad : k <= j
      BY <2>0, LeastNatural
    <2>2. k # 1
      BY <1>1, <2>1 DEF Bad
    <2>3. k \in 2..n /\ k \in 1..n /\ k - 1 \in 1..n /\ ~(k <= k - 1)
      BY <2>1, <2>2 DEF Bad
    <2>4. g[k - 1] \in Seq(A)
      BY <2>1, <2>3 DEF Bad
    <2>5. c[k] \in Seq(A)
      BY <2>3
    <2>6. g[k] = g[k - 1] \o c[k]
      BY <1>1, <2>3
    <2>7. g[k] \in Seq(A)
      BY <2>4, <2>5, <2>6
    <2> QED
      BY <2>1, <2>7 DEF Bad
  <1> QED
    BY <1>1, <1>2

(* fragment's total is the least number of fragments that holds the words.  *)
LEMMA TotalBounds ==
    ASSUME NEW w, Len(w) \in Nat \ {0}
    PROVE  /\ Total(w) \in Nat \ {0}
           /\ PerFragment * (Total(w) - 1) < Len(w)
           /\ Len(w) <= PerFragment * Total(w)
  <1> DEFINE P == PerFragment
             q == (Len(w) + P - 1) \div P
  <1>1. P \in Nat \ {0}
    BY LoraAssumption DEF LoraAssumption
  <1>2. q \in Int /\ P * q <= Len(w) + P - 1 /\ Len(w) + P - 1 < P * q + P
    BY <1>1
  <1> HIDE DEF q
  <1>3. P * (q - 1) = P * q - P
    BY <1>1, <1>2
  <1>4. P * q \in Int
    BY <1>1, <1>2
  <1>5. P * q > 0 /\ P * (q - 1) < Len(w) /\ Len(w) <= P * q
    BY <1>1, <1>2, <1>3, <1>4
  <1>6. q > 0
    BY <1>1, <1>2, <1>5
  <1> QED
    BY <1>2, <1>5, <1>6 DEF Total, q

-----------------------------------------------------------------------------
(* Where the first k fragments end, and the words of the k-th.              *)
Cut(w, k) == IF PerFragment * k < Len(w) THEN PerFragment * k ELSE Len(w)

Chunk(w, k) == SubSeq(w, PerFragment * (k - 1) + 1, Cut(w, k))

(* Products with PerFragment, for the steps about cuts.                     *)
LEMMA TimesGrows ==
    ASSUME NEW a \in Int, NEW b \in Int, a <= b
    PROVE  /\ PerFragment * a \in Int /\ PerFragment * b \in Int
           /\ PerFragment * a <= PerFragment * b
  BY LoraAssumption DEF LoraAssumption

(* Fragments are adjacent, none is empty, and the last ends with the words. *)
LEMMA Cuts ==
    ASSUME NEW w, Len(w) \in Nat \ {0}, NEW k \in 1..Total(w)
    PROVE  /\ k > 1 => Cut(w, k - 1) = PerFragment * (k - 1)
           /\ PerFragment * (k - 1) \in 0..Len(w)
           /\ PerFragment * (k - 1) <= Cut(w, k)
           /\ Cut(w, k) \in 1..Len(w)
           /\ Cut(w, Total(w)) = Len(w)
  <1> DEFINE T == Total(w)
             times(a) == PerFragment * a
  <1>1. T \in Nat \ {0} /\ times(T - 1) < Len(w) /\ Len(w) <= times(T)
    BY TotalBounds
  <1>2. \A a, b \in Int :
           a <= b => times(a) \in Int /\ times(b) \in Int /\ times(a) <= times(b)
    BY TimesGrows
  <1>3. times(0) = 0 /\ times(1) > 0 /\ times(1) \in Int
    BY LoraAssumption DEF LoraAssumption
  <1>4. \A j : Cut(w, j) = IF times(j) < Len(w) THEN times(j) ELSE Len(w)
    BY DEF Cut
  <1>5. k \in 1..T
    OBVIOUS
  <1> HIDE DEF T, times
  <1>6. k - 1 \in Int /\ T - 1 \in Int /\ 0 <= k - 1 /\ k - 1 <= T - 1
        /\ k \in Int /\ 1 <= k /\ k - 1 <= k /\ T \in Int /\ k <= T
    BY <1>1, <1>5
  <1>7. times(k - 1) \in Int /\ times(T - 1) \in Int /\ times(k - 1) <= times(T - 1)
    BY <1>2, <1>6
  <1>8. times(0) <= times(k - 1)
    BY <1>2, <1>6
  <1>9. times(k) \in Int /\ times(1) <= times(k) /\ times(k - 1) <= times(k)
    BY <1>2, <1>6
  <1>10. times(T) \in Int
    BY <1>2, <1>6
  <1>11. times(k - 1) \in 0..Len(w) /\ times(k - 1) < Len(w)
    BY <1>1, <1>3, <1>7, <1>8
  <1>12. Cut(w, k) \in 1..Len(w) /\ times(k - 1) <= Cut(w, k)
    BY <1>3, <1>4, <1>9, <1>11
  <1>13. Cut(w, T) = Len(w)
    BY <1>1, <1>4, <1>10
  <1>14. Cut(w, k - 1) = times(k - 1)
    BY <1>4, <1>11
  <1> QED
    BY <1>11, <1>12, <1>13, <1>14 DEF T, times

(* A chunk is made of words of the frame.                                   *)
LEMMA ChunkType ==
    ASSUME NEW A, NEW w \in Seq(A), w # << >>, NEW k \in 1..Total(w)
    PROVE  Chunk(w, k) \in Seq(A)
  <1>1. Len(w) \in Nat \ {0}
    OBVIOUS
  <1>2. PerFragment * (k - 1) \in 0..Len(w) /\ Cut(w, k) \in 1..Len(w)
    BY <1>1, Cuts
  <1>3. \A j \in (PerFragment * (k - 1) + 1)..Cut(w, k) : w[j] \in A
    BY <1>2
  <1> QED
    BY <1>2, <1>3, SubSeqProperties DEF Chunk

(* The chunks of a frame, joined in order, are the frame.                   *)
LEMMA ChunksJoin ==
    ASSUME NEW A, NEW w \in Seq(A), w # << >>
    PROVE  FlattenSeq([k \in 1..Total(w) |-> Chunk(w, k)]) = w
  <1> DEFINE n == Total(w)
             c == [k \in 1..n |-> Chunk(w, k)]
  <1>1. Len(w) \in Nat \ {0}
    OBVIOUS
  <1>2. n \in Nat \ {0}
    BY <1>1, TotalBounds
  <1>3. /\ \A k \in 1..n : /\ k > 1 => Cut(w, k - 1) = PerFragment * (k - 1)
                           /\ PerFragment * (k - 1) \in 0..Len(w)
                           /\ PerFragment * (k - 1) <= Cut(w, k)
                           /\ Cut(w, k) \in 1..Len(w)
        /\ Cut(w, n) = Len(w)
    BY <1>1, <1>2, Cuts
  <1>4. \A k \in 1..n : c[k] = Chunk(w, k)
    OBVIOUS
  <1>5. Len(c) = n
    BY <1>2
  <1> HIDE DEF n, c
  <1>6. PICK g : /\ FlattenSeq(c) = g[n]
                 /\ g[1] = c[1]
                 /\ \A k \in 2..n : g[k] = g[k - 1] \o c[k]
    BY <1>2, <1>5, FlattenJoins
  <1> DEFINE Bad == {k \in 1..n : g[k] # SubSeq(w, 1, Cut(w, k))}
  <1>7. Bad = {}
    <2> SUFFICES ASSUME Bad # {} PROVE FALSE
      OBVIOUS
    <2>1. Bad \in SUBSET Nat /\ Bad \subseteq 1..n
      BY <1>2
    <2> HIDE DEF Bad
    <2>2. PICK k \in Bad : \A j \in Bad : k <= j
      BY <2>1, LeastNatural
    <2>3. k \in 1..n
      BY <2>1
    <2>4. CASE k = 1
      <3>1. c[1] = SubSeq(w, PerFragment * (1 - 1) + 1, Cut(w, 1))
        BY <1>4, <2>3, <2>4 DEF Chunk
      <3>2. PerFragment * (1 - 1) + 1 = 1
        BY LoraAssumption DEF LoraAssumption
      <3>3. g[1] = SubSeq(w, 1, Cut(w, 1))
        BY <1>6, <3>1, <3>2
      <3> QED
        BY <2>2, <2>4, <3>3 DEF Bad
    <2>5. CASE k # 1
      <3>1. k \in 2..n /\ k - 1 \in 1..n /\ ~(k <= k - 1) /\ k > 1
        BY <1>2, <2>3, <2>5
      <3>2. g[k - 1] = SubSeq(w, 1, Cut(w, k - 1))
        BY <2>2, <3>1 DEF Bad
      <3> DEFINE a == Cut(w, k - 1)
                 b == Cut(w, k)
      <3>3. a = PerFragment * (k - 1) /\ a \in 1..Len(w) /\ a <= b /\ b \in 1..Len(w)
        BY <1>3, <2>3, <3>1
      <3>4. c[k] = SubSeq(w, a + 1, b)
        BY <1>4, <2>3, <3>3 DEF Chunk
      <3>5. g[k] = SubSeq(w, 1, a) \o SubSeq(w, a + 1, b)
        BY <1>6, <3>1, <3>2, <3>4
      <3> HIDE DEF a, b
      <3>6. 1 \in 1..(Len(w) + 1) /\ a \in (1 - 1)..Len(w) /\ b \in a..Len(w)
        BY <1>1, <3>3
      <3>7. SubSeq(w, 1, a) \o SubSeq(w, a + 1, b) = SubSeq(w, 1, b)
        BY <3>6, ConcatAdjacentSubSeq
      <3> QED
        BY <2>2, <2>3, <3>5, <3>7 DEF Bad, b
    <2> QED
      BY <2>4, <2>5
  <1>8. g[n] = SubSeq(w, 1, Len(w))
    BY <1>2, <1>3, <1>7
  <1> QED
    BY <1>6, <1>8, SubSeqFull DEF c, n

-----------------------------------------------------------------------------
(* Slot finds a fragment of the index wanted if there is one.               *)
LEMMA SlotIs ==
    ASSUME NEW A, NEW s \in Seq(A), NEW x
    PROVE  /\ Slot(s, x) = 0 <=> \A k \in DOMAIN s : s[k].index # x
           /\ Slot(s, x) # 0 => Slot(s, x) \in DOMAIN s /\ s[Slot(s, x)].index = x
  <1> DEFINE I == {k \in 1..Len(s) : s[k].index = x}
  <1>1. Slot(s, x) = IF I # {} THEN Min(I) ELSE 0
    BY DEF Slot, SelectInSeq
  <1>2. I \in SUBSET Nat /\ DOMAIN s = 1..Len(s) /\ 0 \notin I
    OBVIOUS
  <1>3. I = {} <=> \A k \in DOMAIN s : s[k].index # x
    BY <1>2
  <1>4. \A k \in I : k \in DOMAIN s /\ s[k].index = x
    BY <1>2
  <1> HIDE DEF I
  <1>5. I # {} => Min(I) \in I
    BY <1>2, LeastNatural DEF Min
  <1> QED
    BY <1>1, <1>2, <1>3, <1>4, <1>5

-----------------------------------------------------------------------------
(* What encode writes: by position, and that decode reads it back, whether  *)
(* the evidence is signed or not.                                           *)
Signed(e) == e.signature # NoSignature

HeaderOf(e) ==
    [signed      |-> Signed(e),
     hop_count   |-> FromEvidence(e).hop_count,
     payload_len |-> AsByte(Len(e.payload), MaxPayload)]

(* A sequence is a sequence over its own elements.                          *)
LEMMA InOwnSet ==
    ASSUME NEW A, NEW s \in Seq(A)
    PROVE  s \in Seq(ToSet(s)) /\ DOMAIN s = 1..Len(s) /\ Len(s) \in Nat
  <1>1. DOMAIN s = 1..Len(s) /\ Len(s) \in Nat /\ s = [i \in 1..Len(s) |-> s[i]]
    OBVIOUS
  <1>2. \A i \in 1..Len(s) : s[i] \in ToSet(s)
    BY <1>1 DEF ToSet
  <1>3. s \in [1..Len(s) -> ToSet(s)]
    BY <1>1, <1>2
  <1> QED
    BY <1>1, <1>3

(* The words of a frame by position.                                        *)
LEMMA WireIs ==
    ASSUME NEW e \in Outgoing
    PROVE  /\ Wire(e) \in Seq(ToSet(Wire(e)))
           /\ Len(Wire(e)) = 4 + Len(e.payload) + (IF Signed(e) THEN 1 ELSE 0)
           /\ Wire(e)[1] = Word("header", HeaderOf(e))
           /\ Wire(e)[2] = Word("id", e.evidence_id)
           /\ Wire(e)[3] = Word("id", e.observation_id)
           /\ Wire(e)[4] = Word("id", e.source_id)
           /\ \A i \in 1..Len(e.payload) : Wire(e)[4 + i] = e.payload[i]
           /\ Signed(e) => Wire(e)[5 + Len(e.payload)] = Word("signature", e.signature)
  <1> DEFINE p == e.payload
             n == Len(p)
             h == Word("header", HeaderOf(e))
             a == Word("id", e.evidence_id)
             b == Word("id", e.observation_id)
             c == Word("id", e.source_id)
             g == Word("signature", e.signature)
             t == IF Signed(e) THEN << g >> ELSE << >>
             V == {h, a, b, c, g} \cup {p[i] : i \in 1..n}
  <1>1. /\ n \in Nat /\ p = [i \in 1..n |-> Word("byte", p[i][2])]
        /\ g # NoSignature
    BY LoraLinkAssumption DEF LoraLinkAssumption
  <1>2. Wire(e) = <<h, a, b, c>> \o p \o t
    <2>1. (FromEvidence(e).signature # NoSignature) = Signed(e)
      BY <1>1 DEF FromEvidence, Signed
    <2>2. Signed(e) => FromEvidence(e).signature = g
      BY DEF FromEvidence, Signed
    <2>3. /\ FromEvidence(e).payload = p
          /\ FromEvidence(e).evidence_id = a
          /\ FromEvidence(e).observation_id = b
          /\ FromEvidence(e).source_id = c
      BY DEF FromEvidence
    <2> DEFINE f == FromEvidence(e)
               hd == [signed |-> f.signature # NoSignature,
                      hop_count |-> f.hop_count,
                      payload_len |-> AsByte(Len(f.payload), MaxPayload)]
    <2>4. hd = HeaderOf(e)
      BY <2>1, <2>3 DEF HeaderOf
    <2>5. Wire(e) = << Word("header", hd), f.evidence_id, f.observation_id, f.source_id >>
                      \o f.payload \o (IF hd.signed THEN << f.signature >> ELSE << >>)
      BY DEF Wire, Encode
    <2>6. hd.signed = Signed(e)
      BY <2>1
    <2> HIDE DEF f, hd
    <2>7. (IF hd.signed THEN << f.signature >> ELSE << >>) = t
      BY <2>2, <2>6 DEF f
    <2> QED
      BY <2>3, <2>4, <2>5, <2>7 DEF f
  <1>3. <<h, a, b, c>> \in Seq(V) /\ t \in Seq(V)
    <2>1. h \in V /\ a \in V /\ b \in V /\ c \in V /\ g \in V
      OBVIOUS
    <2> HIDE DEF h, a, b, c, g, V
    <2>2. << g >> \in Seq(V) /\ << >> \in Seq(V)
      BY <2>1
    <2>3. <<h, a, b, c>> \in Seq(V)
      BY <2>1
    <2> QED
      BY <2>2, <2>3
  <1>4. p \in Seq(V)
    <2>1. \A i \in 1..n : p[i] \in V
      OBVIOUS
    <2>2. p \in [1..n -> V]
      BY <1>1, <2>1
    <2> HIDE DEF p, n, V
    <2> QED
      BY <1>1, <2>2
  <1>5. Len(<<h, a, b, c>>) = 4 /\ Len(t) = IF Signed(e) THEN 1 ELSE 0
    OBVIOUS
  <1>6. /\ <<h, a, b, c>>[1] = h /\ <<h, a, b, c>>[2] = a
        /\ <<h, a, b, c>>[3] = b /\ <<h, a, b, c>>[4] = c
        /\ Signed(e) => t[1] = g
    OBVIOUS
  <1> DEFINE q == <<h, a, b, c>>
  <1> HIDE DEF p, h, a, b, c, g, t, V, q
  <1>7. /\ q \o p \in Seq(V) /\ Len(q \o p) = 4 + n
        /\ \A i \in 1..(4 + n) : (q \o p)[i] = IF i <= 4 THEN q[i] ELSE p[i - 4]
    BY <1>1, <1>3, <1>4, <1>5, ConcatProperties DEF q
  <1> DEFINE u == q \o p
  <1> HIDE DEF u
  <1>8. /\ u \o t \in Seq(V) /\ Len(u \o t) = 4 + n + Len(t)
        /\ \A i \in 1..(4 + n + Len(t)) :
              (u \o t)[i] = IF i <= 4 + n THEN u[i] ELSE t[i - (4 + n)]
    <2>1. u \in Seq(V) /\ Len(u) = 4 + n
      BY <1>7 DEF u
    <2>2. /\ u \o t \in Seq(V) /\ Len(u \o t) = Len(u) + Len(t)
          /\ \A i \in 1..(Len(u) + Len(t)) :
                (u \o t)[i] = IF i <= Len(u) THEN u[i] ELSE t[i - Len(u)]
      BY <1>3, <2>1, ConcatProperties
    <2> QED
      BY <2>1, <2>2
  <1>9. Wire(e) = u \o t
    BY <1>2 DEF u, q
  <1>10. \A i \in 1..4 : Wire(e)[i] = q[i]
    BY <1>1, <1>5, <1>7, <1>8, <1>9 DEF u
  <1>11. \A i \in 1..n : Wire(e)[4 + i] = p[i]
    <2> SUFFICES ASSUME NEW i \in 1..n PROVE (u \o t)[4 + i] = p[i]
      BY <1>9
    <2>1. 4 + i \in 1..(4 + n) /\ ~(4 + i <= 4) /\ (4 + i) - 4 = i
      BY <1>1
    <2>2. 4 + i \in 1..(4 + n + Len(t)) /\ 4 + i <= 4 + n
      BY <1>1, <1>5
    <2> QED
      BY <1>7, <1>8, <2>1, <2>2 DEF u
  <1>12. Signed(e) => Wire(e)[5 + n] = g
    BY <1>1, <1>5, <1>6, <1>8, <1>9 DEF q
  <1>13. Wire(e) \in Seq(ToSet(Wire(e)))
    BY <1>8, <1>9, InOwnSet
  <1>14. Len(Wire(e)) = 4 + n + (IF Signed(e) THEN 1 ELSE 0)
    BY <1>5, <1>8, <1>9
  <1>15. /\ Wire(e)[1] = h /\ Wire(e)[2] = a
         /\ Wire(e)[3] = b /\ Wire(e)[4] = c
    BY <1>6, <1>10 DEF q
  <1> QED
    BY <1>11, <1>12, <1>13, <1>14, <1>15 DEF p, h, a, b, c, g

(* A number a byte can hold is cast to itself.                              *)
LEMMA AsByteIs ==
    ASSUME NEW largest \in Nat, NEW n \in 0..largest
    PROVE  AsByte(n, largest) = n
  BY DEF AsByte

(* What encode and fragment accept.                                         *)
Sendable(e) == Fits(FromEvidence(e)) /\ Fragmentable(Wire(e))

(* decode of encode returns the frame.                                      *)
LEMMA DecodeInverts ==
    ASSUME NEW e \in Outgoing, Sendable(e)
    PROVE  Decode(Wire(e)) = << FromEvidence(e) >>
  <1> DEFINE w == Wire(e)
             p == e.payload
             n == Len(p)
             f == FromEvidence(e)
  <1>1. /\ n \in Nat /\ p = [i \in 1..n |-> Word("byte", p[i][2])]
        /\ Word("signature", e.signature) # NoSignature
    BY LoraLinkAssumption DEF LoraLinkAssumption
  <1>2. /\ w \in Seq(ToSet(w))
        /\ Len(w) = 4 + n + (IF Signed(e) THEN 1 ELSE 0)
        /\ w[1] = Word("header", HeaderOf(e))
        /\ w[2] = f.evidence_id /\ w[3] = f.observation_id /\ w[4] = f.source_id
        /\ \A i \in 1..n : w[4 + i] = p[i]
        /\ Signed(e) => w[5 + n] = Word("signature", e.signature)
    BY WireIs DEF FromEvidence
  <1>3. SubSeq(w, 5, 4 + n) = p
    <2>1. Len(w) \in Nat /\ 4 + n <= Len(w) /\ DOMAIN w = 1..Len(w)
      <3>1. (IF Signed(e) THEN 1 ELSE 0) \in 0..1
        OBVIOUS
      <3>2. DOMAIN w = 1..Len(w) /\ Len(w) \in Nat
        BY <1>2, InOwnSet
      <3> HIDE DEF w, n
      <3> QED
        BY <1>1, <1>2, <3>1, <3>2
    <2>2. \A i \in 5..(4 + n) : w[i] \in ToSet(w)
      BY <1>1, <2>1 DEF ToSet
    <2>3. /\ SubSeq(w, 5, 4 + n) \in Seq(ToSet(w))
          /\ Len(SubSeq(w, 5, 4 + n)) = IF 5 <= 4 + n THEN (4 + n) - 5 + 1 ELSE 0
          /\ \A i \in 1..((4 + n) - 5 + 1) : SubSeq(w, 5, 4 + n)[i] = w[5 + i - 1]
      BY <1>1, <2>2, SubSeqProperties
    <2> DEFINE s == SubSeq(w, 5, 4 + n)
    <2> HIDE DEF w, p, n, s
    <2>4. Len(s) = n /\ \A i \in 1..n : s[i] = w[4 + i]
      BY <1>1, <2>3 DEF s
    <2>5. s \in Seq(ToSet(w))
      BY <2>3 DEF s
    <2>6. DOMAIN s = 1..n /\ \A i \in 1..n : s[i] = p[i]
      BY <1>1, <1>2, <2>4, <2>5
    <2>7. s = [i \in 1..n |-> p[i]]
      BY <2>5, <2>6
    <2>8. p = [i \in 1..n |-> p[i]]
      BY <1>1
    <2> QED
      BY <2>7, <2>8 DEF s
  <1>4. w[1][2] = HeaderOf(e)
    BY <1>2 DEF Word
  <1>5. /\ HeaderOf(e).signed = Signed(e) /\ HeaderOf(e).hop_count = f.hop_count
        /\ HeaderOf(e).payload_len = n
    <2>1. n <= MaxPayload
      BY DEF Sendable, Fits, FromEvidence
    <2>2. MaxPayload \in Nat
      BY LoraAssumption DEF LoraAssumption
    <2> HIDE DEF n
    <2>3. AsByte(n, MaxPayload) = n
      BY <1>1, <2>1, <2>2, AsByteIs
    <2> QED
      BY <2>3 DEF HeaderOf, n
  <1>6. f.signature = IF Signed(e) THEN Word("signature", e.signature) ELSE NoSignature
    BY DEF FromEvidence, Signed
  <1>7. f = [evidence_id |-> f.evidence_id, observation_id |-> f.observation_id,
             source_id |-> f.source_id, hop_count |-> f.hop_count,
             payload |-> p, signature |-> f.signature]
    BY DEF FromEvidence
  <1> HIDE DEF w, p, n, f
  <1>8. (4 + n) + 1 = 5 + n
    BY <1>1
  <1>9. Decode(w) =
          IF Len(w) < 4 \/ Len(w) # (4 + n) + (IF Signed(e) THEN 1 ELSE 0)
          THEN << >>
          ELSE << [evidence_id    |-> w[2],
                   observation_id |-> w[3],
                   source_id      |-> w[4],
                   hop_count      |-> f.hop_count,
                   payload        |-> SubSeq(w, 5, 4 + n),
                   signature      |-> IF Signed(e) THEN w[(4 + n) + 1]
                                      ELSE NoSignature] >>
    BY <1>4, <1>5 DEF Decode
  <1>10. ~(Len(w) < 4 \/ Len(w) # (4 + n) + (IF Signed(e) THEN 1 ELSE 0))
    BY <1>1, <1>2
  <1>11. (IF Signed(e) THEN w[(4 + n) + 1] ELSE NoSignature) = f.signature
    BY <1>2, <1>6, <1>8
  <1> QED
    BY <1>2, <1>3, <1>7, <1>9, <1>10, <1>11 DEF w, f

(* A signature word of a frame is its evidence's signature, nothing else in *)
(* a frame looks like one.                                                  *)
LEMMA SignatureWords ==
    ASSUME NEW e \in Outgoing, NEW x \in ToSet(Wire(e)), x[1] = "signature"
    PROVE  Signed(e) /\ x = Word("signature", e.signature)
  <1> DEFINE n == Len(e.payload)
             w == Wire(e)
  <1>1. /\ n \in Nat /\ e.payload = [i \in 1..n |-> Word("byte", e.payload[i][2])]
    BY LoraLinkAssumption DEF LoraLinkAssumption
  <1>2. PICK k \in DOMAIN w : x = w[k]
    BY DEF ToSet
  <1>3. k \in 1..(4 + n + (IF Signed(e) THEN 1 ELSE 0))
    <2>1. w \in Seq(ToSet(w)) /\ Len(w) = 4 + n + (IF Signed(e) THEN 1 ELSE 0)
      BY WireIs
    <2>2. DOMAIN w = 1..Len(w)
      BY <2>1, InOwnSet
    <2> HIDE DEF w, n
    <2> QED
      BY <1>2, <2>1, <2>2
  <1>4. w[1][1] # "signature" /\ w[2][1] # "signature"
        /\ w[3][1] # "signature" /\ w[4][1] # "signature"
    <2>1. /\ w[1] = Word("header", HeaderOf(e))
          /\ w[2] = Word("id", e.evidence_id)
          /\ w[3] = Word("id", e.observation_id)
          /\ w[4] = Word("id", e.source_id)
      BY WireIs
    <2>2. \A x1, v : Word(x1, v)[1] = x1
      BY DEF Word
    <2> HIDE DEF w
    <2> QED
      BY <2>1, <2>2
  <1>5. \A i \in 1..n : w[4 + i][1] # "signature"
    <2> SUFFICES ASSUME NEW i \in 1..n PROVE e.payload[i][1] # "signature"
      BY WireIs
    <2>1. e.payload[i] = Word("byte", e.payload[i][2])
      BY <1>1
    <2> QED
      BY <2>1 DEF Word
  <1>6. k > 4
    BY <1>2, <1>3, <1>4, <1>1
  <1>7. ~(k <= 4 + n)
    <2>1. k <= 4 + n => k - 4 \in 1..n /\ 4 + (k - 4) = k
      BY <1>1, <1>3, <1>6
    <2> QED
      BY <1>2, <1>5, <2>1
  <1>8. Signed(e) /\ k = 5 + n
    <2>1. Signed(e) \in BOOLEAN
      BY DEF Signed
    <2> HIDE DEF n
    <2> QED
      BY <1>1, <1>3, <1>7, <2>1
  <1> QED
    BY <1>2, <1>8, WireIs

-----------------------------------------------------------------------------
(* A frame has words and hence fragments.                                   *)
LEMMA WireIsLong ==
    ASSUME NEW e \in Outgoing
    PROVE  /\ Wire(e) \in Seq(ToSet(Wire(e))) /\ Wire(e) # << >>
           /\ Total(Wire(e)) \in Nat \ {0}
  <1>1. Len(e.payload) \in Nat
    BY LoraLinkAssumption DEF LoraLinkAssumption
  <1>2. /\ Wire(e) \in Seq(ToSet(Wire(e)))
        /\ Len(Wire(e)) = 4 + Len(e.payload) + (IF Signed(e) THEN 1 ELSE 0)
    BY WireIs
  <1>3. (IF Signed(e) THEN 1 ELSE 0) \in 0..1
    OBVIOUS
  <1>4. \A a \in Nat, b \in 0..1 : 4 + a + b \in Nat \ {0}
    OBVIOUS
  <1>5. Len(Wire(e)) \in Nat \ {0}
    BY <1>1, <1>2, <1>3, <1>4
  <1> QED
    BY <1>2, <1>5, TotalBounds

(* The fragments of what was sent, one by one.                              *)
Fragment(s, k) ==
    [frame_id |-> s[1], index |-> k - 1, total |-> Total(Wire(s[2])),
     chunk |-> Chunk(Wire(s[2]), k)]

FragmentsOf(s) == {Fragment(s, k) : k \in 1..Total(Wire(s[2]))}

(* They are what fragment returns.                                          *)
LEMMA FragmentsAre ==
    ASSUME NEW s, s[2] \in Outgoing, Sendable(s[2])
    PROVE  ToSet(Fragments(Wire(s[2]), s[1])) = FragmentsOf(s)
  <1> DEFINE w == Wire(s[2])
             c == Fragments(w, s[1])
  <1>1. c = [k \in 1..Total(w) |-> Fragment(s, k)]
    <2>1. Total(w) \in Nat /\ Total(w) <= MaxFragments /\ MaxFragments \in Nat
      BY WireIsLong, LoraAssumption DEF LoraAssumption, Sendable, Fragmentable
    <2> HIDE DEF w
    <2>2. AsByte(Total(w), MaxFragments) = Total(w)
      BY <2>1, AsByteIs
    <2>3. ASSUME NEW k \in 1..Total(w) PROVE AsByte(k - 1, MaxFragments) = k - 1
      <3>1. k - 1 \in 0..MaxFragments
        BY <2>1
      <3> QED
        BY <2>1, <3>1, AsByteIs
    <2> QED
      BY <2>2, <2>3 DEF Fragments, Fragment, Chunk, Cut, w
  <1> HIDE DEF w, c
  <1>2. ToSet(c) = {Fragment(s, k) : k \in 1..Total(w)}
    BY <1>1 DEF ToSet
  <1> QED
    BY <1>2 DEF FragmentsOf, w, c

(* All that was heard was sent, whatever else was lost, repeated or         *)
(* reordered, and encode and fragment accepted it.                          *)
LoraInv ==
    /\ sent \subseteq FrameIds \X Outgoing
    /\ \A s \in sent : Sendable(s[2])
    /\ heard \in Seq(OnAir)

(* Nothing has been heard at first.                                         *)
LEMMA LoraInvInit == LinkInit => LoraInv
  BY DEF LinkInit, LoraInv

(* Sending puts more on the air; hearing takes from it.                     *)
LEMMA LoraInvStep == LoraInv /\ [LinkNext]_link => LoraInv'
  <1> SUFFICES ASSUME LoraInv, [LinkNext]_link PROVE LoraInv'
    OBVIOUS
  <1>1. ASSUME sent \subseteq sent' PROVE OnAir \subseteq OnAir'
    BY <1>1 DEF OnAir
  <1>2. ASSUME NEW e \in Outgoing, NEW id \in FrameIds, Send(e, id) PROVE LoraInv'
    <2>1. sent' = sent \cup {<<id, e>>} /\ heard' = heard /\ Sendable(e)
      BY <1>2 DEF Send, Sendable
    <2>2. OnAir \subseteq OnAir'
      BY <1>1, <2>1
    <2>3. heard \in Seq(OnAir')
      BY <2>2, SeqMonotonic DEF LoraInv
    <2> QED
      BY <2>1, <2>3 DEF LoraInv
  <1>3. ASSUME NEW f \in OnAir, Hear(f) PROVE LoraInv'
    <2>1. sent' = sent /\ heard' = Append(heard, f)
      BY <1>3 DEF Hear
    <2>2. OnAir' = OnAir
      BY <2>1 DEF OnAir
    <2>3. heard' \in Seq(OnAir)
      BY <2>1 DEF LoraInv
    <2> QED
      BY <2>1, <2>2, <2>3 DEF LoraInv
  <1>4. CASE UNCHANGED link
    BY <1>4 DEF link, LoraInv, OnAir
  <1> QED
    BY <1>2, <1>3, <1>4 DEF LinkNext

(* From both, in every reachable state.                                     *)
LEMMA HeardIsSent == LinkSpec => []LoraInv
  BY LoraInvInit, LoraInvStep, PTL DEF LinkSpec

(* What is on the air is a fragment of something sent.                      *)
LEMMA OnAirIs ==
    ASSUME LoraInv, NEW f \in OnAir
    PROVE  \E s \in sent : f \in FragmentsOf(s)
  BY FragmentsAre DEF OnAir, LoraInv

(* What reassemble has checked when it returns words.                       *)
LEMMA ReassembledWhen ==
    ASSUME Reassemble(heard) # << >>
    PROVE  LET n == heard[1].total IN
           /\ heard # << >>
           /\ \A k \in DOMAIN heard : /\ heard[k].frame_id = heard[1].frame_id
                                      /\ heard[k].total = n
           /\ \A i \in 0..(n - 1) : Slot(heard, i) # 0
           /\ Reassemble(heard)
                = << FlattenSeq([i \in 1..n |-> heard[Slot(heard, i - 1)].chunk]) >>
  BY DEF Reassemble

(* The words of all that was sent; reassemble returns no others, whichever  *)
(* frames its fragments are of.                                             *)
AirWords == UNION {ToSet(Wire(s[2])) : s \in sent}

(* Every chunk is made of such words, and so is what they are joined to.    *)
LEMMA ReassembledType ==
    ASSUME LoraInv, Reassemble(heard) # << >>
    PROVE  Reassemble(heard)[1] \in Seq(AirWords)
  <1> DEFINE n == heard[1].total
             c == [i \in 1..n |-> heard[Slot(heard, i - 1)].chunk]
  <1>1. /\ heard # << >>
        /\ \A i \in 0..(n - 1) : Slot(heard, i) # 0
        /\ Reassemble(heard) = << FlattenSeq(c) >>
    BY ReassembledWhen
  <1>2. heard \in Seq(OnAir) /\ sent \subseteq FrameIds \X Outgoing
    BY DEF LoraInv
  <1>3. ASSUME NEW f \in OnAir
        PROVE  f.total \in Nat \ {0} /\ f.chunk \in Seq(AirWords)
    <2>1. PICK s \in sent : f \in FragmentsOf(s)
      BY OnAirIs
    <2>2. PICK k \in 1..Total(Wire(s[2])) : f = Fragment(s, k)
      BY <2>1 DEF FragmentsOf
    <2>3. f.total = Total(Wire(s[2])) /\ f.chunk = Chunk(Wire(s[2]), k)
      BY <2>2 DEF Fragment
    <2>4. s[2] \in Outgoing
      BY <1>2
    <2>5. /\ Wire(s[2]) \in Seq(ToSet(Wire(s[2]))) /\ Wire(s[2]) # << >>
          /\ Total(Wire(s[2])) \in Nat \ {0}
      BY <2>4, WireIsLong
    <2>6. ToSet(Wire(s[2])) \subseteq AirWords
      BY DEF AirWords
    <2>7. Wire(s[2]) \in Seq(AirWords)
      BY <2>5, <2>6, SeqMonotonic
    <2> QED
      BY <2>3, <2>5, <2>7, ChunkType
  <1>4. heard[1] \in OnAir
    BY <1>1, <1>2
  <1>5. n \in Nat \ {0}
    BY <1>3, <1>4
  <1>6. ASSUME NEW i \in 1..n PROVE heard[Slot(heard, i - 1)].chunk \in Seq(AirWords)
    <2>1. i - 1 \in 0..(n - 1)
      BY <1>5
    <2>2. Slot(heard, i - 1) \in DOMAIN heard
      BY <1>1, <1>2, <2>1, SlotIs
    <2> QED
      BY <1>2, <1>3, <2>2
  <1> HIDE DEF n
  <1>7. Len(c) = n /\ \A i \in 1..n : c[i] \in Seq(AirWords)
    BY <1>5, <1>6
  <1> HIDE DEF c
  <1>8. FlattenSeq(c) \in Seq(AirWords)
    BY <1>5, <1>7, FlattenType
  <1> QED
    BY <1>1, <1>8

-----------------------------------------------------------------------------
(* Verification, spelled out.                                               *)
LEMMA VerifiedMeans ==
    ASSUME NEW e
    PROVE  Verified(e) <=>
             /\ e.evidence_id = Blake3(e.payload)
             /\ e.signature # NoSignature
             /\ e.signature
                  = Sign(e.source_id, <<"seven/evidence/v1", e.evidence_id, e.payload>>)
  <1>1. Verified(e) <=> Integral(e) /\ Authentic(e)
    BY DEF Verified, Verify
  <1> QED
    BY <1>1 DEF Integral, Authentic, SigningPreimage

(* The signature decode returns is none, or a word of its input.            *)
LEMMA DecodedSignature ==
    ASSUME NEW A, NEW w \in Seq(A), NEW k \in DOMAIN Decode(w)
    PROVE  Decode(w)[k].signature = NoSignature \/ Decode(w)[k].signature \in A
  <1> DEFINE h == w[1][2]
             end == 4 + h.payload_len
             f == [evidence_id    |-> w[2],
                   observation_id |-> w[3],
                   source_id      |-> w[4],
                   hop_count      |-> h.hop_count,
                   payload        |-> SubSeq(w, 5, end),
                   signature      |-> IF h.signed THEN w[end + 1] ELSE NoSignature]
             refused == Len(w) < 4 \/ Len(w) # end + (IF h.signed THEN 1 ELSE 0)
  <1>1. Decode(w) = IF refused THEN << >> ELSE << f >>
    BY DEF Decode
  <1>2. f.signature = IF h.signed THEN w[end + 1] ELSE NoSignature
    OBVIOUS
  <1>3. ~refused /\ h.signed => end + 1 = Len(w) /\ ~(Len(w) < 4)
    OBVIOUS
  <1> HIDE DEF f, refused, end, h
  <1>4. ~refused /\ k = 1 /\ Decode(w)[k] = f
    BY <1>1
  <1>5. ASSUME h.signed PROVE w[end + 1] \in A
    <2>1. end + 1 = Len(w) /\ Len(w) \in 1..Len(w)
      BY <1>3, <1>4, <1>5
    <2> QED
      BY <2>1
  <1> QED
    BY <1>2, <1>4, <1>5

(* Invariant 16 over LoRa: however frames with one id are mixed, a frame    *)
(* that decodes and verifies has the identity, payload and source of        *)
(* evidence that was sent. Its signature is a word of some frame that was   *)
(* sent, and a signature covers the rest.                                   *)
THEOREM VerifiedFramesWereSent == LinkSpec => []VerifiedFrameWasSent
  <1>1. LoraInv => VerifiedFrameWasSent
    <2> SUFFICES ASSUME LoraInv, NEW k \in DOMAIN Received,
                        Verified(Claimed(Received[k]))
                 PROVE  \E s \in sent :
                           /\ Verified(s[2])
                           /\ Claimed(FromEvidence(s[2])) = Claimed(Received[k])
      BY DEF VerifiedFrameWasSent
    <2> DEFINE f == Received[k]
               e == Claimed(f)
    <2>1. Reassemble(heard) # << >> /\ Received = Decode(Reassemble(heard)[1])
      BY DEF Received
    <2>2. f.signature = NoSignature \/ f.signature \in AirWords
      BY <2>1, ReassembledType, DecodedSignature
    <2>3. /\ e.evidence_id = Blake3(e.payload)
          /\ e.signature # NoSignature
          /\ e.signature
               = Sign(e.source_id, <<"seven/evidence/v1", e.evidence_id, e.payload>>)
      BY VerifiedMeans
    <2>4. e.signature = IF f.signature = NoSignature THEN NoSignature
                        ELSE IF f.signature[1] = "signature" THEN f.signature[2]
                        ELSE Sign("nobody", << >>)
      BY DEF Claimed
    <2>5. \A x, y : Sign("nobody", << >>) # Sign(x, <<"seven/evidence/v1", y, e.payload>>)
      BY DEF Sign
    <2> HIDE DEF e, f
    <2>6. /\ f.signature # NoSignature /\ f.signature[1] = "signature"
          /\ e.signature = f.signature[2]
      BY <2>3, <2>4, <2>5
    <2>7. PICK s \in sent : f.signature \in ToSet(Wire(s[2]))
      BY <2>2, <2>6 DEF AirWords
    <2> DEFINE o == s[2]
    <2>8. o \in Outgoing
      BY DEF LoraInv
    <2>9. Signed(o) /\ f.signature = Word("signature", o.signature)
      BY <2>6, <2>7, <2>8, SignatureWords
    <2>10. Verified(o) /\ Word("signature", o.signature) # NoSignature
      BY <2>8, <2>9, LoraLinkAssumption DEF LoraLinkAssumption, Signed
    <2>11. e.signature = o.signature
      BY <2>6, <2>9 DEF Word
    <2>12. o.signature
             = Sign(o.source_id, <<"seven/evidence/v1", o.evidence_id, o.payload>>)
      BY <2>10, VerifiedMeans
    <2>13. /\ e.source_id = o.source_id /\ e.evidence_id = o.evidence_id
           /\ e.payload = o.payload
      <3> HIDE DEF o
      <3> QED
        BY <2>3, <2>11, <2>12 DEF Sign
    <2>14. Claimed(FromEvidence(o)) =
             [evidence_id |-> o.evidence_id, payload |-> o.payload,
              source_id |-> o.source_id, signature |-> o.signature]
      <3>1. FromEvidence(o).signature = Word("signature", o.signature)
        BY <2>9 DEF FromEvidence, Signed
      <3>2. /\ FromEvidence(o).evidence_id = Word("id", o.evidence_id)
            /\ FromEvidence(o).source_id = Word("id", o.source_id)
            /\ FromEvidence(o).payload = o.payload
        BY DEF FromEvidence
      <3>3. \A x, v : Word(x, v)[1] = x /\ Word(x, v)[2] = v
        BY DEF Word
      <3> HIDE DEF o
      <3> QED
        BY <2>10, <3>1, <3>2, <3>3 DEF Claimed
    <2>15. e = [evidence_id |-> e.evidence_id, payload |-> e.payload,
                source_id |-> e.source_id, signature |-> e.signature]
      BY DEF e, Claimed
    <2>16. Claimed(FromEvidence(o)) = e
      BY <2>11, <2>13, <2>14, <2>15
    <2> QED
      BY <2>10, <2>16 DEF e, f
  <1> QED
    BY <1>1, HeardIsSent, PTL

-----------------------------------------------------------------------------
(* Every fragment of a frame and nothing else, in any order and number, is  *)
(* that frame.                                                              *)
LEMMA WholeFrameArrives ==
    ASSUME LoraInv, NEW s \in sent, ToSet(heard) = FragmentsOf(s)
    PROVE  Received = << FromEvidence(s[2]) >>
  <1> DEFINE w == Wire(s[2])
             n == Total(w)
             c == [i \in 1..heard[1].total |-> heard[Slot(heard, i - 1)].chunk]
  <1>1. s[2] \in Outgoing /\ Sendable(s[2]) /\ heard \in Seq(OnAir)
    BY DEF LoraInv
  <1>2. w \in Seq(ToSet(w)) /\ w # << >> /\ n \in Nat \ {0}
    BY <1>1, WireIsLong
  <1>3. Decode(w) = << FromEvidence(s[2]) >>
    BY <1>1, DecodeInverts
  <1>4. \A k \in DOMAIN heard :
           \E j \in 1..n : /\ heard[k].frame_id = s[1] /\ heard[k].total = n
                           /\ heard[k].index = j - 1
                           /\ heard[k].chunk = Chunk(w, j)
    <2> SUFFICES ASSUME NEW k \in DOMAIN heard
                 PROVE  \E j \in 1..n : /\ heard[k].frame_id = s[1]
                                        /\ heard[k].total = n
                                        /\ heard[k].index = j - 1
                                        /\ heard[k].chunk = Chunk(w, j)
      OBVIOUS
    <2>1. heard[k] \in FragmentsOf(s)
      BY DEF ToSet
    <2> QED
      BY <2>1 DEF FragmentsOf, Fragment
  <1>5. \A j \in 1..n : \E k \in DOMAIN heard : heard[k].index = j - 1
    <2> SUFFICES ASSUME NEW j \in 1..n
                 PROVE  \E k \in DOMAIN heard : heard[k].index = j - 1
      OBVIOUS
    <2>1. Fragment(s, j) \in ToSet(heard)
      BY DEF FragmentsOf
    <2>2. PICK k \in DOMAIN heard : heard[k] = Fragment(s, j)
      BY <2>1 DEF ToSet
    <2> QED
      BY <2>2 DEF Fragment
  <1>6. FlattenSeq([j \in 1..n |-> Chunk(w, j)]) = w
    BY <1>2, ChunksJoin
  <1> HIDE DEF w, n
  <1>7. 1 \in 1..n
    BY <1>2
  <1>8. 1 \in DOMAIN heard /\ heard # << >>
    BY <1>1, <1>5, <1>7
  <1>9. heard[1].total = n /\ heard[1].frame_id = s[1]
    BY <1>4, <1>8
  <1>10. \A k \in DOMAIN heard : ~(\/ heard[k].frame_id # heard[1].frame_id
                                   \/ heard[k].total # heard[1].total
                                   \/ heard[k].index >= heard[1].total)
    <2> SUFFICES ASSUME NEW k \in DOMAIN heard
                 PROVE  ~(\/ heard[k].frame_id # s[1] \/ heard[k].total # n
                          \/ heard[k].index >= n)
      BY <1>9
    <2>1. PICK j \in 1..n : /\ heard[k].frame_id = s[1] /\ heard[k].total = n
                            /\ heard[k].index = j - 1
      BY <1>4
    <2>2. ~(j - 1 >= n)
      BY <1>2
    <2> QED
      BY <2>1, <2>2
  <1>11. ASSUME NEW j \in 1..n
         PROVE  Slot(heard, j - 1) # 0 /\ heard[Slot(heard, j - 1)].chunk = Chunk(w, j)
    <2>1. Slot(heard, j - 1) # 0
      BY <1>1, <1>5, SlotIs
    <2>2. /\ Slot(heard, j - 1) \in DOMAIN heard
          /\ heard[Slot(heard, j - 1)].index = j - 1
      BY <1>1, <2>1, SlotIs
    <2>3. PICK m \in 1..n : /\ heard[Slot(heard, j - 1)].index = m - 1
                            /\ heard[Slot(heard, j - 1)].chunk = Chunk(w, m)
      BY <1>4, <2>2
    <2>4. m = j
      BY <1>2, <2>2, <2>3
    <2> QED
      BY <2>1, <2>3, <2>4
  <1>12. \A i \in 0..(n - 1) : Slot(heard, i) # 0
    <2> SUFFICES ASSUME NEW i \in 0..(n - 1) PROVE Slot(heard, i) # 0
      OBVIOUS
    <2>1. i + 1 \in 1..n /\ (i + 1) - 1 = i
      BY <1>2
    <2> QED
      BY <1>11, <2>1
  <1>13. c = [j \in 1..n |-> Chunk(w, j)]
    BY <1>9, <1>11
  <1>14. Reassemble(heard) = << FlattenSeq(c) >>
    BY <1>8, <1>9, <1>10, <1>12 DEF Reassemble
  <1> HIDE DEF c
  <1>15. Reassemble(heard) = << w >>
    BY <1>6, <1>13, <1>14
  <1> QED
    BY <1>3, <1>15 DEF Received, w

(* While no id is shared, reassemble returns words only of a frame of which *)
(* every fragment was heard.                                                *)
LEMMA FrameIsWhole ==
    ASSUME LoraInv, \A s, t \in sent : s[1] = t[1] => s = t,
           Reassemble(heard) # << >>
    PROVE  \E s \in sent : ToSet(heard) = FragmentsOf(s)
  <1>1. /\ heard # << >>
        /\ \A k \in DOMAIN heard : /\ heard[k].frame_id = heard[1].frame_id
                                   /\ heard[k].total = heard[1].total
        /\ \A i \in 0..(heard[1].total - 1) : Slot(heard, i) # 0
    BY ReassembledWhen
  <1>2. heard \in Seq(OnAir) /\ sent \subseteq FrameIds \X Outgoing
    BY DEF LoraInv
  <1>3. 1 \in DOMAIN heard /\ \A k \in DOMAIN heard : heard[k] \in OnAir
    BY <1>1, <1>2
  <1>4. PICK s \in sent : heard[1] \in FragmentsOf(s)
    BY <1>3, OnAirIs
  <1>5. \A t : \A f \in FragmentsOf(t) : f.frame_id = t[1] /\ f.total = Total(Wire(t[2]))
    BY DEF FragmentsOf, Fragment
  <1>6. ASSUME NEW k \in DOMAIN heard PROVE heard[k] \in FragmentsOf(s)
    <2>1. PICK t \in sent : heard[k] \in FragmentsOf(t)
      BY <1>3, OnAirIs
    <2>2. t[1] = s[1]
      BY <1>1, <1>4, <1>5, <2>1
    <2> QED
      BY <2>1, <2>2
  <1>7. ASSUME NEW j \in 1..Total(Wire(s[2])) PROVE Fragment(s, j) \in ToSet(heard)
    <2>1. Total(Wire(s[2])) \in Nat \ {0} /\ heard[1].total = Total(Wire(s[2]))
      BY <1>2, <1>4, <1>5, WireIsLong
    <2>2. j - 1 \in 0..(heard[1].total - 1)
      BY <2>1
    <2> DEFINE k == Slot(heard, j - 1)
    <2>3. k \in DOMAIN heard /\ heard[k].index = j - 1
      BY <1>1, <1>2, <2>2, SlotIs
    <2> HIDE DEF k
    <2>4. PICK m \in 1..Total(Wire(s[2])) : heard[k] = Fragment(s, m)
      BY <1>6, <2>3 DEF FragmentsOf
    <2>5. heard[k].index = m - 1
      BY <2>4 DEF Fragment
    <2>6. m = j
      BY <2>1, <2>3, <2>5
    <2> QED
      BY <2>3, <2>4, <2>6 DEF ToSet
  <1> QED
    BY <1>6, <1>7 DEF FragmentsOf, ToSet

(* from_evidence summarises its evidence.                                   *)
LEMMA SummaryOfFrame ==
    ASSUME NEW e \in Outgoing
    PROVE  Summarises(FromEvidence(e), e)
  <1>1. Len(e.provenance) \in Nat /\ MaxHops \in Nat
    BY LoraAssumption, LoraLinkAssumption DEF LoraAssumption, LoraLinkAssumption
  <1> QED
    BY <1>1 DEF Summarises, FromEvidence

(* Invariant 12 over LoRa: while no id is shared, reassemble and decode     *)
(* return a frame exactly when the list holds every fragment of one frame   *)
(* and nothing else, and then it is the frame sent, hop count included.     *)
THEOREM FramesComeWhole == LinkSpec => []FrameOrNothing
  <1>1. LoraInv => FrameOrNothing
    <2> SUFFICES ASSUME LoraInv, \A s, t \in sent : s[1] = t[1] => s = t
                 PROVE  LET whole == {s \in sent :
                               ToSet(heard) = ToSet(Fragments(Wire(s[2]), s[1]))}
                        IN  IF whole = {} THEN Received = << >>
                            ELSE /\ Len(Received) = 1
                                 /\ \A s \in whole : Summarises(Received[1], s[2])
      BY DEF FrameOrNothing
    <2> DEFINE whole == {s \in sent :
                            ToSet(heard) = ToSet(Fragments(Wire(s[2]), s[1]))}
    <2>1. whole = {s \in sent : ToSet(heard) = FragmentsOf(s)}
      BY FragmentsAre DEF LoraInv
    <2>2. whole = {} => Reassemble(heard) = << >>
      BY <2>1, FrameIsWhole
    <2>3. Reassemble(heard) = << >> => Received = << >>
      BY DEF Received
    <2>4. ASSUME NEW s \in whole
          PROVE  Len(Received) = 1 /\ Summarises(Received[1], s[2])
      <3>1. Received = << FromEvidence(s[2]) >>
        BY <2>1, WholeFrameArrives
      <3>2. Summarises(FromEvidence(s[2]), s[2])
        BY SummaryOfFrame DEF LoraInv
      <3> QED
        BY <3>1, <3>2
    <2> QED
      BY <2>2, <2>3, <2>4
  <1> QED
    BY <1>1, HeardIsSent, PTL

-----------------------------------------------------------------------------
(* One more chunk is one more joined.                                       *)
LEMMA FlattenGrows ==
    ASSUME NEW c, NEW d, NEW n \in Nat \ {0}, Len(d) = n, Len(c) = n + 1,
           \A k \in 1..n : d[k] = c[k]
    PROVE  FlattenSeq(c) = FlattenSeq(d) \o c[n + 1]
  <1>1. PICK g : /\ FlattenSeq(c) = g[n + 1]
                 /\ g[1] = c[1]
                 /\ \A k \in 2..(n + 1) : g[k] = g[k - 1] \o c[k]
    BY FlattenJoins, n + 1 \in Nat \ {0}
  <1>2. PICK h : /\ FlattenSeq(d) = h[n]
                 /\ h[1] = d[1]
                 /\ \A k \in 2..n : h[k] = h[k - 1] \o d[k]
    BY FlattenJoins
  <1> DEFINE Bad == {k \in 1..n : h[k] # g[k]}
  <1>3. Bad = {}
    <2> SUFFICES ASSUME Bad # {} PROVE FALSE
      OBVIOUS
    <2>1. Bad \in SUBSET Nat
      OBVIOUS
    <2> HIDE DEF Bad
    <2>2. PICK k \in Bad : \A j \in Bad : k <= j
      BY <2>1, LeastNatural
    <2>3. k \in 1..n /\ h[k] # g[k]
      BY <2>2 DEF Bad
    <2>4. k # 1
      BY <1>1, <1>2, <2>3
    <2>5. k \in 2..n /\ k \in 2..(n + 1) /\ k - 1 \in 1..n /\ ~(k <= k - 1)
      BY <2>3, <2>4
    <2>6. h[k - 1] = g[k - 1]
      BY <2>2, <2>5 DEF Bad
    <2> QED
      BY <1>1, <1>2, <2>3, <2>5, <2>6, ZenonT(30)
  <1>4. n \in 1..n /\ n + 1 \in 2..(n + 1) /\ (n + 1) - 1 = n
    OBVIOUS
  <1>5. h[n] = g[n]
    BY <1>3, <1>4
  <1>6. g[n + 1] = g[n] \o c[n + 1]
    BY <1>1, <1>4
  <1> QED
    BY <1>1, <1>2, <1>5, <1>6

-----------------------------------------------------------------------------
(* What a stream opens with, the frames of the first k messages, where the  *)
(* next one begins, and how many messages are written before one too long.  *)
Opening(job) == IF job.kind = "batch" THEN <<Len(job.messages)>> ELSE << >>

Frames(job, k) == FlattenSeq([i \in 1..k |-> Frame(job.messages[i])])

Offset(job, k) == Len(Opening(job)) + Len(Frames(job, k))

Ready(job) ==
    LET tooLong == SelectInSeq(job.messages, LAMBDA m : ~Encodable(m))
    IN  IF tooLong = 0 THEN Len(job.messages) ELSE tooLong - 1

(* A body is not empty and opens with a brace; a frame is its length and it. *)
LEMMA BodyFacts ==
    ASSUME NEW m \in Messages
    PROVE  /\ BodyOf[m] \in Seq(Nat) /\ Len(BodyOf[m]) \in Nat \ {0}
           /\ BodyOf[m][1] = Brace
           /\ Frame(m) \in Seq(Nat) /\ Len(Frame(m)) = 1 + Len(BodyOf[m])
           /\ Frame(m)[1] = Len(BodyOf[m])
           /\ \A i \in 1..Len(BodyOf[m]) : Frame(m)[1 + i] = BodyOf[m][i]
           /\ Parsed(BodyOf[m]) = {m}
  <1>1. BodyOf[m] \in Seq(0..255) /\ BodyOf[m] # << >> /\ BodyOf[m][1] = Brace
    BY FrameAssumption
  <1>2. BodyOf[m] \in Seq(Nat) /\ Len(BodyOf[m]) \in Nat \ {0}
    <2>1. 0..255 \subseteq Nat
      OBVIOUS
    <2>2. BodyOf[m] \in Seq(Nat)
      BY <1>1, <2>1, SeqMonotonic
    <2>3. Len(BodyOf[m]) \in Nat /\ Len(BodyOf[m]) # 0
      BY <1>1, <2>2, EmptySeq, LenProperties
    <2> QED
      BY <2>2, <2>3
  <1>3. Parsed(BodyOf[m]) = {m}
    BY FrameAssumption DEF Parsed, IsInjective
  <1>4. <<Len(BodyOf[m])>> \in Seq(Nat)
    BY <1>2
  <1> QED
    BY <1>1, <1>2, <1>3, <1>4 DEF Frame

(* Everything up to the first message too long is written.                  *)
LEMMA ReadyIs ==
    ASSUME NEW job, IsJob(job)
    PROVE  /\ Ready(job) \in 0..Len(job.messages)
           /\ \A i \in 1..Ready(job) : Encodable(job.messages[i])
           /\ Ready(job) = Len(job.messages) <=> Completes(job)
           /\ Script(job) = Opening(job) \o Frames(job, Ready(job))
  <1> DEFINE ms == job.messages
             tooLong == SelectInSeq(ms, LAMBDA m : ~Encodable(m))
             I == {i \in 1..Len(ms) : ~Encodable(ms[i])}
             written == IF tooLong = 0 THEN ms ELSE SubSeq(ms, 1, tooLong - 1)
  <1>1. ms \in Seq(Messages) /\ Len(ms) \in Nat /\ DOMAIN ms = 1..Len(ms)
    BY LenProperties DEF IsJob
  <1>2. tooLong = IF I # {} THEN Min(I) ELSE 0
    BY DEF SelectInSeq
  <1>3. I # {} => Min(I) \in I /\ \A i \in I : Min(I) <= i
    <2>1. I \in SUBSET Nat
      BY <1>1
    <2>2. I # {} => \E x \in I : \A y \in I : x <= y
      <3> HIDE DEF I
      <3> QED
        BY <2>1, LeastNatural
    <2> QED
      BY <2>2 DEF Min
  <1>4. Ready(job) = IF tooLong = 0 THEN Len(ms) ELSE tooLong - 1
    BY DEF Ready
  <1> HIDE DEF tooLong
  <1>5. Ready(job) \in 0..Len(ms)
    BY <1>1, <1>2, <1>3, <1>4
  <1>6. \A i \in 1..Ready(job) : Encodable(ms[i])
    <2> SUFFICES ASSUME NEW i \in 1..Ready(job), i \in I PROVE FALSE
      BY <1>1, <1>5
    <2>1. I # {} /\ Min(I) <= i /\ tooLong = Min(I)
      BY <1>2, <1>3
    <2>2. tooLong \in Nat \ {0}
      BY <1>1, <1>3, <2>1
    <2>3. Ready(job) = tooLong - 1
      BY <1>4, <2>2
    <2> HIDE DEF I
    <2> QED
      BY <2>1, <2>2, <2>3
  <1>7. Ready(job) = Len(ms) <=> Completes(job)
    BY <1>1, <1>2, <1>3, <1>4, SMTT(30) DEF Completes
  <1>8. written \in Seq(Messages) /\ DOMAIN written = 1..Ready(job)
        /\ \A i \in 1..Ready(job) : written[i] = ms[i]
    <2>1. CASE tooLong = 0
      BY <2>1, <1>1, <1>4
    <2>2. CASE tooLong # 0
      BY <2>2, <1>1, <1>4, <1>5, SubSeqProperties
    <2> QED
      BY <2>1, <2>2
  <1>9. [i \in DOMAIN written |-> Frame(written[i])] = [i \in 1..Ready(job) |-> Frame(ms[i])]
    <2> HIDE DEF written
    <2> QED
      BY <1>8
  <1>10. Script(job) = Opening(job) \o FlattenSeq([i \in DOMAIN written |-> Frame(written[i])])
    BY DEF Script, Opening, tooLong
  <1> QED
    BY <1>5, <1>6, <1>7, <1>9, <1>10 DEF Frames

(* The frames of k messages and one more.                                   *)
LEMMA NoFrames ==
    ASSUME NEW job
    PROVE  Frames(job, 0) = << >>
  BY DEF Frames, FlattenSeq

(* One more message is one more frame.                                      *)
LEMMA FramesGrow ==
    ASSUME NEW job, IsJob(job), NEW k \in 0..(Len(job.messages) - 1)
    PROVE  /\ job.messages[k + 1] \in Messages
           /\ Frames(job, k + 1) = Frames(job, k) \o Frame(job.messages[k + 1])
  <1> DEFINE c(n) == [i \in 1..n |-> Frame(job.messages[i])]
  <1>1. \A n \in Nat : Len(c(n)) = n
    OBVIOUS
  <1>2. job.messages[k + 1] \in Messages /\ k \in Nat
    BY LenProperties, ElementOfSeq DEF IsJob
  <1>3. CASE k = 0
    <2>1. Len(c(1)) = 1 /\ c(1)[1] = Frame(job.messages[1]) /\ 1 \in Nat \ {0}
      OBVIOUS
    <2> HIDE DEF c
    <2>2. PICK g : FlattenSeq(c(1)) = g[1] /\ g[1] = c(1)[1]
      BY <2>1, FlattenJoins
    <2>3. Frames(job, 1) = Frame(job.messages[1])
      BY <2>1, <2>2 DEF Frames, c
    <2>4. Frame(job.messages[1]) \in Seq(Nat)
      BY <1>2, <1>3, BodyFacts
    <2> QED
      BY <1>2, <1>3, <2>3, <2>4, NoFrames, ConcatEmptySeq
  <1>4. CASE k # 0
    <2>1. k \in Nat \ {0} /\ Len(c(k)) = k /\ Len(c(k + 1)) = k + 1
      BY <1>1, <1>2, <1>4
    <2>2. \A i \in 1..k : c(k)[i] = c(k + 1)[i]
      BY <1>2
    <2>3. c(k + 1)[k + 1] = Frame(job.messages[k + 1])
      BY <1>2
    <2> HIDE DEF c
    <2>4. FlattenSeq(c(k + 1)) = FlattenSeq(c(k)) \o c(k + 1)[k + 1]
      BY <2>1, <2>2, FlattenGrows
    <2> QED
      BY <1>2, <2>3, <2>4 DEF Frames, c
  <1> QED
    BY <1>2, <1>3, <1>4

(* Concatenation of bytes, element by element.                              *)
LEMMA Concat ==
    \A a, b \in Seq(Nat) :
        /\ a \o b \in Seq(Nat)
        /\ Len(a) \in Nat /\ Len(b) \in Nat
        /\ Len(a \o b) = Len(a) + Len(b)
        /\ \A i \in 1..Len(a) : (a \o b)[i] = a[i]
        /\ \A i \in 1..Len(b) : (a \o b)[Len(a) + i] = b[i]
  <1> SUFFICES ASSUME NEW a \in Seq(Nat), NEW b \in Seq(Nat)
               PROVE  /\ a \o b \in Seq(Nat)
                      /\ Len(a) \in Nat /\ Len(b) \in Nat
                      /\ Len(a \o b) = Len(a) + Len(b)
                      /\ \A i \in 1..Len(a) : (a \o b)[i] = a[i]
                      /\ \A i \in 1..Len(b) : (a \o b)[Len(a) + i] = b[i]
    OBVIOUS
  <1>1. Len(a) \in Nat /\ Len(b) \in Nat
    BY LenProperties
  <1>2. a \o b \in Seq(Nat) /\ Len(a \o b) = Len(a) + Len(b)
    BY ConcatProperties
  <1>3. \A i \in 1..(Len(a) + Len(b)) :
          (a \o b)[i] = IF i <= Len(a) THEN a[i] ELSE b[i - Len(a)]
    BY ConcatProperties
  <1>4. \A i \in 1..Len(a) : (a \o b)[i] = a[i]
    BY <1>1, <1>3
  <1>5. ASSUME NEW i \in 1..Len(b) PROVE (a \o b)[Len(a) + i] = b[i]
    <2>1. Len(a) + i \in 1..(Len(a) + Len(b)) /\ ~(Len(a) + i <= Len(a))
          /\ (Len(a) + i) - Len(a) = i
      BY <1>1
    <2> QED
      BY <1>3, <2>1
  <1> QED
    BY <1>1, <1>2, <1>4, <1>5

(* Joining three lists does not depend on where one starts.                 *)
LEMMA Associative ==
    \A a, b, c \in Seq(Nat) : (a \o b) \o c = a \o (b \o c)
  BY ConcatAssociative, SMTT(30)

(* Frames are natural numbers, and those of fewer messages come first.      *)
FramesTo(job, k) ==
    /\ Frames(job, k) \in Seq(Nat)
    /\ \A j \in 0..k : \E rest \in Seq(Nat) : Frames(job, k) = Frames(job, j) \o rest

(* By the least number of messages for which it would fail.                 *)
LEMMA FramesAreAPrefix ==
    ASSUME NEW job, IsJob(job), NEW n \in 0..Len(job.messages)
    PROVE  FramesTo(job, n)
  <1> DEFINE Bad == {k \in 0..Len(job.messages) : ~FramesTo(job, k)}
  <1> SUFFICES ASSUME Bad # {} PROVE FALSE
    OBVIOUS
  <1>1. Bad \in SUBSET Nat
    OBVIOUS
  <1>2. Len(job.messages) \in Nat
    BY LenProperties DEF IsJob
  <1> HIDE DEF Bad
  <1>3. PICK k \in Bad : \A j \in Bad : k <= j
    BY <1>1, LeastNatural
  <1>4. k \in 0..Len(job.messages) /\ ~FramesTo(job, k)
    BY <1>3 DEF Bad
  <1>5. k # 0
    <2>1. << >> \in Seq(Nat) /\ << >> \o << >> = << >>
      BY EmptySeq, ConcatEmptySeq
    <2>2. FramesTo(job, 0)
      <3> SUFFICES ASSUME NEW j \in 0..0 PROVE \E rest \in Seq(Nat) : << >> = Frames(job, j) \o rest
        BY <2>1, NoFrames DEF FramesTo
      <3>1. j = 0
        OBVIOUS
      <3> QED
        BY <2>1, <3>1, NoFrames
    <2> QED
      BY <1>4, <2>2
  <1> DEFINE p == k - 1
             f == Frame(job.messages[k])
  <1>6. p \in 0..(Len(job.messages) - 1) /\ p \in 0..Len(job.messages) /\ p + 1 = k /\ ~(k <= p)
    BY <1>2, <1>4, <1>5
  <1>7. FramesTo(job, p)
    BY <1>3, <1>6 DEF Bad
  <1>8. job.messages[k] \in Messages /\ Frames(job, k) = Frames(job, p) \o f
    BY <1>6, FramesGrow
  <1>9. f \in Seq(Nat)
    BY <1>8, BodyFacts
  <1>10. Frames(job, p) \in Seq(Nat) /\ Frames(job, k) \in Seq(Nat)
    BY <1>7, <1>8, <1>9, ConcatProperties DEF FramesTo
  <1>11. ASSUME NEW j \in 0..k
         PROVE  \E rest \in Seq(Nat) : Frames(job, k) = Frames(job, j) \o rest
    <2>1. CASE j = k
      BY <1>10, <2>1, EmptySeq, ConcatEmptySeq
    <2>2. CASE j # k
      <3>1. j \in 0..p /\ j \in 0..Len(job.messages) /\ ~(k <= j)
        BY <1>2, <1>4, <2>2
      <3>2. PICK rest \in Seq(Nat) : Frames(job, p) = Frames(job, j) \o rest
        BY <1>7, <3>1 DEF FramesTo
      <3>3. FramesTo(job, j)
        BY <1>3, <3>1 DEF Bad
      <3>4. Frames(job, j) \in Seq(Nat)
        BY <3>3 DEF FramesTo
      <3> HIDE DEF f, p
      <3>5. (Frames(job, j) \o rest) \o f = Frames(job, j) \o (rest \o f)
        BY <1>9, <3>4, Associative
      <3>6. Frames(job, k) = Frames(job, j) \o (rest \o f)
        BY <1>8, <3>2, <3>5
      <3> QED
        BY <1>9, <3>6, Concat
    <2> QED
      BY <2>1, <2>2
  <1> QED
    BY <1>4, <1>10, <1>11 DEF FramesTo

(* A batch opens with its count, a single message with nothing.             *)
LEMMA OpeningIs ==
    ASSUME NEW job, IsJob(job)
    PROVE  /\ Opening(job) \in Seq(Nat)
           /\ job.kind = "batch" => Len(Opening(job)) = 1 /\ Opening(job)[1] = Len(job.messages)
           /\ job.kind = "single" => Len(Opening(job)) = 0
  <1>1. Len(job.messages) \in Nat
    BY LenProperties DEF IsJob
  <1>2. <<Len(job.messages)>> \in Seq(Nat) /\ << >> \in Seq(Nat)
    BY <1>1
  <1> QED
    BY <1>1, <1>2 DEF Opening

(* The bytes of a script: the opening, and frame k + 1 at its offset.       *)
LEMMA ScriptIs ==
    ASSUME NEW job, IsJob(job)
    PROVE  /\ Script(job) \in Seq(Nat)
           /\ Len(Script(job)) = Offset(job, Ready(job))
           /\ Offset(job, 0) = Len(Opening(job))
           /\ \A k \in 0..Ready(job) : Offset(job, k) \in Nat /\ Offset(job, k) <= Len(Script(job))
           /\ job.kind = "batch" => Script(job)[1] = Len(job.messages)
  <1>1. /\ Ready(job) \in 0..Len(job.messages)
        /\ Script(job) = Opening(job) \o Frames(job, Ready(job))
    BY ReadyIs
  <1>2. FramesTo(job, Ready(job))
    BY <1>1, FramesAreAPrefix
  <1>3. Opening(job) \in Seq(Nat) /\ Frames(job, Ready(job)) \in Seq(Nat)
    BY <1>2, OpeningIs DEF FramesTo
  <1>4. Script(job) \in Seq(Nat) /\ Len(Script(job)) = Offset(job, Ready(job))
    BY <1>1, <1>3, ConcatProperties DEF Offset
  <1>5. Offset(job, 0) = Len(Opening(job))
    BY <1>3, NoFrames, LenProperties, EmptySeq DEF Offset
  <1>6. ASSUME NEW k \in 0..Ready(job)
        PROVE  Offset(job, k) \in Nat /\ Offset(job, k) <= Len(Script(job))
    <2>1. PICK rest \in Seq(Nat) : Frames(job, Ready(job)) = Frames(job, k) \o rest
      BY <1>2 DEF FramesTo
    <2>2. FramesTo(job, k)
      BY <1>1, FramesAreAPrefix
    <2>3. Frames(job, k) \in Seq(Nat) /\ Len(Frames(job, k)) \in Nat
      BY <2>2, LenProperties DEF FramesTo
    <2>4. Len(Frames(job, Ready(job))) = Len(Frames(job, k)) + Len(rest) /\ Len(rest) \in Nat
      BY <2>1, <2>3, ConcatProperties, LenProperties
    <2>5. Len(Opening(job)) \in Nat
      BY <1>3, LenProperties
    <2> QED
      BY <1>4, <2>3, <2>4, <2>5 DEF Offset
  <1>7. ASSUME job.kind = "batch" PROVE Script(job)[1] = Len(job.messages)
    <2>1. Len(Opening(job)) = 1 /\ Opening(job)[1] = Len(job.messages)
      BY <1>7, OpeningIs
    <2>2. 1 \in 1..Len(Opening(job))
      BY <2>1
    <2> QED
      BY <1>1, <1>3, <2>1, <2>2, Concat
  <1> QED
    BY <1>4, <1>5, <1>6, <1>7

(* Frame k + 1 stands at its offset: its length, then its body.             *)
LEMMA FrameAt ==
    ASSUME NEW job, IsJob(job), NEW k \in Nat, k < Ready(job)
    PROVE  LET m == job.messages[k + 1]
               off == Offset(job, k)
           IN  /\ m \in Messages /\ Encodable(m)
               /\ off \in Nat
               /\ Offset(job, k + 1) = off + 1 + Len(BodyOf[m])
               /\ off + 1 + Len(BodyOf[m]) <= Len(Script(job))
               /\ Script(job)[off + 1] = Len(BodyOf[m])
               /\ \A i \in 1..Len(BodyOf[m]) : Script(job)[off + 1 + i] = BodyOf[m][i]
  <1> DEFINE m == job.messages[k + 1]
             off == Offset(job, k)
             a == Opening(job)
             b == Frames(job, k)
  <1>1. /\ Ready(job) \in 0..Len(job.messages) /\ Len(job.messages) \in Nat
        /\ Script(job) = a \o Frames(job, Ready(job))
        /\ \A i \in 1..Ready(job) : Encodable(job.messages[i])
    BY ReadyIs, LenProperties DEF IsJob
  <1>2. /\ k \in 0..(Len(job.messages) - 1)
        /\ k \in 0..Len(job.messages) /\ k + 1 \in 0..Len(job.messages)
        /\ k + 1 \in 1..Ready(job) /\ k + 1 \in 0..Ready(job)
        /\ k \in 0..Ready(job)
    BY <1>1
  <1>3. m \in Messages /\ Encodable(m) /\ Frames(job, k + 1) = b \o Frame(m)
    BY <1>1, <1>2, FramesGrow
  <1>4. FramesTo(job, Ready(job)) /\ FramesTo(job, k)
    BY <1>1, <1>2, FramesAreAPrefix
  <1>5. PICK rest \in Seq(Nat) : Frames(job, Ready(job)) = Frames(job, k + 1) \o rest
    BY <1>2, <1>4 DEF FramesTo
  <1>6. a \in Seq(Nat) /\ b \in Seq(Nat)
    BY <1>4, OpeningIs DEF FramesTo
  <1> DEFINE f == Frame(m)
  <1>7. f \in Seq(Nat) /\ Len(f) = 1 + Len(BodyOf[m]) /\ Len(BodyOf[m]) \in Nat
        /\ f[1] = Len(BodyOf[m]) /\ \A i \in 1..Len(BodyOf[m]) : f[1 + i] = BodyOf[m][i]
    BY <1>3, BodyFacts
  <1> HIDE DEF f, a, b, m
  <1>8. Script(job) = a \o ((b \o f) \o rest)
    BY <1>1, <1>3, <1>5 DEF f
  <1> DEFINE bf == b \o f
             tail == bf \o rest
  <1>9. bf \in Seq(Nat) /\ Len(bf) = Len(b) + Len(f) /\ Len(b) \in Nat /\ Len(f) \in Nat
    BY <1>6, <1>7, Concat
  <1>10. \A i \in 1..Len(f) : bf[Len(b) + i] = f[i]
    BY <1>6, <1>7, Concat
  <1> HIDE DEF bf
  <1>11. /\ tail \in Seq(Nat) /\ Len(tail) = Len(bf) + Len(rest) /\ Len(rest) \in Nat
         /\ \A i \in 1..Len(bf) : tail[i] = bf[i]
    BY <1>9, Concat
  <1> HIDE DEF tail
  <1>12. /\ Script(job) = a \o tail
         /\ Len(Script(job)) = Len(a) + Len(tail) /\ Len(a) \in Nat
         /\ \A i \in 1..Len(tail) : Script(job)[Len(a) + i] = tail[i]
    BY <1>6, <1>8, <1>11, Concat DEF tail, bf
  <1>13. off = Len(a) + Len(b)
    BY DEF Offset, a, b
  <1>14. Offset(job, k + 1) = off + Len(f)
    <2>1. Frames(job, k + 1) = bf
      BY <1>3 DEF bf, f
    <2>2. Offset(job, k + 1) = Len(a) + Len(bf)
      BY <2>1 DEF Offset, a
    <2> QED
      BY <1>9, <1>12, <1>13, <2>2
  <1> HIDE DEF off
  <1>15. ASSUME NEW i \in 1..Len(f) PROVE Script(job)[off + i] = f[i]
    <2>0. /\ Len(bf) = Len(b) + Len(f) /\ Len(b) \in Nat /\ Len(f) \in Nat
          /\ Len(tail) = Len(bf) + Len(rest) /\ Len(rest) \in Nat /\ Len(a) \in Nat
      BY <1>9, <1>11, <1>12
    <2>1. Len(b) + i \in 1..Len(bf) /\ Len(b) + i \in 1..Len(tail)
          /\ Len(a) + (Len(b) + i) = off + i
      BY <2>0, <1>13
    <2> QED
      BY <1>10, <1>11, <1>12, <2>1
  <1>16. off \in Nat /\ Len(Script(job)) \in Nat /\ off + Len(f) <= Len(Script(job))
    BY <1>9, <1>11, <1>12, <1>13
  <1>17. Script(job)[off + 1] = Len(BodyOf[m])
    <2>1. 1 \in 1..Len(f)
      BY <1>7
    <2> QED
      BY <1>7, <1>15, <2>1
  <1>18. ASSUME NEW i \in 1..Len(BodyOf[m]) PROVE Script(job)[off + 1 + i] = BodyOf[m][i]
    <2>1. 1 + i \in 1..Len(f) /\ off + (1 + i) = off + 1 + i
      BY <1>7, <1>16
    <2> QED
      BY <1>7, <1>15, <2>1
  <1>19. Len(f) = 1 + Len(BodyOf[m]) /\ Len(BodyOf[m]) \in Nat
    BY <1>7
  <1>20. Offset(job, k + 1) = off + 1 + Len(BodyOf[m]) /\ off + 1 + Len(BodyOf[m]) <= Len(Script(job))
    <2> DEFINE size == Len(BodyOf[m])
    <2> HIDE DEF size
    <2>1. Len(f) = 1 + size /\ size \in Nat
      BY <1>19 DEF size
    <2>2. off + Len(f) = off + 1 + size
      BY <1>16, <2>1
    <2>3. Offset(job, k + 1) = off + 1 + size /\ off + 1 + size <= Len(Script(job))
      BY <1>14, <1>16, <2>2
    <2> QED
      BY <2>3 DEF size
  <1> QED
    BY <1>3, <1>16, <1>17, <1>18, <1>20 DEF m, off

-----------------------------------------------------------------------------
(* A stream, and the bytes of it that have arrived.                         *)
Stream == [by : Tasks, script : Seq(Nat), written : Nat, finished : BOOLEAN,
           arrived : Nat]

Bytes(st) == SubSeq(st.script, 1, Min({st.arrived, st.written}))

Here(st) == IF st.arrived <= st.written THEN st.arrived ELSE st.written

(* The stream of a job.                                                     *)
Carries(st, job) ==
    /\ IsJob(job)
    /\ job.kind = "single" => Completes(job)
    /\ st \in Stream /\ st.script = Script(job)
    /\ st.written <= Len(st.script)
    /\ st.arrived <= st.written + 1
    /\ st.arrived > st.written => st.finished

(* What has arrived of a stream is the front of its script.                 *)
LEMMA BytesAre ==
    ASSUME NEW st \in Stream, st.written <= Len(st.script)
    PROVE  /\ Bytes(st) \in Seq(Nat)
           /\ Here(st) \in Nat /\ Len(Bytes(st)) = Here(st)
           /\ Here(st) <= Len(st.script) /\ Len(st.script) \in Nat
           /\ \A i \in 1..Here(st) : Bytes(st)[i] = st.script[i]
  <1>1. st.script \in Seq(Nat) /\ st.arrived \in Nat /\ st.written \in Nat
    BY DEF Stream
  <1>2. Len(st.script) \in Nat /\ \A i \in 1..Len(st.script) : st.script[i] \in Nat
    BY <1>1, LenProperties, ElementOfSeq
  <1>3. Min({st.arrived, st.written}) = Here(st)
    <2>1. /\ Here(st) \in {st.arrived, st.written}
          /\ \A y \in {st.arrived, st.written} : Here(st) <= y
          /\ \A x \in {st.arrived, st.written} :
                (\A y \in {st.arrived, st.written} : x <= y) => x = Here(st)
      BY <1>1 DEF Here
    <2> QED
      BY <2>1 DEF Min
  <1>4. Here(st) \in Nat /\ Here(st) <= Len(st.script)
    BY <1>1, <1>2 DEF Here
  <1>5. \A i \in 1..Here(st) : st.script[i] \in Nat
    BY <1>2, <1>4
  <1>6. /\ SubSeq(st.script, 1, Here(st)) \in Seq(Nat)
        /\ Len(SubSeq(st.script, 1, Here(st))) = IF 1 <= Here(st) THEN Here(st) - 1 + 1 ELSE 0
        /\ \A i \in 1..(Here(st) - 1 + 1) : SubSeq(st.script, 1, Here(st))[i] = st.script[1 + i - 1]
    BY <1>4, <1>5, SubSeqProperties
  <1>7. Bytes(st) = SubSeq(st.script, 1, Here(st))
    BY <1>3 DEF Bytes
  <1> HIDE DEF Bytes
  <1>8. ASSUME NEW i \in 1..Here(st) PROVE Bytes(st)[i] = st.script[i]
    <2>1. i \in 1..(Here(st) - 1 + 1) /\ 1 + i - 1 = i
      BY <1>4
    <2> QED
      BY <1>6, <1>7, <2>1
  <1> QED
    BY <1>2, <1>4, <1>6, <1>7, <1>8

(* A unit that has arrived is what the script says there.                   *)
LEMMA UnitIs ==
    ASSUME NEW st \in Stream, st.written <= Len(st.script),
           NEW a \in Nat, NEW n \in Nat, a + n <= Here(st)
    PROVE  /\ SubSeq(Bytes(st), a + 1, a + n) \in Seq(Nat)
           /\ Len(SubSeq(Bytes(st), a + 1, a + n)) = n
           /\ \A i \in 1..n : SubSeq(Bytes(st), a + 1, a + n)[i] = st.script[a + i]
           /\ \A i \in 1..n : st.script[a + i] \in Nat
  <1>1. /\ Bytes(st) \in Seq(Nat) /\ Here(st) \in Nat
        /\ Here(st) <= Len(st.script) /\ Len(st.script) \in Nat
        /\ Len(Bytes(st)) = Here(st)
        /\ \A i \in 1..Here(st) : Bytes(st)[i] = st.script[i]
    BY BytesAre
  <1> DEFINE b == Bytes(st)
             u == SubSeq(b, a + 1, a + n)
             h == Here(st)
  <1>2. b \in Seq(Nat) /\ h \in Nat /\ Len(b) = h /\ a + n <= h
        /\ \A i \in 1..h : b[i] = st.script[i]
    BY <1>1
  <1> HIDE DEF b, h
  <1>3. \A i \in (a + 1)..(a + n) : b[i] \in Nat
    <2>1. \A i \in 1..Len(b) : b[i] \in Nat
      BY <1>2, ElementOfSeq
    <2> QED
      BY <1>2, <2>1
  <1>4. /\ u \in Seq(Nat)
        /\ Len(u) = IF a + 1 <= a + n THEN (a + n) - (a + 1) + 1 ELSE 0
        /\ \A i \in 1..((a + n) - (a + 1) + 1) : u[i] = b[(a + 1) + i - 1]
    <2>1. a + 1 \in Int /\ a + n \in Int
      OBVIOUS
    <2> QED
      BY <1>3, <2>1, SubSeqProperties
  <1> HIDE DEF u
  <1>5. Len(u) = n
    BY <1>4
  <1>6. ASSUME NEW i \in 1..n PROVE u[i] = st.script[a + i] /\ st.script[a + i] \in Nat
    <2>1. i \in 1..((a + n) - (a + 1) + 1) /\ (a + 1) + i - 1 = a + i /\ a + i \in 1..h
          /\ a + i \in (a + 1)..(a + n)
      BY <1>2
    <2> QED
      BY <1>2, <1>3, <1>4, <2>1
  <1> QED
    BY <1>4, <1>5, <1>6 DEF u, b

(* What decode_frame says of the bytes from one of them on.                 *)
LEMMA DecodeAt ==
    ASSUME NEW b \in Seq(Nat), NEW from \in Nat \ {0}
    PROVE  LET body == SubSeq(b, from + 1, from + b[from])
           IN  DecodeFrame(SubSeq(b, from, Len(b))) =
                 IF Len(b) < from THEN <<"more">>
                 ELSE IF ~WithinLimit(b[from]) THEN <<"error">>
                 ELSE IF Len(b) < from + b[from] THEN <<"more">>
                 ELSE IF Parsed(body) = {} THEN <<"error">>
                 ELSE <<"message", CHOOSE m \in Parsed(body) : TRUE>>
  <1> DEFINE h == Len(b)
             f == SubSeq(b, from, h)
             len == b[from]
  <1>1. h \in Nat /\ \A i \in 1..h : b[i] \in Nat
    BY LenProperties, ElementOfSeq
  <1>2. /\ f \in Seq(Nat)
        /\ Len(f) = IF from <= h THEN h - from + 1 ELSE 0
        /\ \A i \in 1..(h - from + 1) : f[i] = b[from + i - 1]
    <2>1. \A i \in from..h : b[i] \in Nat
      BY <1>1
    <2> HIDE DEF h
    <2> QED
      BY <1>1, <2>1, SubSeqProperties
  <1> HIDE DEF h, f
  <1>3. CASE h < from
    <2>1. f = << >>
      BY <1>1, <1>2, <1>3, EmptySeq
    <2> QED
      BY <1>3, <2>1 DEF DecodeFrame, f, h
  <1>4. CASE from <= h
    <2>1. Len(f) = h - from + 1 /\ f # << >> /\ len \in Nat /\ ~(h < from)
      BY <1>1, <1>2, <1>4
    <2>2. f[1] = len
      <3>1. 1 \in 1..(h - from + 1) /\ from + 1 - 1 = from
        BY <1>1, <1>4
      <3> QED
        BY <1>2, <3>1
    <2> HIDE DEF len
    <2>3. Len(f) < 1 + len <=> h < from + len
      BY <1>1, <2>1
    <2>4. ASSUME ~(h < from + len)
          PROVE  SubSeq(f, 2, 1 + len) = SubSeq(b, from + 1, from + len)
      <3> DEFINE u == SubSeq(f, 2, 1 + len)
                 v == SubSeq(b, from + 1, from + len)
      <3>1. /\ u \in Seq(Nat) /\ Len(u) = len
            /\ \A i \in 1..len : u[i] = f[1 + i]
        <4>1. \A i \in 2..(1 + len) : f[i] \in Nat
          <5>1. \A i \in 2..(1 + len) : i \in 1..Len(f)
            BY <1>1, <2>1, <2>4
          <5> QED
            BY <1>2, <5>1, ElementOfSeq
        <4>2. /\ u \in Seq(Nat) /\ Len(u) = IF 2 <= 1 + len THEN (1 + len) - 2 + 1 ELSE 0
              /\ \A i \in 1..((1 + len) - 2 + 1) : u[i] = f[2 + i - 1]
          BY <2>1, <4>1, SubSeqProperties
        <4> HIDE DEF u
        <4> QED
          BY <2>1, <4>2
      <3>2. /\ v \in Seq(Nat) /\ Len(v) = len
            /\ \A i \in 1..len : v[i] = b[from + i]
        <4>1. \A i \in (from + 1)..(from + len) : b[i] \in Nat
          BY <1>1, <2>1, <2>4
        <4>2. /\ v \in Seq(Nat)
              /\ Len(v) = IF from + 1 <= from + len THEN (from + len) - (from + 1) + 1 ELSE 0
              /\ \A i \in 1..((from + len) - (from + 1) + 1) : v[i] = b[(from + 1) + i - 1]
          BY <2>1, <4>1, SubSeqProperties
        <4> HIDE DEF v
        <4>3. Len(v) = len
          BY <2>1, <4>2
        <4>4. ASSUME NEW i \in 1..len PROVE v[i] = b[from + i]
          <5>1. i \in 1..((from + len) - (from + 1) + 1) /\ (from + 1) + i - 1 = from + i
            BY <2>1
          <5> QED
            BY <4>2, <5>1
        <4> QED
          BY <4>2, <4>3, <4>4
      <3>3. ASSUME NEW i \in 1..len PROVE f[1 + i] = b[from + i]
        <4>1. 1 + i \in 1..(h - from + 1) /\ from + (1 + i) - 1 = from + i
          BY <1>1, <2>1, <2>4
        <4> QED
          BY <1>2, <4>1
      <3> HIDE DEF u, v
      <3>4. \A i \in 1..Len(u) : u[i] = v[i]
        BY <3>1, <3>2, <3>3
      <3>5. u = v
        BY <3>1, <3>2, <3>4, SeqEqual
      <3> QED
        BY <3>5 DEF u, v
    <2>5. DecodeFrame(f) =
            IF ~WithinLimit(len) THEN <<"error">>
            ELSE IF Len(f) < 1 + len THEN <<"more">>
            ELSE IF Parsed(SubSeq(f, 2, 1 + len)) = {} THEN <<"error">>
            ELSE <<"message", CHOOSE m \in Parsed(SubSeq(f, 2, 1 + len)) : TRUE>>
      BY <2>1, <2>2 DEF DecodeFrame
    <2> QED
      BY <2>1, <2>3, <2>4, <2>5 DEF f, h, len
  <1> QED
    BY <1>1, <1>3, <1>4

-----------------------------------------------------------------------------
(* What a receiver knows at each of its states.  It called the function the *)
(* sender did: it stands between two frames, or before a body, and has the  *)
(* messages up to there.                                                    *)
TooLong(job) ==
    \E i \in DOMAIN job.messages :
        Len(BodyOf[job.messages[i]]) > Min({SendMax, RecvMax})

InStep(me, job) ==
    /\ Len(me.out) < Len(job.messages) /\ Len(me.out) <= Ready(job)
    /\ me.out = SubSeq(job.messages, 1, Len(me.out))
    /\ me.left = Len(job.messages) - Len(me.out)

Matched(me, job, cl) ==
    /\ me.state = "count" =>
          job.kind = "batch" /\ me.start = 0 /\ me.need = 1 /\ me.out = << >>
    /\ me.state = "length" =>
          InStep(me, job) /\ me.start = Offset(job, Len(me.out)) /\ me.need = 1
    /\ me.state = "body" =>
          /\ InStep(me, job) /\ Len(me.out) < Ready(job)
          /\ me.start = Offset(job, Len(me.out)) + 1
          /\ me.need = Len(BodyOf[job.messages[Len(me.out) + 1]])
          /\ WithinLimit(me.need)
    /\ me.state = "Ok" => me.out = job.messages
    /\ me.state = "Err" => cl \/ TooLong(job)

(* It called the other one: it never gets to the end.                       *)
Crossed(me, kind) ==
    /\ me.state # "Ok"
    /\ kind = "batch" =>
          /\ me.state # "body"
          /\ me.state = "count" => me.start = 0 /\ me.need = 1
          /\ me.state = "length" => me.start = 1 /\ me.need = 1

(* No further byte arrives.                                                 *)
Over(st, cl) == cl \/ (st.finished /\ st.arrived > st.written)

(* recv_message is at the one frame of its stream, whatever the sender      *)
(* called.                                                                  *)
Decoding(me, st) ==
    /\ me.state # "count"
    /\ me.state \in {"length", "body"} => me.left = 1 /\ me.out = << >>
    /\ me.state = "length" => me.start = 0 /\ me.need = 1
    /\ me.state = "body" =>
          me.start = 1 /\ Here(st) >= 1 /\ me.need = st.script[1] /\ WithinLimit(me.need)

Parsing(me, kind, job, st, cl) ==
    /\ me.state \in Reading \cup Done
    /\ kind = job.kind => Matched(me, job, cl)
    /\ kind # job.kind => Crossed(me, kind)
    /\ kind = "single" => Decoding(me, st)

Receiving == [state : {"ready"} \cup Reading \cup Done, stream : Nat, start : Nat,
              need : Nat, left : Int, out : Seq(Messages)]

(* What a call is given.                                                    *)
LEMMA JobFacts ==
    ASSUME NEW job, IsJob(job)
    PROVE  /\ job.messages \in Seq(Messages)
           /\ Len(job.messages) \in Nat /\ DOMAIN job.messages = 1..Len(job.messages)
           /\ \A i \in 1..Len(job.messages) : job.messages[i] \in Messages
           /\ job.kind \in {"single", "batch"}
           /\ job.kind = "single" => Len(job.messages) = 1
  BY LenProperties, ElementOfSeq DEF IsJob

(* The limits of both sides, below what a body opens with.                  *)
LEMMA LimitFacts ==
    /\ SendMax \in Nat /\ RecvMax \in Nat /\ Brace \in Nat
    /\ SendMax < Brace /\ RecvMax < Brace
  <1>1. SendMax \in 0..(Brace - 1) /\ RecvMax \in 0..(Brace - 1)
    BY FrameAssumption
  <1> QED
    BY <1>1 DEF Brace

(* A frame whose body is longer than the receiver's limit, or the sender's. *)
LEMMA TooLongIs ==
    ASSUME NEW job, IsJob(job), NEW i \in 1..Len(job.messages),
           \/ ~Encodable(job.messages[i])
           \/ ~WithinLimit(Len(BodyOf[job.messages[i]]))
    PROVE  TooLong(job)
  <1>1. SendMax \in Nat /\ RecvMax \in Nat
    BY LimitFacts
  <1>2. Min({SendMax, RecvMax}) \in Nat /\ Min({SendMax, RecvMax}) <= SendMax
        /\ Min({SendMax, RecvMax}) <= RecvMax
    <2>1. \E x \in {SendMax, RecvMax} : \A y \in {SendMax, RecvMax} : x <= y
      BY <1>1
    <2> QED
      BY <1>1, <2>1 DEF Min
  <1>3. Len(BodyOf[job.messages[i]]) \in Nat
    BY JobFacts, BodyFacts
  <1> DEFINE len == Len(BodyOf[job.messages[i]])
             min == Min({SendMax, RecvMax})
  <1> HIDE DEF min
  <1>4. len > min
    <2> HIDE DEF len
    <2>1. len \in Nat /\ min \in Nat /\ min <= SendMax /\ min <= RecvMax
      BY <1>2, <1>3 DEF min, len
    <2>2. ~(len <= SendMax) \/ ~(len <= RecvMax)
      BY DEF len, Encodable, WithinLimit
    <2> QED
      BY <1>1, <2>1, <2>2
  <1> QED
    BY <1>4, JobFacts DEF TooLong, min

(* The frame a receiver that is in step comes to, if there is one.          *)
LEMMA NextFrame ==
    ASSUME NEW st, NEW job, Carries(st, job), NEW k \in Nat, k < Ready(job)
    PROVE  /\ k + 1 \in 1..Len(job.messages)
           /\ job.messages[k + 1] \in Messages /\ Encodable(job.messages[k + 1])
           /\ Len(BodyOf[job.messages[k + 1]]) \in Nat \ {0}
           /\ Offset(job, k) \in Nat
           /\ Offset(job, k + 1) = Offset(job, k) + 1 + Len(BodyOf[job.messages[k + 1]])
           /\ Offset(job, k) + 1 + Len(BodyOf[job.messages[k + 1]]) <= Len(st.script)
           /\ st.script[Offset(job, k) + 1] = Len(BodyOf[job.messages[k + 1]])
           /\ \A i \in 1..Len(BodyOf[job.messages[k + 1]]) :
                 st.script[Offset(job, k) + 1 + i] = BodyOf[job.messages[k + 1]][i]
  <1>1. IsJob(job) /\ st.script = Script(job)
    BY DEF Carries
  <1>2. Ready(job) \in 0..Len(job.messages) /\ Len(job.messages) \in Nat
    BY <1>1, ReadyIs, JobFacts
  <1>3. k + 1 \in 1..Len(job.messages)
    BY <1>2
  <1>4. job.messages[k + 1] \in Messages
    BY <1>1, <1>3, JobFacts
  <1>5. Len(BodyOf[job.messages[k + 1]]) \in Nat \ {0}
    BY <1>4, BodyFacts
  <1> QED
    BY <1>1, <1>3, <1>4, <1>5, FrameAt

(* A receiver that has read the count knows where it stands ...             *)
LEMMA ReadsCount ==
    ASSUME NEW me \in Receiving, NEW kind \in {"single", "batch"}, NEW job, NEW st, NEW cl, NEW next,
           Carries(st, job), Parsing(me, kind, job, st, cl),
           me.state = "count", Here(st) >= me.start + me.need,
           next.state = IF st.script[me.start + 1] = 0 THEN "Ok" ELSE "length",
           next.left = st.script[me.start + 1], next.start = me.start + me.need,
           next.need = me.need, next.out = me.out
    PROVE  Parsing(next, kind, job, st, cl)
  <1>1. kind = "batch"
    BY DEF Parsing, Decoding
  <1>2. IsJob(job) /\ st.script = Script(job) /\ Len(job.messages) \in Nat
    BY JobFacts DEF Carries
  <1>3. CASE job.kind = "batch"
    <2>1. me.start = 0 /\ me.need = 1 /\ me.out = << >>
      BY <1>1, <1>3 DEF Parsing, Matched
    <2>2. st.script[1] = Len(job.messages) /\ Offset(job, 0) = 1
      BY <1>2, <1>3, ScriptIs, OpeningIs
    <2>3. /\ next.state = IF Len(job.messages) = 0 THEN "Ok" ELSE "length"
          /\ next.left = Len(job.messages) /\ next.start = 1 /\ next.need = 1
          /\ next.out = << >> /\ Len(next.out) = 0
      BY <2>1, <2>2
    <2>4. SubSeq(job.messages, 1, 0) = << >> /\ (Len(job.messages) = 0 => job.messages = << >>)
      BY <1>2, SubSeqEmpty, EmptySeq DEF IsJob
    <2>5. Ready(job) \in Nat
      BY <1>2, ReadyIs
    <2>6. Matched(next, job, cl)
      BY <1>2, <1>3, <2>2, <2>3, <2>4, <2>5 DEF Matched, InStep
    <2> QED
      BY <1>1, <1>3, <2>3, <2>6 DEF Parsing, Reading, Done
  <1>4. CASE job.kind = "single"
    <2>1. me.start = 0 /\ me.need = 1
      BY <1>1, <1>4 DEF Parsing, Crossed
    <2>2. Ready(job) = 1
      BY <1>2, <1>4, ReadyIs, JobFacts DEF Carries
    <2>3. Offset(job, 0) = 0
      BY <1>2, <1>4, ScriptIs, OpeningIs
    <2>4. /\ st.script[Offset(job, 0) + 1] = Len(BodyOf[job.messages[0 + 1]])
          /\ Len(BodyOf[job.messages[0 + 1]]) \in Nat \ {0}
      BY <2>2, NextFrame
    <2>5. next.state = "length" /\ next.start = 1 /\ next.need = 1
      BY <2>1, <2>3, <2>4
    <2> QED
      BY <1>1, <1>4, <2>5 DEF Parsing, Crossed, Reading, Done
  <1> QED
    BY <1>2, <1>3, <1>4, JobFacts

(* What has arrived is no more than was written.                            *)
LEMMA CarriedBytes ==
    ASSUME NEW st, NEW job, Carries(st, job)
    PROVE  /\ IsJob(job) /\ st.script = Script(job) /\ st \in Stream
           /\ st.written <= Len(st.script)
           /\ Here(st) \in Nat /\ Here(st) <= Len(st.script)
           /\ Len(st.script) = Offset(job, Ready(job)) /\ Len(st.script) \in Nat
           /\ Ready(job) \in 0..Len(job.messages) /\ Len(job.messages) \in Nat
           /\ \A k \in 0..Ready(job) : Offset(job, k) \in Nat
  <1>1. IsJob(job) /\ st.script = Script(job) /\ st \in Stream /\ st.written <= Len(st.script)
    BY DEF Carries
  <1> QED
    BY <1>1, BytesAre, ScriptIs, ReadyIs, JobFacts

(* ... and so does one that has read a length.                              *)
LEMMA ReadsLength ==
    ASSUME NEW me \in Receiving, NEW kind \in {"single", "batch"}, NEW job, NEW st, NEW cl, NEW next,
           Carries(st, job), Parsing(me, kind, job, st, cl),
           me.state = "length", Here(st) >= me.start + me.need,
           next.state = IF WithinLimit(st.script[me.start + 1]) THEN "body" ELSE "Err",
           next.left = me.left, next.start = me.start + me.need,
           next.need = IF WithinLimit(st.script[me.start + 1]) THEN st.script[me.start + 1]
                       ELSE me.need,
           next.out = me.out
    PROVE  Parsing(next, kind, job, st, cl)
  <1> DEFINE k == Len(me.out)
  <1>1. /\ IsJob(job) /\ st.script = Script(job) /\ st \in Stream
        /\ st.written <= Len(st.script)
        /\ Here(st) \in Nat /\ Here(st) <= Len(st.script)
        /\ Len(st.script) = Offset(job, Ready(job)) /\ Len(st.script) \in Nat
        /\ Ready(job) \in 0..Len(job.messages) /\ Len(job.messages) \in Nat
        /\ \A i \in 0..Ready(job) : Offset(job, i) \in Nat
    BY CarriedBytes
  <1>2. next.state \in Reading \cup Done
    BY DEF Reading, Done
  <1>3. k \in Nat
    BY LenProperties DEF Receiving
  <1>4. ASSUME kind = job.kind PROVE Matched(next, job, cl)
    <2>1. InStep(me, job) /\ me.start = Offset(job, k) /\ me.need = 1
      BY <1>4 DEF Parsing, Matched
    <2>2. k <= Ready(job) /\ k \in 0..Ready(job)
      BY <1>1, <1>3, <2>1 DEF InStep
    <2>3. k # Ready(job)
      BY <1>1, <2>1, <2>2
    <2>4. k < Ready(job)
      BY <1>1, <1>3, <2>2, <2>3
    <2>5. /\ k + 1 \in 1..Len(job.messages)
          /\ st.script[me.start + 1] = Len(BodyOf[job.messages[k + 1]])
      BY <1>3, <2>1, <2>4, NextFrame, SMTT(30)
    <2>6. CASE WithinLimit(st.script[me.start + 1])
      <3>1. /\ next.state = "body" /\ next.left = me.left /\ next.out = me.out
            /\ next.start = Offset(job, k) + 1
            /\ next.need = Len(BodyOf[job.messages[k + 1]]) /\ WithinLimit(next.need)
        BY <2>1, <2>5, <2>6
      <3>2. InStep(next, job)
        BY <2>1, <3>1 DEF InStep
      <3> QED
        BY <2>4, <3>1, <3>2 DEF Matched
    <2>7. CASE ~WithinLimit(st.script[me.start + 1])
      <3>1. TooLong(job)
        BY <1>1, <2>5, <2>7, TooLongIs
      <3> QED
        BY <2>7, <3>1 DEF Matched
    <2> QED
      BY <2>6, <2>7
  <1>5. ASSUME kind # job.kind PROVE Crossed(next, kind)
    <2>1. CASE kind = "batch"
      <3>1. job.kind = "single" /\ me.start = 1 /\ me.need = 1
        BY <1>1, <1>5, <2>1, JobFacts DEF Parsing, Crossed
      <3>2. Ready(job) = 1
        BY <1>1, <3>1, ReadyIs, JobFacts DEF Carries
      <3>3. Offset(job, 0) = 0
        BY <1>1, <3>1, ScriptIs, OpeningIs
      <3>4. /\ job.messages[0 + 1] \in Messages
            /\ \A i \in 1..Len(BodyOf[job.messages[0 + 1]]) :
                 st.script[Offset(job, 0) + 1 + i] = BodyOf[job.messages[0 + 1]][i]
        BY <3>2, NextFrame
      <3>5. BodyOf[job.messages[1]][1] = Brace /\ 1 \in 1..Len(BodyOf[job.messages[1]])
        BY <3>4, BodyFacts
      <3>6. st.script[me.start + 1] = Brace
        BY <3>1, <3>3, <3>4, <3>5
      <3>7. next.state = "Err"
        BY <3>6, LimitFacts DEF WithinLimit
      <3> QED
        BY <3>7 DEF Crossed
    <2>2. CASE kind # "batch"
      BY <2>2 DEF Crossed
    <2> QED
      BY <2>1, <2>2
  <1>6. ASSUME kind = "single" PROVE Decoding(next, st)
    <2>1. me.left = 1 /\ me.out = << >> /\ me.start = 0 /\ me.need = 1
      BY <1>6 DEF Parsing, Decoding
    <2>2. Here(st) >= 1
      BY <1>1, <2>1
    <2>3. CASE WithinLimit(st.script[1])
      BY <2>1, <2>2, <2>3 DEF Decoding
    <2>4. CASE ~WithinLimit(st.script[1])
      BY <2>1, <2>4 DEF Decoding
    <2> QED
      BY <2>3, <2>4
  <1> QED
    BY <1>2, <1>4, <1>5, <1>6 DEF Parsing

(* A batch read as one message is refused: the bytes after its count are a  *)
(* length, below Brace, and no body opens with less than Brace.             *)
LEMMA NoFrameInABatch ==
    ASSUME NEW st, NEW job, Carries(st, job), job.kind = "batch",
           Here(st) >= 1 + st.script[1], st.script[1] \in Nat
    PROVE  Parsed(SubSeq(Bytes(st), 1 + 1, 1 + st.script[1])) = {}
  <1> DEFINE c == st.script[1]
             u == SubSeq(Bytes(st), 1 + 1, 1 + c)
  <1>1. /\ IsJob(job) /\ st.script = Script(job) /\ st \in Stream
        /\ st.written <= Len(st.script)
        /\ Here(st) \in Nat /\ Here(st) <= Len(st.script)
        /\ Len(st.script) = Offset(job, Ready(job)) /\ Len(st.script) \in Nat
        /\ Ready(job) \in 0..Len(job.messages) /\ Len(job.messages) \in Nat
    BY CarriedBytes
  <1>2. /\ u \in Seq(Nat) /\ Len(u) = c
        /\ \A i \in 1..c : u[i] = st.script[1 + i]
    <2>1. c \in Nat /\ 1 \in Nat /\ 1 + c <= Here(st)
      BY <1>1
    <2> HIDE DEF c
    <2> DEFINE v(a) == SubSeq(Bytes(st), a + 1, a + c)
    <2>2. \A a \in Nat : a + c <= Here(st) =>
             /\ v(a) \in Seq(Nat) /\ Len(v(a)) = c
             /\ \A i \in 1..c : v(a)[i] = st.script[a + i]
      BY <1>1, <2>1, UnitIs, ZenonT(30)
    <2>3. u = v(1)
      OBVIOUS
    <2> HIDE DEF u, v
    <2> QED
      BY <2>1, <2>2, <2>3
  <1> SUFFICES ASSUME NEW m \in Messages, BodyOf[m] = u PROVE FALSE
    BY DEF Parsed
  <1>3. u[1] = Brace /\ c \in Nat \ {0}
    BY <1>2, BodyFacts
  <1>4. Offset(job, 0) = 1
    BY <1>1, ScriptIs, OpeningIs
  <1>5. Ready(job) # 0
    BY <1>1, <1>3, <1>4
  <1>6. 0 \in Nat /\ 0 < Ready(job)
    BY <1>1, <1>5
  <1>7. /\ job.messages[0 + 1] \in Messages /\ Encodable(job.messages[0 + 1])
        /\ st.script[Offset(job, 0) + 1] = Len(BodyOf[job.messages[0 + 1]])
    BY <1>6, NextFrame
  <1>8. u[1] = Len(BodyOf[job.messages[1]])
    BY <1>2, <1>3, <1>4, <1>7
  <1>9. Len(BodyOf[job.messages[1]]) < Brace
    <2> DEFINE len == Len(BodyOf[job.messages[1]])
    <2>1. len \in Nat
      BY <1>7, BodyFacts
    <2>2. len <= SendMax
      BY <1>7 DEF Encodable
    <2> HIDE DEF len
    <2>3. len < Brace
      BY <2>1, <2>2, LimitFacts
    <2> QED
      BY <2>3 DEF len
  <1>10. ~(Brace < Brace)
    BY LimitFacts
  <1> QED
    BY <1>3, <1>8, <1>9, <1>10

(* The first messages of a job.                                             *)
LEMMA FrontIs ==
    ASSUME NEW s \in Seq(Messages), NEW n \in 0..Len(s)
    PROVE  /\ SubSeq(s, 1, n) \in Seq(Messages) /\ Len(SubSeq(s, 1, n)) = n
           /\ \A i \in 1..n : SubSeq(s, 1, n)[i] = s[i]
  <1>1. Len(s) \in Nat /\ n \in Nat /\ 1 \in Int /\ n \in Int
    BY LenProperties
  <1>2. \A i \in 1..n : s[i] \in Messages
    <2>1. \A i \in 1..n : i \in 1..Len(s)
      BY <1>1
    <2> QED
      BY <2>1, ElementOfSeq
  <1> DEFINE f == SubSeq(s, 1, n)
  <1>3. /\ f \in Seq(Messages)
        /\ Len(f) = IF 1 <= n THEN n - 1 + 1 ELSE 0
        /\ \A i \in 1..(n - 1 + 1) : f[i] = s[1 + i - 1]
    BY <1>1, <1>2, SubSeqProperties
  <1> HIDE DEF f
  <1>4. Len(f) = n
    BY <1>1, <1>3
  <1>5. ASSUME NEW i \in 1..n PROVE f[i] = s[i]
    <2>1. i \in 1..(n - 1 + 1) /\ 1 + i - 1 = i
      BY <1>1
    <2> QED
      BY <1>3, <2>1
  <1> QED
    BY <1>3, <1>4, <1>5 DEF f

(* A receiver that has a whole body.                                        *)
LEMMA ReadsBody ==
    ASSUME NEW me \in Receiving, NEW kind \in {"single", "batch"}, NEW job, NEW st, NEW cl, NEW next,
           Carries(st, job), Parsing(me, kind, job, st, cl),
           me.state = "body", Here(st) >= me.start + me.need,
           NEW u, u = SubSeq(Bytes(st), me.start + 1, me.start + me.need),
           next.start = me.start + me.need,
           Parsed(u) = {} => next.state = "Err",
           Parsed(u) # {} =>
              /\ next.out = Append(me.out, CHOOSE m \in Parsed(u) : TRUE)
              /\ next.left = me.left - 1 /\ next.need = 1
              /\ next.state = IF me.left = 1 THEN "Ok" ELSE "length"
    PROVE  Parsing(next, kind, job, st, cl)
  <1> DEFINE k == Len(me.out)
  <1>1. /\ IsJob(job) /\ st.script = Script(job) /\ st \in Stream
        /\ st.written <= Len(st.script)
        /\ Here(st) \in Nat /\ Here(st) <= Len(st.script)
        /\ Len(st.script) = Offset(job, Ready(job)) /\ Len(st.script) \in Nat
        /\ Ready(job) \in 0..Len(job.messages) /\ Len(job.messages) \in Nat
    BY CarriedBytes
  <1>2. next.state \in Reading \cup Done
    BY DEF Reading, Done
  <1>3. k \in Nat /\ me.out \in Seq(Messages) /\ me.start \in Nat /\ me.need \in Nat
    BY LenProperties DEF Receiving
  <1>4. ASSUME kind = job.kind PROVE Matched(next, job, cl)
    <2> DEFINE m == job.messages[k + 1]
    <2>1. /\ InStep(me, job) /\ k < Ready(job) /\ me.start = Offset(job, k) + 1
          /\ me.need = Len(BodyOf[m])
      BY <1>4 DEF Parsing, Matched
    <2>2. /\ k + 1 \in 1..Len(job.messages)
          /\ m \in Messages
          /\ Offset(job, k) \in Nat
          /\ Offset(job, k + 1) = Offset(job, k) + 1 + Len(BodyOf[m])
          /\ \A i \in 1..Len(BodyOf[m]) :
                 st.script[Offset(job, k) + 1 + i] = BodyOf[m][i]
      <3>1. k \in Nat /\ k < Ready(job)
        BY <1>3, <2>1
      <3> HIDE DEF k
      <3> QED
        BY <3>1, NextFrame
    <2>3. /\ u \in Seq(Nat) /\ Len(u) = me.need
          /\ \A i \in 1..me.need : u[i] = st.script[me.start + i]
      <3>1. me.start + me.need <= Here(st)
        BY <1>1, <1>3
      <3>2. me.start \in Nat /\ me.need \in Nat
        BY <1>3
      <3> DEFINE a == me.start
                 n == me.need
      <3>3. a \in Nat /\ n \in Nat /\ a + n <= Here(st) /\ u = SubSeq(Bytes(st), a + 1, a + n)
        BY <3>1, <3>2
      <3> HIDE DEF k, m, a, n
      <3>4. /\ SubSeq(Bytes(st), a + 1, a + n) \in Seq(Nat)
            /\ Len(SubSeq(Bytes(st), a + 1, a + n)) = n
            /\ \A i \in 1..n : SubSeq(Bytes(st), a + 1, a + n)[i] = st.script[a + i]
        BY <1>1, <3>3, UnitIs
      <3> QED
        BY <3>3, <3>4 DEF a, n
    <2>4. u = BodyOf[m]
      <3>1. BodyOf[m] \in Seq(Nat) /\ Len(u) = Len(BodyOf[m])
        BY <2>1, <2>2, <2>3, BodyFacts
      <3>2. \A i \in 1..Len(u) : u[i] = BodyOf[m][i]
        BY <2>1, <2>2, <2>3, ZenonT(30)
      <3> QED
        BY <2>3, <3>1, <3>2, SeqEqual
    <2>5. Parsed(u) = {m}
      BY <2>2, <2>4, BodyFacts
    <2>6. /\ next.out = Append(me.out, m) /\ next.left = me.left - 1 /\ next.need = 1
          /\ next.state = IF me.left = 1 THEN "Ok" ELSE "length"
          /\ next.start = Offset(job, k + 1)
      BY <2>1, <2>2, <2>5
    <2>7. Len(next.out) = k + 1 /\ next.out = SubSeq(job.messages, 1, k + 1)
      <3>1. me.out = SubSeq(job.messages, 1, k)
        BY <2>1 DEF InStep
      <3>2. job.messages \in Seq(Messages)
        BY <1>1 DEF IsJob
      <3>3. /\ next.out \in Seq(Messages) /\ Len(next.out) = k + 1
            /\ \A i \in 1..k : next.out[i] = me.out[i]
            /\ next.out[k + 1] = m
        BY <1>3, <2>2, <2>6, AppendProperties, SMTT(30)
      <3>4. k \in 0..Len(job.messages) /\ k + 1 \in 0..Len(job.messages)
        BY <1>1, <1>3, <2>2, SMTT(30)
      <3>5. /\ SubSeq(job.messages, 1, k + 1) \in Seq(Messages)
            /\ Len(SubSeq(job.messages, 1, k + 1)) = k + 1
            /\ \A i \in 1..(k + 1) : SubSeq(job.messages, 1, k + 1)[i] = job.messages[i]
        BY <3>2, <3>4, FrontIs
      <3>6. \A i \in 1..k : me.out[i] = job.messages[i]
        BY <3>1, <3>2, <3>4, FrontIs
      <3>7. \A i \in 1..(k + 1) : next.out[i] = SubSeq(job.messages, 1, k + 1)[i]
        <4> SUFFICES ASSUME NEW i \in 1..(k + 1)
                     PROVE  next.out[i] = SubSeq(job.messages, 1, k + 1)[i]
          OBVIOUS
        <4>1. k \in Nat
          BY <1>3
        <4> DEFINE whole == SubSeq(job.messages, 1, k + 1)
        <4>2. whole[i] = job.messages[i]
          BY <3>5
        <4> HIDE DEF whole, k
        <4>3. i \in 1..k \/ i = k + 1
          BY <4>1
        <4>4. next.out[i] = job.messages[i]
          BY <3>3, <3>6, <4>3 DEF m
        <4> QED
          BY <4>2, <4>4 DEF whole
      <3> QED
        BY <3>3, <3>5, <3>7, SeqEqual
    <2>8. me.left = Len(job.messages) - k
      BY <2>1 DEF InStep
    <2>9. CASE me.left = 1
      <3>1. k + 1 = Len(job.messages)
        <4> DEFINE size == Len(job.messages)
        <4>1. k \in Nat /\ size \in Nat /\ size - k = 1
          BY <1>1, <1>3, <2>8, <2>9
        <4> HIDE DEF k, size
        <4>2. k + 1 = size
          BY <4>1
        <4> QED
          BY <4>2 DEF size
      <3>2. next.out = job.messages
        BY <1>1, <2>7, <3>1, SubSeqFull DEF IsJob
      <3> QED
        BY <2>6, <2>9, <3>2 DEF Matched
    <2>10. CASE me.left # 1
      <3>1. k + 1 < Len(job.messages) /\ k + 1 <= Ready(job)
            /\ next.left = Len(job.messages) - (k + 1)
        <4> DEFINE size  == Len(job.messages)
                   ready == Ready(job)
                   left  == me.left
        <4>1. k < ready /\ k + 1 \in 1..size
          BY <2>1, <2>2
        <4>2. /\ k \in Nat /\ size \in Nat /\ ready \in Nat
              /\ left = size - k /\ left # 1 /\ next.left = left - 1
          BY <1>1, <1>3, <2>6, <2>8, <2>10
        <4> HIDE DEF k, size, ready, left
        <4>3. k + 1 < size /\ k + 1 <= ready /\ next.left = size - (k + 1)
          BY <4>1, <4>2
        <4> QED
          BY <4>3 DEF size, ready
      <3>2. InStep(next, job)
        BY <2>7, <3>1 DEF InStep
      <3> QED
        BY <2>6, <2>7, <2>10, <3>2 DEF Matched
    <2> QED
      BY <2>9, <2>10
  <1>5. ASSUME kind # job.kind PROVE Crossed(next, kind)
    <2>1. kind = "single" /\ job.kind = "batch"
      BY <1>1, <1>5, JobFacts DEF Parsing, Crossed
    <2>2. me.start = 1 /\ me.need = st.script[1] /\ st.script[1] \in Nat
      BY <1>3, <2>1 DEF Parsing, Decoding
    <2>3. Parsed(u) = {}
      BY <1>1, <2>1, <2>2, NoFrameInABatch
    <2> QED
      BY <2>1, <2>3 DEF Crossed
  <1>6. ASSUME kind = "single" PROVE Decoding(next, st)
    <2>1. me.left = 1
      BY <1>6 DEF Parsing, Decoding
    <2>2. next.state \in {"Ok", "Err"}
      BY <2>1
    <2> QED
      BY <2>2 DEF Decoding
  <1> QED
    BY <1>2, <1>4, <1>5, <1>6 DEF Parsing

(* No byte of a unit is still to come: the connection closed, or the sender *)
(* ended, and then it had written all it meant to.                          *)
LEMMA Fails ==
    ASSUME NEW me \in Receiving, NEW kind \in {"single", "batch"}, NEW job, NEW st, NEW cl, NEW next,
           Carries(st, job), Parsing(me, kind, job, st, cl),
           me.state \in Reading, Here(st) < me.start + me.need, Over(st, cl),
           cl \/ st.written = Len(st.script),
           next.state = "Err"
    PROVE  Parsing(next, kind, job, st, cl)
  <1> DEFINE k == Len(me.out)
  <1>1. /\ IsJob(job) /\ st.script = Script(job) /\ st \in Stream
        /\ st.written <= Len(st.script)
        /\ Here(st) \in Nat /\ Here(st) <= Len(st.script)
        /\ Len(st.script) = Offset(job, Ready(job)) /\ Len(st.script) \in Nat
        /\ Ready(job) \in 0..Len(job.messages) /\ Len(job.messages) \in Nat
    BY CarriedBytes
  <1>2. k \in Nat /\ me.start \in Nat /\ me.need \in Nat
    BY LenProperties DEF Receiving
  <1>3. ASSUME kind = job.kind, ~cl PROVE TooLong(job)
    <2>1. Here(st) = Len(st.script)
      <3>1. st.arrived \in Nat /\ st.written \in Nat /\ st.arrived > st.written
        BY <1>1, <1>3 DEF Over, Stream
      <3> QED
        BY <1>3, <3>1 DEF Here
    <2>2. me.state # "count"
      <3> SUFFICES ASSUME me.state = "count" PROVE FALSE
        OBVIOUS
      <3>1. job.kind = "batch" /\ me.start = 0 /\ me.need = 1
        BY <1>3 DEF Parsing, Matched
      <3>2. Offset(job, 0) = 1
        BY <1>1, <3>1, ScriptIs, OpeningIs
      <3>3. Offset(job, 0) <= Len(st.script)
        <4> HIDE DEF k
        <4>1. Ready(job) \in Nat
          BY <1>1
        <4>2. 0 \in 0..Ready(job)
          BY <4>1
        <4> QED
          BY <1>1, <4>2, ScriptIs
      <3> QED
        BY <1>1, <2>1, <3>1, <3>2, <3>3
    <2>3. k < Ready(job) => FALSE
      <3> SUFFICES ASSUME k < Ready(job) PROVE FALSE
        OBVIOUS
      <3> DEFINE size == Len(BodyOf[job.messages[k + 1]])
                 off  == Offset(job, k)
      <3>1. size \in Nat /\ off \in Nat /\ off + 1 + size <= Len(st.script)
        <4> HIDE DEF k
        <4> QED
          BY <1>2, NextFrame
      <3>2. \/ me.start = off /\ me.need = 1
            \/ me.start = off + 1 /\ me.need = size
        BY <1>3, <2>2 DEF Parsing, Matched, Reading
      <3> HIDE DEF size, off
      <3> QED
        BY <1>1, <1>2, <2>1, <3>1, <3>2
    <2>4. me.state = "length" /\ InStep(me, job)
      BY <1>3, <2>2, <2>3 DEF Parsing, Matched, Reading
    <2>5. k < Len(job.messages) /\ k <= Ready(job)
      BY <2>4 DEF InStep
    <2>6. Ready(job) # Len(job.messages)
      BY <1>1, <1>2, <2>3, <2>5
    <2>7. ~Completes(job)
      BY <1>1, <2>6, ReadyIs
    <2>8. PICK i \in DOMAIN job.messages : ~Encodable(job.messages[i])
      BY <2>7 DEF Completes
    <2>9. i \in 1..Len(job.messages)
      BY <1>1, JobFacts
    <2> HIDE DEF k
    <2> QED
      BY <1>1, <2>8, <2>9, TooLongIs
  <1>4. kind = job.kind => Matched(next, job, cl)
    BY <1>3 DEF Matched
  <1>5. kind # job.kind => Crossed(next, kind)
    BY DEF Crossed
  <1>6. kind = "single" => Decoding(next, st)
    BY DEF Decoding
  <1> QED
    BY <1>4, <1>5, <1>6 DEF Parsing, Done

(* A receiver that has just accepted its stream.                            *)
LEMMA Begins ==
    ASSUME NEW kind \in {"single", "batch"}, NEW job, NEW st, NEW cl, NEW next,
           Carries(st, job),
           next.state = IF kind = "batch" THEN "count" ELSE "length",
           next.start = 0, next.need = 1, next.left = 1, next.out = << >>
    PROVE  Parsing(next, kind, job, st, cl)
  <1>1. IsJob(job) /\ Ready(job) \in Nat
    BY ReadyIs, JobFacts DEF Carries
  <1>2. Len(next.out) = 0
    OBVIOUS
  <1>3. ASSUME kind = job.kind PROVE Matched(next, job, cl)
    <2>1. CASE kind = "batch"
      BY <1>3, <2>1 DEF Matched
    <2>2. CASE kind = "single"
      <3>1. Len(job.messages) = 1 /\ Offset(job, 0) = 0
        BY <1>1, <1>3, <2>2, JobFacts, ScriptIs, OpeningIs
      <3>2. SubSeq(job.messages, 1, 0) = << >>
        BY <1>1, JobFacts, SubSeqEmpty
      <3>3. InStep(next, job)
        BY <1>1, <1>2, <3>1, <3>2 DEF InStep
      <3> QED
        BY <1>2, <2>2, <3>1, <3>3 DEF Matched
    <2> QED
      BY <2>1, <2>2
  <1>4. kind # job.kind => Crossed(next, kind)
    BY DEF Crossed
  <1>5. kind = "single" => Decoding(next, st)
    BY DEF Decoding
  <1>6. next.state \in Reading \cup Done
    BY DEF Reading, Done
  <1> QED
    BY <1>3, <1>4, <1>5, <1>6 DEF Parsing

(* The stream goes on.                                                      *)
Extends(st, st2, cl, cl2) ==
    /\ st2.script = st.script
    /\ Here(st) <= Here(st2)
    /\ cl => cl2

(* More bytes change nothing for a receiver.                                *)
LEMMA ParsingGrows ==
    ASSUME NEW me \in Receiving, NEW kind \in {"single", "batch"}, NEW job,
           NEW st, NEW st2, NEW cl, NEW cl2,
           Carries(st, job), Carries(st2, job), Parsing(me, kind, job, st, cl),
           Extends(st, st2, cl, cl2)
    PROVE  Parsing(me, kind, job, st2, cl2)
  <1>1. /\ Here(st) \in Nat /\ Here(st2) \in Nat /\ Here(st) <= Here(st2)
        /\ st2.script = st.script /\ (cl => cl2)
    BY CarriedBytes DEF Extends
  <1>2. Matched(me, job, cl) => Matched(me, job, cl2)
    BY <1>1 DEF Matched
  <1>3. Decoding(me, st) => Decoding(me, st2)
    BY <1>1 DEF Decoding
  <1> QED
    BY <1>2, <1>3 DEF Parsing

-----------------------------------------------------------------------------
(* The inductive invariant.  Each stream is of a sender that is writing it, *)
(* or has ended it, and then all is written unless the connection or the    *)
(* receiver cut it; each receiver has a stream of its own and knows where   *)
(* in it it stands.                                                         *)
Calls ==
    /\ work \in Workloads /\ closed \in BOOLEAN
    /\ send \in [DOMAIN work.send -> {"ready", "open"} \cup Done]
    /\ recv \in [DOMAIN work.recv -> Receiving]
    /\ streams \in Seq(Stream) /\ accepted \in 0..Len(streams)

Streaming(s) ==
    LET st == streams[s]
    IN  /\ st.by \in DOMAIN work.send
        /\ Carries(st, work.send[st.by])
        /\ send[st.by] # "ready"
        /\ st.finished <=> send[st.by] # "open"
        /\ st.finished => closed \/ Stopped(s) \/ st.written = Len(st.script)

OneStreamEach ==
    /\ \A s, q \in DOMAIN streams : streams[s].by = streams[q].by => s = q
    /\ \A t \in DOMAIN send :
          send[t] = "open" => \E s \in DOMAIN streams : streams[s].by = t

Waits(r) ==
    /\ recv[r].state = "ready" => recv[r] = Idle
    /\ recv[r].stream = 0 => recv[r].state \in {"ready", "Err"}
    /\ recv[r].stream <= accepted

OneReaderEach ==
    \A r, q \in DOMAIN recv :
        recv[r].stream = recv[q].stream /\ recv[r].stream # 0 => r = q

Reads(r) ==
    recv[r].stream # 0 =>
        Parsing(recv[r], work.recv[r], JobOf(r), streams[recv[r].stream], closed)

SessionInv ==
    /\ Calls
    /\ \A s \in DOMAIN streams : Streaming(s)
    /\ OneStreamEach
    /\ \A r \in DOMAIN recv : Waits(r)
    /\ OneReaderEach
    /\ \A r \in DOMAIN recv : Reads(r)

(* Nothing is open or accepted at the start.                                *)
LEMMA SessionInit == Init => SessionInv
  <1> SUFFICES ASSUME Init PROVE SessionInv
    OBVIOUS
  <1>1. streams = << >> /\ DOMAIN streams = {} /\ Len(streams) = 0
    BY DEF Init
  <1>2. Idle \in Receiving
    BY EmptySeq DEF Idle, Receiving, Reading, Done
  <1>3. Calls
    <2>1. work \in Workloads /\ closed \in BOOLEAN
      BY DEF Init
    <2>2. send \in [DOMAIN work.send -> {"ready", "open"} \cup Done]
      BY DEF Init
    <2>3. recv \in [DOMAIN work.recv -> Receiving]
      BY <1>2 DEF Init
    <2>4. streams \in Seq(Stream)
      BY <1>1, EmptySeq
    <2>5. accepted \in 0..Len(streams)
      BY <1>1 DEF Init
    <2> QED
      BY <2>1, <2>2, <2>3, <2>4, <2>5 DEF Calls
  <1>4. OneStreamEach
    BY <1>1 DEF Init, OneStreamEach
  <1>5. ASSUME NEW r \in DOMAIN recv PROVE Waits(r) /\ recv[r].stream = 0
    BY <1>1, <1>5 DEF Init, Waits, Idle
  <1> QED
    BY <1>1, <1>3, <1>4, <1>5 DEF SessionInv, OneReaderEach, Reads

(* What the invariant says of a workload, a stream and a receiver.          *)
LEMMA CallFacts ==
    ASSUME Calls
    PROVE  /\ DOMAIN send = DOMAIN work.send /\ DOMAIN recv = DOMAIN work.recv
           /\ \A t \in DOMAIN send : IsJob(work.send[t]) /\ t \in Tasks
           /\ \A r \in DOMAIN recv :
                 work.recv[r] \in {"single", "batch"} /\ recv[r] \in Receiving
           /\ Len(streams) \in Nat /\ DOMAIN streams = 1..Len(streams)
           /\ \A s \in DOMAIN streams : streams[s] \in Stream
  <1>1. DOMAIN send = DOMAIN work.send /\ DOMAIN recv = DOMAIN work.recv
    BY DEF Calls
  <1>2. Len(streams) \in Nat /\ DOMAIN streams = 1..Len(streams)
        /\ \A s \in DOMAIN streams : streams[s] \in Stream
    BY LenProperties, ElementOfSeq DEF Calls
  <1> QED
    BY <1>1, <1>2, SessionAssumption DEF Calls

(* Receivers stay where they are while the streams go on.                   *)
LEMMA ReceiversStay ==
    ASSUME SessionInv, Calls', work' = work, recv' = recv, accepted' = accepted,
           DOMAIN streams \subseteq DOMAIN streams',
           \A s \in DOMAIN streams :
              /\ streams'[s].by = streams[s].by
              /\ Carries(streams'[s], work.send[streams[s].by])
              /\ Extends(streams[s], streams'[s], closed, closed')
    PROVE  /\ (\A r \in DOMAIN recv : Waits(r))'
           /\ OneReaderEach'
           /\ (\A r \in DOMAIN recv : Reads(r))'
           /\ \A s \in DOMAIN streams : Stopped(s) => Stopped(s)'
  <1>1. Calls /\ DOMAIN recv' = DOMAIN recv
    BY DEF SessionInv
  <1>2. (\A r \in DOMAIN recv : Waits(r))'
    BY <1>1 DEF SessionInv, Waits
  <1>3. OneReaderEach'
    BY <1>1 DEF SessionInv, OneReaderEach
  <1>4. ASSUME NEW r \in DOMAIN recv PROVE Reads(r)'
    <2> SUFFICES ASSUME recv[r].stream # 0
                 PROVE  Parsing(recv[r], work.recv[r], JobOf(r)', streams'[recv[r].stream], closed')
      BY DEF Reads
    <2> DEFINE s == recv[r].stream
               job == work.send[streams[s].by]
    <2>1. s \in DOMAIN streams /\ recv[r] \in Receiving /\ work.recv[r] \in {"single", "batch"}
      <3>1. recv[r] \in Receiving /\ recv[r].stream \in Nat /\ work.recv[r] \in {"single", "batch"}
        BY <1>1, CallFacts DEF Receiving
      <3>2. recv[r].stream <= accepted /\ accepted \in 0..Len(streams)
        BY DEF SessionInv, Waits, Calls
      <3>3. Len(streams) \in Nat /\ DOMAIN streams = 1..Len(streams)
        BY <1>1, CallFacts
      <3> QED
        BY <3>1, <3>2, <3>3
    <2>2. JobOf(r) = job /\ JobOf(r)' = job
      BY <2>1 DEF JobOf
    <2>3. Parsing(recv[r], work.recv[r], job, streams[s], closed) /\ Carries(streams[s], job)
      BY <2>1, <2>2 DEF SessionInv, Reads, Streaming
    <2>4. Carries(streams'[s], job) /\ Extends(streams[s], streams'[s], closed, closed')
      BY <2>1
    <2> HIDE DEF s, job
    <2>5. Parsing(recv[r], work.recv[r], job, streams'[s], closed')
      BY <2>1, <2>3, <2>4, ParsingGrows
    <2> QED
      BY <2>2, <2>5 DEF s
  <1>5. \A s \in DOMAIN streams : Stopped(s) => Stopped(s)'
    BY DEF Stopped, ReaderOf
  <1> QED
    BY <1>1, <1>2, <1>3, <1>4, <1>5

(* A stream that stays as it is goes on in that sense.                      *)
LEMMA SameStream ==
    ASSUME NEW st, NEW job, Carries(st, job), NEW cl, NEW cl2, cl => cl2
    PROVE  Extends(st, st, cl, cl2)
  <1>1. Here(st) \in Nat
    BY CarriedBytes
  <1> QED
    BY <1>1 DEF Extends

(* One stream moves on: its sender writes or ends, or its bytes arrive.     *)
LEMMA StreamMoves ==
    ASSUME SessionInv, NEW q \in DOMAIN streams, NEW st \in Stream,
           streams' = [streams EXCEPT ![q] = st],
           UNCHANGED <<work, recv, accepted, closed>>,
           st.by = streams[q].by,
           Carries(st, work.send[st.by]),
           Extends(streams[q], st, closed, closed),
           send' \in [DOMAIN work.send -> {"ready", "open"} \cup Done],
           \A t \in DOMAIN send : t # st.by => send'[t] = send[t],
           send'[st.by] # "ready",
           st.finished <=> send'[st.by] # "open",
           st.finished => closed \/ Stopped(q) \/ st.written = Len(st.script)
    PROVE  SessionInv'
  <1>1. Calls /\ DOMAIN streams = 1..Len(streams) /\ Len(streams) \in Nat
        /\ DOMAIN send = DOMAIN work.send
    BY CallFacts DEF SessionInv
  <1>2. streams' \in Seq(Stream) /\ Len(streams') = Len(streams)
        /\ DOMAIN streams' = DOMAIN streams
        /\ \A s \in DOMAIN streams : streams'[s] = IF s = q THEN st ELSE streams[s]
    BY <1>1, ExceptSeq DEF Calls
  <1>3. Calls'
    BY <1>1, <1>2 DEF Calls
  <1>4. ASSUME NEW s \in DOMAIN streams
        PROVE  /\ streams'[s].by = streams[s].by
               /\ Carries(streams'[s], work.send[streams[s].by])
               /\ Extends(streams[s], streams'[s], closed, closed')
    <2>1. CASE s = q
      BY <1>2, <2>1
    <2>2. CASE s # q
      <3>1. Carries(streams[s], work.send[streams[s].by]) /\ streams'[s] = streams[s]
        BY <1>2, <2>2 DEF SessionInv, Streaming
      <3> QED
        BY <3>1, SameStream
    <2> QED
      BY <2>1, <2>2
  <1>5. /\ (\A r \in DOMAIN recv : Waits(r))'
        /\ OneReaderEach'
        /\ (\A r \in DOMAIN recv : Reads(r))'
        /\ \A s \in DOMAIN streams : Stopped(s) => Stopped(s)'
    BY <1>2, <1>3, <1>4, ReceiversStay
  <1>6. \A s \in DOMAIN streams : s # q => streams[s].by # st.by
    BY DEF SessionInv, OneStreamEach
  <1>7. ASSUME NEW s \in DOMAIN streams PROVE Streaming(s)'
    <2>1. CASE s = q
      BY <1>1, <1>2, <1>5, <2>1 DEF SessionInv, Streaming
    <2>2. CASE s # q
      <3>1. Streaming(s) /\ streams'[s] = streams[s] /\ streams[s].by # st.by
        BY <1>2, <1>6, <2>2 DEF SessionInv
      <3>2. send'[streams[s].by] = send[streams[s].by]
        BY <1>1, <3>1 DEF Streaming
      <3> QED
        BY <1>5, <3>1, <3>2 DEF Streaming
    <2> QED
      BY <2>1, <2>2
  <1>8. OneStreamEach'
    <2>1. \A s, n \in DOMAIN streams : streams'[s].by = streams'[n].by => s = n
      BY <1>4 DEF SessionInv, OneStreamEach
    <2>2. ASSUME NEW t \in DOMAIN send, send'[t] = "open"
          PROVE  \E s \in DOMAIN streams : streams'[s].by = t
      <3>1. CASE t = st.by
        BY <1>4, <3>1
      <3>2. CASE t # st.by
        <4>1. PICK s \in DOMAIN streams : streams[s].by = t
          BY <2>2, <3>2 DEF SessionInv, OneStreamEach
        <4> QED
          BY <1>4, <4>1
      <3> QED
        BY <3>1, <3>2
    <2>3. DOMAIN send' = DOMAIN send
      BY <1>1
    <2> QED
      BY <1>2, <2>1, <2>2, <2>3 DEF OneStreamEach
  <1> QED
    BY <1>2, <1>3, <1>5, <1>7, <1>8 DEF SessionInv

(* The stream of a sender that is writing, as BytesAt and FinArrived see it.*)
LEMMA OpenStream ==
    ASSUME SessionInv, NEW t \in DOMAIN send, send[t] = "open"
    PROVE  /\ StreamOf(t) \in DOMAIN streams /\ streams[StreamOf(t)].by = t
           /\ streams[StreamOf(t)] \in Stream
           /\ Carries(streams[StreamOf(t)], work.send[t])
           /\ ~streams[StreamOf(t)].finished
  <1>1. \E s \in DOMAIN streams : streams[s].by = t
    BY DEF SessionInv, OneStreamEach
  <1>2. StreamOf(t) \in DOMAIN streams /\ streams[StreamOf(t)].by = t
    BY <1>1 DEF StreamOf
  <1>3. streams[StreamOf(t)] \in Stream
    BY <1>2, CallFacts DEF SessionInv
  <1> QED
    BY <1>2, <1>3 DEF SessionInv, Streaming

(* The sender returns and its stream ends where it stands.                  *)
LEMMA Ends ==
    ASSUME SessionInv, NEW t \in DOMAIN send, send[t] = "open", NEW result \in Done,
           SenderEnds(t, result),
           closed \/ Stopped(StreamOf(t)) \/ Written(t)
    PROVE  SessionInv'
  <1> DEFINE q  == StreamOf(t)
             st == [streams[q] EXCEPT !.finished = TRUE]
  <1>1. /\ q \in DOMAIN streams /\ streams[q].by = t /\ streams[q] \in Stream
        /\ Carries(streams[q], work.send[t]) /\ ~streams[q].finished
    BY OpenStream
  <1>2. streams' = [streams EXCEPT ![q] = st]
    BY DEF SenderEnds
  <1>3. Written(t) => streams[q].written = Len(streams[q].script)
    BY DEF Written
  <1>4. closed \/ Stopped(q) \/ Written(t)
    OBVIOUS
  <1> HIDE DEF q
  <1>5. /\ st \in Stream /\ st.by = t /\ st.script = streams[q].script
        /\ st.written = streams[q].written /\ st.arrived = streams[q].arrived
        /\ st.finished = TRUE
    BY <1>1 DEF Stream
  <1>6. closed \/ Stopped(q) \/ st.written = Len(st.script)
    BY <1>3, <1>4, <1>5
  <1> HIDE DEF st
  <1>7. Carries(st, work.send[t])
    BY <1>1, <1>5 DEF Carries
  <1>8. Extends(streams[q], st, closed, closed)
    <2>1. Here(st) = Here(streams[q]) /\ Here(st) \in Nat
      BY <1>5, <1>7, CarriedBytes DEF Here
    <2> QED
      BY <1>5, <2>1 DEF Extends
  <1>9. /\ DOMAIN send = DOMAIN work.send
        /\ send \in [DOMAIN work.send -> {"ready", "open"} \cup Done]
    BY CallFacts DEF SessionInv, Calls
  <1>10. /\ send' \in [DOMAIN work.send -> {"ready", "open"} \cup Done]
         /\ send'[t] = result /\ \A u \in DOMAIN send : u # t => send'[u] = send[u]
    BY <1>9 DEF SenderEnds
  <1>11. result # "ready" /\ result # "open"
    BY DEF Done
  <1>12. UNCHANGED <<work, recv, accepted, closed>>
    BY DEF SenderEnds
  <1> QED
    BY <1>1, <1>2, <1>5, <1>6, <1>7, <1>8, <1>10, <1>11, <1>12, StreamMoves

(* A sender that fails before it has a stream.                              *)
LEMMA Refuses ==
    ASSUME SessionInv, NEW t \in DOMAIN send, send[t] = "ready",
           send' = [send EXCEPT ![t] = "Err"],
           UNCHANGED <<work, streams, recv, accepted, closed>>
    PROVE  SessionInv'
  <1>1. Calls' /\ DOMAIN send = DOMAIN work.send
    BY CallFacts DEF SessionInv, Calls, Done
  <1>2. ASSUME NEW s \in DOMAIN streams PROVE Streaming(s)'
    <2>1. Streaming(s) /\ streams[s].by # t
      BY DEF SessionInv, Streaming
    <2>2. send'[streams[s].by] = send[streams[s].by]
      BY <1>1, <2>1 DEF Streaming
    <2> QED
      BY <2>1, <2>2 DEF Streaming, Stopped, ReaderOf
  <1>3. OneStreamEach'
    <2>1. \A u \in DOMAIN send : send'[u] = "open" => send[u] = "open"
      OBVIOUS
    <2>2. DOMAIN send' = DOMAIN send
      OBVIOUS
    <2> QED
      BY <2>1, <2>2 DEF SessionInv, OneStreamEach
  <1> QED
    BY <1>1, <1>2, <1>3 DEF SessionInv, Waits, OneReaderEach, Reads, JobOf

(* A new stream comes last, and nobody reads it yet.                        *)
LEMMA Opens ==
    ASSUME SessionInv, NEW t \in DOMAIN send, Open(t)
    PROVE  SessionInv'
  <1> DEFINE st == [by |-> t, script |-> Script(work.send[t]), written |-> 0,
                    finished |-> FALSE, arrived |-> 0]
             job == work.send[t]
             n == Len(streams)
  <1>1. /\ DOMAIN send = DOMAIN work.send /\ IsJob(job) /\ t \in Tasks
        /\ n \in Nat /\ DOMAIN streams = 1..n /\ streams \in Seq(Stream)
        /\ send \in [DOMAIN work.send -> {"ready", "open"} \cup Done]
        /\ Calls
    BY CallFacts DEF SessionInv, Calls
  <1>2. /\ send[t] = "ready" /\ ~closed
        /\ job.kind = "single" => Completes(job)
        /\ send' = [send EXCEPT ![t] = "open"]
        /\ streams' = Append(streams, st)
        /\ UNCHANGED <<work, recv, accepted, closed>>
    BY DEF Open
  <1>3. Script(job) \in Seq(Nat) /\ Len(Script(job)) \in Nat
    BY <1>1, ScriptIs, LenProperties
  <1>4. st \in Stream /\ Carries(st, job)
    <2>1. st \in Stream
      BY <1>1, <1>3 DEF Stream
    <2>2. st.script = Script(job) /\ st.written = 0 /\ st.arrived = 0 /\ st.finished = FALSE
      OBVIOUS
    <2> HIDE DEF st, job
    <2> QED
      BY <1>1, <1>2, <1>3, <2>1, <2>2 DEF Carries
  <1>5. st.by = t /\ st.finished = FALSE
    OBVIOUS
  <1> HIDE DEF st, job
  <1>6. /\ streams' \in Seq(Stream) /\ Len(streams') = n + 1
        /\ \A s \in 1..n : streams'[s] = streams[s]
        /\ streams'[n + 1] = st
    BY <1>1, <1>2, <1>4, AppendProperties
  <1>7. DOMAIN streams' = 1..(n + 1)
    BY <1>6, LenProperties
  <1>8. Calls'
    <2>1. accepted \in 0..(n + 1)
      BY <1>1 DEF Calls
    <2> HIDE DEF n
    <2> QED
      BY <1>1, <1>2, <1>6, <2>1 DEF Calls
  <1> HIDE DEF n
  <1>9. DOMAIN streams \subseteq DOMAIN streams'
    BY <1>1, <1>7
  <1>10. ASSUME NEW s \in DOMAIN streams
         PROVE  /\ streams'[s].by = streams[s].by
                /\ Carries(streams'[s], work.send[streams[s].by])
                /\ Extends(streams[s], streams'[s], closed, closed')
    <2>1. Carries(streams[s], work.send[streams[s].by]) /\ streams'[s] = streams[s]
      BY <1>1, <1>6 DEF SessionInv, Streaming
    <2> QED
      BY <1>2, <2>1, SameStream
  <1>11. /\ (\A r \in DOMAIN recv : Waits(r))'
         /\ OneReaderEach'
         /\ (\A r \in DOMAIN recv : Reads(r))'
         /\ \A s \in DOMAIN streams : Stopped(s) => Stopped(s)'
    BY <1>2, <1>8, <1>9, <1>10, ReceiversStay
  <1>12. ASSUME NEW s \in DOMAIN streams'
         PROVE  s \in DOMAIN streams \/ s = n + 1
    BY <1>1, <1>7
  <1>13. \A s \in DOMAIN streams : streams[s].by # t
    BY <1>2 DEF SessionInv, Streaming
  <1>14. ASSUME NEW s \in DOMAIN streams' PROVE Streaming(s)'
    <2>1. CASE s \in DOMAIN streams
      <3>1. Streaming(s) /\ streams'[s] = streams[s] /\ streams[s].by # t
        BY <1>1, <1>6, <1>13, <2>1 DEF SessionInv
      <3>2. send'[streams[s].by] = send[streams[s].by]
        BY <1>1, <1>2, <3>1 DEF Streaming
      <3> QED
        BY <1>2, <1>11, <2>1, <3>1, <3>2 DEF Streaming
    <2>2. CASE s = n + 1
      <3>1. streams'[s] = st /\ send'[t] = "open"
        BY <1>2, <1>6, <2>2
      <3> QED
        BY <1>1, <1>2, <1>4, <1>5, <3>1 DEF Streaming, job
    <2> QED
      BY <1>12, <2>1, <2>2
  <1>15. OneStreamEach'
    <2>1. ASSUME NEW s \in DOMAIN streams', NEW q \in DOMAIN streams', streams'[s].by = streams'[q].by
          PROVE  s = q
      <3>1. CASE s \in DOMAIN streams /\ q \in DOMAIN streams
        BY <1>10, <2>1, <3>1 DEF SessionInv, OneStreamEach
      <3>2. CASE s \notin DOMAIN streams \/ q \notin DOMAIN streams
        BY <1>5, <1>6, <1>10, <1>12, <1>13, <2>1, <3>2
      <3> QED
        BY <3>1, <3>2
    <2>2. ASSUME NEW u \in DOMAIN send, send'[u] = "open"
          PROVE  \E s \in DOMAIN streams' : streams'[s].by = u
      <3>1. CASE u = t
        <4>1. n + 1 \in DOMAIN streams'
          BY <1>1, <1>7
        <4> QED
          BY <1>5, <1>6, <3>1, <4>1
      <3>2. CASE u # t
        <4>1. PICK s \in DOMAIN streams : streams[s].by = u
          BY <1>2, <2>2, <3>2 DEF SessionInv, OneStreamEach
        <4> QED
          BY <1>9, <1>10, <4>1
      <3> QED
        BY <3>1, <3>2
    <2>3. DOMAIN send' = DOMAIN send
      BY <1>2
    <2> QED
      BY <2>1, <2>2, <2>3 DEF OneStreamEach
  <1> QED
    BY <1>8, <1>11, <1>14, <1>15 DEF SessionInv

(* A write lengthens the stream of a sender that has not ended it.          *)
LEMMA Writes ==
    ASSUME SessionInv, NEW t \in DOMAIN send, Write(t)
    PROVE  SessionInv'
  <1> DEFINE q == StreamOf(t)
             old == streams[q]
  <1>1. send[t] = "open" /\ ~closed /\ UNCHANGED <<work, send, recv, accepted, closed>>
    BY DEF Write
  <1>2. /\ q \in DOMAIN streams /\ old.by = t /\ old \in Stream
        /\ Carries(old, work.send[t]) /\ ~old.finished
    BY <1>1, OpenStream
  <1>3. PICK n \in 1..(Consumed(q) + Window - old.written) :
           /\ old.written + n <= Len(old.script)
           /\ streams' = [streams EXCEPT ![q].written = @ + n]
    BY DEF Write
  <1>4. n \in Nat
    BY <1>3
  <1> HIDE DEF q
  <1> DEFINE st == [old EXCEPT !.written = @ + n]
  <1>5. streams' = [streams EXCEPT ![q] = st]
    BY <1>3
  <1>6. old.written \in Nat /\ old.arrived \in Nat /\ old.arrived <= old.written
    BY <1>2 DEF Stream, Carries
  <1>7. /\ st \in Stream /\ st.by = t /\ st.script = old.script
        /\ st.written = old.written + n /\ st.arrived = old.arrived
        /\ st.finished = FALSE
    BY <1>2, <1>4, <1>6 DEF Stream
  <1> HIDE DEF st, old
  <1>8. Carries(st, work.send[t])
    BY <1>2, <1>3, <1>4, <1>6, <1>7 DEF Carries
  <1>9. Extends(old, st, closed, closed)
    <2>1. Here(old) = old.arrived /\ Here(st) = old.arrived
      BY <1>4, <1>6, <1>7 DEF Here
    <2> QED
      BY <1>1, <1>2, <1>6, <1>7, <2>1 DEF Extends
  <1>10. send' \in [DOMAIN work.send -> {"ready", "open"} \cup Done] /\ send' = send
    BY <1>1 DEF SessionInv, Calls
  <1>11. send'[t] = "open" /\ "open" # "ready"
    BY <1>1
  <1> QED
    BY <1>1, <1>2, <1>5, <1>7, <1>8, <1>9, <1>10, <1>11, StreamMoves DEF old

(* Bytes of a stream, or its end, reach the receiver.                       *)
LEMMA Arrives ==
    ASSUME SessionInv, NEW q \in DOMAIN streams, Arrive(q)
    PROVE  SessionInv'
  <1> DEFINE old == streams[q]
             job == work.send[old.by]
  <1>1. ~closed /\ UNCHANGED <<work, send, recv, accepted, closed>>
    BY DEF Arrive
  <1>2. PICK n \in 1..(old.written + 1) :
           /\ n > old.arrived
           /\ n > old.written => old.finished
           /\ streams' = [streams EXCEPT ![q].arrived = n]
    BY DEF Arrive
  <1>3. old \in Stream /\ Streaming(q) /\ Carries(old, job)
    BY CallFacts DEF SessionInv, Streaming
  <1>4. old.written \in Nat /\ old.arrived \in Nat
        /\ old.by \in DOMAIN send
    BY <1>3, CallFacts DEF SessionInv, Stream, Streaming
  <1>5. n \in Nat /\ n <= old.written + 1
    BY <1>2, <1>4
  <1> DEFINE st == [old EXCEPT !.arrived = n]
  <1>6. streams' = [streams EXCEPT ![q] = st]
    BY <1>2
  <1>7. /\ st \in Stream /\ st.by = old.by /\ st.script = old.script
        /\ st.written = old.written /\ st.arrived = n
        /\ st.finished = old.finished
    BY <1>3, <1>5 DEF Stream
  <1>8. send[old.by] # "ready" /\ (old.finished <=> send[old.by] # "open")
        /\ (old.finished => closed \/ Stopped(q) \/ old.written = Len(old.script))
    BY <1>3 DEF Streaming
  <1> HIDE DEF st
  <1>9. Carries(st, job)
    <2> HIDE DEF old, job
    <2> QED
      BY <1>2, <1>3, <1>5, <1>7 DEF Carries
  <1>10. Extends(old, st, closed, closed)
    <2> HIDE DEF old, job
    <2>1. Here(old) <= Here(st)
      BY <1>2, <1>4, <1>5, <1>7 DEF Here
    <2> QED
      BY <1>7, <2>1 DEF Extends
  <1>11. send' \in [DOMAIN work.send -> {"ready", "open"} \cup Done] /\ send' = send
    BY <1>1 DEF SessionInv, Calls
  <1>12. st.finished => closed \/ Stopped(q) \/ st.written = Len(st.script)
    BY <1>7, <1>8
  <1>13. Carries(st, work.send[st.by]) /\ send'[st.by] # "ready"
         /\ (st.finished <=> send'[st.by] # "open")
    BY <1>7, <1>8, <1>9, <1>11
  <1> QED
    BY <1>1, <1>6, <1>7, <1>10, <1>11, <1>12, <1>13, StreamMoves

(* Closing the connection ends every stream where it stands.                *)
LEMMA Closes ==
    ASSUME SessionInv, Close
    PROVE  SessionInv'
  <1>1. ~closed /\ closed' = TRUE /\ UNCHANGED <<work, send, streams, recv, accepted>>
    BY DEF Close
  <1>2. Calls'
    BY <1>1 DEF SessionInv, Calls
  <1>3. ASSUME NEW s \in DOMAIN streams
        PROVE  /\ streams'[s].by = streams[s].by
               /\ Carries(streams'[s], work.send[streams[s].by])
               /\ Extends(streams[s], streams'[s], closed, closed')
    <2>1. Carries(streams[s], work.send[streams[s].by]) /\ streams'[s] = streams[s]
      BY <1>1 DEF SessionInv, Streaming
    <2> QED
      BY <1>1, <2>1, SameStream
  <1>4. /\ (\A r \in DOMAIN recv : Waits(r))'
        /\ OneReaderEach'
        /\ (\A r \in DOMAIN recv : Reads(r))'
    BY <1>1, <1>2, <1>3, ReceiversStay
  <1>5. (\A s \in DOMAIN streams : Streaming(s))'
    BY <1>1 DEF SessionInv, Streaming
  <1>6. OneStreamEach'
    BY <1>1 DEF SessionInv, OneStreamEach
  <1> QED
    BY <1>2, <1>4, <1>5, <1>6 DEF SessionInv

-----------------------------------------------------------------------------
(* The updates of a receiver's record, each keeping the rest.               *)
LEMMA MovesOn ==
    ASSUME NEW me \in Receiving, NEW n \in Nat
    PROVE  LET next == [me EXCEPT !.start = @ + n]
           IN  /\ next \in Receiving /\ next.start = me.start + n
               /\ next.state = me.state /\ next.stream = me.stream
               /\ next.need = me.need /\ next.left = me.left /\ next.out = me.out
  BY DEF Receiving

(* A change of state alone keeps the rest.                                  *)
LEMMA Turns ==
    ASSUME NEW me \in Receiving, NEW x \in Reading \cup Done
    PROVE  LET next == [me EXCEPT !.state = x]
           IN  /\ next \in Receiving /\ next.state = x
               /\ next.start = me.start /\ next.stream = me.stream
               /\ next.need = me.need /\ next.left = me.left /\ next.out = me.out
  BY DEF Receiving

(* A receiver steps.                                                        *)
LEMMA ReceiverMoves ==
    ASSUME SessionInv, NEW r \in DOMAIN recv, NEW next \in Receiving,
           recv' = [recv EXCEPT ![r] = next],
           UNCHANGED <<work, send, streams, closed>>,
           accepted' \in 0..Len(streams), accepted <= accepted',
           recv[r].state \notin Done,
           next.state # "ready",
           next.stream = 0 => next.state = "Err",
           next.stream <= accepted',
           next.stream = recv[r].stream \/ next.stream > accepted,
           next.stream # 0 =>
              Parsing(next, work.recv[r], work.send[streams[next.stream].by],
                      streams[next.stream], closed)
    PROVE  SessionInv'
  <1>1. /\ Calls /\ DOMAIN recv = DOMAIN work.recv
        /\ recv \in [DOMAIN work.recv -> Receiving]
        /\ accepted \in Nat /\ accepted' \in Nat /\ Len(streams) \in Nat
        /\ \A q \in DOMAIN recv : recv[q].stream \in Nat
    <2>1. Calls
      BY DEF SessionInv
    <2>2. Len(streams) \in Nat /\ DOMAIN recv = DOMAIN work.recv
      BY <2>1, CallFacts
    <2>3. recv \in [DOMAIN work.recv -> Receiving] /\ accepted \in 0..Len(streams)
      BY <2>1 DEF Calls
    <2> QED
      BY <2>1, <2>2, <2>3 DEF Receiving
  <1>2. /\ DOMAIN recv' = DOMAIN recv /\ recv'[r] = next
        /\ \A q \in DOMAIN recv : q # r => recv'[q] = recv[q]
        /\ recv' \in [DOMAIN work.recv -> Receiving]
    BY <1>1
  <1>3. Calls'
    BY <1>1, <1>2 DEF Calls
  <1>4. ASSUME NEW s \in DOMAIN streams, Stopped(s) PROVE Stopped(s)'
    <2>1. PICK q \in DOMAIN recv : recv[q].stream = s /\ recv[q].state \in Done
      BY <1>4 DEF Stopped, ReaderOf
    <2>2. recv'[q] = recv[q]
      BY <1>2, <2>1
    <2> QED
      BY <1>2, <2>1, <2>2 DEF Stopped, ReaderOf
  <1>5. (\A s \in DOMAIN streams : Streaming(s))'
    BY <1>4 DEF SessionInv, Streaming
  <1>6. OneStreamEach'
    BY DEF SessionInv, OneStreamEach
  <1>7. ASSUME NEW q \in DOMAIN recv PROVE Waits(q)'
    <2>1. CASE q = r
      BY <1>2, <2>1 DEF Waits
    <2>2. CASE q # r
      <3>1. recv'[q] = recv[q] /\ Waits(q)
        BY <1>2, <2>2 DEF SessionInv
      <3>2. recv[q].stream <= accepted'
        BY <1>1, <3>1 DEF Waits
      <3> QED
        BY <3>1, <3>2 DEF Waits
    <2> QED
      BY <2>1, <2>2
  <1>8. OneReaderEach'
    <2>1. ASSUME NEW q \in DOMAIN recv, q # r, recv[q].stream = next.stream, next.stream # 0
          PROVE  FALSE
      <3>1. recv[q].stream <= accepted /\ recv[q].stream \in Nat
        BY <1>1 DEF SessionInv, Waits
      <3>2. next.stream = recv[r].stream
        BY <1>1, <2>1, <3>1
      <3> QED
        BY <2>1, <3>2 DEF SessionInv, OneReaderEach
    <2>2. ASSUME NEW p \in DOMAIN recv, NEW q \in DOMAIN recv,
                 recv'[p].stream = recv'[q].stream, recv'[p].stream # 0
          PROVE  p = q
      <3>1. CASE p = r \/ q = r
        BY <1>2, <2>1, <2>2, <3>1
      <3>2. CASE p # r /\ q # r
        BY <1>2, <2>2, <3>2 DEF SessionInv, OneReaderEach
      <3> QED
        BY <3>1, <3>2
    <2> QED
      BY <1>2, <2>2 DEF OneReaderEach
  <1>9. ASSUME NEW q \in DOMAIN recv PROVE Reads(q)'
    <2>1. CASE q = r
      BY <1>2, <2>1 DEF Reads, JobOf
    <2>2. CASE q # r
      <3>1. recv'[q] = recv[q] /\ Reads(q)
        BY <1>2, <2>2 DEF SessionInv
      <3> QED
        BY <3>1 DEF Reads, JobOf
    <2> QED
      BY <2>1, <2>2
  <1> QED
    BY <1>2, <1>3, <1>5, <1>6, <1>7, <1>8, <1>9 DEF SessionInv

(* A receiver takes the next stream, which no other has.                    *)
LEMMA Accepts ==
    ASSUME SessionInv, NEW r \in DOMAIN recv, Accept(r)
    PROVE  SessionInv'
  <1> DEFINE kind == work.recv[r]
             s    == accepted + 1
             next == [recv[r] EXCEPT !.stream = accepted + 1, !.need = 1, !.left = 1,
                                     !.state = IF work.recv[r] = "batch" THEN "count" ELSE "length"]
  <1>1. /\ recv[r].state = "ready" /\ Acceptable
        /\ accepted' = accepted + 1
        /\ recv' = [recv EXCEPT ![r] = next]
        /\ UNCHANGED <<work, send, streams, closed>>
    BY DEF Accept
  <1>2. /\ DOMAIN streams = 1..Len(streams) /\ Len(streams) \in Nat
        /\ kind \in {"single", "batch"} /\ recv[r] \in Receiving
        /\ accepted \in Nat /\ recv[r] = Idle
    <2>1. Calls /\ Waits(r)
      BY DEF SessionInv
    <2>2. Len(streams) \in Nat /\ accepted \in 0..Len(streams)
      BY <2>1, CallFacts DEF Calls
    <2> QED
      BY <1>1, <2>1, <2>2, CallFacts DEF Waits
  <1>3. s \in DOMAIN streams
    <2>1. PICK q \in DOMAIN streams : q > accepted
      BY <1>1 DEF Acceptable
    <2> QED
      BY <1>2, <2>1
  <1>4. /\ next \in Receiving /\ next.stream = s
        /\ next.start = 0 /\ next.need = 1 /\ next.left = 1 /\ next.out = << >>
        /\ next.state = IF kind = "batch" THEN "count" ELSE "length"
    <2> DEFINE x == IF kind = "batch" THEN "count" ELSE "length"
               d == 1
    <2>1. x \in Reading \cup Done /\ s \in Nat /\ d \in Nat /\ d \in Int
      BY <1>2 DEF Reading
    <2> DEFINE me == recv[r]
    <2>2. next = [me EXCEPT !.stream = s, !.need = d, !.left = d, !.state = x]
      OBVIOUS
    <2>3. me \in Receiving /\ me.start = 0 /\ me.out = << >>
      BY <1>2 DEF Idle
    <2>4. x = IF kind = "batch" THEN "count" ELSE "length"
      OBVIOUS
    <2>5. d = 1
      OBVIOUS
    <2> HIDE DEF next, s, kind, x, d, me
    <2>6. /\ next \in Receiving /\ next.state = x /\ next.stream = s
          /\ next.need = d /\ next.left = d
          /\ next.start = me.start /\ next.out = me.out
      BY <2>1, <2>2, <2>3 DEF Receiving
    <2> QED
      BY <2>3, <2>4, <2>5, <2>6
  <1>5. Carries(streams[s], work.send[streams[s].by])
    BY <1>3 DEF SessionInv, Streaming
  <1> HIDE DEF next, s
  <1>6. Parsing(next, kind, work.send[streams[s].by], streams[s], closed)
    <2> HIDE DEF kind
    <2> QED
      BY <1>2, <1>4, <1>5, Begins
  <1>7. s = accepted + 1
    BY DEF s
  <1>8. accepted' \in 0..Len(streams) /\ accepted <= accepted' /\ next.stream <= accepted'
        /\ next.stream > accepted /\ next.stream # 0
    BY <1>1, <1>2, <1>3, <1>4, <1>7
  <1>9. recv[r].state \notin Done /\ next.state # "ready"
    BY <1>1, <1>4 DEF Done
  <1> QED
    BY <1>1, <1>4, <1>6, <1>8, <1>9, ReceiverMoves

(* Without a stream there is nothing to accept.                             *)
LEMMA AcceptsNone ==
    ASSUME SessionInv, NEW r \in DOMAIN recv, AcceptFails(r)
    PROVE  SessionInv'
  <1> DEFINE next == [recv[r] EXCEPT !.state = "Err"]
  <1>1. /\ recv[r].state = "ready" /\ recv' = [recv EXCEPT ![r] = next]
        /\ UNCHANGED <<work, send, streams, accepted, closed>>
    BY DEF AcceptFails
  <1>2. Calls /\ Waits(r) /\ recv[r] = Idle /\ recv[r] \in Receiving
    BY <1>1, CallFacts DEF SessionInv, Waits
  <1>3. next \in Receiving /\ next.state = "Err" /\ next.stream = 0
    <2>1. "Err" \in Reading \cup Done /\ recv[r].stream = 0
      BY <1>2 DEF Done, Idle
    <2> QED
      BY <1>2, <2>1, Turns
  <1> HIDE DEF next
  <1>4. accepted' \in 0..Len(streams) /\ accepted <= accepted' /\ next.stream <= accepted'
        /\ next.stream = recv[r].stream
    <2>1. accepted \in 0..Len(streams) /\ Len(streams) \in Nat
      BY <1>2, CallFacts DEF Calls
    <2>2. recv[r].stream = 0
      BY <1>2 DEF Idle
    <2> QED
      BY <1>1, <1>3, <2>1, <2>2
  <1>5. recv[r].state \notin Done
    BY <1>1 DEF Done
  <1> QED
    BY <1>1, <1>3, <1>4, <1>5, ReceiverMoves

(* What a receiver that is reading knows of its stream.                     *)
LEMMA ReaderFacts ==
    ASSUME SessionInv, NEW r \in DOMAIN recv, recv[r].state \in Reading
    PROVE  LET me == recv[r]
               st == streams[recv[r].stream]
           IN  /\ me \in Receiving /\ me.stream # 0 /\ me.stream \in DOMAIN streams
               /\ work.recv[r] \in {"single", "batch"}
               /\ Carries(st, JobOf(r))
               /\ Parsing(me, work.recv[r], JobOf(r), st, closed)
               /\ BytesAt(me.stream) = Bytes(st) /\ Len(BytesAt(me.stream)) = Here(st)
               /\ Here(st) \in Nat
               /\ st.finished => closed \/ st.written = Len(st.script)
               /\ me.state \in {"count", "length"} => me.need = 1
  <1> DEFINE me == recv[r]
             s  == recv[r].stream
             st == streams[recv[r].stream]
  <1>1. /\ Calls /\ Waits(r) /\ Reads(r) /\ me \in Receiving
        /\ work.recv[r] \in {"single", "batch"}
    BY CallFacts DEF SessionInv
  <1>2. s # 0
    BY <1>1 DEF Waits, Reading
  <1>3. s \in DOMAIN streams
    <2>1. s \in Nat /\ s <= accepted /\ accepted \in 0..Len(streams)
      BY <1>1 DEF Waits, Calls, Receiving
    <2>2. Len(streams) \in Nat /\ DOMAIN streams = 1..Len(streams)
      BY <1>1, CallFacts
    <2> QED
      BY <1>2, <2>1, <2>2
  <1>4. Streaming(s)
    BY <1>3 DEF SessionInv
  <1>5. Carries(st, JobOf(r)) /\ Parsing(me, work.recv[r], JobOf(r), st, closed)
    BY <1>1, <1>2, <1>4 DEF Streaming, Reads, JobOf
  <1>6. BytesAt(s) = Bytes(st)
    BY DEF BytesAt, Bytes
  <1>7. Len(Bytes(st)) = Here(st) /\ Here(st) \in Nat
    BY <1>5, BytesAre, CarriedBytes
  <1>8. ~Stopped(s)
    <2> SUFFICES ASSUME NEW q \in DOMAIN recv, recv[q].stream = s, recv[q].state \in Done
                 PROVE  FALSE
      BY DEF Stopped, ReaderOf
    <2>1. q = r
      BY <1>2 DEF SessionInv, OneReaderEach
    <2> QED
      BY <2>1 DEF Done, Reading
  <1>9. st.finished => closed \/ st.written = Len(st.script)
    BY <1>4, <1>8 DEF Streaming
  <1>10. me.state \in {"count", "length"} => me.need = 1
    BY <1>1, <1>5 DEF Parsing, Matched, Crossed, Decoding
  <1> QED
    BY <1>1, <1>2, <1>3, <1>5, <1>6, <1>7, <1>9, <1>10

(* A reader stays with its stream.                                          *)
LEMMA ReaderMoves ==
    ASSUME SessionInv, NEW r \in DOMAIN recv, recv[r].state \in Reading,
           NEW next \in Receiving, recv' = [recv EXCEPT ![r] = next],
           UNCHANGED <<work, send, streams, accepted, closed>>,
           next.stream = recv[r].stream, next.state # "ready",
           Parsing(next, work.recv[r], JobOf(r), streams[recv[r].stream], closed)
    PROVE  SessionInv'
  <1>1. recv[r].stream # 0 /\ recv[r].state \notin Done
    BY ReaderFacts DEF Reading, Done
  <1>2. accepted' \in 0..Len(streams) /\ accepted <= accepted' /\ next.stream <= accepted'
    <2>1. Len(streams) \in Nat /\ accepted \in 0..Len(streams) /\ recv[r].stream <= accepted
      BY CallFacts DEF SessionInv, Calls, Waits
    <2> QED
      BY <2>1
  <1> QED
    BY <1>1, <1>2, ReceiverMoves DEF JobOf

(* A unit a reader has is what its stream carries there.                    *)
LEMMA UnitFacts ==
    ASSUME SessionInv, NEW r \in DOMAIN recv, recv[r].state \in Reading, UnitArrived(r)
    PROVE  LET me == recv[r]
               st == streams[recv[r].stream]
           IN  /\ Here(st) >= me.start + me.need
               /\ Unit(r) = SubSeq(Bytes(st), me.start + 1, me.start + me.need)
               /\ me.state \in {"count", "length"} =>
                     Unit(r)[1] = st.script[me.start + 1] /\ Unit(r)[1] \in Nat
  <1> DEFINE me == recv[r]
             st == streams[recv[r].stream]
             a  == me.start
             n  == me.need
  <1>1. /\ me \in Receiving /\ Carries(st, JobOf(r))
        /\ BytesAt(me.stream) = Bytes(st) /\ Len(BytesAt(me.stream)) = Here(st)
        /\ Here(st) \in Nat
        /\ me.state \in {"count", "length"} => me.need = 1
    BY ReaderFacts
  <1>2. a \in Nat /\ n \in Nat
    BY <1>1 DEF Receiving
  <1>3. Here(st) >= a + n /\ Unit(r) = SubSeq(Bytes(st), a + 1, a + n)
    BY <1>1 DEF UnitArrived, Unit
  <1>4. st \in Stream /\ st.written <= Len(st.script)
    BY <1>1 DEF Carries
  <1>5. ASSUME n = 1 PROVE Unit(r)[1] = st.script[a + 1] /\ Unit(r)[1] \in Nat
    <2>1. a + n <= Here(st) /\ 1 \in 1..n
      BY <1>1, <1>2, <1>3, <1>5
    <2> HIDE DEF st, a, n
    <2>2. /\ \A i \in 1..n : SubSeq(Bytes(st), a + 1, a + n)[i] = st.script[a + i]
          /\ \A i \in 1..n : st.script[a + i] \in Nat
      BY <1>2, <1>4, <2>1, UnitIs
    <2> QED
      BY <1>3, <2>1, <2>2
  <1> QED
    BY <1>1, <1>3, <1>5

(* The count of a batch, a frame's length and its body are read.            *)
LEMMA CountRead ==
    ASSUME SessionInv, NEW r \in DOMAIN recv, ReadCount(r)
    PROVE  SessionInv'
  <1> DEFINE me == recv[r]
             st == streams[recv[r].stream]
             next == [[me EXCEPT !.left = Unit(r)[1],
                                 !.state = IF Unit(r)[1] = 0 THEN "Ok" ELSE "length"]
                         EXCEPT !.start = @ + recv[r].need]
  <1>1. /\ me.state = "count" /\ UnitArrived(r)
        /\ recv' = [recv EXCEPT ![r] = next]
        /\ UNCHANGED <<work, send, streams, accepted, closed>>
    BY DEF ReadCount, ReaderStep
  <1>2. me.state \in Reading
    BY <1>1 DEF Reading
  <1>3. /\ me \in Receiving /\ Carries(st, JobOf(r)) /\ work.recv[r] \in {"single", "batch"}
        /\ Parsing(me, work.recv[r], JobOf(r), st, closed)
    BY <1>2, ReaderFacts
  <1>4. Here(st) >= me.start + me.need /\ Unit(r)[1] = st.script[me.start + 1] /\ Unit(r)[1] \in Nat
    BY <1>1, <1>2, UnitFacts
  <1>5. /\ next \in Receiving /\ next.stream = me.stream
        /\ next.state = IF st.script[me.start + 1] = 0 THEN "Ok" ELSE "length"
        /\ next.left = st.script[me.start + 1] /\ next.start = me.start + me.need
        /\ next.need = me.need /\ next.out = me.out
    <2> DEFINE x == IF Unit(r)[1] = 0 THEN "Ok" ELSE "length"
               l == Unit(r)[1]
               n == recv[r].need
               v == [me EXCEPT !.left = l, !.state = x]
    <2>1. x \in Reading \cup Done /\ l \in Int /\ n \in Nat
      BY <1>3, <1>4 DEF Reading, Done, Receiving
    <2>2. next = [v EXCEPT !.start = @ + n]
      OBVIOUS
    <2>3. n = me.need /\ l = st.script[me.start + 1]
          /\ x = IF l = 0 THEN "Ok" ELSE "length"
      BY <1>4
    <2> HIDE DEF x, l, n, st
    <2>4. /\ v \in Receiving /\ v.state = x /\ v.left = l
          /\ v.start = me.start /\ v.stream = me.stream
          /\ v.need = me.need /\ v.out = me.out
      <3> HIDE DEF me, next
      <3> QED
        BY <1>3, <2>1 DEF Receiving
    <2> HIDE DEF v, next, me
    <2>5. /\ next \in Receiving /\ next.start = v.start + n
          /\ next.state = v.state /\ next.stream = v.stream
          /\ next.need = v.need /\ next.left = v.left /\ next.out = v.out
      BY <2>1, <2>2, <2>4, MovesOn
    <2> QED
      BY <2>3, <2>4, <2>5
  <1> HIDE DEF next, st, me
  <1>6. Parsing(next, work.recv[r], JobOf(r), st, closed)
    BY <1>1, <1>3, <1>4, <1>5, ReadsCount
  <1>7. next.state # "ready"
    BY <1>5
  <1> QED
    BY <1>1, <1>2, <1>5, <1>6, <1>7, ReaderMoves DEF me, st

(* Reading a length keeps the invariant, accepted or refused.               *)
LEMMA LengthRead ==
    ASSUME SessionInv, NEW r \in DOMAIN recv, ReadLength(r) \/ ReadNextLength(r)
    PROVE  SessionInv'
  <1> DEFINE me == recv[r]
             st == streams[recv[r].stream]
             len == Unit(r)[1]
             next == [IF WithinLimit(len) THEN [me EXCEPT !.state = "body", !.need = len]
                      ELSE [me EXCEPT !.state = "Err"]
                         EXCEPT !.start = @ + recv[r].need]
  <1>1. /\ me.state = "length" /\ UnitArrived(r)
        /\ recv' = [recv EXCEPT ![r] = next]
        /\ UNCHANGED <<work, send, streams, accepted, closed>>
    BY DEF ReadLength, ReadNextLength, Sized, Refused, ReaderStep
  <1>2. me.state \in Reading
    BY <1>1 DEF Reading
  <1>3. /\ me \in Receiving /\ Carries(st, JobOf(r)) /\ work.recv[r] \in {"single", "batch"}
        /\ Parsing(me, work.recv[r], JobOf(r), st, closed)
    BY <1>2, ReaderFacts
  <1>4. Here(st) >= me.start + me.need /\ len = st.script[me.start + 1] /\ len \in Nat
    BY <1>1, <1>2, UnitFacts
  <1> HIDE DEF len
  <1>5. /\ next \in Receiving /\ next.stream = me.stream
        /\ next.state = IF WithinLimit(len) THEN "body" ELSE "Err"
        /\ next.left = me.left /\ next.start = me.start + me.need
        /\ next.need = IF WithinLimit(len) THEN len ELSE me.need
        /\ next.out = me.out
    <2> DEFINE n == recv[r].need
               v == IF WithinLimit(len) THEN [me EXCEPT !.state = "body", !.need = len]
                    ELSE [me EXCEPT !.state = "Err"]
    <2>1. next = [v EXCEPT !.start = @ + n] /\ n = me.need /\ n \in Nat
      BY <1>3 DEF Receiving
    <2>2. "body" \in Reading \cup Done /\ "Err" \in Reading \cup Done
      BY DEF Reading, Done
    <2> HIDE DEF n, next
    <2>3. /\ v \in Receiving /\ v.stream = me.stream
          /\ v.state = IF WithinLimit(len) THEN "body" ELSE "Err"
          /\ v.left = me.left /\ v.start = me.start
          /\ v.need = IF WithinLimit(len) THEN len ELSE me.need
          /\ v.out = me.out
      <3>1. CASE WithinLimit(len)
        <4>1. v = [me EXCEPT !.state = "body", !.need = len]
          BY <3>1
        <4> HIDE DEF v, me
        <4> QED
          BY <1>3, <1>4, <2>2, <3>1, <4>1 DEF Receiving
      <3>2. CASE ~WithinLimit(len)
        BY <1>3, <2>2, <3>2, Turns
      <3> QED
        BY <3>1, <3>2
    <2> HIDE DEF v, me
    <2>4. /\ next \in Receiving /\ next.start = v.start + n
          /\ next.state = v.state /\ next.stream = v.stream
          /\ next.need = v.need /\ next.left = v.left /\ next.out = v.out
      BY <2>1, <2>3, MovesOn
    <2> QED
      BY <2>1, <2>3, <2>4
  <1> HIDE DEF next, st, me
  <1>6. Parsing(next, work.recv[r], JobOf(r), st, closed)
    BY <1>1, <1>3, <1>4, <1>5, ReadsLength
  <1>7. next.state # "ready"
    BY <1>5
  <1> QED
    BY <1>1, <1>2, <1>5, <1>6, <1>7, ReaderMoves DEF me, st

(* Reading a body does, parsed or not.                                      *)
LEMMA BodyRead ==
    ASSUME SessionInv, NEW r \in DOMAIN recv, ReadBody(r) \/ ReadNextBody(r)
    PROVE  SessionInv'
  <1> DEFINE me == recv[r]
             st == streams[recv[r].stream]
             u == Unit(r)
             m == CHOOSE m \in Parsed(u) : TRUE
             next == [IF Parsed(u) = {} THEN [me EXCEPT !.state = "Err"]
                      ELSE [me EXCEPT !.out = Append(@, m), !.left = @ - 1, !.need = 1,
                                      !.state = IF me.left = 1 THEN "Ok" ELSE "length"]
                         EXCEPT !.start = @ + recv[r].need]
  <1>1. /\ me.state = "body" /\ UnitArrived(r)
        /\ recv' = [recv EXCEPT ![r] = next]
        /\ UNCHANGED <<work, send, streams, accepted, closed>>
    BY DEF ReadBody, ReadNextBody, Taken, Refused, ReaderStep
  <1>2. me.state \in Reading
    BY <1>1 DEF Reading
  <1>3. /\ me \in Receiving /\ Carries(st, JobOf(r)) /\ work.recv[r] \in {"single", "batch"}
        /\ Parsing(me, work.recv[r], JobOf(r), st, closed)
    BY <1>2, ReaderFacts
  <1>4. Here(st) >= me.start + me.need /\ u = SubSeq(Bytes(st), me.start + 1, me.start + me.need)
    BY <1>1, <1>2, UnitFacts
  <1>5. Parsed(u) # {} => m \in Messages
    BY DEF Parsed
  <1> HIDE DEF u, m
  <1>6. /\ next \in Receiving /\ next.stream = me.stream
        /\ next.start = me.start + me.need
        /\ next.state # "ready"
        /\ Parsed(u) = {} => next.state = "Err"
        /\ Parsed(u) # {} =>
              /\ next.out = Append(me.out, m)
              /\ next.left = me.left - 1 /\ next.need = 1
              /\ next.state = IF me.left = 1 THEN "Ok" ELSE "length"
    <2> DEFINE n == recv[r].need
               x == IF me.left = 1 THEN "Ok" ELSE "length"
               l == me.left - 1
               d == 1
               o == Append(me.out, m)
               v == IF Parsed(u) = {} THEN [me EXCEPT !.state = "Err"]
                    ELSE [me EXCEPT !.out = o, !.left = l, !.need = d, !.state = x]
    <2>1. next = [v EXCEPT !.start = @ + n] /\ n = me.need /\ n \in Nat
      BY <1>3 DEF Receiving
    <2>2. /\ x \in Reading \cup Done /\ "Err" \in Reading \cup Done
          /\ l \in Int /\ d \in Nat
      BY <1>3 DEF Reading, Done, Receiving
    <2>3. Parsed(u) # {} => o \in Seq(Messages)
      BY <1>3, <1>5, AppendProperties DEF Receiving
    <2>4. x # "ready" /\ d = 1
      OBVIOUS
    <2> HIDE DEF n, next, l, d, o, x
    <2>5. /\ v \in Receiving /\ v.stream = me.stream /\ v.start = me.start
          /\ v.state # "ready"
          /\ Parsed(u) = {} => v.state = "Err"
          /\ Parsed(u) # {} => v.out = o /\ v.left = l /\ v.need = d /\ v.state = x
      <3>1. CASE Parsed(u) = {}
        BY <1>3, <2>2, <3>1, Turns
      <3>2. CASE Parsed(u) # {}
        <4>1. v = [me EXCEPT !.out = o, !.left = l, !.need = d, !.state = x]
          BY <3>2
        <4>2. o \in Seq(Messages)
          BY <2>3, <3>2
        <4> HIDE DEF v, me
        <4>3. /\ v \in Receiving /\ v.state = x /\ v.left = l
              /\ v.need = d /\ v.out = o
              /\ v.start = me.start /\ v.stream = me.stream
          BY <1>3, <2>2, <4>1, <4>2 DEF Receiving
        <4> QED
          BY <2>4, <3>2, <4>3
      <3> QED
        BY <3>1, <3>2
    <2> HIDE DEF v, me
    <2>6. /\ next \in Receiving /\ next.start = v.start + n
          /\ next.state = v.state /\ next.stream = v.stream
          /\ next.need = v.need /\ next.left = v.left /\ next.out = v.out
      BY <2>1, <2>5, MovesOn
    <2> QED
      BY <2>1, <2>4, <2>5, <2>6 DEF l, o, x
  <1> HIDE DEF next, st, me
  <1>7. Parsing(next, work.recv[r], JobOf(r), st, closed)
    BY <1>1, <1>3, <1>4, <1>6, ReadsBody DEF m
  <1> QED
    BY <1>1, <1>2, <1>6, <1>7, ReaderMoves DEF me, st

(* The stream or the connection ends inside a unit.                         *)
LEMMA ReadFailed ==
    ASSUME SessionInv, NEW r \in DOMAIN recv, ReadFails(r)
    PROVE  SessionInv'
  <1> DEFINE me == recv[r]
             st == streams[recv[r].stream]
             next == [me EXCEPT !.state = "Err"]
  <1>1. /\ me.state \in Reading /\ ~UnitArrived(r)
        /\ closed \/ FinArrived(me.stream)
        /\ recv' = [recv EXCEPT ![r] = next]
        /\ UNCHANGED <<work, send, streams, accepted, closed>>
    BY DEF ReadFails
  <1>2. /\ me \in Receiving /\ Carries(st, JobOf(r)) /\ work.recv[r] \in {"single", "batch"}
        /\ Parsing(me, work.recv[r], JobOf(r), st, closed)
        /\ Len(BytesAt(me.stream)) = Here(st) /\ Here(st) \in Nat
        /\ st.finished => closed \/ st.written = Len(st.script)
    BY <1>1, ReaderFacts
  <1>3. Here(st) < me.start + me.need
    <2>1. me.start \in Nat /\ me.need \in Nat
      BY <1>2 DEF Receiving
    <2> QED
      BY <1>1, <1>2, <2>1 DEF UnitArrived
  <1>4. Over(st, closed) /\ (closed \/ st.written = Len(st.script))
    BY <1>1, <1>2 DEF FinArrived, Over
  <1>5. next \in Receiving /\ next.stream = me.stream /\ next.state = "Err"
    BY <1>2, Turns DEF Done
  <1> HIDE DEF next, st, me
  <1>6. Parsing(next, work.recv[r], JobOf(r), st, closed)
    BY <1>1, <1>2, <1>3, <1>4, <1>5, Fails
  <1>7. next.state # "ready"
    BY <1>5
  <1> QED
    BY <1>1, <1>5, <1>6, <1>7, ReaderMoves DEF me, st

-----------------------------------------------------------------------------
(* Every step keeps the invariant.                                          *)
LEMMA SessionStep == SessionInv /\ [Next]_vars => SessionInv'
  <1> SUFFICES ASSUME SessionInv, [Next]_vars PROVE SessionInv'
    OBVIOUS
  <1>1. ASSUME NEW t \in DOMAIN send, Sender(t) PROVE SessionInv'
    <2>1. CASE RefuseOversize(t)
      BY <2>1, Refuses DEF RefuseOversize
    <2>2. CASE Open(t)
      BY <2>2, Opens
    <2>3. CASE OpenFails(t)
      BY <2>3, Refuses DEF OpenFails
    <2>4. CASE Write(t)
      BY <2>4, Writes
    <2>5. CASE WriteFails(t)
      BY <2>5, Ends DEF WriteFails, Done
    <2>6. CASE Abandon(t)
      BY <2>6, Ends DEF Abandon, Done
    <2>7. CASE Finish(t)
      BY <2>7, Ends DEF Finish, Done
    <2> QED
      BY <1>1, <2>1, <2>2, <2>3, <2>4, <2>5, <2>6, <2>7 DEF Sender
  <1>2. ASSUME NEW r \in DOMAIN recv, Receiver(r) PROVE SessionInv'
    BY <1>2, Accepts, AcceptsNone, CountRead, LengthRead, BodyRead, ReadFailed DEF Receiver
  <1>3. ASSUME NEW s \in DOMAIN streams, Arrive(s) PROVE SessionInv'
    BY <1>3, Arrives
  <1>4. CASE Close
    BY <1>4, Closes
  <1>5. CASE UNCHANGED vars
    <2>1. UNCHANGED <<work, send, streams, recv, accepted, closed>>
      BY <1>5 DEF vars
    <2> QED
      BY <2>1 DEF SessionInv, Calls, Streaming, Stopped, ReaderOf, OneStreamEach, Waits,
                  OneReaderEach, Reads, JobOf
  <1> QED
    BY <1>1, <1>2, <1>3, <1>4, <1>5 DEF Next, Sender, Receiver

(* The inductive invariant of a session of any workloads, messages, limits  *)
(* and window: every stream carries its sender's job as far as it has been  *)
(* written, and every receiver knows where in it it stands.                 *)
THEOREM SessionSafe == Spec => []SessionInv
  BY SessionInit, SessionStep, PTL DEF Spec

(* What a receiver that returned knows.                                     *)
LEMMA Returned ==
    ASSUME SessionInv, NEW r \in DOMAIN recv, recv[r].stream # 0
    PROVE  /\ Parsing(recv[r], work.recv[r], JobOf(r), streams[recv[r].stream], closed)
           /\ BytesAt(recv[r].stream) = Bytes(streams[recv[r].stream])
  BY DEF SessionInv, Reads, BytesAt, Bytes

(* recv_message and recv_messages return what send_message and              *)
(* send_messages were given, whole and in order, or fail: never the front   *)
(* of a batch, and never anything to a caller of the wrong function.        *)
THEOREM ReceivedIsSent == Spec => []OkMeansSent
  <1>1. ASSUME SessionInv PROVE OkMeansSent
    <2> SUFFICES ASSUME NEW r \in DOMAIN recv, recv[r].state = "Ok"
                 PROVE  /\ JobOf(r).kind = work.recv[r]
                        /\ recv[r].out = JobOf(r).messages
      BY DEF OkMeansSent
    <2>1. recv[r].stream # 0
      BY <1>1 DEF SessionInv, Waits
    <2> QED
      BY <1>1, <2>1, Returned DEF Parsing, Crossed, Matched
  <1> QED
    BY <1>1, SessionSafe, PTL

(* A receiver that has a stream fails only when the connection closed, the  *)
(* other function was called, or a message exceeds a limit.                 *)
THEOREM FailuresHaveACause == Spec => []ErrorsAreExplained
  <1>1. ASSUME SessionInv PROVE ErrorsAreExplained
    <2> SUFFICES ASSUME NEW r \in DOMAIN recv, recv[r].state = "Err", recv[r].stream # 0
                 PROVE  closed \/ JobOf(r).kind # work.recv[r] \/ TooLong(JobOf(r))
      BY DEF ErrorsAreExplained, TooLong
    <2> QED
      BY <1>1, Returned DEF Parsing, Matched
  <1> QED
    BY <1>1, SessionSafe, PTL

(* What a receiver at a frame has of it: it stands before the length, or    *)
(* before a body whose length was within the limit.                         *)
LEMMA FrameFacts ==
    ASSUME SessionInv, NEW r \in DOMAIN recv, recv[r].state \in {"length", "body"}
    PROVE  LET me == recv[r]
               b  == BytesAt(recv[r].stream)
           IN  /\ b \in Seq(Nat) /\ me \in Receiving
               /\ me.state = "length" => me.need = 1
               /\ me.state = "body" =>
                     /\ me.start \in Nat \ {0} /\ WithinLimit(me.need)
                     /\ Len(b) >= me.start => b[me.start] = me.need
  <1> DEFINE me  == recv[r]
             st  == streams[recv[r].stream]
             job == JobOf(r)
             k   == Len(me.out)
  <1>1. /\ me \in Receiving /\ work.recv[r] \in {"single", "batch"}
        /\ Carries(st, job) /\ Parsing(me, work.recv[r], job, st, closed)
        /\ BytesAt(me.stream) = Bytes(st)
        /\ me.state = "length" => me.need = 1
    BY ReaderFacts DEF Reading
  <1>2. /\ IsJob(job) /\ st \in Stream /\ st.script = Script(job)
        /\ st.written <= Len(st.script)
        /\ Here(st) \in Nat
    BY <1>1, CarriedBytes
  <1>3. /\ Bytes(st) \in Seq(Nat) /\ Len(Bytes(st)) = Here(st)
        /\ \A i \in 1..Here(st) : Bytes(st)[i] = st.script[i]
    BY <1>2, BytesAre
  <1>4. ASSUME me.state = "body"
        PROVE  me.start \in Nat \ {0} /\ WithinLimit(me.need) /\ st.script[me.start] = me.need
    <2>1. CASE work.recv[r] = "single"
      BY <1>1, <1>4, <2>1 DEF Parsing, Decoding
    <2>2. CASE work.recv[r] = "batch" /\ job.kind = "batch"
      <3>1. /\ k < Ready(job) /\ me.start = Offset(job, k) + 1 /\ WithinLimit(me.need)
            /\ me.need = Len(BodyOf[job.messages[k + 1]])
        BY <1>1, <1>4, <2>2 DEF Parsing, Matched
      <3>2. k \in Nat
        BY <1>1, LenProperties DEF Receiving
      <3> HIDE DEF k, st, job, me
      <3>3. Offset(job, k) \in Nat
            /\ st.script[Offset(job, k) + 1] = Len(BodyOf[job.messages[k + 1]])
        BY <1>1, <1>2, <3>1, <3>2, NextFrame
      <3> QED
        BY <3>1, <3>3
    <2>3. CASE work.recv[r] = "batch" /\ job.kind # "batch"
      BY <1>1, <1>4, <2>3 DEF Parsing, Crossed
    <2> QED
      BY <1>1, <2>1, <2>2, <2>3
  <1> HIDE DEF st
  <1>5. ASSUME me.state = "body", Here(st) >= me.start
        PROVE  Bytes(st)[me.start] = me.need
    <2>1. me.start \in 1..Here(st)
      BY <1>2, <1>4, <1>5
    <2> QED
      BY <1>3, <1>4, <1>5, <2>1
  <1> QED
    BY <1>1, <1>3, <1>4, <1>5

(* decode_frame says of the frame a receiver is at what the receiver says.  *)
LEMMA DecodesAlike ==
    ASSUME SessionInv, NEW r \in DOMAIN recv, recv[r].state \in {"length", "body"},
           [Next]_vars
    PROVE  LET decoded == DecodeFrame(AtFrame(r))
           IN  /\ recv'[r].out # recv[r].out =>
                      /\ decoded[1] = "message"
                      /\ recv'[r].out = Append(recv[r].out, decoded[2])
               /\ recv'[r].state = "Err" =>
                      decoded = IF UnitArrived(r) THEN <<"error">> ELSE <<"more">>
  <1> DEFINE me == recv[r]
             b  == BytesAt(recv[r].stream)
             decoded == DecodeFrame(AtFrame(r))
  <1>1. /\ b \in Seq(Nat) /\ me \in Receiving
        /\ me.state = "length" => me.need = 1
        /\ me.state = "body" =>
              /\ me.start \in Nat \ {0} /\ WithinLimit(me.need)
              /\ Len(b) >= me.start => b[me.start] = me.need
    BY FrameFacts
  <1>2. me.start \in Nat /\ me.need \in Nat /\ Len(b) \in Nat
    BY <1>1, LenProperties DEF Receiving
  <1> DEFINE from == IF me.state = "length" THEN me.start + 1 ELSE me.start
             body == SubSeq(b, from + 1, from + b[from])
  <1>3. from \in Nat \ {0}
    BY <1>1, <1>2
  <1>4. decoded =
          IF Len(b) < from THEN <<"more">>
          ELSE IF ~WithinLimit(b[from]) THEN <<"error">>
          ELSE IF Len(b) < from + b[from] THEN <<"more">>
          ELSE IF Parsed(body) = {} THEN <<"error">>
          ELSE <<"message", CHOOSE m \in Parsed(body) : TRUE>>
    <2>1. AtFrame(r) = SubSeq(b, from, Len(b))
      BY DEF AtFrame
    <2> HIDE DEF b, from
    <2> QED
      BY <1>1, <1>3, <2>1, DecodeAt
  <1>5. UnitArrived(r) <=> Len(b) >= me.start + me.need
    BY DEF UnitArrived
  <1>6. Unit(r) = SubSeq(b, me.start + 1, me.start + me.need)
    BY DEF Unit
  <1>7. CASE recv'[r] = recv[r]
    BY <1>7
  <1>8. CASE ReadLength(r) \/ ReadNextLength(r)
    <2> DEFINE next == [IF WithinLimit(Unit(r)[1]) THEN Sized(r) ELSE Refused(r)
                           EXCEPT !.start = @ + recv[r].need]
    <2>1. me.state = "length" /\ UnitArrived(r) /\ recv' = [recv EXCEPT ![r] = next]
      BY <1>8 DEF ReadLength, ReadNextLength, ReaderStep
    <2>2. /\ next.out = me.out
          /\ next.state = IF WithinLimit(Unit(r)[1]) THEN "body" ELSE "Err"
      <3> HIDE DEF me
      <3>1. Sized(r).out = me.out /\ Sized(r).state = "body" /\ Sized(r).start = me.start
            /\ DOMAIN Sized(r) = DOMAIN me
        BY <1>1 DEF Sized, Receiving, me
      <3>2. Refused(r).out = me.out /\ Refused(r).state = "Err" /\ Refused(r).start = me.start
            /\ DOMAIN Refused(r) = DOMAIN me
        BY <1>1 DEF Refused, Receiving, me
      <3>3. DOMAIN me = {"state", "stream", "start", "need", "left", "out"}
        BY <1>1 DEF Receiving
      <3> QED
        BY <3>1, <3>2, <3>3
    <2> HIDE DEF next
    <2>3. recv'[r] = next
      BY <2>1
    <2>4. Len(b) >= from /\ Unit(r)[1] = b[from]
      <3>1. me.need = 1 /\ from = me.start + 1 /\ Len(b) >= me.start + 1
        BY <1>1, <1>5, <2>1
      <3> DEFINE u == SubSeq(b, me.start + 1, me.start + 1)
      <3>2. u[1] = b[me.start + 1]
        <4> HIDE DEF b, me
        <4>1. \A i \in (me.start + 1)..(me.start + 1) : b[i] \in Nat
          BY <1>1, <1>2, <3>1, ElementOfSeq
        <4>2. \A i \in 1..((me.start + 1) - (me.start + 1) + 1) : u[i] = b[(me.start + 1) + i - 1]
          BY <1>2, <4>1, SubSeqProperties
        <4> HIDE DEF u
        <4>3. 1 \in 1..((me.start + 1) - (me.start + 1) + 1)
              /\ (me.start + 1) + 1 - 1 = me.start + 1
          BY <1>2
        <4> QED
          BY <4>2, <4>3
      <3> QED
        BY <1>6, <3>1, <3>2
    <2>5. next.state = "Err" => ~WithinLimit(b[from]) /\ ~(Len(b) < from)
      BY <1>2, <1>3, <2>2, <2>4
    <2> QED
      BY <1>4, <2>1, <2>2, <2>3, <2>5
  <1>9. CASE ReadBody(r) \/ ReadNextBody(r)
    <2> DEFINE u == Unit(r)
               next == [IF Parsed(u) = {} THEN Refused(r) ELSE Taken(r)
                           EXCEPT !.start = @ + recv[r].need]
    <2>1. me.state = "body" /\ UnitArrived(r) /\ recv' = [recv EXCEPT ![r] = next]
      BY <1>9 DEF ReadBody, ReadNextBody, ReaderStep
    <2>2. /\ from = me.start /\ b[from] = me.need /\ WithinLimit(b[from])
          /\ ~(Len(b) < from) /\ ~(Len(b) < from + b[from])
      BY <1>1, <1>2, <1>5, <2>1
    <2>3. u = body
      BY <1>6, <2>2
    <2> HIDE DEF u
    <2>4. /\ Parsed(u) = {} => next.out = me.out
          /\ Parsed(u) # {} =>
                /\ next.out = Append(me.out, CHOOSE m \in Parsed(u) : TRUE)
                /\ next.state # "Err"
      <3> HIDE DEF me
      <3>1. DOMAIN me = {"state", "stream", "start", "need", "left", "out"}
        BY <1>1 DEF Receiving
      <3>2. Refused(r).out = me.out /\ DOMAIN Refused(r) = DOMAIN me
        BY <1>1 DEF Refused, Receiving, me
      <3>3. /\ Taken(r).out = Append(me.out, CHOOSE m \in Parsed(u) : TRUE)
            /\ Taken(r).state = IF me.left = 1 THEN "Ok" ELSE "length"
            /\ DOMAIN Taken(r) = DOMAIN me
        BY <1>1 DEF Taken, Receiving, me, u
      <3> QED
        BY <3>1, <3>2, <3>3
    <2>5. decoded = IF Parsed(u) = {} THEN <<"error">>
                    ELSE <<"message", CHOOSE m \in Parsed(u) : TRUE>>
      BY <1>4, <2>2, <2>3
    <2> DEFINE m == CHOOSE m \in Parsed(u) : TRUE
    <2> HIDE DEF next, decoded, m
    <2>6. recv'[r] = next
      BY <2>1
    <2>7. CASE Parsed(u) = {}
      BY <2>1, <2>4, <2>5, <2>6, <2>7 DEF decoded
    <2>8. CASE Parsed(u) # {}
      <3>1. decoded = <<"message", m>> /\ next.out = Append(me.out, m) /\ next.state # "Err"
        BY <2>4, <2>5, <2>8 DEF m
      <3>2. decoded[1] = "message" /\ decoded[2] = m
        BY <3>1
      <3> QED
        BY <2>6, <3>1, <3>2 DEF decoded
    <2> QED
      BY <2>7, <2>8
  <1>10. CASE ReadFails(r)
    <2>1. ~UnitArrived(r) /\ recv' = [recv EXCEPT ![r].state = "Err"]
      BY <1>10 DEF ReadFails
    <2>2. recv'[r].out = me.out
      BY <1>1, <2>1 DEF Receiving
    <2>3. \/ Len(b) < from
          \/ me.state = "body" /\ b[from] = me.need /\ Len(b) < from + b[from]
      BY <1>1, <1>2, <1>5, <2>1
    <2>4. decoded = <<"more">>
      BY <1>1, <1>4, <2>3
    <2> QED
      BY <2>1, <2>2, <2>4
  <1>11. \/ recv'[r] = recv[r]
         \/ ReadLength(r) \/ ReadNextLength(r) \/ ReadBody(r) \/ ReadNextBody(r)
         \/ ReadFails(r)
    <2>1. ASSUME NEW t \in Tasks, Sender(t) PROVE recv' = recv
      BY <2>1 DEF Sender, RefuseOversize, Open, OpenFails, Write, WriteFails, Abandon, Finish,
                  SenderEnds
    <2>2. ASSUME NEW s \in DOMAIN streams, Arrive(s) PROVE recv' = recv
      BY <2>2 DEF Arrive
    <2>3. Close \/ UNCHANGED vars => recv' = recv
      BY DEF Close, vars
    <2>4. ASSUME NEW q \in Tasks, Receiver(q), q # r PROVE recv'[r] = recv[r]
      BY <2>4 DEF Receiver, Accept, AcceptFails, ReadCount, ReadLength, ReadNextLength,
                  ReadBody, ReadNextBody, ReadFails, ReaderStep
    <2>5. ASSUME Receiver(r)
          PROVE  \/ ReadLength(r) \/ ReadNextLength(r) \/ ReadBody(r) \/ ReadNextBody(r)
                 \/ ReadFails(r)
      BY <2>5 DEF Receiver, Accept, AcceptFails, ReadCount
    <2> QED
      BY <2>1, <2>2, <2>3, <2>4, <2>5 DEF Next
  <1> QED
    BY <1>7, <1>8, <1>9, <1>10, <1>11

(* decode_frame, recv_message and recv_messages agree on every frame a      *)
(* receiver comes to, of any messages, limits and workload, whatever of the *)
(* stream has arrived and wherever it ended.                                *)
THEOREM DecodersNeverDisagree == Spec => DecodersAgree
  <1>1. SessionInv /\ [Next]_vars =>
          [\A r \in DOMAIN recv :
              recv[r].state \in {"length", "body"} =>
                 LET decoded == DecodeFrame(AtFrame(r))
                 IN  /\ recv'[r].out # recv[r].out =>
                            /\ decoded[1] = "message"
                            /\ recv'[r].out = Append(recv[r].out, decoded[2])
                     /\ recv'[r].state = "Err" =>
                            decoded = IF UnitArrived(r) THEN <<"error">> ELSE <<"more">>]_vars
    BY DecodesAlike
  <1> QED
    BY <1>1, SessionSafe, PTL DEF Spec, DecodersAgree
==============================================================================
