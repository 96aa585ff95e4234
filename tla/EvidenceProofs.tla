--------------------------- MODULE EvidenceProofs ---------------------------
(***************************************************************************)
(* Lemmas about the two things done with evidence on its way: projected to *)
(* a message and back, and incorporated into an engine.                    *)
(*                                                                         *)
(* to_message and from_message are inverse up to the receiver's own        *)
(* timestamp.  incorporate computes, for every number of calls, the        *)
(* textbook posterior of the SUM of the measurements, so that neither the  *)
(* order nor the grouping of the updates shows in it.  The theorems about  *)
(* Wire, Network, Belief and Simulation rest on this.                      *)
(*                                                                         *)
(* The sum of a finite set is defined by recursion over the set.  The      *)
(* facts about it are proved by the least counterexample, a smallest set   *)
(* for which the fact fails, since every prover at hand can use a set of   *)
(* naturals and none an operator parameter.                                *)
(***************************************************************************)
EXTENDS BeliefEngine, Projection, FiniteSetsExt, FiniteSetTheorems,
        WellFoundedInduction, TLAPS

(* A set of naturals that is not empty has a least element.                 *)
LEMMA LeastNatural ==
    ASSUME NEW T \in SUBSET Nat, T # {}
    PROVE  \E x \in T : \A y \in T : x <= y
  <1> DEFINE Less == {p \in Nat \X Nat : p[1] < p[2]}
  <1>1. IsWellFoundedOn(Less, Nat)
    <2>1. OpToRel(<, Nat) = Less
      BY DEF OpToRel
    <2> QED
      BY <2>1, NatLessThanWellFounded
  <1> HIDE DEF Less
  <1>2. PICK x \in T : \A y \in T : <<y, x>> \notin Less
    BY <1>1, WFMin
  <1>3. ASSUME NEW y \in T PROVE x <= y
    <2>1. x \in Nat /\ y \in Nat
      OBVIOUS
    <2>2. ~(y < x)
      BY <1>2, <2>1 DEF Less
    <2> QED
      BY <2>1, <2>2
  <1> QED
    BY <1>3

-----------------------------------------------------------------------------
(* No extension a sender writes is taken for an absent or malformed one.    *)
LEMMA WrittenIsThere ==
    ASSUME NEW x
    PROVE  /\ Hex(x) \notin {Absent, Malformed}
           /\ [hops |-> x] \notin {Absent, Malformed}
           /\ [nanos |-> x] \notin {Absent, Malformed}
           /\ HexIntact(Hex(x)) /\ ~HexPanics(Hex(x)) /\ Hex(x).encodes = x
  <1>1. /\ DOMAIN Hex(x) = {"encodes", "damage"}
        /\ DOMAIN [hops |-> x] = {"hops"}
        /\ DOMAIN [nanos |-> x] = {"nanos"}
        /\ DOMAIN Absent = {"extension"}
        /\ DOMAIN Malformed = {"extension"}
    BY DEF Hex, Absent, Malformed
  <1>2. HexIntact(Hex(x)) /\ ~HexPanics(Hex(x)) /\ Hex(x).encodes = x
    BY DEF HexIntact, HexPanics, Hex
  <1> QED
    BY <1>1, <1>2

(* The first failed check is one of them.                                   *)
LEMMA FirstOfNine ==
    ASSUME NEW F, F \subseteq {1, 2, 3, 4, 5, 6, 7, 8, 9}, F # {}
    PROVE  Min(F) \in F
  <1> SUFFICES \E x \in F : \A y \in F : x <= y
    BY DEF Min
  <1>1. CASE F \cap {1, 2, 3} # {}
    <2>1. \A y \in F : \A x \in {1, 2, 3} : x <= y \/ y \in {1, 2, 3}
      OBVIOUS
    <2> QED
      BY <1>1, <2>1
  <1>2. CASE F \cap {1, 2, 3} = {} /\ F \cap {4, 5, 6} # {}
    <2>1. F \subseteq {4, 5, 6, 7, 8, 9}
      BY <1>2
    <2>2. \A y \in F : \A x \in {4, 5, 6} : x <= y \/ y \in {4, 5, 6}
      BY <2>1
    <2> QED
      BY <1>2, <2>1, <2>2
  <1>3. CASE F \cap {1, 2, 3, 4, 5, 6} = {}
    <2>1. F \subseteq {7, 8, 9} /\ F # {}
      BY <1>3
    <2>2. CASE 7 \in F
      BY <2>1, <2>2
    <2>3. CASE 7 \notin F /\ 8 \in F
      BY <2>1, <2>3
    <2>4. CASE F = {9}
      BY <2>4
    <2> QED
      BY <2>1, <2>2, <2>3, <2>4
  <1> QED
    BY <1>1, <1>2, <1>3

(* from_message succeeds exactly when each of its checks does.              *)
LEMMA ParsesWhenChecked ==
    ASSUME NEW msg
    PROVE  Parse(msg) = "Ok" <=>
             \A i \in DOMAIN Checks(msg) : Checks(msg)[i] = "Ok"
  <1> DEFINE failed == {i \in DOMAIN Checks(msg) : Checks(msg)[i] # "Ok"}
  <1>1. Parse(msg) = IF failed = {} THEN "Ok" ELSE Checks(msg)[Min(failed)]
    BY DEF Parse
  <1>2. failed # {} => Min(failed) \in failed
    <2>1. DOMAIN Checks(msg) = {1, 2, 3, 4, 5, 6, 7, 8, 9}
      BY DEF Checks
    <2>2. failed \subseteq {1, 2, 3, 4, 5, 6, 7, 8, 9}
      BY <2>1
    <2> HIDE DEF failed
    <2> QED
      BY <2>2, FirstOfNine
  <1> QED
    BY <1>1, <1>2

(* What was written parses.                                                 *)
LEMMA WrittenParses ==
    ASSUME NEW e, e.payload \in Decodable, NEW domain
    PROVE  Parse(ToMessage(e, domain)) = "Ok"
  <1> DEFINE msg == ToMessage(e, domain)
  <1>1. ASSUME NEW x PROVE ParseHex32(Hex(x)) = "Ok"
    BY WrittenIsThere DEF ParseHex32
  <1>2. /\ msg.kind = "Bytes/Postcard"
        /\ msg.payload = e.payload
        /\ msg.evidence_id = Hex(e.evidence_id)
        /\ msg.observation_id = Hex(e.observation_id)
        /\ msg.source_id = Hex(e.source_id)
        /\ msg.provenance = [hops |-> e.provenance]
        /\ msg.parents = [i \in DOMAIN e.parents |-> Hex(e.parents[i])]
        /\ msg.signature = IF e.signature = NoSignature THEN Absent
                           ELSE Hex(e.signature)
        /\ msg.subject = <<"seven", domain, e.subject, "evidence">>
    BY DEF ToMessage, EvidenceSubject
  <1> HIDE DEF msg
  <1>3. ~\E i \in DOMAIN msg.parents : HexPanics(msg.parents[i])
    BY <1>2, WrittenIsThere
  <1>4. ~(msg.signature \notin {Absent, Malformed} /\ HexPanics(msg.signature))
    BY <1>2, WrittenIsThere
  <1>5. msg.provenance # Malformed
    BY <1>2, WrittenIsThere
  <1>6. /\ Len(msg.subject) = 4
        /\ msg.subject[1] = "seven" /\ msg.subject[4] = "evidence"
    BY <1>2
  <1>7. Checks(msg) = <<"Ok", "Ok", "Ok", "Ok", "Ok", "Ok", "Ok", "Ok", "Ok">>
    BY <1>1, <1>2, <1>3, <1>4, <1>5, <1>6 DEF Checks
  <1> QED
    BY <1>7, ParsesWhenChecked DEF msg

(* The list of parents comes back whole and in order.                       *)
LEMMA ParentsReturn ==
    ASSUME NEW parents, NEW k \in Nat, parents = [i \in 1..k |-> parents[i]]
    PROVE  ParsedParents([i \in DOMAIN parents |-> Hex(parents[i])]) = parents
  <1> DEFINE hexes == [i \in DOMAIN parents |-> Hex(parents[i])]
             Next1(f, n) == IF n = 0 THEN << >>
                            ELSE IF HexIntact(hexes[n])
                                 THEN Append(f[n - 1], hexes[n].encodes)
                            ELSE f[n - 1]
             prefix == [n \in 0..k |-> [i \in 1..n |-> parents[i]]]
             parsed == CHOOSE f : f = [n \in 0..k |-> Next1(f, n)]
  <1>1. /\ Len(hexes) = k
        /\ \A i \in 1..k : hexes[i] = Hex(parents[i])
    OBVIOUS
  <1>2. ParsedParents(hexes) = parsed[k]
    BY <1>1 DEF ParsedParents
  <1>3. prefix = [n \in 0..k |-> Next1(prefix, n)]
    <2>1. ASSUME NEW n \in 0..k PROVE prefix[n] = Next1(prefix, n)
      <3>1. CASE n = 0
        BY <3>1
      <3>2. CASE n # 0
        <4>1. n - 1 \in 0..k /\ n \in 1..k
          BY <3>2
        <4>2. HexIntact(hexes[n]) /\ hexes[n].encodes = parents[n]
          BY <1>1, <4>1, WrittenIsThere
        <4>3. Append(prefix[n - 1], parents[n]) = prefix[n]
          BY <4>1
        <4> HIDE DEF prefix, hexes
        <4> QED
          BY <3>2, <4>2, <4>3
      <3> QED
        BY <3>1, <3>2
    <2>2. prefix = [n \in 0..k |-> prefix[n]]
      OBVIOUS
    <2> HIDE DEF prefix
    <2> QED
      BY <2>1, <2>2
  <1> HIDE DEF prefix
  <1>4. parsed = [n \in 0..k |-> Next1(parsed, n)]
    BY <1>3
  <1> HIDE DEF parsed
  <1>5. \A n \in 0..k : parsed[n] = prefix[n]
    <2> DEFINE Bad == {n \in 0..k : parsed[n] # prefix[n]}
    <2>1. SUFFICES ASSUME Bad # {} PROVE FALSE
      OBVIOUS
    <2>2. PICK n \in Bad : \A m \in Bad : n <= m
      <3>1. Bad \in SUBSET Nat
        OBVIOUS
      <3> HIDE DEF Bad
      <3> QED
        BY <2>1, <3>1, LeastNatural
    <2>3. n \in 0..k /\ parsed[n] = Next1(parsed, n) /\ prefix[n] = Next1(prefix, n)
      BY <1>3, <1>4, <2>2
    <2>4. n # 0 /\ parsed[n] # prefix[n]
      BY <2>2, <2>3
    <2>5. n - 1 \in 0..k /\ ~(n <= n - 1)
      BY <2>3, <2>4
    <2>6. parsed[n - 1] = prefix[n - 1]
      BY <2>2, <2>5
    <2> QED
      BY <2>3, <2>4, <2>6
  <1>6. prefix[k] = parents
    BY DEF prefix
  <1> QED
    BY <1>2, <1>5, <1>6

(* from_message recovers what to_message wrote, but for the time of         *)
(* reception, which the receiver fills in.                                  *)
LEMMA WrittenReturns ==
    ASSUME NEW e, IsEvidence(e), NEW domain
    PROVE  FromMessage(ToMessage(e, domain)) = [e EXCEPT !.received_at = 0]
  <1> DEFINE msg == ToMessage(e, domain)
  <1>1. /\ msg.evidence_id.encodes = e.evidence_id
        /\ msg.observation_id.encodes = e.observation_id
        /\ msg.source_id # Absent /\ msg.source_id.encodes = e.source_id
        /\ msg.subject[3] = e.subject
        /\ msg.expires_at \notin {Absent, Malformed}
        /\ msg.expires_at.nanos = e.expires_at
        /\ msg.payload = e.payload
        /\ msg.provenance # Absent /\ msg.provenance.hops = e.provenance
    BY WrittenIsThere DEF ToMessage, EvidenceSubject
  <1>2. ParsedParents(msg.parents) = e.parents
    BY ParentsReturn DEF ToMessage, IsEvidence
  <1>3. ParsedSignature(msg.signature) = e.signature
    BY WrittenIsThere DEF ToMessage, ParsedSignature
  <1> HIDE DEF msg
  <1>4. FromMessage(msg) =
          [evidence_id    |-> e.evidence_id,
           observation_id |-> e.observation_id,
           source_id      |-> e.source_id,
           subject        |-> e.subject,
           received_at    |-> 0,
           expires_at     |-> e.expires_at,
           payload        |-> e.payload,
           provenance     |-> e.provenance,
           parents        |-> e.parents,
           signature      |-> e.signature]
    BY <1>1, <1>2, <1>3 DEF FromMessage
  <1> QED
    BY <1>4 DEF IsEvidence, msg

-----------------------------------------------------------------------------
(* The sum of v over S, its recursion, and the element it takes first.      *)
SumOver(v, S) == MapThenSumSet(LAMBDA x : v[x], S)

First(S) == CHOOSE x \in S : TRUE

Step(v, g, S) == IF S = {} THEN 0 ELSE v[First(S)] + g[S \ {First(S)}]

Sums(v, g, D) == g = [S \in SUBSET D |-> Step(v, g, S)]

(* The recursion has a solution over the subsets of a finite set.           *)
LEMMA SumExists ==
    ASSUME NEW v, NEW D, IsFiniteSet(D)
    PROVE  \E g : Sums(v, g, D)
  <1> DEFINE Upto(g, n) ==
               \A S \in SUBSET D : Cardinality(S) <= n => g[S] = Step(v, g, S)
             Bad == {n \in Nat : ~\E g : DOMAIN g = SUBSET D /\ Upto(g, n)}
  <1>1. /\ Cardinality(D) \in Nat
        /\ \A S \in SUBSET D : /\ IsFiniteSet(S)
                               /\ Cardinality(S) \in Nat
                               /\ Cardinality(S) <= Cardinality(D)
    BY FS_Subset, FS_CardinalityType
  <1>2. Bad = {}
    <2> SUFFICES ASSUME Bad # {} PROVE FALSE
      OBVIOUS
    <2>1. PICK n \in Bad : \A m \in Bad : n <= m
      BY LeastNatural
    <2>2. n # 0
      <3> DEFINE g == [S \in SUBSET D |-> 0]
      <3>1. ASSUME NEW S \in SUBSET D, Cardinality(S) <= 0
            PROVE  g[S] = Step(v, g, S)
        <4>1. S = {}
          BY <1>1, <3>1, FS_EmptySet
        <4> QED
          BY <4>1 DEF Step
      <3>2. DOMAIN g = SUBSET D
        OBVIOUS
      <3> HIDE DEF g
      <3> QED
        BY <2>1, <3>1, <3>2
    <2>3. n \in Nat /\ n - 1 \in Nat /\ ~(n <= n - 1)
      BY <2>1, <2>2
    <2>4. n - 1 \notin Bad
      BY <2>1, <2>3
    <2>5. PICK g : DOMAIN g = SUBSET D /\ Upto(g, n - 1)
      BY <2>3, <2>4
    <2> DEFINE h == [S \in SUBSET D |-> Step(v, g, S)]
    <2>6. ASSUME NEW S \in SUBSET D, Cardinality(S) <= n
          PROVE  h[S] = Step(v, h, S)
      <3>1. CASE S = {}
        BY <3>1 DEF Step
      <3>2. CASE S # {}
        <4> DEFINE R == S \ {First(S)}
        <4>1. First(S) \in S
          BY <3>2 DEF First
        <4>2. R \in SUBSET D /\ Cardinality(R) <= n - 1
          BY <1>1, <2>3, <2>6, <4>1, FS_RemoveElement
        <4>3. g[R] = Step(v, g, R) /\ h[R] = Step(v, g, R)
          BY <2>5, <4>2
        <4>4. h[S] = Step(v, g, S)
          OBVIOUS
        <4>5. Step(v, g, S) = Step(v, h, S)
          <5> HIDE DEF h
          <5> QED
            BY <3>2, <4>3 DEF Step
        <4> QED
          BY <4>4, <4>5
      <3> QED
        BY <3>1, <3>2
    <2>7. DOMAIN h = SUBSET D
      OBVIOUS
    <2> HIDE DEF h
    <2> QED
      BY <2>1, <2>6, <2>7
  <1>3. PICK g : DOMAIN g = SUBSET D /\ Upto(g, Cardinality(D))
    BY <1>1, <1>2
  <1>4. \A S \in SUBSET D : g[S] = Step(v, g, S)
    BY <1>1, <1>3
  <1> DEFINE h == [S \in SUBSET D |-> g[S]]
  <1>5. ASSUME NEW S \in SUBSET D PROVE h[S] = Step(v, h, S)
    BY <1>4 DEF Step, First
  <1>6. h = [S \in SUBSET D |-> Step(v, h, S)]
    <2> DEFINE k == [S \in SUBSET D |-> Step(v, h, S)]
    <2>1. \A S \in SUBSET D : h[S] = k[S]
      <3> HIDE DEF h
      <3> QED
        BY <1>5
    <2>2. DOMAIN h = SUBSET D
      OBVIOUS
    <2>3. h = [S \in SUBSET D |-> h[S]]
      OBVIOUS
    <2> HIDE DEF h
    <2> QED
      BY <2>1, <2>3
  <1> HIDE DEF h
  <1> QED
    BY <1>6 DEF Sums

(* Solutions over a set and over a subset of it agree where both are.       *)
LEMMA SumUnique ==
    ASSUME NEW v, NEW D, IsFiniteSet(D), NEW E \in SUBSET D,
           NEW g, Sums(v, g, D), NEW h, Sums(v, h, E)
    PROVE  \A S \in SUBSET E : g[S] = h[S]
  <1> DEFINE Bad == {n \in Nat : \E S \in SUBSET E :
                                    g[S] # h[S] /\ Cardinality(S) = n}
  <1>1. \A S \in SUBSET E : IsFiniteSet(S) /\ Cardinality(S) \in Nat
    BY FS_Subset, FS_CardinalityType
  <1>2. \A S \in SUBSET E : g[S] = Step(v, g, S) /\ h[S] = Step(v, h, S)
    <2>1. \A S \in SUBSET D : g[S] = Step(v, g, S)
      BY DEF Sums
    <2>2. \A S \in SUBSET E : h[S] = Step(v, h, S)
      BY DEF Sums
    <2> QED
      BY <2>1, <2>2
  <1>3. SUFFICES ASSUME NEW X \in SUBSET E, g[X] # h[X] PROVE FALSE
    OBVIOUS
  <1>4. PICK n \in Bad : \A m \in Bad : n <= m
    <2>1. Bad # {}
      BY <1>1, <1>3
    <2> QED
      BY <2>1, LeastNatural
  <1>5. PICK S \in SUBSET E : g[S] # h[S] /\ Cardinality(S) = n
    BY <1>4
  <1>6. S # {}
    BY <1>2, <1>5 DEF Step
  <1> DEFINE R == S \ {First(S)}
  <1>7. First(S) \in S
    BY <1>6 DEF First
  <1>8. R \in SUBSET E /\ Cardinality(R) \in Nat /\ Cardinality(R) = n - 1
    BY <1>1, <1>5, <1>7, FS_RemoveElement
  <1>9. g[R] = h[R]
    <2>1. n \in Nat /\ ~(n <= n - 1)
      BY <1>4
    <2>2. Cardinality(R) \notin Bad
      <3> HIDE DEF Bad
      <3> QED
        BY <1>4, <1>8, <2>1
    <2> QED
      BY <1>8, <2>2
  <1> QED
    BY <1>2, <1>5, <1>6, <1>9 DEF Step

(* The sum of nothing is 0; a sum is its first element and the other ones.  *)
LEMMA SumStep ==
    ASSUME NEW v
    PROVE  /\ SumOver(v, {}) = 0
           /\ \A D : IsFiniteSet(D) /\ D # {} =>
                SumOver(v, D) = v[First(D)] + SumOver(v, D \ {First(D)})
  <1>1. SumOver(v, {}) = 0
    BY DEF SumOver, MapThenSumSet, MapThenFoldSet
  <1>2. ASSUME NEW D, IsFiniteSet(D), D # {}
        PROVE  SumOver(v, D) = v[First(D)] + SumOver(v, D \ {First(D)})
    <2> DEFINE Rec(E) == CHOOSE g : Sums(v, g, E)
               R == D \ {First(D)}
    <2>1. ASSUME NEW E \in SUBSET D
          PROVE  Sums(v, Rec(E), E) /\ SumOver(v, E) = Rec(E)[E]
      <3>1. IsFiniteSet(E)
        BY <1>2, FS_Subset
      <3>2. Sums(v, Rec(E), E)
        BY <3>1, SumExists
      <3>3. SumOver(v, E) = Rec(E)[E]
        BY DEF SumOver, MapThenSumSet, MapThenFoldSet, Step, First, Sums
      <3> QED
        BY <3>2, <3>3
    <2> HIDE DEF Rec
    <2>2. D \in SUBSET D /\ R \in SUBSET D
      OBVIOUS
    <2>3. Rec(D)[R] = Rec(R)[R]
      <3> DEFINE g == Rec(D)
                 h == Rec(R)
      <3>1. Sums(v, g, D) /\ Sums(v, h, R)
        BY <2>1, <2>2
      <3> HIDE DEF R, g, h
      <3>2. \A S \in SUBSET R : g[S] = h[S]
        BY <1>2, <2>2, <3>1, SumUnique
      <3> QED
        BY <3>2 DEF g, h
    <2>4. Rec(D)[D] = Step(v, Rec(D), D)
      BY <2>1, <2>2 DEF Sums
    <2>5. SumOver(v, D) = Rec(D)[D] /\ SumOver(v, R) = Rec(R)[R]
      BY <2>1, <2>2
    <2> QED
      BY <1>2, <2>3, <2>4, <2>5 DEF Step
  <1> QED
    BY <1>1, <1>2

(* A sum of integers over a finite set is an integer.                       *)
LEMMA SumType ==
    ASSUME NEW v, NEW D, IsFiniteSet(D), \A x \in D : v[x] \in Int
    PROVE  SumOver(v, D) \in Int
  <1> DEFINE Bad == {n \in Nat : \E S \in SUBSET D :
                        Cardinality(S) = n /\ SumOver(v, S) \notin Int}
  <1>1. SUFFICES ASSUME SumOver(v, D) \notin Int PROVE FALSE
    OBVIOUS
  <1>2. PICK n \in Bad : \A m \in Bad : n <= m
    <2>1. Cardinality(D) \in Bad
      BY <1>1, FS_CardinalityType
    <2> QED
      BY <2>1, LeastNatural
  <1>3. PICK S \in SUBSET D : Cardinality(S) = n /\ SumOver(v, S) \notin Int
    BY <1>2
  <1>4. IsFiniteSet(S)
    BY FS_Subset
  <1>5. S # {}
    <2>1. SumOver(v, {}) = 0
      BY SumStep
    <2> QED
      BY <1>3, <2>1
  <1> DEFINE R == S \ {First(S)}
  <1>6. First(S) \in S
    BY <1>5 DEF First
  <1>7. R \in SUBSET D /\ Cardinality(R) \in Nat /\ Cardinality(R) = n - 1
    BY <1>3, <1>4, <1>6, FS_RemoveElement, FS_CardinalityType
  <1>8. SumOver(v, R) \in Int
    <2>1. n \in Nat /\ ~(n <= n - 1)
      BY <1>2
    <2>2. Cardinality(R) \notin Bad
      <3> HIDE DEF Bad
      <3> QED
        BY <1>2, <1>7, <2>1
    <2> QED
      BY <1>7, <2>2
  <1>9. SumOver(v, S) = v[First(S)] + SumOver(v, R)
    BY <1>4, <1>5, SumStep
  <1>10. v[First(S)] \in Int
    BY <1>6
  <1> HIDE DEF R
  <1> QED
    BY <1>3, <1>8, <1>9, <1>10

(* A new element adds its value, whichever element the recursion takes      *)
(* first: here the order in which a set is summed goes away.                *)
LEMMA SumAdd ==
    ASSUME NEW v, NEW D, IsFiniteSet(D), NEW z, z \notin D,
           \A x \in D \cup {z} : v[x] \in Int
    PROVE  SumOver(v, D \cup {z}) = SumOver(v, D) + v[z]
  <1> DEFINE U == D \cup {z}
             Wrong(S, x) == /\ S \subseteq U /\ x \in U \ S
                            /\ SumOver(v, S \cup {x}) # SumOver(v, S) + v[x]
             Bad == {n \in Nat : \E S, x : Wrong(S, x) /\ Cardinality(S) = n}
  <1>1. ASSUME NEW S, S \subseteq U
        PROVE  IsFiniteSet(S) /\ Cardinality(S) \in Nat /\ SumOver(v, S) \in Int
    <2>1. IsFiniteSet(S)
      BY <1>1, FS_AddElement, FS_Subset
    <2>2. \A x \in S : v[x] \in Int
      BY <1>1
    <2> QED
      BY <2>1, <2>2, SumType, FS_CardinalityType
  <1>2. SUFFICES ASSUME Wrong(D, z) PROVE FALSE
    OBVIOUS
  <1>3. PICK n \in Bad : \A m \in Bad : n <= m
    <2>1. Cardinality(D) \in Bad
      BY <1>1, <1>2
    <2> QED
      BY <2>1, LeastNatural
  <1>4. PICK S, x : Wrong(S, x) /\ Cardinality(S) = n
    BY <1>3
  <1>5. ASSUME NEW R, NEW y, R \subseteq U, y \in U \ R, Cardinality(R) = n - 1
        PROVE  SumOver(v, R \cup {y}) = SumOver(v, R) + v[y]
    <2>1. n \in Nat /\ ~(n <= n - 1)
      BY <1>3
    <2>2. n - 1 \notin Bad
      <3> HIDE DEF Bad
      <3> QED
        BY <1>3, <2>1
    <2>3. n - 1 \in Nat
      BY <1>1, <1>5
    <2> QED
      BY <1>5, <2>2, <2>3
  <1> DEFINE T == S \cup {x}
             y == First(T)
  <1>6. S \subseteq U /\ T \subseteq U /\ x \in U /\ x \notin S /\ T # {}
    BY <1>4
  <1>7. y \in T /\ SumOver(v, T) = v[y] + SumOver(v, T \ {y})
    <2>1. IsFiniteSet(T)
      BY <1>1, <1>6
    <2> QED
      BY <1>6, <2>1, SumStep DEF First
  <1>8. /\ v[x] \in Int /\ v[y] \in Int
        /\ SumOver(v, T) # SumOver(v, S) + v[x]
    BY <1>4, <1>6, <1>7
  <1>9. CASE y = x
    <2>1. T \ {y} = S
      BY <1>6, <1>9
    <2>2. SumOver(v, S) \in Int
      BY <1>1, <1>6
    <2>3. SumOver(v, T) = v[x] + SumOver(v, S)
      BY <1>7, <1>9, <2>1
    <2> HIDE DEF T, y
    <2> QED
      BY <1>8, <2>2, <2>3
  <1>10. CASE y # x
    <2> DEFINE R == S \ {y}
    <2>1. /\ y \in S /\ y \in U \ R /\ x \in U \ R /\ R \subseteq U
          /\ R \cup {y} = S /\ R \cup {x} = T \ {y}
      BY <1>6, <1>7, <1>10
    <2>2. Cardinality(R) = n - 1 /\ SumOver(v, R) \in Int
      <3>1. IsFiniteSet(S) /\ Cardinality(S) = n
        BY <1>1, <1>4, <1>6
      <3> QED
        BY <1>1, <2>1, <3>1, FS_RemoveElement
    <2> HIDE DEF R, y, T
    <2>3. SumOver(v, S) = SumOver(v, R) + v[y]
      BY <1>5, <2>1, <2>2
    <2>4. SumOver(v, T \ {y}) = SumOver(v, R) + v[x]
      BY <1>5, <2>1, <2>2
    <2> QED
      BY <1>7, <1>8, <2>2, <2>3, <2>4
  <1> QED
    BY <1>9, <1>10
-----------------------------------------------------------------------------
(* Products and sums of positive integers are positive integers.            *)
LEMMA PosArithmetic ==
    ASSUME NEW a \in PosInt, NEW b \in PosInt
    PROVE  a * b \in PosInt /\ a + b \in PosInt
  BY DEF PosInt

(* The dimension count is a natural number.                                 *)
LEMMA DimsCount == Cardinality(Dims) \in Nat
  BY GaussianAssumption, FS_CardinalityType DEF GaussianAssumption

(* update_dim keeps means rational and variances positive.                  *)
LEMMA UpdatedType ==
    ASSUME NEW track \in Track, NEW m \in [Dims -> Int]
    PROVE  Updated(track, m) \in Track
  <1>1. ASSUME NEW d \in Dims
        PROVE  /\ MeanAfter(track.mean[d], track.var[d], Noise[d], m[d])
                    \in Rationals
               /\ VarAfter(track.var[d], Noise[d]) \in PosRationals
    <2> DEFINE a == track.mean[d]
               v == track.var[d]
               r == Noise[d]
    <2>1. a \in Rationals /\ v \in PosRationals /\ r \in PosInt /\ m[d] \in Int
      BY GaussianAssumption DEF Track, GaussianAssumption
    <2>2. /\ a.num \in Int /\ a.den \in PosInt
          /\ v.num \in PosInt /\ v.den \in PosInt
      BY <2>1 DEF Rationals, PosRationals
    <2>3. r * v.den \in PosInt
      BY <2>1, <2>2, PosArithmetic
    <2>4. v.num + r * v.den \in PosInt
      BY <2>2, <2>3, PosArithmetic
    <2>5. a.den * (v.num + r * v.den) \in PosInt
      BY <2>2, <2>4, PosArithmetic
    <2>6. v.num * r \in PosInt
      BY <2>1, <2>2, PosArithmetic
    <2>7. a.num * (r * v.den) + v.num * m[d] * a.den \in Int
      <3> HIDE DEF a, v, r
      <3>1. /\ a.num \in Int /\ r * v.den \in Int /\ v.num \in Int
            /\ m[d] \in Int /\ a.den \in Int
        BY <2>1, <2>2, <2>3 DEF PosInt
      <3>2. a.num * (r * v.den) \in Int
        BY <3>1
      <3>3. v.num * m[d] \in Int
        BY <3>1
      <3>4. v.num * m[d] * a.den \in Int
        BY <3>1, <3>3
      <3> QED BY <3>2, <3>4
    <2> QED
      BY <2>4, <2>5, <2>6, <2>7
      DEF MeanAfter, VarAfter, Rat, Rationals, PosRationals
  <1>2. track.independent_updates + Cardinality(Dims) \in Nat
    BY DimsCount DEF Track
  <1> QED
    BY <1>1, <1>2 DEF Updated, Track

(* The prior an absent track is created from is well typed.                 *)
LEMMA UninformativeType == Uninformative \in Track
  BY GaussianAssumption
  DEF Uninformative, Track, Rat, Rationals, PosRationals, PosInt,
      GaussianAssumption

-----------------------------------------------------------------------------
(* Factors that are not zero cancel.                                        *)
LEMMA Cancel ==
    ASSUME NEW a \in Int, NEW b \in Int, NEW c \in PosInt, a * c = b * c
    PROVE  a = b
  BY DEF PosInt

(* A product divided by a factor.                                           *)
LEMMA ExactDivision ==
    ASSUME NEW q \in Int, NEW d \in PosInt
    PROVE  (d * q) % d = 0 /\ (d * q) \div d = q
  BY DEF PosInt

(* The posterior, over the prior, of the measurements v[d][x] for x in S:   *)
(* mean = PriorVar * sum / over and var = PriorVar * Noise / over, stated   *)
(* without a division since a track's fractions are not reduced.            *)
Over(d, S) == Noise[d] + Cardinality(S) * PriorVar

IsPosterior(track, v, S) ==
    /\ track \in Track
    /\ \A d \in Dims :
          /\ track.mean[d].num * Over(d, S)
                = track.mean[d].den * (PriorVar * SumOver(v[d], S))
          /\ track.var[d].num * Over(d, S)
                = track.var[d].den * (PriorVar * Noise[d])

(* The common denominator is positive.                                      *)
LEMMA OverType ==
    ASSUME NEW S, IsFiniteSet(S), NEW d \in Dims
    PROVE  Over(d, S) \in PosInt
  <1>1. PriorVar \in PosInt /\ Noise[d] \in PosInt
    BY GaussianAssumption DEF GaussianAssumption
  <1>2. Cardinality(S) \in Nat
    BY FS_CardinalityType
  <1>3. Cardinality(S) * PriorVar \in Nat
    BY <1>1, <1>2 DEF PosInt
  <1> QED
    BY <1>1, <1>3 DEF Over, PosInt

(* No measurement: the prior.                                               *)
LEMMA PriorIsPosterior ==
    ASSUME NEW v PROVE IsPosterior(Uninformative, v, {})
  <1>1. Uninformative \in Track
    BY UninformativeType
  <1>2. Cardinality({}) = 0 /\ \A d \in Dims : SumOver(v[d], {}) = 0
    BY FS_EmptySet, SumStep
  <1>3. ASSUME NEW d \in Dims
        PROVE  /\ 0 * Over(d, {}) = 1 * (PriorVar * 0)
               /\ PriorVar * Over(d, {}) = 1 * (PriorVar * Noise[d])
    <2>1. PriorVar \in Int /\ Noise[d] \in Int
      BY GaussianAssumption DEF GaussianAssumption, PosInt
    <2>2. Over(d, {}) = Noise[d]
      BY <1>2, <2>1 DEF Over
    <2> QED
      BY <2>1, <2>2
  <1> QED
    BY <1>1, <1>2, <1>3 DEF IsPosterior, Uninformative, Rat

(* Incorporating one more measurement yields the posterior of one more: if  *)
(* the fractions of a dimension are P*s/c and P*N/c, the updated ones are   *)
(* P*(s + y)/(c + P) and P*N/(c + P).                                       *)
LEMMA UpdatedIsPosterior ==
    ASSUME NEW v, NEW S, IsFiniteSet(S), NEW track, IsPosterior(track, v, S),
           NEW z, z \notin S,
           \A d \in Dims : \A x \in S \cup {z} : v[d][x] \in Int,
           NEW m \in [Dims -> Int], \A d \in Dims : m[d] = v[d][z]
    PROVE  IsPosterior(Updated(track, m), v, S \cup {z})
  <1> DEFINE u == Updated(track, m)
  <1>1. track \in Track /\ u \in Track
    BY UpdatedType DEF IsPosterior
  <1>2. ASSUME NEW d \in Dims
        PROVE  /\ u.mean[d].num * Over(d, S \cup {z})
                     = u.mean[d].den * (PriorVar * SumOver(v[d], S \cup {z}))
               /\ u.var[d].num * Over(d, S \cup {z})
                     = u.var[d].den * (PriorVar * Noise[d])
    <2> DEFINE an == track.mean[d].num
               ad == track.mean[d].den
               vn == track.var[d].num
               vd == track.var[d].den
               N  == Noise[d]
               P  == PriorVar
               c  == Over(d, S)
               s  == SumOver(v[d], S)
               y  == m[d]
    <2>1. an \in Int /\ ad \in PosInt /\ vn \in PosInt /\ vd \in PosInt
      BY <1>1 DEF Track, Rationals, PosRationals
    <2>2. N \in PosInt /\ P \in PosInt
      BY GaussianAssumption DEF GaussianAssumption
    <2>3. c \in PosInt
      BY OverType
    <2>4. s \in Int /\ SumOver(v[d], S \cup {z}) = s + y /\ y \in Int
      BY SumType, SumAdd
    <2>5. Over(d, S \cup {z}) = c + P
      <3>1. Cardinality(S \cup {z}) = Cardinality(S) + 1
            /\ Cardinality(S) \in Nat
        BY FS_AddElement, FS_CardinalityType
      <3>2. N + (Cardinality(S) + 1) * P = (N + Cardinality(S) * P) + P
        BY <2>2, <3>1 DEF PosInt
      <3> QED
        BY <3>1, <3>2 DEF Over
    <2>6. an * c = ad * (P * s) /\ vn * c = vd * (P * N)
      BY DEF IsPosterior
    <2>7. /\ u.mean[d].num = an * (N * vd) + vn * y * ad
          /\ u.mean[d].den = ad * (vn + N * vd)
          /\ u.var[d].num = vn * N
          /\ u.var[d].den = vn + N * vd
      BY DEF Updated, MeanAfter, VarAfter, Rat
    <2> HIDE DEF an, ad, vn, vd, N, P, c, s, y, u
    <2>8. /\ (an * (N * vd) + vn * y * ad) * (c + P)
                = (ad * (vn + N * vd)) * (P * (s + y))
          /\ (vn * N) * (c + P) = (vn + N * vd) * (P * N)
      <3> USE DEF PosInt
      <3>1. (vn + N * vd) * c = N * vd * (c + P)
        <4>1. (vn + N * vd) * c = vn * c + N * vd * c
          BY <2>1, <2>2, <2>3, <2>4
        <4>2. vd * (P * N) + N * vd * c = N * vd * (c + P)
          BY <2>1, <2>2, <2>3, <2>4
        <4> QED
          BY <2>6, <4>1, <4>2
      <3>2. ((an * (N * vd) + vn * y * ad) * (c + P)) * c
               = ((ad * (vn + N * vd)) * (P * (s + y))) * c
        <4>1. ((an * (N * vd) + vn * y * ad) * (c + P)) * c
                 = (an * c) * (N * vd * (c + P)) + (vn * c) * (y * ad * (c + P))
          BY <2>1, <2>2, <2>3, <2>4
        <4>2. (ad * (P * s)) * (N * vd * (c + P))
                + (vd * (P * N)) * (y * ad * (c + P))
                 = (ad * (P * (s + y))) * (N * vd * (c + P))
          BY <2>1, <2>2, <2>3, <2>4
        <4>3. (ad * (P * (s + y))) * ((vn + N * vd) * c)
                 = ((ad * (vn + N * vd)) * (P * (s + y))) * c
          BY <2>1, <2>2, <2>3, <2>4
        <4> QED
          BY <2>6, <3>1, <4>1, <4>2, <4>3
      <3>3. ((vn * N) * (c + P)) * c = ((vn + N * vd) * (P * N)) * c
        <4>1. ((vn * N) * (c + P)) * c = (vn * c) * (N * (c + P))
          BY <2>1, <2>2, <2>3, <2>4
        <4>2. (vd * (P * N)) * (N * (c + P)) = (P * N) * (N * vd * (c + P))
          BY <2>1, <2>2, <2>3, <2>4
        <4>3. (P * N) * ((vn + N * vd) * c) = ((vn + N * vd) * (P * N)) * c
          BY <2>1, <2>2, <2>3, <2>4
        <4> QED
          BY <2>6, <3>1, <4>1, <4>2, <4>3
      <3>4. /\ (an * (N * vd) + vn * y * ad) * (c + P) \in Int
            /\ (ad * (vn + N * vd)) * (P * (s + y)) \in Int
            /\ (vn * N) * (c + P) \in Int
            /\ (vn + N * vd) * (P * N) \in Int
        BY <2>1, <2>2, <2>3, <2>4
      <3> QED
        BY <2>3, <3>2, <3>3, <3>4, Cancel
    <2> QED
      BY <2>4, <2>5, <2>7, <2>8 DEF P, N
  <1> QED
    BY <1>1, <1>2 DEF IsPosterior

(* Two posteriors of one set of measurements are the same belief: equal     *)
(* fractions, whatever their terms.                                         *)
LEMMA PosteriorIsUnique ==
    ASSUME NEW v, NEW S, IsFiniteSet(S),
           \A d \in Dims : \A x \in S : v[d][x] \in Int,
           NEW t, IsPosterior(t, v, S), NEW u, IsPosterior(u, v, S)
    PROVE  \A d \in Dims :
              /\ t.mean[d].num * u.mean[d].den = u.mean[d].num * t.mean[d].den
              /\ t.var[d].num * u.var[d].den = u.var[d].num * t.var[d].den
  <1>1. ASSUME NEW a \in Int, NEW b \in PosInt, NEW x \in Int, NEW y \in PosInt,
               NEW c \in PosInt, NEW q \in Int,
               a * c = b * q, x * c = y * q
        PROVE  a * y = x * b
    <2>1. (a * y) * c = (a * c) * y /\ (x * b) * c = (x * c) * b
      BY DEF PosInt
    <2>2. (b * q) * y = (y * q) * b
      BY DEF PosInt
    <2>3. a * y \in Int /\ x * b \in Int
      BY DEF PosInt
    <2> QED
      BY <1>1, <2>1, <2>2, <2>3, Cancel
  <1> SUFFICES ASSUME NEW d \in Dims
               PROVE  /\ t.mean[d].num * u.mean[d].den
                            = u.mean[d].num * t.mean[d].den
                      /\ t.var[d].num * u.var[d].den
                            = u.var[d].num * t.var[d].den
    OBVIOUS
  <1> DEFINE ta == t.mean[d]
             ua == u.mean[d]
             tv == t.var[d]
             uv == u.var[d]
             c  == Over(d, S)
             q  == PriorVar * SumOver(v[d], S)
             r  == PriorVar * Noise[d]
  <1>2. c \in PosInt /\ q \in Int /\ r \in Int
    <2>1. PriorVar \in Int /\ Noise[d] \in Int
      BY GaussianAssumption DEF GaussianAssumption, PosInt
    <2>2. SumOver(v[d], S) \in Int
      BY SumType
    <2> QED
      BY <2>1, <2>2, OverType
  <1>3. /\ ta.num \in Int /\ ta.den \in PosInt /\ ua.num \in Int /\ ua.den \in PosInt
        /\ tv.num \in Int /\ tv.den \in PosInt /\ uv.num \in Int /\ uv.den \in PosInt
    BY DEF IsPosterior, Track, Rationals, PosRationals, PosInt
  <1>4. /\ ta.num * c = ta.den * q /\ ua.num * c = ua.den * q
        /\ tv.num * c = tv.den * r /\ uv.num * c = uv.den * r
    BY DEF IsPosterior
  <1> HIDE DEF ta, ua, tv, uv, c, q, r
  <1>5. ta.num * ua.den = ua.num * ta.den
    BY <1>1, <1>2, <1>3, <1>4
  <1>6. tv.num * uv.den = uv.num * tv.den
    BY <1>1, <1>2, <1>3, <1>4
  <1> QED
    BY <1>5, <1>6 DEF ta, ua, tv, uv

-----------------------------------------------------------------------------
(* The greatest of numbers up to n is n if n is one of them: folds over the *)
(* positions of a list take the last one first.                             *)
LEMMA MaxIs ==
    ASSUME NEW n \in Nat, NEW S \in SUBSET (1..n), n \in S
    PROVE  Max(S) = n
  <1>1. \A y \in S : y \in Int /\ n >= y
    OBVIOUS
  <1> DEFINE m == Max(S)
  <1>2. m \in S /\ \A y \in S : m >= y
    BY <1>1 DEF Max
  <1> HIDE DEF m
  <1>3. m \in Int /\ m <= n /\ m >= n
    BY <1>1, <1>2
  <1>4. m = n
    BY <1>3
  <1> QED
    BY <1>4 DEF m

-----------------------------------------------------------------------------
(* An engine is a record of maps over the subjects.                         *)
IsEngine(eng) ==
    /\ eng = [tracks        |-> eng.tracks,
              incorporated  |-> eng.incorporated,
              conflicts     |-> eng.conflicts,
              last_evidence |-> eng.last_evidence]
    /\ eng.tracks \in [Subjects -> Track \cup {NoTrack}]
    /\ DOMAIN eng.incorporated = Subjects

(* The observations of s that reached the filter.                           *)
Reached(eng, s) == {o \in eng.incorporated[s] : o.blake3 \in DOMAIN Measured}

(* The measurement of an observation is an integer in every dimension.      *)
LEMMA ValueOfType ==
    \A d \in Dims : \A o \in Observations : ValueOf[d][o] \in Int
  BY GaussianAssumption DEF GaussianAssumption, ValueOf, Observations, Blake3

(* What an engine knows: each track is the posterior of the observations    *)
(* that reached it and counts each of them once per dimension, and there is *)
(* a track where there is an observation.                                   *)
KnowsWhatReached(eng) ==
    \A s \in Subjects :
        /\ IsFiniteSet(Reached(eng, s))
        /\ Reached(eng, s) \subseteq Observations
        /\ eng.tracks[s] = NoTrack <=> Reached(eng, s) = {}
        /\ IsPosterior(TrackOrPrior(eng, s), ValueOf, Reached(eng, s))
        /\ TrackOrPrior(eng, s).independent_updates
             = Cardinality(Dims) * Cardinality(Reached(eng, s))

(* The new engine knows nothing, exactly.                                   *)
LEMMA NewEngineKnows == IsEngine(NewEngine) /\ KnowsWhatReached(NewEngine)
  <1>1. IsEngine(NewEngine)
    BY DEF NewEngine, IsEngine
  <1>2. ASSUME NEW s \in Subjects
        PROVE  Reached(NewEngine, s) = {} /\ NewEngine.tracks[s] = NoTrack
    BY DEF NewEngine, Reached
  <1> QED
    <2> SUFFICES ASSUME NEW s \in Subjects
                 PROVE  /\ IsPosterior(Uninformative, ValueOf, {})
                        /\ Uninformative.independent_updates
                             = Cardinality(Dims) * Cardinality({})
      BY <1>1, <1>2, FS_EmptySet DEF KnowsWhatReached, TrackOrPrior
    <2> QED
      BY PriorIsPosterior, FS_EmptySet, DimsCount DEF Uninformative

(* What the dedup gate and the fusing step write, field by field.           *)
LEMMA GatedRecord ==
    ASSUME NEW eng, IsEngine(eng), NEW e
    PROVE  Gated(eng, e) =
             [tracks        |-> eng.tracks,
              incorporated  |-> [eng.incorporated EXCEPT
                                   ![e.subject] = @ \cup {e.observation_id}],
              conflicts     |-> eng.conflicts,
              last_evidence |-> eng.last_evidence]
  <1> DEFINE T == eng.tracks
             I == eng.incorporated
             C == eng.conflicts
             L == eng.last_evidence
  <1>1. eng = [tracks |-> T, incorporated |-> I, conflicts |-> C,
               last_evidence |-> L]
    BY DEF IsEngine
  <1> HIDE DEF T, C, L
  <1>2. Gated(eng, e) = [eng EXCEPT !.incorporated =
                            [I EXCEPT ![e.subject] = @ \cup {e.observation_id}]]
    BY DEF Gated
  <1> DEFINE J == [I EXCEPT ![e.subject] = @ \cup {e.observation_id}]
  <1> HIDE DEF I, J
  <1>3. [eng EXCEPT !.incorporated = J] =
          [tracks |-> T, incorporated |-> J, conflicts |-> C, last_evidence |-> L]
    BY <1>1
  <1> QED
    BY <1>2, <1>3 DEF T, C, L, J, I

(* The engine after an update, field by field.                              *)
LEMMA FusedRecord ==
    ASSUME NEW eng, IsEngine(eng), NEW e
    PROVE  Fused(Gated(eng, e), e) =
             [tracks        |-> [eng.tracks EXCEPT ![e.subject] =
                                   Updated(TrackOrPrior(eng, e.subject),
                                           Measured[e.payload])],
              incorporated  |-> [eng.incorporated EXCEPT
                                   ![e.subject] = @ \cup {e.observation_id}],
              conflicts     |-> Flagged(eng, e),
              last_evidence |-> [eng.last_evidence EXCEPT ![e.subject] = e]]
  <1> DEFINE g == Gated(eng, e)
             T == [eng.tracks EXCEPT ![e.subject] =
                     Updated(TrackOrPrior(eng, e.subject), Measured[e.payload])]
             I == [eng.incorporated EXCEPT
                     ![e.subject] = @ \cup {e.observation_id}]
             C == Flagged(eng, e)
             L == [eng.last_evidence EXCEPT ![e.subject] = e]
  <1>1. g = [tracks |-> eng.tracks, incorporated |-> I,
             conflicts |-> eng.conflicts, last_evidence |-> eng.last_evidence]
    BY GatedRecord
  <1>2. /\ g.tracks = eng.tracks /\ g.conflicts = eng.conflicts
        /\ g.last_evidence = eng.last_evidence
    BY <1>1
  <1>3. /\ TrackOrPrior(g, e.subject) = TrackOrPrior(eng, e.subject)
        /\ Flagged(g, e) = C
    BY <1>2 DEF TrackOrPrior, Flagged, Conflicting
  <1>4. Fused(g, e) = [g EXCEPT !.tracks = T, !.conflicts = C,
                                !.last_evidence = L]
    BY <1>2, <1>3 DEF Fused
  <1> HIDE DEF g, T, I, C, L
  <1>5. Fused(g, e) = [tracks |-> T, incorporated |-> I, conflicts |-> C,
                       last_evidence |-> L]
    BY <1>1, <1>4
  <1> QED
    BY <1>5 DEF g, T, I, C, L

(* incorporate of verified evidence that is new and decodes adds its        *)
(* observation to what is known of its subject, and nothing else.           *)
LEMMA FusedKnows ==
    ASSUME NEW eng, IsEngine(eng), KnowsWhatReached(eng), NoTrack \notin Track,
           NEW e, e.subject \in Subjects, e.observation_id = Blake3(e.payload),
           Decodes(e), ~Duplicate(eng, e)
    PROVE  LET f == Fused(Gated(eng, e), e) IN
           /\ IsEngine(f) /\ KnowsWhatReached(f)
           /\ f.incorporated = [eng.incorporated EXCEPT
                                  ![e.subject] = @ \cup {e.observation_id}]
  <1> DEFINE s == e.subject
             o == e.observation_id
             m == Measured[e.payload]
             t == TrackOrPrior(eng, s)
             S == Reached(eng, s)
             f == Fused(Gated(eng, e), e)
  <1>1. /\ f = [tracks |-> f.tracks, incorporated |-> f.incorporated,
                conflicts |-> f.conflicts, last_evidence |-> f.last_evidence]
        /\ f.tracks = [eng.tracks EXCEPT ![s] = Updated(t, m)]
        /\ f.incorporated = [eng.incorporated EXCEPT ![s] = @ \cup {o}]
    <2> DEFINE T == [eng.tracks EXCEPT ![s] = Updated(t, m)]
               I == [eng.incorporated EXCEPT ![s] = @ \cup {o}]
               C == Flagged(eng, e)
               L == [eng.last_evidence EXCEPT ![s] = e]
    <2>1. f = [tracks |-> T, incorporated |-> I, conflicts |-> C,
               last_evidence |-> L]
      BY FusedRecord
    <2> HIDE DEF f, T, I, C, L
    <2>2. /\ f.tracks = T /\ f.incorporated = I
          /\ f.conflicts = C /\ f.last_evidence = L
      BY <2>1
    <2> QED
      BY <2>1, <2>2 DEF T, I
  <1>2. /\ o \in Observations /\ o.blake3 \in DOMAIN Measured
        /\ m \in [Dims -> Int]
        /\ \A d \in Dims : m[d] = ValueOf[d][o]
    <2>1. e.payload \in DOMAIN Measured /\ o.blake3 = e.payload
      BY DEF Decodes, Blake3
    <2>2. o \in Observations
      BY <2>1 DEF Observations
    <2>3. m \in [Dims -> Int]
      BY <2>1, GaussianAssumption DEF GaussianAssumption
    <2> QED
      BY <2>1, <2>2, <2>3 DEF ValueOf
  <1>3. /\ o \notin S
        /\ Reached(f, s) = S \cup {o}
        /\ \A r \in Subjects \ {s} : Reached(f, r) = Reached(eng, r)
    BY <1>1, <1>2 DEF Duplicate, Reached, IsEngine
  <1>4. /\ IsFiniteSet(S) /\ S \subseteq Observations
        /\ IsPosterior(t, ValueOf, S)
        /\ t.independent_updates = Cardinality(Dims) * Cardinality(S)
    BY DEF KnowsWhatReached
  <1>5. IsPosterior(Updated(t, m), ValueOf, S \cup {o})
    <2>1. \A d \in Dims : \A x \in S \cup {o} : ValueOf[d][x] \in Int
      BY <1>2, <1>4, ValueOfType
    <2> HIDE DEF t, m, S, o
    <2> QED
      BY <1>2, <1>3, <1>4, <2>1, UpdatedIsPosterior
  <1>6. Updated(t, m) \in Track /\ Updated(t, m) # NoTrack
    BY <1>5 DEF IsPosterior
  <1>7. /\ IsFiniteSet(S \cup {o})
        /\ Updated(t, m).independent_updates
             = Cardinality(Dims) * Cardinality(S \cup {o})
    <2>1. /\ IsFiniteSet(S \cup {o})
          /\ Cardinality(S \cup {o}) = Cardinality(S) + 1
          /\ Cardinality(S) \in Nat
      BY <1>3, <1>4, FS_AddElement, FS_CardinalityType
    <2>2. Updated(t, m).independent_updates
            = t.independent_updates + Cardinality(Dims)
      BY DEF Updated
    <2>3. Cardinality(Dims) * Cardinality(S) + Cardinality(Dims)
            = Cardinality(Dims) * (Cardinality(S) + 1)
      BY <2>1, DimsCount
    <2> QED
      BY <1>4, <2>1, <2>2, <2>3
  <1>8. IsEngine(f)
    BY <1>1, <1>6 DEF IsEngine
  <1>9. ASSUME NEW r \in Subjects
        PROVE  /\ IsFiniteSet(Reached(f, r))
               /\ Reached(f, r) \subseteq Observations
               /\ f.tracks[r] = NoTrack <=> Reached(f, r) = {}
               /\ IsPosterior(TrackOrPrior(f, r), ValueOf, Reached(f, r))
               /\ TrackOrPrior(f, r).independent_updates
                    = Cardinality(Dims) * Cardinality(Reached(f, r))
    <2>1. CASE r = s
      <3>1. f.tracks[r] = Updated(t, m) /\ TrackOrPrior(f, r) = Updated(t, m)
        BY <1>1, <1>6, <2>1 DEF TrackOrPrior, IsEngine
      <3> HIDE DEF f, t, m, S
      <3> QED
        BY <1>2, <1>3, <1>4, <1>5, <1>6, <1>7, <2>1, <3>1
    <2>2. CASE r # s
      <3>1. f.tracks[r] = eng.tracks[r] /\ Reached(f, r) = Reached(eng, r)
        BY <1>1, <1>3, <2>2 DEF IsEngine
      <3>2. TrackOrPrior(f, r) = TrackOrPrior(eng, r)
        BY <3>1 DEF TrackOrPrior
      <3> HIDE DEF f
      <3> QED
        BY <3>1, <3>2 DEF KnowsWhatReached
    <2> QED
      BY <2>1, <2>2
  <1> HIDE DEF f
  <1>10. KnowsWhatReached(f)
    BY <1>9 DEF KnowsWhatReached
  <1> QED
    BY <1>1, <1>8, <1>10 DEF f
=============================================================================
