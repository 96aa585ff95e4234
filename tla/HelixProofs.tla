---------------------------- MODULE HelixProofs ----------------------------
(***************************************************************************)
(* Theorems about Helix for any workloads, recorders and numbers of failed *)
(* calls.                                                                  *)
(*                                                                         *)
(* The first part says what each kind of request does to what the queries  *)
(* read (EvidenceEffect, HopEffect, BeliefEffect, ParentEffect); the       *)
(* second finds a recorder's requests in the list they are flattened to    *)
(* (RequestsAreBlocks).  HelixInv rests on both: what was acknowledged is  *)
(* there, what is there was given to a recorder, and lineage is linked     *)
(* both ways.  With it every step is one of EvidenceStore or none          *)
(* (HelixImplementsStore), the two directions of lineage are counted       *)
(* alike, and the snapshots of a recorder's engine follow one another.     *)
(* ExactInv adds that evidence no failure and no other recorder disturbs   *)
(* has exactly the custody its recorder has asked for so far.              *)
(***************************************************************************)
EXTENDS Helix, EvidenceProofs

-----------------------------------------------------------------------------
(* A list, whatever it lists.                                               *)
IsList(s) == s \in Seq(ToSet(s))

(* A list is known by its length and elements, and grows by one.            *)
LEMMA ListFacts ==
    ASSUME NEW s, IsList(s), NEW x
    PROVE  /\ Len(s) \in Nat /\ DOMAIN s = 1..Len(s)
           /\ IsList(Append(s, x)) /\ Len(Append(s, x)) = Len(s) + 1
           /\ \A i \in 1..Len(s) : Append(s, x)[i] = s[i]
           /\ Append(s, x)[Len(s) + 1] = x
  <1> DEFINE t == Append(s, x)
             S == ToSet(s) \cup {x}
  <1>1. s \in Seq(S)
    BY DEF IsList, ToSet
  <1>2. /\ t \in Seq(S) /\ Len(t) = Len(s) + 1 /\ Len(s) \in Nat
        /\ DOMAIN s = 1..Len(s) /\ DOMAIN t = 1..(Len(s) + 1)
        /\ \A i \in 1..Len(s) : t[i] = s[i]
        /\ t[Len(s) + 1] = x
    BY <1>1
  <1> HIDE DEF t
  <1>3. t \in Seq(ToSet(t))
    BY <1>2 DEF ToSet
  <1> QED
    BY <1>2, <1>3 DEF IsList, t

(* A function over the first naturals is a list.                            *)
LEMMA FunctionIsList ==
    ASSUME NEW s, NEW n \in Nat, s = [i \in 1..n |-> s[i]]
    PROVE  IsList(s) /\ Len(s) = n
  <1>1. s \in Seq(ToSet(s))
    BY DEF ToSet
  <1> QED
    BY <1>1 DEF IsList

(* Two lists one after the other.                                           *)
Joins(u, s, t) ==
    /\ IsList(u) /\ Len(u) = Len(s) + Len(t)
    /\ \A i \in 1..Len(s) : u[i] = s[i]
    /\ \A i \in 1..Len(t) : u[Len(s) + i] = t[i]

(* What \o makes of two lists.                                              *)
LEMMA ConcatFacts ==
    ASSUME NEW s, IsList(s), NEW t, IsList(t), NEW u, u = s \o t
    PROVE  Joins(u, s, t)
  <1> DEFINE S == ToSet(s) \cup ToSet(t)
  <1>1. s \in Seq(S) /\ t \in Seq(S)
    BY DEF IsList, ToSet
  <1>2. /\ u \in Seq(S) /\ Len(u) = Len(s) + Len(t)
        /\ DOMAIN u = 1..Len(u)
        /\ \A i \in 1..Len(s) : u[i] = s[i]
        /\ \A i \in 1..Len(t) : u[Len(s) + i] = t[i]
    BY <1>1
  <1>3. ASSUME NEW v \in Seq(S) PROVE v \in Seq(ToSet(v))
    BY DEF ToSet
  <1> QED
    BY <1>2, <1>3 DEF IsList, Joins

-----------------------------------------------------------------------------
(* One edge of a type for each pair.                                        *)
Edges(type, from, to) == {type} \X from \X to

(* A graph that has the nodes of g and, in addition to its edges, P.        *)
Joined(g, h, P) ==
    /\ h.nodes = g.nodes /\ h = [nodes |-> h.nodes, edges |-> h.edges]
    /\ IsABag(h.edges)
    /\ DOMAIN h.edges = DOMAIN g.edges \cup P
    /\ \A x \in DOMAIN h.edges :
          h.edges[x] = (IF x \in DOMAIN g.edges THEN g.edges[x] ELSE 0)
                       + (IF x \in P THEN 1 ELSE 0)

(* The edges a step adds.                                                   *)
LEMMA LinkedFacts ==
    ASSUME NEW g, IsABag(g.edges), g = [nodes |-> g.nodes, edges |-> g.edges],
           NEW type, NEW from, NEW to,
           NEW h, h = Linked(g, type, from, to)
    PROVE  Joined(g, h, Edges(type, from, to))
  <1> DEFINE P == {type} \X from \X to
             N == g.nodes
             E == g.edges
             F == E (+) SetToBag(P)
  <1>1. /\ DOMAIN F = DOMAIN E \cup P
        /\ \A x \in DOMAIN F : F[x] = (IF x \in DOMAIN E THEN E[x] ELSE 0)
                                      + (IF x \in P THEN 1 ELSE 0)
        /\ IsABag(F)
    <2>1. /\ DOMAIN F = DOMAIN E \cup P
          /\ \A x \in DOMAIN F : F[x] = (IF x \in DOMAIN E THEN E[x] ELSE 0)
                                        + (IF x \in P THEN 1 ELSE 0)
      BY DEF (+), SetToBag
    <2>2. F = [x \in DOMAIN F |-> F[x]]
      BY DEF (+)
    <2>3. \A x \in DOMAIN E : E[x] \in Nat /\ E[x] > 0
      BY DEF IsABag
    <2> HIDE DEF F
    <2>4. \A x \in DOMAIN F : F[x] \in Nat /\ F[x] > 0
      BY <2>1, <2>3
    <2> QED
      BY <2>1, <2>2, <2>4 DEF IsABag
  <1>2. h = [nodes |-> N, edges |-> F]
    <2>1. [g EXCEPT !.edges = @ (+) SetToBag(P)] = [g EXCEPT !.edges = F]
      OBVIOUS
    <2> HIDE DEF F
    <2>2. [[nodes |-> N, edges |-> E] EXCEPT !.edges = F] = [nodes |-> N, edges |-> F]
      OBVIOUS
    <2> QED
      BY <2>1, <2>2 DEF Linked
  <1> HIDE DEF F, P
  <1>3. Joined(g, h, P)
    BY <1>1, <1>2 DEF Joined
  <1> QED
    BY <1>3 DEF P, Edges

(* The node a step adds.                                                    *)
LEMMA AddedFacts ==
    ASSUME NEW g, g = [nodes |-> g.nodes, edges |-> g.edges], IsList(g.nodes),
           NEW node
    PROVE  LET h == Added(g, node) IN
           /\ h = [nodes |-> Append(g.nodes, node), edges |-> g.edges]
           /\ IsList(h.nodes)
           /\ Len(g.nodes) \in Nat /\ Len(h.nodes) = Len(g.nodes) + 1
           /\ DOMAIN g.nodes = 1..Len(g.nodes)
           /\ DOMAIN h.nodes = DOMAIN g.nodes \cup Newest(h)
           /\ Newest(h) = {Len(g.nodes) + 1}
           /\ \A i \in DOMAIN g.nodes : h.nodes[i] = g.nodes[i]
           /\ h.nodes[Len(g.nodes) + 1] = node
  <1> DEFINE N == g.nodes
             M == Append(N, node)
             E == g.edges
  <1>1. Added(g, node) = [nodes |-> M, edges |-> E]
    <2>1. [g EXCEPT !.nodes = Append(@, node)] = [g EXCEPT !.nodes = M]
      OBVIOUS
    <2> HIDE DEF M
    <2>2. [[nodes |-> N, edges |-> E] EXCEPT !.nodes = M] = [nodes |-> M, edges |-> E]
      OBVIOUS
    <2> QED
      BY <2>1, <2>2 DEF Added
  <1>2. /\ IsList(M) /\ Len(N) \in Nat /\ Len(M) = Len(N) + 1
        /\ DOMAIN N = 1..Len(N) /\ DOMAIN M = 1..Len(M)
        /\ \A i \in 1..Len(N) : M[i] = N[i]
        /\ M[Len(N) + 1] = node
    BY ListFacts
  <1> HIDE DEF M
  <1>3. DOMAIN M = DOMAIN N \cup {Len(N) + 1}
    BY <1>2
  <1> QED
    BY <1>1, <1>2, <1>3 DEF Newest, M

-----------------------------------------------------------------------------
(* What the reads find, as sets.                                            *)
Ids(g) == {g.nodes[n].evidence_id : n \in Labelled(g, "Evidence")}

Hops(g, id) == BagToSet(ReadProvenance(g, id))
Parents(g, id) == BagToSet(ReadDerived(g, id))
Beliefs(g, s) == BagToSet(ReadBelief(g, s))

HopAt(g, n) == [node |-> g.nodes[n].node_id, received_at |-> g.nodes[n].received_at]

(* The edges of a type that leave the nodes of an evidence id.              *)
Leaving(g, type, id) ==
    {x \in DOMAIN g.edges : x[1] = type /\ x[2] \in WithId(g, id)}

(* The reads, as sets of what edges lead to and of what nodes hold.         *)
LEMMA ReadSets ==
    ASSUME NEW g
    PROVE  /\ \A id : /\ Hops(g, id) = {HopAt(g, x[3]) : x \in Leaving(g, "FORWARDED_TO", id)}
                      /\ Parents(g, id) = {g.nodes[x[3]].evidence_id :
                                             x \in Leaving(g, "DERIVED_FROM", id)}
           /\ \A s : /\ Beliefs(g, s) = {g.nodes[n].belief :
                           n \in {m \in Labelled(g, "Belief") : g.nodes[m].subject = s}}
                     /\ BagToSet(ReadSubjectHistory(g, s)) = {g.nodes[n].evidence_id :
                           n \in {m \in Labelled(g, "Evidence") : g.nodes[m].subject = s}}
  <1>1. ASSUME NEW id
        PROVE  Hops(g, id) = {HopAt(g, x[3]) : x \in Leaving(g, "FORWARDED_TO", id)}
    <2> DEFINE A == Along(g, "FORWARDED_TO", 2, WithId(g, id))
    <2>1. DOMAIN A = Leaving(g, "FORWARDED_TO", id)
      BY DEF Along, Leaving, BagToSet
    <2> HIDE DEF A
    <2>2. DOMAIN BagOfAll(LAMBDA x : [node |-> g.nodes[x[3]].node_id,
                         received_at |-> g.nodes[x[3]].received_at], A)
            = {HopAt(g, x[3]) : x \in DOMAIN A}
      BY DEF BagOfAll, BagToSet, HopAt
    <2> QED
      BY <2>1, <2>2 DEF Hops, ReadProvenance, BagToSet, A
  <1>2. ASSUME NEW id
        PROVE  Parents(g, id) = {g.nodes[x[3]].evidence_id :
                                             x \in Leaving(g, "DERIVED_FROM", id)}
    <2> DEFINE A == Along(g, "DERIVED_FROM", 2, WithId(g, id))
    <2>1. DOMAIN A = Leaving(g, "DERIVED_FROM", id)
      BY DEF Along, Leaving, BagToSet
    <2> HIDE DEF A
    <2>2. DOMAIN BagOfAll(LAMBDA x : g.nodes[x[3]].evidence_id, A)
            = {g.nodes[x[3]].evidence_id : x \in DOMAIN A}
      BY DEF BagOfAll, BagToSet
    <2> QED
      BY <2>1, <2>2 DEF Parents, ReadDerived, BagToSet, A
  <1>3. ASSUME NEW s
        PROVE  /\ Beliefs(g, s) = {g.nodes[n].belief :
                           n \in {m \in Labelled(g, "Belief") : g.nodes[m].subject = s}}
               /\ BagToSet(ReadSubjectHistory(g, s)) = {g.nodes[n].evidence_id :
                           n \in {m \in Labelled(g, "Evidence") : g.nodes[m].subject = s}}
    BY DEF Beliefs, ReadBelief, ReadSubjectHistory, BagOfAll, BagToSet, SetToBag
  <1> QED
    BY <1>1, <1>2, <1>3

(* A graph the requests can build: its edges join nodes that are there,     *)
(* lineage joins evidence, and each lineage edge has its mirror image as    *)
(* often as it is there.                                                    *)
EdgesFit(g) ==
    \A x \in DOMAIN g.edges :
        /\ x = <<x[1], x[2], x[3]>>
        /\ x[2] \in DOMAIN g.nodes /\ x[3] \in DOMAIN g.nodes
        /\ x[1] \in {"DERIVED_FROM", "PARENT_OF"} =>
              x[2] \in Labelled(g, "Evidence") /\ x[3] \in Labelled(g, "Evidence")

Mirrored(g) ==
    \A m, n \in DOMAIN g.nodes :
        LET down == <<"DERIVED_FROM", m, n>>
            up   == <<"PARENT_OF", n, m>>
        IN  /\ down \in DOMAIN g.edges <=> up \in DOMAIN g.edges
            /\ down \in DOMAIN g.edges => g.edges[down] = g.edges[up]

IsGraph(g) ==
    /\ g = [nodes |-> g.nodes, edges |-> g.edges]
    /\ IsList(g.nodes)
    /\ IsABag(g.edges)
    /\ \A n \in Labelled(g, "Evidence") : g.nodes[n].subject \in Subjects
    /\ EdgesFit(g)
    /\ Mirrored(g)

(* What new edges, and new nodes, let be read in addition.                  *)
NewHops(h, P, id) ==
    {HopAt(h, x[3]) : x \in {y \in P : y[1] = "FORWARDED_TO"
                                       /\ y[2] \in WithId(h, id)}}

NewParents(h, P, id) ==
    {h.nodes[x[3]].evidence_id : x \in {y \in P : y[1] = "DERIVED_FROM"
                                                 /\ y[2] \in WithId(h, id)}}

NewBeliefs(g, h, s) ==
    {h.nodes[n].belief : n \in {m \in Labelled(h, "Belief") \ DOMAIN g.nodes :
                                   h.nodes[m].subject = s}}

(* A graph that grew, by the edges P.                                       *)
Keeps(g, h) ==
    /\ DOMAIN g.nodes \subseteq DOMAIN h.nodes
    /\ \A n \in DOMAIN g.nodes : h.nodes[n] = g.nodes[n]

Grew(g, h, P) ==
    /\ EdgesFit(g)
    /\ Keeps(g, h)
    /\ DOMAIN h.edges = DOMAIN g.edges \cup P

(* Nothing that was there is read differently.                              *)
LEMMA GrowsBy ==
    ASSUME NEW g, NEW h, NEW P, Grew(g, h, P), NEW i
    PROVE  /\ Hops(h, i) = Hops(g, i) \cup NewHops(h, P, i)
           /\ Parents(h, i) = Parents(g, i) \cup NewParents(h, P, i)
  <1> USE DEF Grew, Keeps
  <1>1. ASSUME NEW label PROVE Labelled(g, label) = Labelled(h, label) \cap DOMAIN g.nodes
    BY DEF Labelled
  <1>2. ASSUME NEW id PROVE WithId(g, id) = WithId(h, id) \cap DOMAIN g.nodes
    BY <1>1 DEF WithId, Labelled
  <1>3. ASSUME NEW id, NEW type
        PROVE  Leaving(h, type, id) = Leaving(g, type, id) \cup
                  {y \in P : y[1] = type /\ y[2] \in WithId(h, id)}
    BY <1>2 DEF Leaving, EdgesFit
  <1>4. ASSUME NEW id
        PROVE  Hops(h, id) = Hops(g, id) \cup NewHops(h, P, id)
    <2>1. \A x \in Leaving(g, "FORWARDED_TO", id) : HopAt(h, x[3]) = HopAt(g, x[3])
      BY DEF Leaving, EdgesFit, HopAt
    <2> QED
      BY <1>3, <2>1, ReadSets DEF NewHops
  <1>5. ASSUME NEW id
        PROVE  Parents(h, id) = Parents(g, id) \cup NewParents(h, P, id)
    <2>1. \A x \in Leaving(g, "DERIVED_FROM", id) :
             h.nodes[x[3]].evidence_id = g.nodes[x[3]].evidence_id
      BY DEF Leaving, EdgesFit
    <2> QED
      BY <1>3, <2>1, ReadSets DEF NewParents
  <1> QED
    BY <1>1, <1>2, <1>4, <1>5


(* New nodes are read where their labels say.                               *)
LEMMA NodesGrow ==
    ASSUME NEW g, NEW h, Keeps(g, h)
    PROVE  /\ Ids(h) = Ids(g) \cup {h.nodes[n].evidence_id :
                                       n \in Labelled(h, "Evidence") \ DOMAIN g.nodes}
           /\ \A s : Beliefs(h, s) = Beliefs(g, s) \cup NewBeliefs(g, h, s)
  <1>1. \A label : Labelled(h, label) \cap DOMAIN g.nodes = Labelled(g, label)
    BY DEF Labelled, Keeps
  <1>2. \A label : \A n \in Labelled(g, label) : h.nodes[n] = g.nodes[n]
    BY DEF Labelled, Keeps
  <1>3. Ids(h) = Ids(g) \cup {h.nodes[n].evidence_id :
                                 n \in Labelled(h, "Evidence") \ DOMAIN g.nodes}
    BY <1>1, <1>2 DEF Ids
  <1>4. ASSUME NEW s
        PROVE  Beliefs(h, s) = Beliefs(g, s) \cup NewBeliefs(g, h, s)
    <2>1. /\ Beliefs(h, s) = {h.nodes[n].belief :
                   n \in {m \in Labelled(h, "Belief") : h.nodes[m].subject = s}}
          /\ Beliefs(g, s) = {g.nodes[n].belief :
                   n \in {m \in Labelled(g, "Belief") : g.nodes[m].subject = s}}
      BY ReadSets
    <2> QED
      BY <1>1, <1>2, <2>1 DEF NewBeliefs
  <1> QED
    BY <1>3, <1>4

(* h is g with more nodes, and an edge more for each of P.                  *)
Enlarged(g, h, P) ==
    /\ Keeps(g, h)
    /\ h = [nodes |-> h.nodes, edges |-> h.edges] /\ IsList(h.nodes)
    /\ IsABag(h.edges)
    /\ DOMAIN h.edges = DOMAIN g.edges \cup P
    /\ \A x \in DOMAIN h.edges :
          h.edges[x] = (IF x \in DOMAIN g.edges THEN g.edges[x] ELSE 0)
                       + (IF x \in P THEN 1 ELSE 0)

(* Edges that fit, lineage with its mirror image.                           *)
Fit(h, P) ==
    /\ \A x \in P :
          /\ x = <<x[1], x[2], x[3]>>
          /\ x[2] \in DOMAIN h.nodes /\ x[3] \in DOMAIN h.nodes
          /\ x[1] \in {"DERIVED_FROM", "PARENT_OF"} =>
                x[2] \in Labelled(h, "Evidence") /\ x[3] \in Labelled(h, "Evidence")
    /\ \A m, n : <<"DERIVED_FROM", m, n>> \in P <=> <<"PARENT_OF", n, m>> \in P

(* A graph that grew by edges that fit is a graph.                          *)
LEMMA GraphGrows ==
    ASSUME NEW g, IsGraph(g), NEW h, NEW P, Enlarged(g, h, P), Fit(h, P),
           \A n \in Labelled(h, "Evidence") \ DOMAIN g.nodes :
              h.nodes[n].subject \in Subjects
    PROVE  IsGraph(h)
  <1> USE DEF Enlarged, Fit, Keeps
  <1>1. \A label : Labelled(h, label) \cap DOMAIN g.nodes = Labelled(g, label)
    BY DEF Labelled
  <1>2. \A n \in Labelled(h, "Evidence") : h.nodes[n].subject \in Subjects
    BY <1>1 DEF IsGraph
  <1>3. EdgesFit(h)
    BY <1>1 DEF IsGraph, EdgesFit
  <1>4. Mirrored(h)
    <2> SUFFICES ASSUME NEW m \in DOMAIN h.nodes, NEW n \in DOMAIN h.nodes
                 PROVE  LET down == <<"DERIVED_FROM", m, n>>
                            up   == <<"PARENT_OF", n, m>>
                        IN  /\ down \in DOMAIN h.edges <=> up \in DOMAIN h.edges
                            /\ down \in DOMAIN h.edges => h.edges[down] = h.edges[up]
      BY DEF Mirrored
    <2> DEFINE down == <<"DERIVED_FROM", m, n>>
               up   == <<"PARENT_OF", n, m>>
    <2>1. down \in P <=> up \in P
      OBVIOUS
    <2>2. down[2] = m /\ down[3] = n /\ up[2] = n /\ up[3] = m
      OBVIOUS
    <2> HIDE DEF down, up
    <2>3. /\ down \in DOMAIN g.edges <=> up \in DOMAIN g.edges
          /\ down \in DOMAIN g.edges => g.edges[down] = g.edges[up]
      <3>1. CASE m \in DOMAIN g.nodes /\ n \in DOMAIN g.nodes
        BY <3>1 DEF IsGraph, Mirrored, down, up
      <3>2. CASE ~(m \in DOMAIN g.nodes /\ n \in DOMAIN g.nodes)
        BY <2>2, <3>2 DEF IsGraph, EdgesFit
      <3> QED
        BY <3>1, <3>2
    <2>4. /\ down \in DOMAIN h.edges <=> up \in DOMAIN h.edges
          /\ down \in DOMAIN h.edges => h.edges[down] = h.edges[up]
      BY <2>1, <2>3
    <2> QED
      BY <2>4 DEF down, up
  <1> QED
    BY <1>2, <1>3, <1>4 DEF IsGraph

(* Two nodes are added one after the other.                                 *)
LEMMA AddedTwice ==
    ASSUME NEW g, g = [nodes |-> g.nodes, edges |-> g.edges], IsList(g.nodes),
           NEW a, NEW b
    PROVE  LET src == Added(g, a)
               h   == Added(src, b)
               n   == Len(g.nodes)
           IN  /\ n \in Nat /\ DOMAIN g.nodes = 1..n
               /\ h = [nodes |-> h.nodes, edges |-> g.edges] /\ IsList(h.nodes)
               /\ DOMAIN h.nodes = 1..(n + 2)
               /\ Newest(src) = {n + 1} /\ Newest(h) = {n + 2}
               /\ \A i \in 1..n : h.nodes[i] = g.nodes[i]
               /\ h.nodes[n + 1] = a /\ h.nodes[n + 2] = b
  <1>1. \A src : src = Added(g, a) =>
           /\ Len(g.nodes) \in Nat /\ DOMAIN g.nodes = 1..Len(g.nodes)
           /\ src = [nodes |-> Append(g.nodes, a), edges |-> g.edges]
           /\ IsList(src.nodes)
           /\ Len(src.nodes) = Len(g.nodes) + 1 /\ Newest(src) = {Len(g.nodes) + 1}
           /\ \A i \in DOMAIN g.nodes : src.nodes[i] = g.nodes[i]
           /\ src.nodes[Len(g.nodes) + 1] = a
    BY AddedFacts
  <1> SUFFICES ASSUME NEW src, src = Added(g, a), NEW h, h = Added(src, b),
                      NEW n, n = Len(g.nodes)
               PROVE  /\ n \in Nat /\ DOMAIN g.nodes = 1..n
                      /\ h = [nodes |-> h.nodes, edges |-> g.edges] /\ IsList(h.nodes)
                      /\ DOMAIN h.nodes = 1..(n + 2)
                      /\ Newest(src) = {n + 1} /\ Newest(h) = {n + 2}
                      /\ \A i \in 1..n : h.nodes[i] = g.nodes[i]
                      /\ h.nodes[n + 1] = a /\ h.nodes[n + 2] = b
    OBVIOUS
  <1>2. /\ n \in Nat /\ DOMAIN g.nodes = 1..n
        /\ src.edges = g.edges /\ src = [nodes |-> src.nodes, edges |-> src.edges]
        /\ IsList(src.nodes)
        /\ Len(src.nodes) = n + 1 /\ Newest(src) = {n + 1}
        /\ \A i \in 1..n : src.nodes[i] = g.nodes[i]
        /\ src.nodes[n + 1] = a
    BY <1>1
  <1>3. /\ DOMAIN src.nodes = 1..Len(src.nodes)
        /\ h = [nodes |-> Append(src.nodes, b), edges |-> src.edges]
        /\ IsList(h.nodes)
        /\ Len(h.nodes) = Len(src.nodes) + 1
        /\ Newest(h) = {Len(src.nodes) + 1}
        /\ \A i \in DOMAIN src.nodes : h.nodes[i] = src.nodes[i]
        /\ h.nodes[Len(src.nodes) + 1] = b
    <2>1. Added(src, b) = h
      OBVIOUS
    <2>2. src = [nodes |-> src.nodes, edges |-> src.edges] /\ IsList(src.nodes)
      BY <1>2
    <2>3. /\ DOMAIN src.nodes = 1..Len(src.nodes)
          /\ Added(src, b) = [nodes |-> Append(src.nodes, b), edges |-> src.edges]
          /\ IsList(Added(src, b).nodes)
          /\ Len(Added(src, b).nodes) = Len(src.nodes) + 1
          /\ Newest(Added(src, b)) = {Len(src.nodes) + 1}
          /\ \A i \in DOMAIN src.nodes : Added(src, b).nodes[i] = src.nodes[i]
          /\ Added(src, b).nodes[Len(src.nodes) + 1] = b
      BY <2>2, AddedFacts
    <2> QED
      BY <2>1, <2>3
  <1>4. DOMAIN h.nodes = 1..Len(h.nodes)
    BY <1>3, ListFacts
  <1>5. Len(h.nodes) = n + 2
    BY <1>2, <1>3
  <1>6. Newest(h) = {n + 2} /\ h.nodes[n + 2] = b
    <2>1. Len(src.nodes) + 1 = n + 2
      BY <1>2
    <2> QED
      BY <1>3, <2>1, Zenon
  <1>7. h.nodes[n + 1] = a /\ \A i \in 1..n : h.nodes[i] = g.nodes[i]
    BY <1>2, <1>3
  <1>8. h = [nodes |-> h.nodes, edges |-> g.edges]
    BY <1>2, <1>3
  <1> QED
    BY <1>2, <1>3, <1>4, <1>5, <1>6, <1>7, <1>8

-----------------------------------------------------------------------------
(* A request's effect on what is read.                                      *)
SameIds(g, h) == Ids(h) = Ids(g)
SameHops(g, h) == \A id : Hops(h, id) = Hops(g, id)
SameParents(g, h) == \A id : Parents(h, id) = Parents(g, id)
SameBeliefs(g, h) == \A s : Beliefs(h, s) = Beliefs(g, s)

Stores(g, h, e) ==
    /\ Ids(h) = Ids(g) \cup {e.evidence_id}
    /\ SameHops(g, h) /\ SameParents(g, h) /\ SameBeliefs(g, h)

AddsHop(g, h, id, hop) ==
    /\ \A i : Hops(h, i) = IF i = id THEN Hops(g, i) \cup {hop} ELSE Hops(g, i)
    /\ SameIds(g, h) /\ SameParents(g, h) /\ SameBeliefs(g, h)

AddsBelief(g, h, subject, belief) ==
    /\ \A s : Beliefs(h, s) = IF s = subject THEN Beliefs(g, s) \cup {belief}
                              ELSE Beliefs(g, s)
    /\ SameIds(g, h) /\ SameHops(g, h) /\ SameParents(g, h)

AddsParent(g, h, child, parent) ==
    /\ \A i : Parents(h, i) = IF i = child THEN Parents(g, i) \cup {parent}
                              ELSE Parents(g, i)
    /\ SameIds(g, h) /\ SameHops(g, h) /\ SameBeliefs(g, h)

AddsNothing(g, h) ==
    SameIds(g, h) /\ SameHops(g, h) /\ SameParents(g, h) /\ SameBeliefs(g, h)

(* The edges of custody, and what a request does to them and to the nodes   *)
(* of evidence: nothing, or one new node, linked if it is a hop's.          *)
Custody(g) == {x \in DOMAIN g.edges : x[1] = "FORWARDED_TO"}

KeepsCustody(g, h) ==
    /\ Keeps(g, h)
    /\ Custody(g) \subseteq Custody(h)
    /\ \A x \in Custody(g) : h.edges[x] = g.edges[x]

Leaves(g, h) ==
    /\ KeepsCustody(g, h)
    /\ Custody(h) = Custody(g)
    /\ \A id : WithId(h, id) = WithId(g, id)

Copies(g, h, e, n) ==
    /\ KeepsCustody(g, h)
    /\ Custody(h) = Custody(g)
    /\ n \notin DOMAIN g.nodes
    /\ \A id : WithId(h, id) = IF id = e.evidence_id THEN WithId(g, id) \cup {n}
                               ELSE WithId(g, id)

Relays(g, h, id, hop, n) ==
    /\ KeepsCustody(g, h)
    /\ n \notin DOMAIN g.nodes
    /\ Custody(h) = Custody(g) \cup Edges("FORWARDED_TO", WithId(g, id), {n})
    /\ \A x \in Custody(h) \ Custody(g) : h.edges[x] = 1
    /\ HopAt(h, n) = hop
    /\ \A i : WithId(h, i) = WithId(g, i)

(* Edges that are no custody leave custody alone.                           *)
LEMMA OtherEdges ==
    ASSUME NEW g, IsGraph(g), NEW h, Keeps(g, h), NEW P,
           DOMAIN h.edges = DOMAIN g.edges \cup P,
           \A x \in DOMAIN h.edges :
              h.edges[x] = (IF x \in DOMAIN g.edges THEN g.edges[x] ELSE 0)
                           + (IF x \in P THEN 1 ELSE 0),
           \A x \in P : x[1] # "FORWARDED_TO"
    PROVE  KeepsCustody(g, h) /\ Custody(h) = Custody(g)
  <1>1. \A x \in DOMAIN g.edges : g.edges[x] \in Nat
    BY DEF IsGraph, IsABag
  <1>2. \A x \in Custody(g) : x \in DOMAIN g.edges /\ x \in DOMAIN h.edges /\ x \notin P
    BY DEF Custody
  <1>3. \A x \in Custody(g) : h.edges[x] = g.edges[x]
    BY <1>1, <1>2
  <1> QED
    BY <1>3 DEF Custody, KeepsCustody

(* What each request changes in what is read.  Evidence becomes known, and  *)
(* that is all.                                                             *)
LEMMA EvidenceEffect ==
    ASSUME NEW g, IsGraph(g), NEW e, e.subject \in Subjects,
           NEW h, h = AfterEvidence(g, e)
    PROVE  IsGraph(h) /\ Stores(g, h, e) /\ \E n : Copies(g, h, e, n)
  <1>1. PICK a : a = [label |-> "Source", source_id |-> e.source_id]
    OBVIOUS
  <1>2. PICK b : b = [label          |-> "Evidence",
                      evidence_id    |-> e.evidence_id,
                      observation_id |-> e.observation_id,
                      subject        |-> e.subject,
                      received_at    |-> e.received_at,
                      expires_at     |-> e.expires_at]
    OBVIOUS
  <1>3. PICK src : src = Added(g, a)
    OBVIOUS
  <1>4. PICK ev : ev = Added(src, b)
    OBVIOUS
  <1>5. PICK n : n = Len(g.nodes)
    OBVIOUS
  <1>6. h = Linked(ev, "PRODUCED", Newest(src), Newest(ev))
    BY <1>1, <1>2, <1>3, <1>4 DEF AfterEvidence
  <1>7. /\ n \in Nat /\ DOMAIN g.nodes = 1..n
        /\ ev = [nodes |-> ev.nodes, edges |-> g.edges] /\ IsList(ev.nodes)
        /\ DOMAIN ev.nodes = 1..(n + 2)
        /\ Newest(src) = {n + 1} /\ Newest(ev) = {n + 2}
        /\ \A i \in 1..n : ev.nodes[i] = g.nodes[i]
        /\ ev.nodes[n + 1] = a /\ ev.nodes[n + 2] = b
    BY <1>3, <1>4, <1>5, AddedTwice DEF IsGraph
  <1>8. PICK P : P = Edges("PRODUCED", Newest(src), Newest(ev))
    OBVIOUS
  <1>9. ev.edges = g.edges
    BY <1>7
  <1>10. /\ h.nodes = ev.nodes /\ h = [nodes |-> h.nodes, edges |-> h.edges]
         /\ IsABag(h.edges)
         /\ DOMAIN h.edges = DOMAIN g.edges \cup P
         /\ \A x \in DOMAIN h.edges :
               h.edges[x] = (IF x \in DOMAIN g.edges THEN g.edges[x] ELSE 0)
                            + (IF x \in P THEN 1 ELSE 0)
    <2>1. ev = [nodes |-> ev.nodes, edges |-> ev.edges] /\ IsABag(ev.edges)
      BY <1>7, <1>9 DEF IsGraph
    <2>2. Joined(ev, h, P)
      BY <1>6, <1>8, <2>1, LinkedFacts
    <2> QED
      BY <1>9, <2>2 DEF Joined
  <1>11. h.nodes = ev.nodes /\ h = [nodes |-> h.nodes, edges |-> h.edges]
    BY <1>10
  <1>12. \A x \in P : x = <<x[1], x[2], x[3]>> /\ x[1] = "PRODUCED"
                      /\ x[2] = n + 1 /\ x[3] = n + 2
    BY <1>7, <1>8 DEF Edges
  <1>13. /\ DOMAIN g.nodes \subseteq DOMAIN h.nodes
         /\ \A i \in DOMAIN g.nodes : h.nodes[i] = g.nodes[i]
         /\ DOMAIN h.nodes \ DOMAIN g.nodes = {n + 1, n + 2}
    BY <1>7, <1>11
  <1>14. /\ Labelled(h, "Evidence") \ DOMAIN g.nodes = {n + 2}
         /\ Labelled(h, "Belief") \ DOMAIN g.nodes = {}
    <2>1. h.nodes[n + 1].label = "Source" /\ h.nodes[n + 2].label = "Evidence"
      BY <1>1, <1>2, <1>7, <1>11
    <2> QED
      BY <1>13, <2>1 DEF Labelled
  <1>15. h.nodes[n + 2].subject = e.subject /\ h.nodes[n + 2].evidence_id = e.evidence_id
    BY <1>2, <1>7, <1>11
  <1>16. IsGraph(h)
    <2>1. \A x \in P :
             /\ x = <<x[1], x[2], x[3]>>
             /\ x[2] \in DOMAIN h.nodes /\ x[3] \in DOMAIN h.nodes
             /\ x[1] \notin {"DERIVED_FROM", "PARENT_OF"}
      BY <1>12, <1>13
    <2>2. \A m, k : <<"DERIVED_FROM", m, k>> \notin P /\ <<"PARENT_OF", k, m>> \notin P
      BY <1>12
    <2>3. Fit(h, P)
      BY <2>1, <2>2 DEF Fit
    <2>4. \A k \in Labelled(h, "Evidence") \ DOMAIN g.nodes :
             h.nodes[k].subject \in Subjects
      BY <1>14, <1>15
    <2>5. IsList(h.nodes)
      BY <1>7, <1>11
    <2>6. Enlarged(g, h, P)
      BY <1>10, <1>11, <1>13, <2>5 DEF Enlarged, Keeps
    <2> QED
      BY <2>3, <2>4, <2>6, GraphGrows
  <1>17. \A id : Hops(h, id) = Hops(g, id) /\ Parents(h, id) = Parents(g, id)
    <2> SUFFICES ASSUME NEW id
                 PROVE  Hops(h, id) = Hops(g, id) /\ Parents(h, id) = Parents(g, id)
      OBVIOUS
    <2>1. NewHops(h, P, id) = {} /\ NewParents(h, P, id) = {}
      BY <1>12 DEF NewHops, NewParents
    <2>2. Grew(g, h, P)
      BY <1>10, <1>13 DEF IsGraph, Grew, Keeps
    <2>3. /\ Hops(h, id) = Hops(g, id) \cup NewHops(h, P, id)
          /\ Parents(h, id) = Parents(g, id) \cup NewParents(h, P, id)
      BY <2>2, GrowsBy
    <2> QED
      BY <2>1, <2>3
  <1>18. Keeps(g, h)
    BY <1>13 DEF Keeps
  <1>19. Ids(h) = Ids(g) \cup {e.evidence_id}
    BY <1>14, <1>15, <1>18, NodesGrow
  <1>20. ASSUME NEW s PROVE Beliefs(h, s) = Beliefs(g, s)
    <2>1. NewBeliefs(g, h, s) = {}
      BY <1>14 DEF NewBeliefs
    <2>2. Beliefs(h, s) = Beliefs(g, s) \cup NewBeliefs(g, h, s)
      BY <1>18, NodesGrow
    <2> QED
      BY <2>1, <2>2
  <1>21. Copies(g, h, e, n + 2)
    <2>1. \A x \in P : x[1] # "FORWARDED_TO"
      BY <1>12
    <2>2. KeepsCustody(g, h) /\ Custody(h) = Custody(g)
      BY <1>10, <1>18, <2>1, OtherEdges
    <2>3. n + 2 \notin DOMAIN g.nodes
      BY <1>7
    <2>4. Labelled(h, "Evidence") = Labelled(g, "Evidence") \cup {n + 2}
      BY <1>13, <1>14 DEF Labelled
    <2>5. ASSUME NEW id
          PROVE  WithId(h, id) = IF id = e.evidence_id THEN WithId(g, id) \cup {n + 2}
                                 ELSE WithId(g, id)
      <3>1. \A k \in Labelled(g, "Evidence") : h.nodes[k] = g.nodes[k]
        BY <1>13 DEF Labelled
      <3> QED
        BY <1>15, <2>4, <3>1 DEF WithId
    <2> QED
      BY <2>2, <2>3, <2>5 DEF Copies
  <1> QED
    BY <1>16, <1>17, <1>19, <1>20, <1>21 DEF Stores, SameHops, SameParents, SameBeliefs

(* A node is added and linked from the nodes of an evidence id.             *)
LinkedNode(g, h, node, type, id, m) ==
    /\ IsGraph(h)
    /\ Ids(h) = Ids(g)
    /\ m \in DOMAIN h.nodes \ DOMAIN g.nodes
    /\ DOMAIN h.nodes = DOMAIN g.nodes \cup {m}
    /\ \A n \in DOMAIN g.nodes : h.nodes[n] = g.nodes[n]
    /\ h.nodes[m] = node
    /\ \A i : WithId(h, i) = WithId(g, i)
    /\ DOMAIN h.edges = DOMAIN g.edges \cup Edges(type, WithId(g, id), {m})
    /\ \A x \in DOMAIN h.edges :
          h.edges[x] = (IF x \in DOMAIN g.edges THEN g.edges[x] ELSE 0)
            + (IF x \in Edges(type, WithId(g, id), {m}) THEN 1 ELSE 0)

(* What that changes of the graph.                                          *)
LEMMA LinkedFromId ==
    ASSUME NEW g, IsGraph(g), NEW node, node.label \notin {"Evidence"},
           NEW type, type \notin {"DERIVED_FROM", "PARENT_OF"}, NEW id,
           NEW h, h = Linked(Added(g, node), type, WithId(g, id),
                             Newest(Added(g, node))),
           NEW new, new = Len(g.nodes) + 1
    PROVE  LinkedNode(g, h, node, type, id, new)
  <1>1. PICK b : b = Added(g, node)
    OBVIOUS
  <1>2. PICK n : n = Len(g.nodes)
    OBVIOUS
  <1>3. /\ n \in Nat /\ DOMAIN g.nodes = 1..n
        /\ b = [nodes |-> b.nodes, edges |-> g.edges] /\ IsList(b.nodes)
        /\ DOMAIN b.nodes = DOMAIN g.nodes \cup {n + 1} /\ Newest(b) = {n + 1}
        /\ \A i \in DOMAIN g.nodes : b.nodes[i] = g.nodes[i]
        /\ b.nodes[n + 1] = node
    BY <1>1, <1>2, AddedFacts DEF IsGraph
  <1>4. \A i : WithId(b, i) = WithId(g, i)
    BY <1>3 DEF WithId, Labelled
  <1>5. PICK P : P = Edges(type, WithId(g, id), {n + 1})
    OBVIOUS
  <1>6. h = Linked(b, type, WithId(g, id), {n + 1})
    BY <1>1, <1>3
  <1>7. b.edges = g.edges
    BY <1>3
  <1>8. /\ h.nodes = b.nodes /\ h = [nodes |-> h.nodes, edges |-> h.edges]
        /\ IsABag(h.edges)
        /\ DOMAIN h.edges = DOMAIN g.edges \cup P
        /\ \A x \in DOMAIN h.edges :
              h.edges[x] = (IF x \in DOMAIN g.edges THEN g.edges[x] ELSE 0)
                           + (IF x \in P THEN 1 ELSE 0)
    <2>1. b = [nodes |-> b.nodes, edges |-> b.edges] /\ IsABag(b.edges)
      BY <1>3, <1>7 DEF IsGraph
    <2>2. Joined(b, h, P)
      BY <1>5, <1>6, <2>1, LinkedFacts
    <2> QED
      BY <1>7, <2>2 DEF Joined
  <1>9. h.nodes = b.nodes /\ h = [nodes |-> h.nodes, edges |-> h.edges]
    BY <1>8
  <1>10. \A x \in P : x = <<x[1], x[2], x[3]>> /\ x[1] = type
                      /\ x[2] \in WithId(g, id) /\ x[3] = n + 1
    BY <1>5 DEF Edges
  <1>11. \A x : Labelled(h, "Evidence") \ DOMAIN g.nodes = {}
    BY <1>3, <1>9 DEF Labelled
  <1>12. WithId(g, id) \subseteq DOMAIN g.nodes
    BY DEF WithId, Labelled
  <1>13. IsGraph(h)
    <2>1. \A x \in P :
             /\ x = <<x[1], x[2], x[3]>>
             /\ x[2] \in DOMAIN h.nodes /\ x[3] \in DOMAIN h.nodes
             /\ x[1] \notin {"DERIVED_FROM", "PARENT_OF"}
      BY <1>3, <1>9, <1>10, <1>12
    <2>2. \A m, k : <<"DERIVED_FROM", m, k>> \notin P /\ <<"PARENT_OF", k, m>> \notin P
      BY <1>10
    <2>3. IsList(h.nodes) /\ Keeps(g, h)
      BY <1>3, <1>9 DEF Keeps
    <2>4. Enlarged(g, h, P)
      BY <1>8, <1>9, <2>3 DEF Enlarged
    <2>5. Fit(h, P)
      BY <2>1, <2>2 DEF Fit
    <2>6. \A k \in Labelled(h, "Evidence") \ DOMAIN g.nodes :
             h.nodes[k].subject \in Subjects
      BY <1>11
    <2> QED
      BY <2>4, <2>5, <2>6, GraphGrows
  <1>14. Ids(h) = Ids(g)
    <2>1. Keeps(g, h)
      BY <1>3, <1>9 DEF Keeps
    <2>2. Ids(h) = Ids(g) \cup {h.nodes[m].evidence_id :
                                 m \in Labelled(h, "Evidence") \ DOMAIN g.nodes}
      BY <2>1, NodesGrow
    <2> QED
      BY <1>11, <2>2
  <1>15. \A i : WithId(h, i) = WithId(g, i)
    <2>1. \A i : WithId(h, i) = WithId(b, i)
      BY <1>9 DEF WithId, Labelled
    <2> QED
      BY <1>4, <2>1
  <1>16. n + 1 \in DOMAIN h.nodes \ DOMAIN g.nodes
    BY <1>3, <1>9
  <1>17. new = n + 1
    BY <1>2
  <1>18. /\ DOMAIN h.nodes = DOMAIN g.nodes \cup {new}
         /\ \A i \in DOMAIN g.nodes : h.nodes[i] = g.nodes[i]
         /\ h.nodes[new] = node
         /\ new \in DOMAIN h.nodes \ DOMAIN g.nodes
         /\ P = Edges(type, WithId(g, id), {new})
    BY <1>3, <1>5, <1>9, <1>16, <1>17, Zenon
  <1> QED
    BY <1>8, <1>13, <1>14, <1>15, <1>18, Zenon DEF LinkedNode

(* An id is known when some node has it, and a node has one id.             *)
LEMMA KnownIds ==
    ASSUME NEW g
    PROVE  /\ \A id : id \in Ids(g) <=> WithId(g, id) # {}
           /\ \A i, j : i # j => WithId(g, i) \cap WithId(g, j) = {}
           /\ \A i : WithId(g, i) \subseteq Labelled(g, "Evidence")
           /\ \A l : Labelled(g, l) \subseteq DOMAIN g.nodes
           /\ \A i : \A n \in WithId(g, i) : g.nodes[n].evidence_id = i
  BY DEF Ids, WithId, Labelled

(* A hop joins the custody of evidence that is known, and is lost in        *)
(* silence for evidence that is not.                                        *)
LEMMA HopEffect ==
    ASSUME NEW g, IsGraph(g), NEW id,
           NEW hop, hop = [node |-> hop.node, received_at |-> hop.received_at],
           NEW h, h = AfterHop(g, id, hop)
    PROVE  /\ IsGraph(h)
           /\ IF id \in Ids(g) THEN AddsHop(g, h, id, hop) ELSE AddsNothing(g, h)
           /\ \E n : Relays(g, h, id, hop, n)
  <1>1. PICK node : node = [label |-> "Node", node_id |-> hop.node,
                            received_at |-> hop.received_at]
    OBVIOUS
  <1>2. node.label = "Node" /\ node.node_id = hop.node
        /\ node.received_at = hop.received_at
    BY <1>1
  <1>3. h = Linked(Added(g, node), "FORWARDED_TO", WithId(g, id),
                   Newest(Added(g, node)))
    BY <1>1 DEF AfterHop
  <1>4. PICK n : n = Len(g.nodes) + 1
    OBVIOUS
  <1>5. PICK P : P = Edges("FORWARDED_TO", WithId(g, id), {n})
    OBVIOUS
  <1>6. /\ IsGraph(h)
        /\ Ids(h) = Ids(g)
        /\ n \in DOMAIN h.nodes \ DOMAIN g.nodes
        /\ DOMAIN h.nodes = DOMAIN g.nodes \cup {n}
        /\ \A k \in DOMAIN g.nodes : h.nodes[k] = g.nodes[k]
        /\ h.nodes[n] = node
        /\ \A i : WithId(h, i) = WithId(g, i)
        /\ DOMAIN h.edges = DOMAIN g.edges \cup P
        /\ \A x \in DOMAIN h.edges :
              h.edges[x] = (IF x \in DOMAIN g.edges THEN g.edges[x] ELSE 0)
                           + (IF x \in P THEN 1 ELSE 0)
    <2>1. node.label \notin {"Evidence"}
      BY <1>2
    <2>2. LinkedNode(g, h, node, "FORWARDED_TO", id, n)
      BY <1>3, <1>4, <2>1, LinkedFromId
    <2> QED
      BY <1>5, <2>2 DEF LinkedNode
  <1>7. Keeps(g, h)
    BY <1>6 DEF Keeps
  <1>8. \A x \in P : x[1] = "FORWARDED_TO" /\ x[2] \in WithId(g, id) /\ x[3] = n
    BY <1>5 DEF Edges
  <1>9. Grew(g, h, P)
    BY <1>6, <1>7 DEF IsGraph, Grew
  <1>10. ASSUME NEW i PROVE Parents(h, i) = Parents(g, i)
    <2>1. NewParents(h, P, i) = {}
      BY <1>8 DEF NewParents
    <2>2. Parents(h, i) = Parents(g, i) \cup NewParents(h, P, i)
      BY <1>9, GrowsBy
    <2> QED
      BY <2>1, <2>2
  <1>11. ASSUME NEW i
         PROVE  Hops(h, i) = IF i = id /\ id \in Ids(g) THEN Hops(g, i) \cup {hop}
                             ELSE Hops(g, i)
    <2>1. Hops(h, i) = Hops(g, i) \cup NewHops(h, P, i)
      BY <1>9, GrowsBy
    <2>2. HopAt(h, n) = hop
      BY <1>2, <1>6 DEF HopAt
    <2>3. CASE i = id /\ id \in Ids(g)
      <3>1. PICK w \in WithId(g, id) : TRUE
        BY <2>3, KnownIds
      <3>2. <<"FORWARDED_TO", w, n>> \in P
        BY <1>5 DEF Edges
      <3>3. <<"FORWARDED_TO", w, n>> \in {y \in P : y[1] = "FORWARDED_TO"
                                                 /\ y[2] \in WithId(h, i)}
        BY <1>6, <2>3, <3>2
      <3>4. hop \in NewHops(h, P, i)
        BY <2>2, <3>3 DEF NewHops
      <3>5. NewHops(h, P, i) \subseteq {hop}
        BY <1>8, <2>2 DEF NewHops
      <3> QED
        BY <2>1, <2>3, <3>4, <3>5
    <2>4. CASE ~(i = id /\ id \in Ids(g))
      <3>1. WithId(h, i) \cap WithId(g, id) = {}
        BY <1>6, <2>4, KnownIds
      <3>2. NewHops(h, P, i) = {}
        BY <1>8, <3>1 DEF NewHops
      <3> QED
        BY <2>1, <2>4, <3>2
    <2> QED
      BY <2>3, <2>4
  <1>12. ASSUME NEW s PROVE Beliefs(h, s) = Beliefs(g, s)
    <2>1. NewBeliefs(g, h, s) = {}
      BY <1>2, <1>6 DEF NewBeliefs, Labelled
    <2>2. Beliefs(h, s) = Beliefs(g, s) \cup NewBeliefs(g, h, s)
      BY <1>7, NodesGrow
    <2> QED
      BY <2>1, <2>2
  <1>13. Relays(g, h, id, hop, n)
    <2>1. \A x \in DOMAIN g.edges : g.edges[x] \in Nat /\ x[3] \in DOMAIN g.nodes
      BY DEF IsGraph, IsABag, EdgesFit
    <2>2. P \cap DOMAIN g.edges = {}
      BY <1>6, <1>8, <2>1
    <2>3. \A x \in DOMAIN g.edges : x \in DOMAIN h.edges /\ h.edges[x] = g.edges[x]
      BY <1>6, <2>1, <2>2
    <2>4. \A x \in P : h.edges[x] = 1
      BY <1>6, <2>2
    <2>5. Custody(h) = Custody(g) \cup P
      BY <1>6, <1>8 DEF Custody
    <2>6. KeepsCustody(g, h)
      BY <1>7, <2>3, <2>5 DEF KeepsCustody, Custody
    <2>7. HopAt(h, n) = hop
      BY <1>2, <1>6 DEF HopAt
    <2> QED
      BY <1>5, <1>6, <2>4, <2>5, <2>6, <2>7 DEF Relays
  <1> QED
    BY <1>6, <1>10, <1>11, <1>12, <1>13
    DEF AddsHop, AddsNothing, SameIds, SameHops, SameParents, SameBeliefs

(* A snapshot joins the beliefs of its subject.                             *)
LEMMA BeliefEffect ==
    ASSUME NEW g, IsGraph(g), NEW subject, NEW belief, NEW id,
           NEW h, h = AfterBelief(g, subject, belief, id)
    PROVE  IsGraph(h) /\ AddsBelief(g, h, subject, belief) /\ Leaves(g, h)
  <1>1. PICK node : node = [label |-> "Belief", subject |-> subject, belief |-> belief]
    OBVIOUS
  <1>2. node.label = "Belief" /\ node.subject = subject /\ node.belief = belief
    BY <1>1
  <1>3. h = Linked(Added(g, node), "SUPPORTS", WithId(g, id),
                   Newest(Added(g, node)))
    BY <1>1 DEF AfterBelief
  <1>4. PICK n : n = Len(g.nodes) + 1
    OBVIOUS
  <1>5. PICK P : P = Edges("SUPPORTS", WithId(g, id), {n})
    OBVIOUS
  <1>6. /\ IsGraph(h)
        /\ Ids(h) = Ids(g)
        /\ n \in DOMAIN h.nodes \ DOMAIN g.nodes
        /\ DOMAIN h.nodes = DOMAIN g.nodes \cup {n}
        /\ \A k \in DOMAIN g.nodes : h.nodes[k] = g.nodes[k]
        /\ h.nodes[n] = node
        /\ \A i : WithId(h, i) = WithId(g, i)
        /\ DOMAIN h.edges = DOMAIN g.edges \cup P
        /\ \A x \in DOMAIN h.edges :
              h.edges[x] = (IF x \in DOMAIN g.edges THEN g.edges[x] ELSE 0)
                           + (IF x \in P THEN 1 ELSE 0)
    <2>1. node.label \notin {"Evidence"}
      BY <1>2
    <2>2. LinkedNode(g, h, node, "SUPPORTS", id, n)
      BY <1>3, <1>4, <2>1, LinkedFromId
    <2> QED
      BY <1>5, <2>2 DEF LinkedNode
  <1>7. Keeps(g, h)
    BY <1>6 DEF Keeps
  <1>8. \A x \in P : x[1] = "SUPPORTS"
    BY <1>5 DEF Edges
  <1>9. Grew(g, h, P)
    BY <1>6, <1>7 DEF IsGraph, Grew
  <1>10. ASSUME NEW i PROVE Hops(h, i) = Hops(g, i) /\ Parents(h, i) = Parents(g, i)
    <2>1. NewHops(h, P, i) = {} /\ NewParents(h, P, i) = {}
      BY <1>8 DEF NewHops, NewParents
    <2>2. /\ Hops(h, i) = Hops(g, i) \cup NewHops(h, P, i)
          /\ Parents(h, i) = Parents(g, i) \cup NewParents(h, P, i)
      BY <1>9, GrowsBy
    <2> QED
      BY <2>1, <2>2
  <1>11. ASSUME NEW s
         PROVE  Beliefs(h, s) = IF s = subject THEN Beliefs(g, s) \cup {belief}
                                ELSE Beliefs(g, s)
    <2>1. Beliefs(h, s) = Beliefs(g, s) \cup NewBeliefs(g, h, s)
      BY <1>7, NodesGrow
    <2>2. Labelled(h, "Belief") \ DOMAIN g.nodes = {n}
      BY <1>2, <1>6 DEF Labelled
    <2>3. NewBeliefs(g, h, s) = IF s = subject THEN {belief} ELSE {}
      BY <1>2, <1>6, <2>2 DEF NewBeliefs
    <2> QED
      BY <2>1, <2>3
  <1>12. Leaves(g, h)
    <2>1. \A x \in P : x[1] # "FORWARDED_TO"
      BY <1>8
    <2>2. KeepsCustody(g, h) /\ Custody(h) = Custody(g)
      BY <1>6, <1>7, <2>1, OtherEdges
    <2> QED
      BY <1>6, <2>2 DEF Leaves
  <1> QED
    BY <1>6, <1>10, <1>11, <1>12 DEF AddsBelief, SameIds, SameHops, SameParents

(* A link joins lineage when both ends of it are known, in both directions; *)
(* it is lost in silence otherwise.                                         *)
LEMMA ParentEffect ==
    ASSUME NEW g, IsGraph(g), NEW child, NEW parent,
           NEW h, h = AfterParent(g, child, parent)
    PROVE  /\ IsGraph(h)
           /\ IF {child, parent} \subseteq Ids(g) THEN AddsParent(g, h, child, parent)
              ELSE AddsNothing(g, h)
           /\ Leaves(g, h)
  <1>1. PICK C : C = WithId(g, child)
    OBVIOUS
  <1>2. PICK Q : Q = WithId(g, parent)
    OBVIOUS
  <1>3. PICK k : k = Linked(g, "PARENT_OF", Q, C)
    OBVIOUS
  <1>4. PICK P1 : P1 = Edges("PARENT_OF", Q, C)
    OBVIOUS
  <1>5. PICK P2 : P2 = Edges("DERIVED_FROM", C, Q)
    OBVIOUS
  <1>6. h = Linked(k, "DERIVED_FROM", C, Q)
    <2>1. h = Linked(k, "DERIVED_FROM", WithId(g, child), WithId(g, parent))
      BY <1>1, <1>2, <1>3 DEF AfterParent
    <2> QED
      BY <1>1, <1>2, <2>1
  <1>7. /\ k.nodes = g.nodes /\ k = [nodes |-> k.nodes, edges |-> k.edges]
        /\ IsABag(k.edges)
        /\ DOMAIN k.edges = DOMAIN g.edges \cup P1
        /\ \A x \in DOMAIN k.edges :
              k.edges[x] = (IF x \in DOMAIN g.edges THEN g.edges[x] ELSE 0)
                           + (IF x \in P1 THEN 1 ELSE 0)
    <2>1. IsABag(g.edges) /\ g = [nodes |-> g.nodes, edges |-> g.edges]
      BY DEF IsGraph
    <2>2. Joined(g, k, P1)
      BY <1>3, <1>4, <2>1, LinkedFacts
    <2> QED
      BY <2>2 DEF Joined
  <1>8. k.nodes = g.nodes /\ k = [nodes |-> k.nodes, edges |-> k.edges]
    BY <1>7
  <1>9. /\ h.nodes = k.nodes /\ h = [nodes |-> h.nodes, edges |-> h.edges]
        /\ IsABag(h.edges)
        /\ DOMAIN h.edges = DOMAIN k.edges \cup P2
        /\ \A x \in DOMAIN h.edges :
              h.edges[x] = (IF x \in DOMAIN k.edges THEN k.edges[x] ELSE 0)
                           + (IF x \in P2 THEN 1 ELSE 0)
    <2>1. IsABag(k.edges)
      BY <1>7
    <2>2. Joined(k, h, P2)
      BY <1>5, <1>6, <1>8, <2>1, LinkedFacts
    <2> QED
      BY <2>2 DEF Joined
  <1>10. h.nodes = g.nodes /\ h = [nodes |-> h.nodes, edges |-> h.edges]
    BY <1>8, <1>9
  <1>11. /\ \A x \in P1 : x = <<x[1], x[2], x[3]>> /\ x[1] = "PARENT_OF"
                          /\ x[2] \in Q /\ x[3] \in C
         /\ \A x \in P2 : x = <<x[1], x[2], x[3]>> /\ x[1] = "DERIVED_FROM"
                          /\ x[2] \in C /\ x[3] \in Q
    BY <1>4, <1>5 DEF Edges
  <1>12. PICK P : P = P1 \cup P2
    OBVIOUS
  <1>13. P1 \cap P2 = {}
    BY <1>11
  <1>14. DOMAIN h.edges = DOMAIN g.edges \cup P
    BY <1>7, <1>9, <1>12
  <1>15. ASSUME NEW x \in DOMAIN h.edges
         PROVE  h.edges[x] = (IF x \in DOMAIN g.edges THEN g.edges[x] ELSE 0)
                             + (IF x \in P THEN 1 ELSE 0)
    <2>1. x \in DOMAIN g.edges => g.edges[x] \in Nat
      BY DEF IsGraph, IsABag
    <2>2. CASE x \in P1
      BY <1>7, <1>9, <1>12, <1>13, <2>1, <2>2
    <2>3. CASE x \notin P1
      BY <1>7, <1>9, <1>12, <2>1, <2>3
    <2> QED
      BY <2>2, <2>3
  <1>16. /\ C \subseteq Labelled(g, "Evidence") /\ Q \subseteq Labelled(g, "Evidence")
         /\ Labelled(g, "Evidence") \subseteq DOMAIN g.nodes
    BY <1>1, <1>2, KnownIds
  <1>17. /\ \A l : Labelled(h, l) = Labelled(g, l)
         /\ \A i : WithId(h, i) = WithId(g, i)
    BY <1>10 DEF WithId, Labelled
  <1>18. IsGraph(h)
    <2>1. \A x \in P :
             /\ x = <<x[1], x[2], x[3]>>
             /\ x[2] \in DOMAIN h.nodes /\ x[3] \in DOMAIN h.nodes
             /\ x[1] \in {"DERIVED_FROM", "PARENT_OF"} =>
                  x[2] \in Labelled(h, "Evidence") /\ x[3] \in Labelled(h, "Evidence")
      BY <1>10, <1>11, <1>12, <1>16, <1>17
    <2>2. ASSUME NEW m, NEW n
          PROVE  <<"DERIVED_FROM", m, n>> \in P <=> <<"PARENT_OF", n, m>> \in P
      <3>1. <<"DERIVED_FROM", m, n>> \in P <=> m \in C /\ n \in Q
        BY <1>5, <1>11, <1>12 DEF Edges
      <3>2. <<"PARENT_OF", n, m>> \in P <=> m \in C /\ n \in Q
        BY <1>4, <1>11, <1>12 DEF Edges
      <3> QED
        BY <3>1, <3>2
    <2>3. Fit(h, P)
      BY <2>1, <2>2 DEF Fit
    <2>4. Labelled(h, "Evidence") \ DOMAIN g.nodes = {}
      BY <1>10 DEF Labelled
    <2>5. IsList(h.nodes) /\ Keeps(g, h)
      BY <1>10 DEF IsGraph, Keeps
    <2>6. Enlarged(g, h, P)
      BY <1>9, <1>10, <1>14, <1>15, <2>5 DEF Enlarged
    <2> QED
      BY <2>3, <2>4, <2>6, GraphGrows
  <1>19. DOMAIN g.nodes \subseteq DOMAIN h.nodes
         /\ \A i \in DOMAIN g.nodes : h.nodes[i] = g.nodes[i]
    BY <1>10
  <1>20. Grew(g, h, P) /\ Keeps(g, h)
    BY <1>14, <1>19 DEF IsGraph, Grew, Keeps
  <1>21. ASSUME NEW i PROVE Hops(h, i) = Hops(g, i)
    <2>1. NewHops(h, P, i) = {}
      BY <1>11, <1>12 DEF NewHops
    <2>2. Hops(h, i) = Hops(g, i) \cup NewHops(h, P, i)
      BY <1>20, GrowsBy
    <2> QED
      BY <2>1, <2>2
  <1>22. ASSUME NEW i
         PROVE  Parents(h, i) =
                 IF i = child /\ {child, parent} \subseteq Ids(g)
                 THEN Parents(g, i) \cup {parent} ELSE Parents(g, i)
    <2>1. Parents(h, i) = Parents(g, i) \cup NewParents(h, P, i)
      BY <1>20, GrowsBy
    <2>2. \A n \in Q : h.nodes[n].evidence_id = parent
      BY <1>2, <1>10, KnownIds
    <2>3. NewParents(h, P, i) \subseteq {parent}
      BY <1>11, <1>12, <2>2 DEF NewParents
    <2>4. CASE i = child /\ {child, parent} \subseteq Ids(g)
      <3>1. PICK c \in C, q \in Q : TRUE
        BY <1>1, <1>2, <2>4, KnownIds
      <3>2. <<"DERIVED_FROM", c, q>> \in {y \in P : y[1] = "DERIVED_FROM"
                                                    /\ y[2] \in WithId(h, i)}
        BY <1>1, <1>5, <1>12, <1>17, <2>4 DEF Edges
      <3>3. parent \in NewParents(h, P, i)
        BY <2>2, <3>2 DEF NewParents
      <3> QED
        BY <2>1, <2>3, <2>4, <3>3
    <2>5. CASE ~(i = child /\ {child, parent} \subseteq Ids(g))
      <3>1. C = {} \/ Q = {} \/ WithId(h, i) \cap C = {}
        BY <1>1, <1>2, <1>17, <2>5, KnownIds
      <3>2. NewParents(h, P, i) = {}
        BY <1>11, <1>12, <3>1 DEF NewParents
      <3> QED
        BY <2>1, <2>5, <3>2
    <2> QED
      BY <2>4, <2>5
  <1>23. Ids(h) = Ids(g) /\ \A s : Beliefs(h, s) = Beliefs(g, s)
    <2>1. Ids(h) = Ids(g)
      BY <1>10, <1>17 DEF Ids
    <2>2. ASSUME NEW s PROVE Beliefs(h, s) = Beliefs(g, s)
      <3>1. NewBeliefs(g, h, s) = {}
        BY <1>10 DEF NewBeliefs, Labelled
      <3>2. Beliefs(h, s) = Beliefs(g, s) \cup NewBeliefs(g, h, s)
        BY <1>20, NodesGrow
      <3> QED
        BY <3>1, <3>2
    <2> QED
      BY <2>1, <2>2
  <1>24. Leaves(g, h)
    <2>1. \A x \in P : x[1] # "FORWARDED_TO"
      BY <1>11, <1>12
    <2>2. KeepsCustody(g, h) /\ Custody(h) = Custody(g)
      BY <1>14, <1>15, <1>20, <2>1, OtherEdges
    <2> QED
      BY <1>17, <2>2 DEF Leaves
  <1> QED
    BY <1>18, <1>21, <1>22, <1>23, <1>24
    DEF AddsParent, AddsNothing, SameIds, SameHops, SameParents, SameBeliefs

-----------------------------------------------------------------------------
(* The requests of a recorder, one after the other.  What FlattenSeq picks: *)
Flattens(f, b, n) ==
    f = [i \in 1..n |-> IF i = 1 THEN b[i] ELSE f[i - 1] \o b[i]]

(* Such a function exists for every length.                                 *)
LEMMA FlatteningOfBlocks == ASSUME NEW b, NEW m \in Nat PROVE \E f : Flattens(f, b, m)
  <1> DEFINE Bad == {n \in Nat : ~\E f : Flattens(f, b, n)}
  <1> SUFFICES ASSUME Bad # {} PROVE FALSE
    OBVIOUS
  <1>1. PICK n \in Bad : \A k \in Bad : n <= k
    BY LeastNatural
  <1>2. CASE n = 0
    <2> DEFINE f == [i \in 1..0 |-> b[i]]
    <2>1. f = [i \in 1..0 |-> IF i = 1 THEN b[i] ELSE f[i - 1] \o b[i]]
      OBVIOUS
    <2> HIDE DEF f
    <2> QED
      BY <1>1, <1>2, <2>1 DEF Flattens
  <1>3. CASE n # 0
    <2>1. n - 1 \in Nat /\ n - 1 \notin Bad /\ n \in Nat
      BY <1>1, <1>3
    <2>2. PICK f : Flattens(f, b, n - 1)
      BY <2>1
    <2> DEFINE last == IF n = 1 THEN b[n] ELSE f[n - 1] \o b[n]
               h == [i \in 1..n |-> IF i = n THEN last ELSE f[i]]
               r(i) == IF i = 1 THEN b[i] ELSE h[i - 1] \o b[i]
    <2>3. ASSUME NEW i \in 1..n PROVE h[i] = r(i)
      <3>1. i # n => i \in 1..(n - 1)
        BY <2>1
      <3>2. i # 1 => i - 1 \in 1..n /\ i - 1 # n /\ h[i - 1] = f[i - 1]
        BY <2>1
      <3>3. CASE i = n
        <4>1. h[i] = last
          BY <3>3
        <4> HIDE DEF h
        <4> QED
          BY <3>2, <3>3, <4>1
      <3>4. CASE i # n
        <4>1. h[i] = f[i]
          BY <3>4
        <4>2. f[i] = IF i = 1 THEN b[i] ELSE f[i - 1] \o b[i]
          BY <2>2, <3>1, <3>4 DEF Flattens
        <4> HIDE DEF h
        <4> QED
          BY <3>2, <4>1, <4>2
      <3> QED
        BY <3>3, <3>4
    <2>4. h = [i \in 1..n |-> r(i)]
      <3>1. h = [i \in 1..n |-> h[i]]
        OBVIOUS
      <3> HIDE DEF h
      <3> QED
        BY <2>3, <3>1
    <2>5. Flattens(h, b, n)
      <3> HIDE DEF h
      <3> QED
        BY <2>4 DEF Flattens
    <2> QED
      BY <1>1, <2>5
  <1> QED
    BY <1>2, <1>3

(* Where the blocks of a list of requests are: block i follows off[i]       *)
(* requests.                                                                *)
Offsets(b, s, off) ==
    /\ off \in [1..(Len(b) + 1) -> Nat]
    /\ off[1] = 0
    /\ \A i \in 1..Len(b) : off[i + 1] = off[i] + Len(b[i])
    /\ Len(s) = off[Len(b) + 1]
    /\ \A i \in 1..Len(b) : \A l \in 1..Len(b[i]) : s[off[i] + l] = b[i][l]

(* FlattenSeq lays the blocks one after the other.                          *)
LEMMA FlattenHasOffsets ==
    ASSUME NEW b, IsList(b), \A i \in 1..Len(b) : IsList(b[i])
    PROVE  IsList(FlattenSeq(b)) /\ \E off : Offsets(b, FlattenSeq(b), off)
  <1>1. Len(b) \in Nat
    BY ListFacts
  <1>2. \A i \in 1..Len(b) : Len(b[i]) \in Nat
    BY ListFacts
  <1>3. CASE Len(b) = 0
    <2> DEFINE off == [i \in 1..1 |-> 0]
    <2>1. FlattenSeq(b) = b
      BY <1>3 DEF FlattenSeq
    <2>2. off \in [1..1 -> Nat] /\ off[1] = 0
      OBVIOUS
    <2> HIDE DEF off
    <2>3. Offsets(b, b, off)
      BY <1>3, <2>2 DEF Offsets
    <2> QED
      BY <2>1, <2>3
  <1>4. CASE Len(b) # 0
    <2> DEFINE n == Len(b)
    <2>1. PICK f : Flattens(f, b, n) /\ FlattenSeq(b) = f[n]
      <3> DEFINE f == CHOOSE f : Flattens(f, b, n)
      <3>1. Flattens(f, b, n)
        BY <1>1, FlatteningOfBlocks
      <3>2. FlattenSeq(b) = f[n]
        BY <1>4 DEF FlattenSeq, Flattens
      <3> QED
        BY <3>1, <3>2
    <2>2. \A i \in 1..n : f[i] = IF i = 1 THEN b[i] ELSE f[i - 1] \o b[i]
      BY <2>1 DEF Flattens
    <2>3. \A i \in 1..n : IsList(f[i])
      <3> DEFINE Bad == {i \in 1..n : ~IsList(f[i])}
      <3> SUFFICES ASSUME Bad # {} PROVE FALSE
        OBVIOUS
      <3>1. Bad \in SUBSET Nat
        BY <1>1
      <3>2. PICK i \in Bad : \A k \in Bad : i <= k
        <4> HIDE DEF Bad
        <4> QED
          BY <3>1, LeastNatural
      <3>3. i # 1
        BY <2>2, <3>2
      <3>4. i - 1 \in 1..n /\ ~(i <= i - 1) /\ i \in 1..n
        BY <1>1, <3>2, <3>3
      <3>5. IsList(f[i - 1])
        BY <3>2, <3>4
      <3>6. f[i] = f[i - 1] \o b[i] /\ IsList(b[i])
        BY <2>2, <3>3, <3>4
      <3>7. IsList(f[i])
        <4> DEFINE p == f[i - 1]
                   q == b[i]
                   u == f[i]
        <4>1. IsList(p) /\ IsList(q) /\ u = p \o q
          BY <3>5, <3>6
        <4> HIDE DEF p, q, u
        <4>2. Joins(u, p, q)
          BY <4>1, ConcatFacts
        <4> QED
          BY <4>2 DEF u, Joins
      <3> QED
        BY <3>2, <3>7
    <2>4. ASSUME NEW i \in 1..n, i # 1
          PROVE  /\ i - 1 \in 1..n
                 /\ Len(f[i]) = Len(f[i - 1]) + Len(b[i])
                 /\ \A l \in 1..Len(f[i - 1]) : f[i][l] = f[i - 1][l]
                 /\ \A l \in 1..Len(b[i]) : f[i][Len(f[i - 1]) + l] = b[i][l]
      <3>1. i - 1 \in 1..n
        BY <1>1, <2>4
      <3>2. IsList(f[i - 1]) /\ IsList(b[i])
        BY <2>3, <3>1
      <3>3. f[i] = f[i - 1] \o b[i]
        BY <2>2, <2>4
      <3> DEFINE p == f[i - 1]
                 q == b[i]
                 u == f[i]
      <3>4. IsList(p) /\ IsList(q) /\ u = p \o q
        BY <3>2, <3>3
      <3> HIDE DEF p, q, u
      <3>5. /\ Len(u) = Len(p) + Len(q)
            /\ \A l \in 1..Len(p) : u[l] = p[l]
            /\ \A l \in 1..Len(q) : u[Len(p) + l] = q[l]
        <4>1. Joins(u, p, q)
          BY <3>4, ConcatFacts
        <4> QED
          BY <4>1 DEF Joins
      <3> QED
        BY <3>1, <3>5 DEF p, q, u
    <2>5. \A i \in 1..n : Len(f[i]) \in Nat
      BY <2>3, ListFacts
    <2>6. f[1] = b[1]
      BY <1>1, <1>4, <2>2
    <2> DEFINE off == [i \in 1..(n + 1) |-> IF i = 1 THEN 0 ELSE Len(f[i - 1])]
    <2>7. /\ off \in [1..(n + 1) -> Nat] /\ off[1] = 0 /\ off[n + 1] = Len(f[n])
          /\ \A i \in 1..n : off[i + 1] = Len(f[i])
          /\ \A i \in 1..n : off[i] = IF i = 1 THEN 0 ELSE Len(f[i - 1])
      BY <1>1, <1>4, <2>5
    <2> HIDE DEF off
    <2>8. ASSUME NEW i \in 1..n PROVE off[i + 1] = off[i] + Len(b[i])
      <3>1. off[i + 1] = Len(f[i]) /\ Len(b[i]) \in Nat
        BY <1>2, <2>7
      <3>2. CASE i = 1
        <4>1. off[i] = 0 /\ f[i] = b[i]
          BY <2>6, <2>7, <3>2
        <4> QED
          BY <3>1, <4>1
      <3>3. CASE i # 1
        <4>1. off[i] = Len(f[i - 1])
          BY <2>7, <3>3
        <4>2. Len(f[i]) = Len(f[i - 1]) + Len(b[i])
          BY <2>4, <3>3
        <4> QED
          BY <3>1, <4>1, <4>2
      <3> QED
        BY <3>2, <3>3
    <2>9. \A i \in 1..n : \A l \in 1..Len(b[i]) : f[i][off[i] + l] = b[i][l]
      <3> SUFFICES ASSUME NEW i \in 1..n, NEW l \in 1..Len(b[i])
                   PROVE  f[i][off[i] + l] = b[i][l]
        OBVIOUS
      <3>1. CASE i = 1
        <4>1. off[i] + l = l
          BY <1>2, <2>7, <3>1
        <4> QED
          BY <2>6, <3>1, <4>1
      <3>2. CASE i # 1
        <4>1. off[i] = Len(f[i - 1])
          BY <2>7, <3>2
        <4> QED
          BY <2>4, <3>2, <4>1, ZenonT(30)
      <3> QED
        BY <3>1, <3>2
    <2>10. ASSUME NEW i \in 1..n
           PROVE  \A m \in i..n : Len(f[i]) <= Len(f[m])
                                  /\ \A l \in 1..Len(f[i]) : f[m][l] = f[i][l]
      <3> DEFINE Good(m) == Len(f[i]) <= Len(f[m])
                            /\ \A l \in 1..Len(f[i]) : f[m][l] = f[i][l]
                 Bad == {m \in i..n : ~Good(m)}
      <3> SUFFICES ASSUME Bad # {} PROVE FALSE
        OBVIOUS
      <3>1. Bad \in SUBSET Nat
        BY <1>1
      <3>2. PICK m \in Bad : \A k \in Bad : m <= k
        <4> HIDE DEF Bad
        <4> QED
          BY <3>1, LeastNatural
      <3>3. m # i
        BY <2>5, <3>2
      <3>4. m - 1 \in i..n /\ ~(m <= m - 1) /\ m \in 1..n /\ m # 1 /\ m - 1 \in 1..n
        BY <1>1, <3>2, <3>3
      <3>5. Good(m - 1)
        BY <3>2, <3>4
      <3>6. /\ Len(f[m]) = Len(f[m - 1]) + Len(b[m])
            /\ \A l \in 1..Len(f[m - 1]) : f[m][l] = f[m - 1][l]
        BY <2>4, <3>4
      <3>7. Len(f[i]) \in Nat /\ Len(f[m - 1]) \in Nat /\ Len(b[m]) \in Nat
        BY <1>2, <2>5, <3>4
      <3>8. 1..Len(f[i]) \subseteq 1..Len(f[m - 1]) /\ Len(f[i]) <= Len(f[m])
        <4> DEFINE x == Len(f[i])
                   y == Len(f[m - 1])
                   z == Len(f[m])
                   w == Len(b[m])
        <4>1. x \in Nat /\ y \in Nat /\ w \in Nat /\ z = y + w /\ x <= y
          BY <3>5, <3>6, <3>7
        <4> HIDE DEF x, y, z, w
        <4>2. 1..x \subseteq 1..y /\ x <= z
          BY <4>1
        <4> QED
          BY <4>2 DEF x, y, z
      <3>9. Good(m)
        BY <3>5, <3>6, <3>8
      <3> QED
        BY <3>2, <3>9
    <2>11. ASSUME NEW i \in 1..n, NEW l \in 1..Len(b[i])
           PROVE  f[n][off[i] + l] = b[i][l]
      <3>1. off[i] + l \in 1..Len(f[i])
        <4>1. off[i] \in Nat
          <5>1. i \in 1..(n + 1)
            BY <1>1
          <5> QED
            BY <2>7, <5>1
        <4>2. Len(b[i]) \in Nat
          BY <1>2
        <4> QED
          BY <2>7, <2>8, <4>1, <4>2
      <3>2. f[n][off[i] + l] = f[i][off[i] + l]
        BY <1>1, <2>10, <3>1
      <3> QED
        BY <2>9, <3>2
    <2>12. Offsets(b, f[n], off)
      BY <2>7, <2>8, <2>11 DEF Offsets
    <2>13. IsList(f[n])
      BY <1>1, <1>4, <2>3
    <2> QED
      BY <2>1, <2>12, <2>13
  <1> QED
    BY <1>3, <1>4

(* Every position of the list is in a block, and the blocks are in order.   *)
LEMMA PositionsAreInBlocks ==
    ASSUME NEW b, Len(b) \in Nat, \A i \in 1..Len(b) : Len(b[i]) \in Nat,
           NEW s, NEW off, Offsets(b, s, off)
    PROVE  /\ \A k \in 1..Len(s) :
                 \E i \in 1..Len(b) : \E l \in 1..Len(b[i]) : k = off[i] + l
           /\ \A i \in 1..Len(b) : off[i] + Len(b[i]) <= Len(s)
           /\ \A i, j \in 1..Len(b) : i < j => off[i] + Len(b[i]) <= off[j]
  <1> DEFINE n == Len(b)
  <1>1. /\ n \in Nat /\ off \in [1..(n + 1) -> Nat] /\ off[1] = 0
        /\ \A i \in 1..n : off[i + 1] = off[i] + Len(b[i])
        /\ Len(s) = off[n + 1]
    BY DEF Offsets
  <1>2. \A i \in 1..n : Len(b[i]) \in Nat
    OBVIOUS
  <1> HIDE DEF n
  <1>3. ASSUME NEW k \in 1..Len(s)
        PROVE  \E i \in 1..n : \E l \in 1..Len(b[i]) : k = off[i] + l
    <2> DEFINE Far == {m \in 1..(n + 1) : k <= off[m]}
    <2>1. n + 1 \in Far /\ Far \in SUBSET Nat
      BY <1>1
    <2>2. PICK m \in Far : \A x \in Far : m <= x
      <3> HIDE DEF Far
      <3> QED
        BY <2>1, LeastNatural
    <2>3. m # 1
      BY <1>1, <2>2
    <2>4. m - 1 \in 1..n /\ m - 1 \notin Far /\ m - 1 \in 1..(n + 1)
      BY <1>1, <2>2, <2>3
    <2>5. off[m - 1] < k /\ off[m] = off[m - 1] + Len(b[m - 1]) /\ k <= off[m]
      <3>1. off[m - 1] \in Nat
        BY <1>1, <2>4
      <3>2. m = (m - 1) + 1
        BY <1>1, <2>2
      <3>3. off[(m - 1) + 1] = off[m - 1] + Len(b[m - 1])
        BY <1>1, <2>4
      <3>4. k <= off[m]
        BY <2>2
      <3> QED
        BY <2>4, <3>1, <3>2, <3>3, <3>4
    <2>6. off[m - 1] \in Nat /\ Len(b[m - 1]) \in Nat
      BY <1>1, <1>2, <2>4
    <2>7. k - off[m - 1] \in 1..Len(b[m - 1]) /\ k = off[m - 1] + (k - off[m - 1])
      <3> DEFINE x == off[m - 1]
                 y == Len(b[m - 1])
                 z == off[m]
      <3>1. x < k /\ z = x + y /\ k <= z /\ x \in Nat /\ y \in Nat
        BY <2>5, <2>6
      <3> HIDE DEF x, y, z
      <3>2. k - x \in 1..y /\ k = x + (k - x)
        BY <3>1
      <3> QED
        BY <3>2 DEF x, y
    <2> QED
      BY <2>4, <2>7
  <1>4. ASSUME NEW i \in 1..n, NEW j \in (i + 1)..(n + 1)
        PROVE  off[i] + Len(b[i]) <= off[j]
    <2> DEFINE Bad == {m \in (i + 1)..(n + 1) : ~(off[i] + Len(b[i]) <= off[m])}
    <2> SUFFICES ASSUME Bad # {} PROVE FALSE
      OBVIOUS
    <2>1. Bad \in SUBSET Nat
      BY <1>1
    <2>2. PICK m \in Bad : \A x \in Bad : m <= x
      <3> HIDE DEF Bad
      <3> QED
        BY <2>1, LeastNatural
    <2>3. off[i + 1] = off[i] + Len(b[i]) /\ off[i] \in Nat /\ Len(b[i]) \in Nat
      BY <1>1, <1>2
    <2>4. m # i + 1
      BY <2>2, <2>3
    <2>5. /\ m - 1 \in (i + 1)..(n + 1) /\ ~(m <= m - 1) /\ m - 1 \in 1..n
          /\ (m - 1) + 1 = m /\ m \in 1..(n + 1)
      BY <1>1, <2>2, <2>4
    <2>6. off[i] + Len(b[i]) <= off[m - 1]
      BY <2>2, <2>5
    <2>7. off[m] = off[m - 1] + Len(b[m - 1])
      BY <1>1, <2>5
    <2>8. off[m - 1] \in Nat /\ Len(b[m - 1]) \in Nat
      <3>1. \A x \in 1..(n + 1) : off[x] \in Nat
        BY <1>1
      <3>2. m - 1 \in 1..(n + 1) /\ m - 1 \in 1..n
        BY <1>1, <2>5
      <3> QED
        BY <1>2, <3>1, <3>2, Zenon
    <2>9. off[i] + Len(b[i]) <= off[m]
      BY <2>3, <2>6, <2>7, <2>8, SMTT(30)
    <2> QED
      BY <2>2, <2>9
  <1>5. \A i \in 1..n : i + 1 \in 1..(n + 1) /\ n + 1 \in (i + 1)..(n + 1)
    BY <1>1
  <1>6. \A i, j \in 1..n : i < j => j \in (i + 1)..(n + 1)
    BY <1>1
  <1> QED
    BY <1>1, <1>3, <1>4, <1>5, <1>6 DEF n

-----------------------------------------------------------------------------
(* A job: evidence a recorder may persist.                                  *)
IsJob(job) == IsList(job) /\ \A i \in 1..Len(job) : Persistable(job[i])

Blocks(job) == [i \in DOMAIN job |-> RequestsFor(job, i)]

RequestsOf(job) == FlattenSeq(Blocks(job))

(* The requests about one evidence: itself, its hops, a belief, its parents.*)
IsBlock(b, job, i) ==
    LET e == job[i]
        H == Len(e.provenance)
        Q == Len(e.parents)
    IN  /\ IsList(b) /\ H \in Nat /\ Q \in Nat
        /\ Len(b) = H + 2 + Q
        /\ b[1] = WriteEvidence(e)
        /\ \A m \in 1..H : b[m + 1] = [op |-> "hop", id |-> e.evidence_id,
                                       hop |-> e.provenance[m]]
        /\ b[H + 2] = WriteBeliefState(e.subject, TrackAfter(job, i), e.evidence_id)
        /\ \A m \in 1..Q : b[H + 2 + m] = [op |-> "parent", child |-> e.evidence_id,
                                           parent |-> e.parents[m]]

(* Four lists one after the other.                                          *)
JoinsFour(s, a, b, c, d, H, Q) ==
    /\ IsList(s) /\ H \in Nat /\ Q \in Nat /\ Len(s) = H + 2 + Q
    /\ s[1] = a[1]
    /\ \A m \in 1..H : s[m + 1] = b[m]
    /\ s[H + 2] = c[1]
    /\ \A m \in 1..Q : s[H + 2 + m] = d[m]

(* The first and the third have one element.                                *)
LEMMA FourLists ==
    ASSUME NEW a, IsList(a), NEW b, IsList(b), NEW c, IsList(c), NEW d, IsList(d),
           NEW H, H = Len(b), NEW Q, Q = Len(d), Len(a) = 1, Len(c) = 1,
           NEW s, s = a \o b \o c \o d
    PROVE  JoinsFour(s, a, b, c, d, H, Q)
  <1>1. PICK x : x = a \o b
    OBVIOUS
  <1>2. PICK y : y = x \o c
    OBVIOUS
  <1>3. s = y \o d
    BY <1>1, <1>2
  <1>4. H \in Nat /\ Q \in Nat
    BY ListFacts
  <1>5. /\ IsList(x) /\ Len(x) = 1 + H
        /\ x[1] = a[1] /\ \A m \in 1..H : x[1 + m] = b[m]
    <2>1. Joins(x, a, b)
      BY <1>1, ConcatFacts
    <2> QED
      BY <1>4, <2>1 DEF Joins
  <1>6. /\ IsList(y) /\ Len(y) = Len(x) + Len(c)
        /\ \A m \in 1..Len(x) : y[m] = x[m]
        /\ \A m \in 1..Len(c) : y[Len(x) + m] = c[m]
    <2>1. Joins(y, x, c)
      BY <1>2, <1>5, ConcatFacts
    <2> QED
      BY <2>1 DEF Joins
  <1>7. /\ Len(y) = H + 2 /\ y[1] = a[1] /\ \A m \in 1..H : y[1 + m] = b[m]
        /\ y[H + 2] = c[1]
    BY <1>4, <1>5, <1>6
  <1>8. /\ IsList(s) /\ Len(s) = Len(y) + Len(d)
        /\ \A m \in 1..Len(y) : s[m] = y[m]
        /\ \A m \in 1..Len(d) : s[Len(y) + m] = d[m]
    <2>1. Joins(s, y, d)
      BY <1>3, <1>6, ConcatFacts
    <2> QED
      BY <2>1 DEF Joins
  <1>9. /\ \A m \in 1..H : s[m + 1] = b[m]
        /\ s[1] = a[1] /\ s[H + 2] = c[1] /\ Len(s) = H + 2 + Q
        /\ \A m \in 1..Q : s[H + 2 + m] = d[m]
    BY <1>4, <1>7, <1>8, SMTT(30)
  <1> QED
    BY <1>4, <1>8, <1>9 DEF JoinsFour

(* RequestsFor is such a list.                                              *)
LEMMA RequestsForIsBlock ==
    ASSUME NEW job, NEW i, Persistable(job[i])
    PROVE  IsBlock(RequestsFor(job, i), job, i)
  <1>1. PICK e : e = job[i]
    OBVIOUS
  <1>2. PICK t : t = WriteBeliefState(e.subject, TrackAfter(job, i), e.evidence_id)
    OBVIOUS
  <1>3. PICK H, Q : H = Len(e.provenance) /\ Q = Len(e.parents)
    OBVIOUS
  <1>4. /\ H \in Nat /\ Q \in Nat
        /\ DOMAIN e.provenance = 1..H /\ DOMAIN e.parents = 1..Q
    BY <1>1, <1>3 DEF Persistable, IsEvidence, IsChain
  <1>5. PICK b, d : b = WriteProvenance(e) /\ d = WriteParentage(e)
    OBVIOUS
  <1>6. /\ IsList(b) /\ Len(b) = H
        /\ \A m \in 1..H : b[m] = [op |-> "hop", id |-> e.evidence_id,
                                   hop |-> e.provenance[m]]
    <2>1. /\ b = [m \in 1..H |-> b[m]]
          /\ \A m \in 1..H : b[m] = [op |-> "hop", id |-> e.evidence_id,
                                     hop |-> e.provenance[m]]
      BY <1>4, <1>5 DEF WriteProvenance
    <2> QED
      BY <1>4, <2>1, FunctionIsList
  <1>7. /\ IsList(d) /\ Len(d) = Q
        /\ \A m \in 1..Q : d[m] = [op |-> "parent", child |-> e.evidence_id,
                                   parent |-> e.parents[m]]
    <2>1. /\ d = [m \in 1..Q |-> d[m]]
          /\ \A m \in 1..Q : d[m] = [op |-> "parent", child |-> e.evidence_id,
                                     parent |-> e.parents[m]]
      BY <1>4, <1>5 DEF WriteParentage
    <2> QED
      BY <1>4, <2>1, FunctionIsList
  <1>8. ASSUME NEW x PROVE IsList(<<x>>) /\ Len(<<x>>) = 1 /\ <<x>>[1] = x
    <2>1. <<x>> \in Seq({x}) /\ <<x>>[1] = x /\ DOMAIN <<x>> = {1} /\ Len(<<x>>) = 1
      OBVIOUS
    <2>2. ToSet(<<x>>) = {x}
      BY <2>1 DEF ToSet
    <2> QED
      BY <2>1, <2>2 DEF IsList
  <1>9. PICK a, c : a = <<WriteEvidence(e)>> /\ c = <<t>>
    OBVIOUS
  <1>10. /\ IsList(a) /\ Len(a) = 1 /\ a[1] = WriteEvidence(e)
         /\ IsList(c) /\ Len(c) = 1 /\ c[1] = t
    BY <1>8, <1>9
  <1>11. PICK s : s = RequestsFor(job, i)
    OBVIOUS
  <1>12. s = a \o b \o c \o d
    BY <1>1, <1>2, <1>5, <1>9, <1>11 DEF RequestsFor
  <1>13. /\ IsList(s) /\ Len(s) = H + 2 + Q
         /\ s[1] = a[1]
         /\ \A m \in 1..H : s[m + 1] = b[m]
         /\ s[H + 2] = c[1]
         /\ \A m \in 1..Q : s[H + 2 + m] = d[m]
    <2>1. JoinsFour(s, a, b, c, d, H, Q)
      BY <1>6, <1>7, <1>10, <1>12, FourLists
    <2> QED
      BY <2>1 DEF JoinsFour
  <1>14. IsBlock(s, job, i)
    BY <1>1, <1>2, <1>3, <1>4, <1>6, <1>7, <1>10, <1>13 DEF IsBlock
  <1> QED
    BY <1>11, <1>14

(* Request k of a job's list is request l of its i-th block, which follows  *)
(* o requests.                                                              *)
InBlock(job, k, i, o, l) ==
    LET b == RequestsFor(job, i)
        s == RequestsOf(job)
    IN  /\ i \in 1..Len(job) /\ o \in Nat /\ l \in 1..Len(b) /\ k = o + l
        /\ o + Len(b) <= Len(s)
        /\ \A m \in 1..Len(b) : s[o + m] = b[m]
        /\ IsBlock(b, job, i)

(* Block i follows off[i] requests, and the blocks are in order.            *)
Placed(job, off) ==
    /\ off \in [1..Len(job) -> Nat]
    /\ \A i \in 1..Len(job) : \A l \in 1..Len(RequestsFor(job, i)) :
          InBlock(job, off[i] + l, i, off[i], l)
    /\ \A k \in 1..Len(RequestsOf(job)) : \E i, l : InBlock(job, k, i, off[i], l)
    /\ \A i, j \in 1..Len(job) :
          i < j => off[i] + Len(RequestsFor(job, i)) <= off[j]

(* Every request is in a block, and every block is there.                   *)
LEMMA BlocksArePlaced ==
    ASSUME NEW job, IsJob(job)
    PROVE  IsList(RequestsOf(job)) /\ \E off : Placed(job, off)
  <1>1. Len(job) \in Nat /\ DOMAIN job = 1..Len(job)
    BY ListFacts DEF IsJob
  <1>2. PICK b : b = Blocks(job)
    OBVIOUS
  <1>3. PICK s : s = RequestsOf(job)
    OBVIOUS
  <1>4. /\ b = [i \in 1..Len(job) |-> b[i]]
        /\ \A i \in 1..Len(job) : b[i] = RequestsFor(job, i)
    BY <1>1, <1>2 DEF Blocks
  <1>5. IsList(b) /\ Len(b) = Len(job)
    BY <1>1, <1>4, FunctionIsList
  <1>6. \A i \in 1..Len(job) : IsBlock(b[i], job, i)
    BY <1>4, RequestsForIsBlock DEF IsJob
  <1>7. \A i \in 1..Len(b) : IsList(b[i]) /\ Len(b[i]) \in Nat /\ Len(b[i]) > 0
    <2> SUFFICES ASSUME NEW i \in 1..Len(job)
                 PROVE  IsList(b[i]) /\ Len(b[i]) \in Nat /\ Len(b[i]) > 0
      BY <1>5
    <2>1. IsList(b[i]) /\ \E H, Q \in Nat : Len(b[i]) = H + 2 + Q
      BY <1>6 DEF IsBlock
    <2> QED
      BY <2>1
  <1>8. s = FlattenSeq(b)
    BY <1>2, <1>3 DEF RequestsOf
  <1>9. IsList(s) /\ \E off : Offsets(b, s, off)
    BY <1>5, <1>7, <1>8, FlattenHasOffsets
  <1>10. PICK off : Offsets(b, s, off)
    BY <1>9
  <1>11. /\ \A k \in 1..Len(s) :
               \E i \in 1..Len(b) : \E l \in 1..Len(b[i]) : k = off[i] + l
         /\ \A i \in 1..Len(b) : off[i] + Len(b[i]) <= Len(s)
         /\ \A i, j \in 1..Len(b) : i < j => off[i] + Len(b[i]) <= off[j]
    BY <1>1, <1>5, <1>7, <1>10, PositionsAreInBlocks
  <1>12. ASSUME NEW i \in 1..Len(job), NEW l \in 1..Len(b[i])
         PROVE  InBlock(job, off[i] + l, i, off[i], l)
    <2>1. off[i] \in Nat
      BY <1>1, <1>5, <1>10 DEF Offsets
    <2>2. \A m \in 1..Len(b[i]) : s[off[i] + m] = b[i][m]
      BY <1>5, <1>10 DEF Offsets
    <2>3. off[i] + Len(b[i]) <= Len(s)
      BY <1>5, <1>11
    <2> QED
      BY <1>3, <1>4, <1>6, <2>1, <2>2, <2>3 DEF InBlock
  <1>13. PICK p : p = [i \in 1..Len(job) |-> off[i]]
    OBVIOUS
  <1>14. p \in [1..Len(job) -> Nat] /\ \A i \in 1..Len(job) : p[i] = off[i]
    BY <1>1, <1>5, <1>10, <1>13 DEF Offsets
  <1>15. \A i \in 1..Len(job) : \A l \in 1..Len(RequestsFor(job, i)) :
            InBlock(job, p[i] + l, i, p[i], l)
    BY <1>4, <1>12, <1>14
  <1>16. \A k \in 1..Len(s) : \E i, l : InBlock(job, k, i, p[i], l)
    <2> SUFFICES ASSUME NEW k \in 1..Len(s) PROVE \E i, l : InBlock(job, k, i, p[i], l)
      OBVIOUS
    <2>1. PICK i \in 1..Len(job) : \E l \in 1..Len(b[i]) : k = off[i] + l
      BY <1>5, <1>11
    <2>2. PICK l \in 1..Len(b[i]) : k = off[i] + l
      BY <2>1
    <2>3. InBlock(job, k, i, p[i], l)
      BY <1>12, <1>14, <2>2
    <2> QED
      BY <2>3
  <1>17. \A i, j \in 1..Len(job) : i < j => p[i] + Len(RequestsFor(job, i)) <= p[j]
    BY <1>4, <1>5, <1>11, <1>14
  <1>18. Placed(job, p)
    BY <1>3, <1>14, <1>15, <1>16, <1>17 DEF Placed
  <1> QED
    BY <1>3, <1>9, <1>18

(* The same without the offsets.                                            *)
LEMMA RequestsAreBlocks ==
    ASSUME NEW job, IsJob(job)
    PROVE  /\ IsList(RequestsOf(job))
           /\ \A k \in 1..Len(RequestsOf(job)) : \E i, o, l : InBlock(job, k, i, o, l)
           /\ \A i \in 1..Len(job) : \E o : InBlock(job, o + 1, i, o, 1)
  <1>1. PICK off : Placed(job, off)
    BY BlocksArePlaced
  <1>2. ASSUME NEW i \in 1..Len(job) PROVE 1 \in 1..Len(RequestsFor(job, i))
    <2>1. PICK b : b = RequestsFor(job, i)
      OBVIOUS
    <2>2. IsBlock(b, job, i)
      BY <2>1, RequestsForIsBlock DEF IsJob
    <2>3. \E H, Q \in Nat : Len(b) = H + 2 + Q
      BY <2>2 DEF IsBlock
    <2> QED
      BY <2>1, <2>3
  <1> QED
    BY <1>1, <1>2, BlocksArePlaced DEF Placed

-----------------------------------------------------------------------------
(* What a request asks for and what came before it.                         *)
HopRequest(e, m) ==
    [op |-> "hop", id |-> e.evidence_id, hop |-> e.provenance[m]]

ParentRequest(e, m) ==
    [op |-> "parent", child |-> e.evidence_id, parent |-> e.parents[m]]

BeliefRequest(job, i) ==
    WriteBeliefState(job[i].subject, TrackAfter(job, i), job[i].evidence_id)

Before(S, k, q) == \E n \in 1..(k - 1) : S[n] = q

HopOf(job, S, k, i) ==
    \E m \in 1..Len(job[i].provenance) :
        /\ S[k] = HopRequest(job[i], m)
        /\ \A x \in 1..(m - 1) : Before(S, k, HopRequest(job[i], x))

ParentOf(job, S, k, i) ==
    \E m \in 1..Len(job[i].parents) : S[k] = ParentRequest(job[i], m)

RequestIs(job, S, k, i) ==
    \/ S[k] = WriteEvidence(job[i])
    \/ /\ Before(S, k, WriteEvidence(job[i]))
       /\ \/ HopOf(job, S, k, i)
          \/ S[k] = BeliefRequest(job, i)
          \/ ParentOf(job, S, k, i)

(* Evidence is asked for before its hops, its belief and its parents, and a *)
(* hop before the next.                                                     *)
LEMMA RequestKinds ==
    ASSUME NEW job, IsJob(job), NEW S, S = RequestsOf(job), NEW k \in 1..Len(S)
    PROVE  \E i \in 1..Len(job) : RequestIs(job, S, k, i)
  <1>1. PICK i, o, l : InBlock(job, k, i, o, l)
    BY RequestsAreBlocks
  <1>2. PICK b : b = RequestsFor(job, i)
    OBVIOUS
  <1>3. /\ i \in 1..Len(job) /\ o \in Nat /\ l \in 1..Len(b) /\ k = o + l
        /\ \A m \in 1..Len(b) : S[o + m] = b[m]
        /\ IsBlock(b, job, i)
    BY <1>1, <1>2 DEF InBlock
  <1>4. PICK e : e = job[i]
    OBVIOUS
  <1>5. PICK H, Q : H = Len(e.provenance) /\ Q = Len(e.parents)
    OBVIOUS
  <1>6. /\ H \in Nat /\ Q \in Nat /\ Len(b) = H + 2 + Q
        /\ b[1] = WriteEvidence(e)
        /\ \A m \in 1..H : b[m + 1] = HopRequest(e, m)
        /\ b[H + 2] = BeliefRequest(job, i)
        /\ \A m \in 1..Q : b[H + 2 + m] = ParentRequest(e, m)
    BY <1>3, <1>4, <1>5 DEF IsBlock, HopRequest, BeliefRequest, ParentRequest
  <1>7. S[k] = b[l]
    BY <1>3
  <1>8. CASE l = 1
    BY <1>3, <1>4, <1>6, <1>7, <1>8 DEF RequestIs
  <1>9. CASE l # 1
    <2>1. Before(S, k, WriteEvidence(e))
      <3>1. 1 \in 1..Len(b) /\ o + 1 \in 1..(k - 1)
        BY <1>3, <1>6, <1>9
      <3>2. S[o + 1] = WriteEvidence(e)
        BY <1>3, <1>6, <3>1
      <3> QED
        BY <3>1, <3>2 DEF Before
    <2>2. CASE l \in 2..(H + 1)
      <3>1. PICK m : m = l - 1
        OBVIOUS
      <3>2. m \in 1..H /\ l = m + 1
        BY <1>6, <2>2, <3>1
      <3>3. S[k] = HopRequest(e, m)
        BY <1>6, <1>7, <3>2
      <3>4. ASSUME NEW x \in 1..(m - 1) PROVE Before(S, k, HopRequest(e, x))
        <4>1. x \in 1..H /\ x + 1 \in 1..Len(b) /\ o + (x + 1) \in 1..(k - 1)
          BY <1>3, <1>6, <3>2
        <4>2. S[o + (x + 1)] = HopRequest(e, x)
          BY <1>3, <1>6, <4>1
        <4> QED
          BY <4>1, <4>2 DEF Before
      <3>5. HopOf(job, S, k, i)
        BY <1>4, <1>5, <3>2, <3>3, <3>4 DEF HopOf
      <3> QED
        BY <1>3, <1>4, <2>1, <3>5 DEF RequestIs
    <2>3. CASE l = H + 2
      BY <1>3, <1>4, <1>6, <1>7, <2>1, <2>3 DEF RequestIs
    <2>4. CASE l \in (H + 3)..(H + 2 + Q)
      <3>1. PICK m : m = l - (H + 2)
        OBVIOUS
      <3>2. m \in 1..Q /\ l = H + 2 + m
        BY <1>6, <2>4, <3>1
      <3>3. S[k] = ParentRequest(e, m)
        BY <1>6, <1>7, <3>2
      <3>4. ParentOf(job, S, k, i)
        BY <1>4, <1>5, <3>2, <3>3 DEF ParentOf
      <3> QED
        BY <1>3, <1>4, <2>1, <3>4 DEF RequestIs
    <2> QED
      BY <1>3, <1>6, <1>9, <2>2, <2>3, <2>4
  <1> QED
    BY <1>8, <1>9

-----------------------------------------------------------------------------
(* What an acknowledged request has brought about.                          *)
Acked(g, S, k) ==
    /\ S[k].op = "evidence" => S[k].evidence.evidence_id \in Ids(g)
    /\ S[k].op = "hop" => S[k].hop \in Hops(g, S[k].id)
    /\ S[k].op = "belief" => S[k].belief \in Beliefs(g, S[k].subject)
    /\ S[k].op = "parent"
         /\ (\E n \in 1..(k - 1) : S[n].op = "evidence"
                                   /\ S[n].evidence.evidence_id = S[k].parent)
       => S[k].parent \in Parents(g, S[k].child)

HopEffectOf(job, S, k, i, g, h) ==
    \E m \in 1..Len(job[i].provenance) :
        /\ S[k] = HopRequest(job[i], m)
        /\ job[i].evidence_id \in Ids(g)
        /\ \A x \in 1..(m - 1) : job[i].provenance[x] \in Hops(g, job[i].evidence_id)
        /\ AddsHop(g, h, job[i].evidence_id, job[i].provenance[m])

ParentEffectOf(job, S, k, i, g, h) ==
    \E m \in 1..Len(job[i].parents) :
        /\ S[k] = ParentRequest(job[i], m)
        /\ job[i].evidence_id \in Ids(g)
        /\ IF job[i].parents[m] \in Ids(g)
           THEN AddsParent(g, h, job[i].evidence_id, job[i].parents[m])
           ELSE AddsNothing(g, h)

EffectOf(job, S, k, i, g, h) ==
    \/ S[k] = WriteEvidence(job[i]) /\ Stores(g, h, job[i])
    \/ HopEffectOf(job, S, k, i, g, h)
    \/ S[k] = BeliefRequest(job, i)
          /\ AddsBelief(g, h, job[i].subject, TrackAfter(job, i))
    \/ ParentEffectOf(job, S, k, i, g, h)

(* A request sent after the ones before it were acknowledged.               *)
LEMMA RequestEffect ==
    ASSUME NEW job, IsJob(job), NEW S, S = RequestsOf(job), NEW k \in 1..Len(S),
           NEW g, IsGraph(g), \A n \in 1..(k - 1) : Acked(g, S, n),
           NEW h, h = After(g, S[k])
    PROVE  IsGraph(h) /\ \E i \in 1..Len(job) : EffectOf(job, S, k, i, g, h)
  <1>1. PICK i \in 1..Len(job) : RequestIs(job, S, k, i)
    BY RequestKinds
  <1>2. PICK e : e = job[i]
    OBVIOUS
  <1>3. Persistable(e)
    BY <1>1, <1>2 DEF IsJob
  <1>4. CASE S[k] = WriteEvidence(e)
    <2>1. h = AfterEvidence(g, e)
      BY <1>4 DEF After, WriteEvidence
    <2>2. e.subject \in Subjects
      BY <1>3 DEF Persistable
    <2>3. IsGraph(h) /\ Stores(g, h, e)
      BY <2>1, <2>2, EvidenceEffect
    <2> QED
      BY <1>2, <1>4, <2>3 DEF EffectOf
  <1>5. CASE Before(S, k, WriteEvidence(e))
    <2>1. e.evidence_id \in Ids(g)
      <3>1. PICK n \in 1..(k - 1) : S[n] = WriteEvidence(e)
        BY <1>5 DEF Before
      <3>2. Acked(g, S, n)
        OBVIOUS
      <3> QED
        BY <3>1, <3>2 DEF Acked, WriteEvidence
    <2>2. CASE HopOf(job, S, k, i)
      <3>1. PICK m \in 1..Len(e.provenance) :
                 /\ S[k] = HopRequest(e, m)
                 /\ \A x \in 1..(m - 1) : Before(S, k, HopRequest(e, x))
        BY <1>2, <2>2 DEF HopOf
      <3>2. PICK hop : hop = e.provenance[m]
        OBVIOUS
      <3>3. hop = [node |-> hop.node, received_at |-> hop.received_at]
        <4>1. \A c, n : c = [x \in 1..n |-> [node        |-> c[x].node,
                                             received_at |-> c[x].received_at]]
                 => \A x \in 1..n : c[x] = [node        |-> c[x].node,
                                            received_at |-> c[x].received_at]
          OBVIOUS
        <4>2. e.provenance = [x \in 1..Len(e.provenance) |->
                                 [node        |-> e.provenance[x].node,
                                  received_at |-> e.provenance[x].received_at]]
          BY <1>3 DEF Persistable, IsChain
        <4> QED
          BY <3>2, <4>1, <4>2
      <3>4. h = AfterHop(g, e.evidence_id, hop)
        BY <3>1, <3>2 DEF After, HopRequest
      <3>6. IsGraph(h) /\ AddsHop(g, h, e.evidence_id, hop)
        BY <2>1, <3>3, <3>4, HopEffect
      <3>7. ASSUME NEW x \in 1..(m - 1)
            PROVE  e.provenance[x] \in Hops(g, e.evidence_id)
        <4>1. PICK n \in 1..(k - 1) : S[n] = HopRequest(e, x)
          BY <3>1 DEF Before
        <4>2. Acked(g, S, n)
          OBVIOUS
        <4> QED
          BY <4>1, <4>2 DEF Acked, HopRequest
      <3>8. HopEffectOf(job, S, k, i, g, h)
        BY <1>2, <2>1, <3>1, <3>2, <3>6, <3>7 DEF HopEffectOf
      <3> QED
        BY <3>6, <3>8 DEF EffectOf
    <2>3. CASE S[k] = BeliefRequest(job, i)
      <3>1. PICK t : t = TrackAfter(job, i)
        OBVIOUS
      <3>2. h = AfterBelief(g, e.subject, t, e.evidence_id)
        BY <1>2, <2>3, <3>1 DEF After, BeliefRequest, WriteBeliefState
      <3>3. IsGraph(h) /\ AddsBelief(g, h, e.subject, t)
        BY <3>2, BeliefEffect
      <3> QED
        BY <1>2, <2>3, <3>1, <3>3 DEF EffectOf
    <2>4. CASE ParentOf(job, S, k, i)
      <3>1. PICK m \in 1..Len(e.parents) : S[k] = ParentRequest(e, m)
        BY <1>2, <2>4 DEF ParentOf
      <3>2. PICK p : p = e.parents[m]
        OBVIOUS
      <3>3. h = AfterParent(g, e.evidence_id, p)
        BY <3>1, <3>2 DEF After, ParentRequest
      <3>4. /\ IsGraph(h)
            /\ IF {e.evidence_id, p} \subseteq Ids(g)
               THEN AddsParent(g, h, e.evidence_id, p) ELSE AddsNothing(g, h)
        BY <3>3, ParentEffect
      <3>5. IF p \in Ids(g) THEN AddsParent(g, h, e.evidence_id, p) ELSE AddsNothing(g, h)
        BY <2>1, <3>4
      <3>6. ParentEffectOf(job, S, k, i, g, h)
        BY <1>2, <2>1, <3>1, <3>2, <3>5 DEF ParentEffectOf
      <3> QED
        BY <3>4, <3>6 DEF EffectOf
    <2> QED
      BY <1>1, <1>2, <1>4, <2>2, <2>3, <2>4 DEF RequestIs
  <1> QED
    BY <1>1, <1>2, <1>4, <1>5 DEF RequestIs

-----------------------------------------------------------------------------
(* What is read came from evidence some recorder was given.                 *)
IdNamed(w, id) ==
    \E r \in DOMAIN w.jobs : \E i \in 1..Len(w.jobs[r]) :
        w.jobs[r][i].evidence_id = id

HopNamed(w, id, hop) ==
    \E r \in DOMAIN w.jobs : \E i \in 1..Len(w.jobs[r]) :
        /\ w.jobs[r][i].evidence_id = id
        /\ \E m \in 1..Len(w.jobs[r][i].provenance) : hop = w.jobs[r][i].provenance[m]

ParentNamed(w, id, p) ==
    \E r \in DOMAIN w.jobs : \E i \in 1..Len(w.jobs[r]) :
        /\ w.jobs[r][i].evidence_id = id
        /\ \E m \in 1..Len(w.jobs[r][i].parents) : p = w.jobs[r][i].parents[m]

BeliefNamed(w, s, b) ==
    \E r \in DOMAIN w.jobs : \E i \in 1..Len(w.jobs[r]) :
        w.jobs[r][i].subject = s /\ b = TrackAfter(w.jobs[r], i)

Named(w, g) ==
    /\ \A id \in Ids(g) : IdNamed(w, id)
    /\ \A id : \A hop \in Hops(g, id) : HopNamed(w, id, hop)
    /\ \A id : \A p \in Parents(g, id) : ParentNamed(w, id, p)
    /\ \A s : \A b \in Beliefs(g, s) : BeliefNamed(w, s, b)

Richer(g, h) ==
    /\ Ids(g) \subseteq Ids(h)
    /\ \A id : Hops(g, id) \subseteq Hops(h, id) /\ Parents(g, id) \subseteq Parents(h, id)
    /\ \A s : Beliefs(g, s) \subseteq Beliefs(h, s)

(* Nothing acknowledged is undone.                                          *)
LEMMA AckedStays ==
    ASSUME NEW g, NEW h, Richer(g, h), NEW S, NEW k, Acked(g, S, k)
    PROVE  Acked(h, S, k)
  BY DEF Acked, Richer

(* A request's effect adds to the graph what it asked for.                  *)
LEMMA EffectKeeps ==
    ASSUME NEW w, NEW r \in DOMAIN w.jobs, NEW job, job = w.jobs[r],
           NEW S, NEW k \in Nat, NEW i \in 1..Len(job),
           NEW g, Named(w, g), \A n \in 1..(k - 1) : Acked(g, S, n),
           NEW h, EffectOf(job, S, k, i, g, h)
    PROVE  Richer(g, h) /\ Named(w, h) /\ Acked(h, S, k)
  <1>1. PICK e : e = job[i]
    OBVIOUS
  <1>2. CASE S[k] = WriteEvidence(e) /\ Stores(g, h, e)
    <2>1. IdNamed(w, e.evidence_id)
      BY <1>1 DEF IdNamed
    <2>2. Named(w, h)
      BY <1>2, <2>1 DEF Named, Stores, SameHops, SameParents, SameBeliefs
    <2>3. Richer(g, h)
      BY <1>2 DEF Richer, Stores, SameHops, SameParents, SameBeliefs
    <2>4. Acked(h, S, k)
      BY <1>2 DEF Acked, Stores, WriteEvidence
    <2> QED
      BY <2>2, <2>3, <2>4
  <1>3. CASE HopEffectOf(job, S, k, i, g, h)
    <2>1. PICK m \in 1..Len(e.provenance) :
             /\ S[k] = HopRequest(e, m)
             /\ AddsHop(g, h, e.evidence_id, e.provenance[m])
      BY <1>1, <1>3 DEF HopEffectOf
    <2>2. HopNamed(w, e.evidence_id, e.provenance[m])
      BY <1>1 DEF HopNamed
    <2>3. Named(w, h)
      BY <2>1, <2>2 DEF Named, AddsHop, SameIds, SameParents, SameBeliefs
    <2>4. Richer(g, h)
      BY <2>1 DEF Richer, AddsHop, SameIds, SameParents, SameBeliefs
    <2>5. e.provenance[m] \in Hops(h, e.evidence_id)
      BY <2>1 DEF AddsHop
    <2>6. Acked(h, S, k)
      BY <2>1, <2>5 DEF Acked, HopRequest
    <2> QED
      BY <2>3, <2>4, <2>6
  <1>4. CASE S[k] = BeliefRequest(job, i)
             /\ AddsBelief(g, h, e.subject, TrackAfter(job, i))
    <2>1. PICK t : t = TrackAfter(job, i)
      OBVIOUS
    <2>2. AddsBelief(g, h, e.subject, t)
      BY <1>4, <2>1
    <2>3. BeliefNamed(w, e.subject, t)
      BY <1>1, <2>1 DEF BeliefNamed
    <2>4. Named(w, h)
      BY <2>2, <2>3 DEF Named, AddsBelief, SameIds, SameHops, SameParents
    <2>5. Richer(g, h)
      BY <2>2 DEF Richer, AddsBelief, SameIds, SameHops, SameParents
    <2>6. t \in Beliefs(h, e.subject)
      BY <2>2 DEF AddsBelief
    <2>7. S[k].op = "belief" /\ S[k].belief = t /\ S[k].subject = e.subject
      BY <1>1, <1>4, <2>1 DEF BeliefRequest, WriteBeliefState
    <2>8. Acked(h, S, k)
      BY <2>6, <2>7 DEF Acked
    <2> QED
      BY <2>4, <2>5, <2>8
  <1>5. CASE ParentEffectOf(job, S, k, i, g, h)
    <2>1. PICK m \in 1..Len(e.parents) :
             /\ S[k] = ParentRequest(e, m)
             /\ IF e.parents[m] \in Ids(g)
                THEN AddsParent(g, h, e.evidence_id, e.parents[m])
                ELSE AddsNothing(g, h)
      BY <1>1, <1>5 DEF ParentEffectOf
    <2>2. PICK p : p = e.parents[m]
      OBVIOUS
    <2>3. S[k].op = "parent" /\ S[k].parent = p /\ S[k].child = e.evidence_id
      BY <2>1, <2>2 DEF ParentRequest
    <2>4. CASE p \in Ids(g)
      <3>1. AddsParent(g, h, e.evidence_id, p)
        BY <2>1, <2>2, <2>4
      <3>2. ParentNamed(w, e.evidence_id, p)
        BY <1>1, <2>2 DEF ParentNamed
      <3>3. Named(w, h)
        BY <3>1, <3>2 DEF Named, AddsParent, SameIds, SameHops, SameBeliefs
      <3>4. Richer(g, h)
        BY <3>1 DEF Richer, AddsParent, SameIds, SameHops, SameBeliefs
      <3>5. p \in Parents(h, e.evidence_id)
        BY <3>1 DEF AddsParent
      <3>6. Acked(h, S, k)
        BY <2>3, <3>5 DEF Acked
      <3> QED
        BY <3>3, <3>4, <3>6
    <2>5. CASE p \notin Ids(g)
      <3>1. AddsNothing(g, h)
        BY <2>1, <2>2, <2>5
      <3>2. Named(w, h)
        BY <3>1 DEF Named, AddsNothing, SameIds, SameHops, SameParents, SameBeliefs
      <3>3. Richer(g, h)
        BY <3>1 DEF Richer, AddsNothing, SameIds, SameHops, SameParents, SameBeliefs
      <3>4. ASSUME NEW n \in 1..(k - 1), S[n].op = "evidence",
                   S[n].evidence.evidence_id = p
            PROVE  FALSE
        <4>1. Acked(g, S, n)
          OBVIOUS
        <4> QED
          BY <2>5, <3>4, <4>1 DEF Acked
      <3>5. Acked(h, S, k)
        BY <2>3, <3>4 DEF Acked
      <3> QED
        BY <3>2, <3>3, <3>5
    <2> QED
      BY <2>4, <2>5
  <1> QED
    BY <1>1, <1>2, <1>3, <1>4, <1>5 DEF EffectOf

-----------------------------------------------------------------------------
(* The graph is one, and a recorder's position is in its list.              *)
HelixType ==
    /\ work \in Workloads
    /\ IsGraph(graph)
    /\ pc \in [Recorders -> Nat]
    /\ failed \in [Recorders -> BOOLEAN]
    /\ failures \in Nat
    /\ \A r \in Recorders :
          /\ pc[r] \in 1..(Len(Requests(r)) + 1)
          /\ failed[r] => pc[r] <= Len(Requests(r))

(* What was acknowledged is there, and nothing is there that nobody meant   *)
(* to persist.                                                              *)
HelixInv ==
    /\ HelixType
    /\ Named(work, graph)
    /\ \A r \in Recorders : \A k \in 1..(pc[r] - 1) : Acked(graph, Requests(r), k)

(* The jobs of a workload are jobs.                                         *)
LEMMA WorkIsJobs ==
    ASSUME NEW w \in Workloads, NEW r \in DOMAIN w.jobs
    PROVE  /\ IsJob(w.jobs[r])
           /\ Len(w.jobs[r]) \in Nat /\ DOMAIN w.jobs[r] = 1..Len(w.jobs[r])
           /\ IsList(RequestsOf(w.jobs[r])) /\ Len(RequestsOf(w.jobs[r])) \in Nat
  <1>1. PICK job : job = w.jobs[r]
    OBVIOUS
  <1>2. job \in Seq(ToSet(job)) /\ \A e \in ToSet(job) : Persistable(e)
    BY <1>1, HelixAssumption DEF HelixAssumption
  <1>3. IsList(job)
    BY <1>2 DEF IsList
  <1>4. Len(job) \in Nat /\ DOMAIN job = 1..Len(job)
    BY <1>3, ListFacts
  <1>5. IsJob(job)
    BY <1>2, <1>3, <1>4 DEF IsJob, ToSet
  <1>6. IsList(RequestsOf(job)) /\ Len(RequestsOf(job)) \in Nat
    BY <1>5, RequestsAreBlocks, ListFacts
  <1> QED
    BY <1>1, <1>4, <1>5, <1>6

(* Requests is the list of the job.                                         *)
LEMMA RequestsAre == \A r : Requests(r) = RequestsOf(work.jobs[r])
  BY DEF Requests, RequestsOf, Blocks

(* Nothing is in the empty graph.                                           *)
LEMMA EmptyGraphReads ==
    /\ IsGraph(EmptyGraph) /\ Ids(EmptyGraph) = {}
    /\ \A id : Hops(EmptyGraph, id) = {} /\ Parents(EmptyGraph, id) = {}
    /\ \A s : Beliefs(EmptyGraph, s) = {}
  <1>1. EmptyGraph.nodes = << >> /\ EmptyGraph.edges = EmptyBag
        /\ EmptyGraph = [nodes |-> EmptyGraph.nodes, edges |-> EmptyGraph.edges]
    BY DEF EmptyGraph
  <1>2. DOMAIN EmptyGraph.nodes = {}
    BY <1>1
  <1>3. DOMAIN EmptyGraph.edges = {} /\ IsABag(EmptyGraph.edges)
    BY <1>1 DEF EmptyBag, SetToBag, IsABag
  <1>4. \A l : Labelled(EmptyGraph, l) = {}
    BY <1>2 DEF Labelled
  <1>5. IsList(EmptyGraph.nodes)
    BY <1>1 DEF IsList
  <1>6. IsGraph(EmptyGraph)
    BY <1>1, <1>2, <1>3, <1>4, <1>5 DEF IsGraph, EdgesFit, Mirrored
  <1>7. \A type, id : Leaving(EmptyGraph, type, id) = {}
    BY <1>3 DEF Leaving
  <1>8. ASSUME NEW id
        PROVE  Hops(EmptyGraph, id) = {} /\ Parents(EmptyGraph, id) = {}
    <2>1. PICK g : g = EmptyGraph
      OBVIOUS
    <2>2. /\ Hops(g, id) = {HopAt(g, x[3]) : x \in Leaving(g, "FORWARDED_TO", id)}
          /\ Parents(g, id) = {g.nodes[x[3]].evidence_id :
                                  x \in Leaving(g, "DERIVED_FROM", id)}
      BY ReadSets
    <2>3. Hops(g, id) = {} /\ Parents(g, id) = {}
      BY <1>7, <2>1, <2>2
    <2> QED
      BY <2>1, <2>3
  <1>9. \A s : Beliefs(EmptyGraph, s) = {}
    BY <1>4, ReadSets
  <1> QED
    BY <1>4, <1>6, <1>8, <1>9 DEF Ids

(* The empty graph holds what nobody has asked for yet.                     *)
LEMMA HelixInvInit == Init => HelixInv
  <1> SUFFICES ASSUME Init PROVE HelixInv
    OBVIOUS
  <1>1. \A r \in Recorders : Len(Requests(r)) \in Nat
    BY RequestsAre, WorkIsJobs DEF Init, Recorders
  <1>2. HelixType
    BY <1>1, EmptyGraphReads DEF Init, HelixType
  <1>3. Named(work, graph)
    BY EmptyGraphReads DEF Init, Named
  <1>4. \A r \in Recorders : 1..(pc[r] - 1) = {}
    BY DEF Init
  <1> QED
    BY <1>2, <1>3, <1>4 DEF HelixInv

(* A set of naturals up to n has a greatest element if it has one.          *)
LEMMA MaxInBounds ==
    ASSUME NEW n \in Nat, NEW I \in SUBSET (1..n), I # {}
    PROVE  Max(I) \in I /\ \A y \in I : y <= Max(I)
  <1> DEFINE Up == {m \in Nat : \A y \in I : y <= m}
  <1>1. n \in Up
    OBVIOUS
  <1>2. PICK m \in Up : \A x \in Up : m <= x
    BY <1>1, LeastNatural
  <1>3. m \in I
    <2> SUFFICES ASSUME m \notin I PROVE FALSE
      OBVIOUS
    <2>1. PICK y \in I : TRUE
      OBVIOUS
    <2>2. m - 1 \in Nat
      BY <1>2, <2>1
    <2>3. \A z \in I : z <= m - 1
      BY <1>2
    <2> QED
      BY <1>2, <2>2, <2>3
  <1>4. \E x \in I : \A y \in I : x >= y
    BY <1>2, <1>3
  <1>5. PICK x : x = Max(I)
    OBVIOUS
  <1>6. x \in I /\ \A y \in I : x >= y
    BY <1>4, <1>5 DEF Max
  <1> QED
    BY <1>5, <1>6

(* Retry goes back to a position of the list.                               *)
LEMMA RetryGoesBack ==
    ASSUME HelixType, NEW r \in Recorders, failed[r]
    PROVE  SelectLastInSubSeq(Requests(r), 1, pc[r], LAMBDA q : q.op = "evidence")
             \in 1..pc[r]
  <1>1. PICK job : job = work.jobs[r]
    OBVIOUS
  <1>2. PICK S : S = Requests(r)
    OBVIOUS
  <1>3. IsJob(job) /\ S = RequestsOf(job) /\ Len(S) \in Nat
    BY <1>1, <1>2, RequestsAre, WorkIsJobs DEF HelixType, Recorders
  <1>4. pc[r] \in Nat /\ 1 <= pc[r] /\ pc[r] <= Len(S)
    BY <1>2 DEF HelixType
  <1>5. PICK i \in 1..Len(job) : RequestIs(job, S, 1, i)
    BY <1>3, <1>4, RequestKinds
  <1>6. \A q : ~Before(S, 1, q)
    BY DEF Before
  <1>7. S[1].op = "evidence"
    BY <1>5, <1>6 DEF RequestIs, WriteEvidence
  <1> DEFINE I == {n \in 1..pc[r] : S[n].op = "evidence"}
  <1>8. 1 \in I
    BY <1>4, <1>7
  <1>9. Max(I) \in I
    BY <1>4, <1>8, MaxInBounds
  <1>10. SelectLastInSubSeq(Requests(r), 1, pc[r], LAMBDA q : q.op = "evidence")
           = Max(I)
    BY <1>2, <1>8 DEF SelectLastInSubSeq
  <1> QED
    BY <1>9, <1>10

(* The request at a recorder's position, and what it does.                  *)
LEMMA RequestHelix ==
    ASSUME HelixInv, NEW r \in Recorders, pc[r] <= Len(Requests(r)),
           NEW h, h = After(graph, Requests(r)[pc[r]])
    PROVE  /\ IsGraph(h) /\ Named(work, h) /\ Richer(graph, h)
           /\ Acked(h, Requests(r), pc[r])
           /\ \E i \in 1..Len(work.jobs[r]) :
                 EffectOf(work.jobs[r], Requests(r), pc[r], i, graph, h)
  <1>1. PICK job : job = work.jobs[r]
    OBVIOUS
  <1>2. PICK S : S = Requests(r)
    OBVIOUS
  <1>3. IsJob(job) /\ S = RequestsOf(job) /\ Len(S) \in Nat
    BY <1>1, <1>2, RequestsAre, WorkIsJobs DEF HelixInv, HelixType, Recorders
  <1>4. PICK k : k = pc[r]
    OBVIOUS
  <1>5. k \in 1..Len(S) /\ k \in Nat
    BY <1>2, <1>3, <1>4 DEF HelixInv, HelixType
  <1>6. IsGraph(graph) /\ Named(work, graph) /\ r \in DOMAIN work.jobs
    BY DEF HelixInv, HelixType, Recorders
  <1>7. \A n \in 1..(k - 1) : Acked(graph, S, n)
    BY <1>2, <1>4 DEF HelixInv
  <1>8. h = After(graph, S[k])
    BY <1>2, <1>4
  <1>9. IsGraph(h) /\ \E i \in 1..Len(job) : EffectOf(job, S, k, i, graph, h)
    BY <1>3, <1>5, <1>6, <1>7, <1>8, RequestEffect
  <1>10. PICK i \in 1..Len(job) : EffectOf(job, S, k, i, graph, h)
    BY <1>9
  <1>11. Richer(graph, h) /\ Named(work, h) /\ Acked(h, S, k)
    BY <1>1, <1>5, <1>6, <1>7, <1>10, EffectKeeps
  <1> QED
    BY <1>1, <1>2, <1>4, <1>9, <1>11

(* Whatever fails, is retried or persisted by others meanwhile.             *)
LEMMA HelixInvStep == HelixInv /\ [Next]_vars => HelixInv'
  <1> SUFFICES ASSUME HelixInv, [Next]_vars PROVE HelixInv'
    OBVIOUS
  <1>1. CASE UNCHANGED vars
    <2>1. /\ work' = work /\ graph' = graph /\ pc' = pc /\ failed' = failed
          /\ failures' = failures
      BY <1>1 DEF vars
    <2> QED
      BY <2>1 DEF HelixInv, HelixType, Recorders, Requests
  <1>2. ASSUME NEW r \in Recorders, Exec(r) \/ LoseRequest(r) \/ LoseResponse(r) \/ Retry(r)
        PROVE  HelixInv'
    <2>1. work' = work
      BY <1>2 DEF Exec, LoseRequest, LoseResponse, ExecFails, Retry
    <2>2. Recorders' = Recorders /\ \A x : Requests(x)' = Requests(x)
      BY <2>1 DEF Recorders, Requests
    <2>3. ASSUME NEW h, graph' = h, IsGraph(h), Named(work, h), Richer(graph, h),
                 pc' \in [Recorders -> Nat], failed' \in [Recorders -> BOOLEAN],
                 failures' \in Nat,
                 \A x \in Recorders : pc'[x] \in 1..(Len(Requests(x)) + 1),
                 \A x \in Recorders : failed'[x] => pc'[x] <= Len(Requests(x)),
                 \A x \in Recorders : \A k \in 1..(pc'[x] - 1) :
                    k \in 1..(pc[x] - 1) \/ Acked(h, Requests(x), k)
          PROVE  HelixInv'
      <3>1. HelixType'
        BY <2>1, <2>2, <2>3 DEF HelixInv, HelixType
      <3>2. Named(work', graph')
        BY <2>1, <2>3
      <3>3. ASSUME NEW x \in Recorders, NEW k \in 1..(pc'[x] - 1)
            PROVE  Acked(h, Requests(x), k)
        <4>1. CASE k \in 1..(pc[x] - 1)
          <5>1. Acked(graph, Requests(x), k)
            BY <4>1 DEF HelixInv
          <5> QED
            BY <2>3, <5>1, AckedStays
        <4> QED
          BY <2>3, <4>1
      <3>4. \A x \in Recorders' : \A k \in 1..(pc'[x] - 1) : Acked(graph', Requests(x)', k)
        BY <2>2, <2>3, <3>3
      <3>5. Named(work, graph)' /\ \A x \in Recorders' : \A k \in (1..(pc[x] - 1))' :
                                      Acked(graph, Requests(x), k)'
        BY <3>2, <3>4 DEF Named, Acked, IdNamed, HopNamed, ParentNamed, BeliefNamed,
                          Ids, Hops, Parents, Beliefs, Labelled
      <3> QED
        BY <3>1, <3>5 DEF HelixInv
    <2>4. /\ pc \in [Recorders -> Nat] /\ failed \in [Recorders -> BOOLEAN]
          /\ failures \in Nat
          /\ \A x \in Recorders : pc[x] \in 1..(Len(Requests(x)) + 1)
          /\ \A x \in Recorders : failed[x] => pc[x] <= Len(Requests(x))
          /\ \A x \in Recorders : Len(Requests(x)) \in Nat
      BY RequestsAre, WorkIsJobs DEF HelixInv, HelixType, Recorders
    <2>5. IsGraph(graph) /\ Named(work, graph) /\ Richer(graph, graph)
      BY DEF HelixInv, HelixType, Richer
    <2>6. CASE Exec(r)
      <3>1. /\ pc[r] <= Len(Requests(r))
            /\ graph' = After(graph, Requests(r)[pc[r]])
            /\ pc' = [pc EXCEPT ![r] = @ + 1] /\ ~failed[r]
            /\ failed' = failed /\ failures' = failures
        BY <2>6 DEF Exec, Sending
      <3>2. PICK h : h = After(graph, Requests(r)[pc[r]])
        OBVIOUS
      <3>3. /\ IsGraph(h) /\ Named(work, h) /\ Richer(graph, h)
            /\ Acked(h, Requests(r), pc[r])
        BY <3>1, <3>2, RequestHelix
      <3>4. /\ pc' \in [Recorders -> Nat]
            /\ \A x \in Recorders : pc'[x] = IF x = r THEN pc[r] + 1 ELSE pc[x]
        BY <2>4, <3>1
      <3>5. ASSUME NEW x \in Recorders
            PROVE  /\ pc'[x] \in 1..(Len(Requests(x)) + 1)
                   /\ failed'[x] => pc'[x] <= Len(Requests(x))
                   /\ \A k \in 1..(pc'[x] - 1) :
                         k \in 1..(pc[x] - 1) \/ Acked(h, Requests(x), k)
        <4>1. CASE x = r
          <5>1. pc'[x] = pc[r] + 1 /\ pc[r] \in Nat /\ pc[r] >= 1
            BY <2>4, <3>4, <4>1
          <5>2. \A k \in 1..(pc'[x] - 1) : k \in 1..(pc[x] - 1) \/ k = pc[r]
            BY <4>1, <5>1
          <5> QED
            BY <2>4, <3>1, <3>3, <4>1, <5>1, <5>2
        <4>2. CASE x # r
          BY <2>4, <3>1, <3>4, <4>2
        <4> QED
          BY <4>1, <4>2
      <3>6. graph' = h /\ failed' \in [Recorders -> BOOLEAN] /\ failures' \in Nat
        BY <2>4, <3>1, <3>2
      <3> QED
        BY <2>3, <3>3, <3>4, <3>5, <3>6
    <2>7. ASSUME ExecFails(r), NEW h, graph' = h, IsGraph(h), Named(work, h),
                 Richer(graph, h)
          PROVE  HelixInv'
      <3>1. /\ pc[r] <= Len(Requests(r)) /\ pc' = pc
            /\ failed' = [failed EXCEPT ![r] = TRUE] /\ failures' = failures + 1
        BY <2>7 DEF ExecFails, Sending
      <3>2. /\ failed' \in [Recorders -> BOOLEAN] /\ failures' \in Nat
            /\ \A x \in Recorders : failed'[x] => pc'[x] <= Len(Requests(x))
        BY <2>4, <3>1
      <3> QED
        BY <2>3, <2>4, <2>7, <3>1, <3>2
    <2>8. CASE LoseRequest(r)
      BY <2>5, <2>7, <2>8 DEF LoseRequest
    <2>9. CASE LoseResponse(r)
      <3>1. pc[r] <= Len(Requests(r)) /\ graph' = After(graph, Requests(r)[pc[r]])
        BY <2>9 DEF LoseResponse, ExecFails, Sending
      <3>2. PICK h : h = After(graph, Requests(r)[pc[r]])
        OBVIOUS
      <3>3. IsGraph(h) /\ Named(work, h) /\ Richer(graph, h)
        BY <3>1, <3>2, RequestHelix
      <3> QED
        BY <2>7, <2>9, <3>1, <3>2, <3>3 DEF LoseResponse
    <2>10. CASE Retry(r)
      <3>1. PICK start : start = SelectLastInSubSeq(Requests(r), 1, pc[r],
                                                    LAMBDA q : q.op = "evidence")
        OBVIOUS
      <3>2. failed[r] /\ graph' = graph /\ failures' = failures
            /\ failed' = [failed EXCEPT ![r] = FALSE]
            /\ \E k \in {start, pc[r]} : pc' = [pc EXCEPT ![r] = k]
        BY <2>10, <3>1 DEF Retry
      <3>3. start \in 1..pc[r]
        BY <3>1, <3>2, RetryGoesBack DEF HelixInv
      <3>4. PICK k \in 1..pc[r] : pc' = [pc EXCEPT ![r] = k]
        <4>1. pc[r] \in Nat /\ pc[r] >= 1
          BY <2>4
        <4>2. {start, pc[r]} \subseteq 1..pc[r]
          BY <3>3, <4>1
        <4> QED
          BY <3>2, <4>2, Zenon
      <3>5. /\ pc' \in [Recorders -> Nat]
            /\ \A x \in Recorders : pc'[x] \in 1..pc[x]
        BY <2>4, <3>4
      <3>6. ASSUME NEW x \in Recorders
            PROVE  /\ pc'[x] \in 1..(Len(Requests(x)) + 1)
                   /\ failed'[x] => pc'[x] <= Len(Requests(x))
                   /\ \A n \in 1..(pc'[x] - 1) : n \in 1..(pc[x] - 1)
        <4>1. failed'[x] => failed[x]
          BY <2>4, <3>2
        <4> QED
          BY <2>4, <3>5, <4>1
      <3>7. failed' \in [Recorders -> BOOLEAN]
        BY <2>4, <3>2
      <3> QED
        BY <2>3, <2>4, <2>5, <3>2, <3>5, <3>6, <3>7
    <2> QED
      BY <1>2, <2>6, <2>8, <2>9, <2>10
  <1> QED
    BY <1>1, <1>2 DEF Next

(* What HelixInv says holds at all times, whatever is lost or repeated.     *)
THEOREM HelixSafe == Spec => []HelixInv
  BY HelixInvInit, HelixInvStep, PTL DEF Spec

-----------------------------------------------------------------------------
(* The positions in the jobs.                                               *)
LEMMA JobIs ==
    ASSUME work \in Workloads
    PROVE  /\ \A j \in Jobs : j[1] \in Recorders /\ j[2] \in 1..Len(work.jobs[j[1]])
           /\ \A r \in Recorders : \A i \in 1..Len(work.jobs[r]) :
                 <<r, i>> \in Jobs /\ EvidenceOf(<<r, i>>) = work.jobs[r][i]
  <1>1. \A r \in Recorders : DOMAIN work.jobs[r] = 1..Len(work.jobs[r])
    BY WorkIsJobs DEF Recorders
  <1>2. ASSUME NEW r \in Recorders, NEW i \in 1..Len(work.jobs[r])
        PROVE  <<r, i>> \in Jobs /\ EvidenceOf(<<r, i>>) = work.jobs[r][i]
    BY <1>1 DEF Jobs, EvidenceOf
  <1>3. ASSUME NEW j \in Jobs
        PROVE  j[1] \in Recorders /\ j[2] \in 1..Len(work.jobs[j[1]])
    BY <1>1 DEF Jobs
  <1> QED
    BY <1>2, <1>3

-----------------------------------------------------------------------------
(* Only what is stored has parents, and they are stored.                    *)
LEMMA ParentsAreStored ==
    ASSUME NEW g, IsGraph(g), NEW id, NEW p \in Parents(g, id)
    PROVE  id \in Ids(g) /\ p \in Ids(g)
  <1>1. PICK x \in Leaving(g, "DERIVED_FROM", id) : p = g.nodes[x[3]].evidence_id
    BY ReadSets
  <1>2. x \in DOMAIN g.edges /\ x[1] = "DERIVED_FROM" /\ x[2] \in WithId(g, id)
    BY <1>1 DEF Leaving
  <1>3. x[3] \in Labelled(g, "Evidence")
    BY <1>2 DEF IsGraph, EdgesFit
  <1> QED
    BY <1>1, <1>2, <1>3, KnownIds DEF Ids

(* The histories of all subjects tell every id.                             *)
LEMMA HistoriesTellIds ==
    ASSUME NEW g, IsGraph(g)
    PROVE  UNION {BagToSet(ReadSubjectHistory(g, s)) : s \in Subjects} = Ids(g)
  <1>1. \A n \in Labelled(g, "Evidence") : g.nodes[n].subject \in Subjects
    BY DEF IsGraph
  <1>2. ASSUME NEW s
        PROVE  BagToSet(ReadSubjectHistory(g, s)) =
                  {g.nodes[n].evidence_id :
                      n \in {m \in Labelled(g, "Evidence") : g.nodes[m].subject = s}}
    BY DEF ReadSubjectHistory, BagOfAll, BagToSet, SetToBag
  <1>3. ASSUME NEW x
        PROVE  (\E s \in Subjects : x \in BagToSet(ReadSubjectHistory(g, s)))
                 <=> x \in Ids(g)
    BY <1>1, <1>2 DEF Ids
  <1> QED
    BY <1>3

(* The mapping, in words of this module.                                    *)
CustodyRead(g) == [id \in AllIds |-> Hops(g, id)]
LineageRead(g) == {x \in AllIds \X Ids(g) : x[2] \in Parents(g, x[1])}
BeliefsRead(g) == UNION {{s} \X Beliefs(g, s) : s \in Subjects}

(* The graph seen through the queries is what these operators read in it.   *)
LEMMA MappingIs ==
    ASSUME IsGraph(graph)
    PROVE  /\ StoredIds = Ids(graph)
           /\ [id \in AllIds |-> BagToSet(ReadProvenance(graph, id))] = CustodyRead(graph)
           /\ {x \in AllIds \X StoredIds : x[2] \in BagToSet(ReadDerived(graph, x[1]))}
                = LineageRead(graph)
           /\ UNION {{s} \X BagToSet(ReadBelief(graph, s)) : s \in Subjects}
                = BeliefsRead(graph)
  <1>1. StoredIds = Ids(graph)
    BY HistoriesTellIds DEF StoredIds
  <1> QED
    BY <1>1 DEF CustodyRead, LineageRead, BeliefsRead, Hops, Parents, Beliefs

(* So it is in the next state.                                              *)
LEMMA MappingIsNext ==
    ASSUME IsGraph(graph')
    PROVE  /\ StoredIds' = Ids(graph')
           /\ [id \in AllIds |-> BagToSet(ReadProvenance(graph, id))]' = CustodyRead(graph')
           /\ {x \in AllIds \X StoredIds : x[2] \in BagToSet(ReadDerived(graph, x[1]))}'
                = LineageRead(graph')
           /\ (UNION {{s} \X BagToSet(ReadBelief(graph, s)) : s \in Subjects})'
                = BeliefsRead(graph')
  <1>1. StoredIds' = Ids(graph')
    BY HistoriesTellIds DEF StoredIds
  <1> QED
    BY <1>1 DEF CustodyRead, LineageRead, BeliefsRead, Hops, Parents, Beliefs

(* Evidence of a job is evidence the store may hold.                        *)
LEMMA EvidenceIsCopy ==
    ASSUME NEW w \in Workloads, NEW r \in DOMAIN w.jobs, NEW i \in 1..Len(w.jobs[r])
    PROVE  /\ w.jobs[r][i] \in AllEvidence
           /\ w.jobs[r][i].evidence_id \in AllIds
           /\ Persistable(w.jobs[r][i])
           /\ DOMAIN w.jobs[r][i].provenance = 1..Len(w.jobs[r][i].provenance)
           /\ DOMAIN w.jobs[r][i].parents = 1..Len(w.jobs[r][i].parents)
           /\ <<w.jobs[r][i].subject, TrackAfter(w.jobs[r], i)>>
                \in UNION {{<<job[n].subject, TrackAfter(job, n)>> :
                               n \in DOMAIN job} : job \in AllJobs}
  <1>1. PICK job : job = w.jobs[r]
    OBVIOUS
  <1>2. job \in AllJobs
    BY <1>1 DEF AllJobs
  <1>3. IsJob(job) /\ DOMAIN job = 1..Len(job) /\ i \in 1..Len(job)
    BY <1>1, WorkIsJobs
  <1>4. job[i] \in AllEvidence
    BY <1>2, <1>3 DEF AllEvidence, ToSet
  <1>5. Persistable(job[i])
    BY <1>3 DEF IsJob
  <1>6. DOMAIN job[i].provenance = 1..Len(job[i].provenance)
        /\ DOMAIN job[i].parents = 1..Len(job[i].parents)
    BY <1>5 DEF Persistable, IsEvidence, IsChain
  <1>7. <<job[i].subject, TrackAfter(job, i)>>
                \in UNION {{<<jb[n].subject, TrackAfter(jb, n)>> :
                               n \in DOMAIN jb} : jb \in AllJobs}
    BY <1>2, <1>3
  <1> QED
    BY <1>1, <1>4, <1>5, <1>6, <1>7 DEF AllIds

(* A request's effect is a step of the store, or nothing.                   *)
LEMMA StoreStep ==
    ASSUME NEW r \in Recorders, HelixInv, NEW h, graph' = h, IsGraph(h),
           NEW S, NEW k, NEW i \in 1..Len(work.jobs[r]),
           EffectOf(work.jobs[r], S, k, i, graph, h)
    PROVE  [Store!Next]_Store!vars
  <1>1. PICK job : job = work.jobs[r]
    OBVIOUS
  <1>2. PICK e : e = job[i]
    OBVIOUS
  <1>3. PICK t : t = TrackAfter(job, i)
    OBVIOUS
  <1>4. /\ e \in AllEvidence /\ e.evidence_id \in AllIds /\ Persistable(e)
        /\ DOMAIN e.provenance = 1..Len(e.provenance)
        /\ DOMAIN e.parents = 1..Len(e.parents)
        /\ <<e.subject, t>> \in UNION {{<<jb[n].subject, TrackAfter(jb, n)>> :
                                           n \in DOMAIN jb} : jb \in AllJobs}
    BY <1>1, <1>2, <1>3, EvidenceIsCopy DEF HelixInv, HelixType, Recorders
  <1>5. PICK g : g = graph
    OBVIOUS
  <1>6. IsGraph(g) /\ IsGraph(h)
    BY <1>5 DEF HelixInv, HelixType
  <1> DEFINE C == [id \in AllIds |-> BagToSet(ReadProvenance(graph, id))]
             L == {x \in AllIds \X StoredIds : x[2] \in BagToSet(ReadDerived(graph, x[1]))}
             B == UNION {{s} \X BagToSet(ReadBelief(graph, s)) : s \in Subjects}
  <1>7. /\ StoredIds = Ids(g) /\ C = CustodyRead(g) /\ L = LineageRead(g)
        /\ B = BeliefsRead(g)
    BY <1>5, <1>6, MappingIs
  <1>8. /\ StoredIds' = Ids(h) /\ C' = CustodyRead(h) /\ L' = LineageRead(h)
        /\ B' = BeliefsRead(h)
    BY <1>6, MappingIsNext
  <1> HIDE DEF C, L, B
  <1>9. SameHops(g, h) => C' = C
    BY <1>7, <1>8 DEF SameHops, CustodyRead
  <1>10. SameIds(g, h) /\ SameParents(g, h) => L' = L
    BY <1>7, <1>8 DEF SameIds, SameParents, LineageRead
  <1>11. SameBeliefs(g, h) => B' = B
    BY <1>7, <1>8 DEF SameBeliefs, BeliefsRead
  <1>12. CASE Stores(g, h, e)
    <2>1. L' = L
      <3>1. \A x : x[2] \in Parents(g, x[1]) => x[2] \in Ids(g)
        BY <1>6, ParentsAreStored
      <3>2. \A x : Parents(h, x) = Parents(g, x)
        BY <1>12 DEF Stores, SameParents
      <3>3. Ids(h) = Ids(g) \cup {e.evidence_id}
        BY <1>12 DEF Stores
      <3> QED
        BY <1>7, <1>8, <3>1, <3>2, <3>3 DEF LineageRead
    <2>2. C' = C /\ B' = B /\ StoredIds' = StoredIds \cup {e.evidence_id}
      BY <1>7, <1>8, <1>9, <1>11, <1>12 DEF Stores
    <2>3. Store!Store(e)
      BY <2>1, <2>2 DEF Store!Store, C, L, B
    <2> QED
      BY <1>4, <2>3 DEF Store!Next
  <1>13. CASE HopEffectOf(job, S, k, i, g, h)
    <2>1. PICK m \in 1..Len(e.provenance) :
             /\ e.evidence_id \in Ids(g)
             /\ \A x \in 1..(m - 1) : e.provenance[x] \in Hops(g, e.evidence_id)
             /\ AddsHop(g, h, e.evidence_id, e.provenance[m])
      BY <1>2, <1>13 DEF HopEffectOf
    <2>2. L' = L /\ B' = B /\ StoredIds' = StoredIds
      BY <1>7, <1>8, <1>10, <1>11, <2>1 DEF AddsHop, SameIds
    <2>3. PICK hop : hop = e.provenance[m]
      OBVIOUS
    <2>4. C' = [C EXCEPT ![e.evidence_id] = @ \cup {hop}]
      <3>1. \A x : Hops(h, x) = IF x = e.evidence_id THEN Hops(g, x) \cup {hop}
                                ELSE Hops(g, x)
        BY <2>1, <2>3 DEF AddsHop
      <3> QED
        BY <1>4, <1>7, <1>8, <3>1 DEF CustodyRead
    <2>5. \A x \in 1..(m - 1) : e.provenance[x] \in C[e.evidence_id]
      BY <1>4, <1>7, <2>1 DEF CustodyRead
    <2>6. e.evidence_id \in StoredIds
      BY <1>7, <2>1
    <2>7. Store!RecordHop(e, m)
      BY <2>2, <2>3, <2>4, <2>5, <2>6 DEF Store!RecordHop, C, L, B
    <2> QED
      BY <1>4, <2>7 DEF Store!Next
  <1>14. CASE AddsBelief(g, h, e.subject, t)
    <2>1. C' = C /\ L' = L /\ StoredIds' = StoredIds
      BY <1>7, <1>8, <1>9, <1>10, <1>14 DEF AddsBelief, SameIds
    <2>2. B' = B \cup {<<e.subject, t>>}
      <3>1. \A x : Beliefs(h, x) = IF x = e.subject THEN Beliefs(g, x) \cup {t}
                                   ELSE Beliefs(g, x)
        BY <1>14 DEF AddsBelief
      <3>2. e.subject \in Subjects
        BY <1>4 DEF Persistable
      <3>3. \A y : y \in BeliefsRead(h) <=> \E x \in Subjects : y \in {x} \X Beliefs(h, x)
        BY DEF BeliefsRead
      <3>4. \A y : y \in BeliefsRead(g) <=> \E x \in Subjects : y \in {x} \X Beliefs(g, x)
        BY DEF BeliefsRead
      <3>5. \A x : {x} \X Beliefs(h, x) = IF x = e.subject
                      THEN ({x} \X Beliefs(g, x)) \cup {<<e.subject, t>>}
                      ELSE {x} \X Beliefs(g, x)
        BY <3>1
      <3>6. BeliefsRead(h) = BeliefsRead(g) \cup {<<e.subject, t>>}
        BY <3>2, <3>3, <3>4, <3>5
      <3> QED
        BY <1>7, <1>8, <3>6
    <2>3. Store!Snapshot(<<e.subject, t>>)
      BY <2>1, <2>2 DEF Store!Snapshot, C, L, B
    <2> QED
      BY <1>4, <2>3 DEF Store!Next
  <1>15. CASE ParentEffectOf(job, S, k, i, g, h)
    <2>1. PICK m \in 1..Len(e.parents) :
             /\ e.evidence_id \in Ids(g)
             /\ IF e.parents[m] \in Ids(g)
                THEN AddsParent(g, h, e.evidence_id, e.parents[m])
                ELSE AddsNothing(g, h)
      BY <1>2, <1>15 DEF ParentEffectOf
    <2>2. PICK p : p = e.parents[m]
      OBVIOUS
    <2>3. CASE p \in Ids(g)
      <3>1. AddsParent(g, h, e.evidence_id, p)
        BY <2>1, <2>2, <2>3
      <3>2. C' = C /\ B' = B /\ StoredIds' = StoredIds
        BY <1>7, <1>8, <1>9, <1>11, <3>1 DEF AddsParent, SameIds
      <3>3. L' = L \cup {<<e.evidence_id, p>>}
        <4>1. \A x : Parents(h, x) = IF x = e.evidence_id THEN Parents(g, x) \cup {p}
                                     ELSE Parents(g, x)
          BY <3>1 DEF AddsParent
        <4>2. Ids(h) = Ids(g)
          BY <3>1 DEF AddsParent, SameIds
        <4>3. \A x : x \in AllIds \X Ids(g) =>
                 (x[2] \in Parents(h, x[1]) <=>
                    x[2] \in Parents(g, x[1]) \/ x = <<e.evidence_id, p>>)
          BY <4>1
        <4>4. <<e.evidence_id, p>> \in AllIds \X Ids(g)
          BY <1>4, <2>3
        <4>5. LineageRead(h) = LineageRead(g) \cup {<<e.evidence_id, p>>}
          BY <4>2, <4>3, <4>4 DEF LineageRead
        <4> QED
          BY <1>7, <1>8, <4>5
      <3>4. {e.evidence_id, e.parents[m]} \subseteq StoredIds
        BY <1>7, <2>1, <2>2, <2>3
      <3>5. Store!RecordParent(e, m)
        BY <2>2, <3>2, <3>3, <3>4 DEF Store!RecordParent, C, L, B
      <3> QED
        BY <1>4, <3>5 DEF Store!Next
    <2>4. CASE p \notin Ids(g)
      <3>1. AddsNothing(g, h)
        BY <2>1, <2>2, <2>4
      <3>2. C' = C /\ L' = L /\ B' = B /\ StoredIds' = StoredIds
        BY <1>7, <1>8, <1>9, <1>10, <1>11, <3>1 DEF AddsNothing, SameIds
      <3> QED
        BY <3>2 DEF Store!vars, C, L, B
    <2> QED
      BY <2>3, <2>4
  <1>16. EffectOf(job, S, k, i, g, h)
    BY <1>1, <1>5
  <1> QED
    BY <1>2, <1>3, <1>12, <1>13, <1>14, <1>15, <1>16 DEF EffectOf

(* Nothing written, nothing seen.                                           *)
LEMMA StoreStutters ==
    ASSUME graph' = graph
    PROVE  UNCHANGED Store!vars
  BY DEF Store!vars, StoredIds

(* The empty graph is the empty store.                                      *)
LEMMA StoreInit == Init => Store!Init
  <1> SUFFICES ASSUME Init PROVE Store!Init
    OBVIOUS
  <1>1. IsGraph(graph) /\ Ids(graph) = {}
        /\ (\A id : Hops(graph, id) = {}) /\ \A s : Beliefs(graph, s) = {}
    BY EmptyGraphReads DEF Init
  <1>2. StoredIds = {}
    BY <1>1, MappingIs
  <1>3. [id \in AllIds |-> BagToSet(ReadProvenance(graph, id))] = [id \in AllIds |-> {}]
    BY <1>1 DEF Hops
  <1>4. {x \in AllIds \X StoredIds : x[2] \in BagToSet(ReadDerived(graph, x[1]))} = {}
    BY <1>2
  <1>5. UNION {{s} \X BagToSet(ReadBelief(graph, s)) : s \in Subjects} = {}
    BY <1>1 DEF Beliefs
  <1>6. Store!Ids = AllIds
    BY DEF Store!Ids, AllIds
  <1> QED
    BY <1>2, <1>3, <1>4, <1>5, <1>6 DEF Store!Init

(* Decision S05/S09: whatever is lost, repeated or persisted by others      *)
(* meanwhile, the graph read through the queries is an evidence store.      *)
THEOREM HelixImplementsStore == Spec => GraphIsEvidenceStore
  <1>1. HelixInv /\ [Next]_vars => [Store!Next]_Store!vars
    <2> SUFFICES ASSUME HelixInv, [Next]_vars
                 PROVE  [Store!Next]_Store!vars
      OBVIOUS
    <2>1. CASE graph' = graph
      BY <2>1, StoreStutters
    <2>2. ASSUME NEW r \in Recorders, pc[r] <= Len(Requests(r)),
                 graph' = After(graph, Requests(r)[pc[r]])
          PROVE  [Store!Next]_Store!vars
      <3>1. PICK h : h = graph'
        OBVIOUS
      <3>2. /\ IsGraph(h)
            /\ \E i \in 1..Len(work.jobs[r]) :
                  EffectOf(work.jobs[r], Requests(r), pc[r], i, graph, h)
        BY <2>2, <3>1, RequestHelix
      <3>3. PICK S, k : S = Requests(r) /\ k = pc[r]
        OBVIOUS
      <3> QED
        BY <3>1, <3>2, <3>3, StoreStep
    <2>3. ASSUME NEW r \in Recorders, Exec(r) \/ LoseRequest(r) \/ LoseResponse(r) \/ Retry(r)
          PROVE  [Store!Next]_Store!vars
      BY <2>1, <2>2, <2>3
      DEF Exec, LoseRequest, LoseResponse, ExecFails, Retry, Sending
    <2> QED
      BY <2>1, <2>3 DEF Next, vars
  <1> QED
    BY <1>1, HelixSafe, StoreInit, PTL DEF GraphIsEvidenceStore, Store!Spec, Spec

-----------------------------------------------------------------------------
(* The edges of lineage between pairs of nodes, down and up.                *)
DownEdge(p) == <<"DERIVED_FROM", p[1], p[2]>>
UpEdge(p) == <<"PARENT_OF", p[2], p[1]>>
Down(P) == {DownEdge(p) : p \in P}
Up(P) == {UpEdge(p) : p \in P}

(* Equal terms, one for each of the other set, add up to the same.          *)
LEMMA SumsAlike ==
    ASSUME NEW P, IsFiniteSet(P), NEW T, NEW f \in Bijection(P, T), NEW v, NEW w,
           \A p \in P : w[p] \in Int /\ v[f[p]] = w[p]
    PROVE  IsFiniteSet(T) /\ SumOver(w, P) = SumOver(v, T)
  <1>1. /\ f \in [P -> T] /\ \A p, q \in P : f[p] = f[q] => p = q
        /\ \A t \in T : \E p \in P : f[p] = t
    BY DEF Bijection, Injection, Surjection, IsInjective
  <1> DEFINE To(S) == {f[p] : p \in S}
             Wrong(S) == S \in SUBSET P /\ SumOver(w, S) # SumOver(v, To(S))
             Bad == {n \in Nat : \E S : Wrong(S) /\ Cardinality(S) = n}
  <1>2. To(P) = T
    BY <1>1
  <1>3. ASSUME NEW S \in SUBSET P PROVE IsFiniteSet(S) /\ IsFiniteSet(To(S))
    <2>1. PICK h : h = [p \in S |-> f[p]]
      OBVIOUS
    <2>2. h \in Surjection(S, To(S))
      BY <2>1 DEF Surjection
    <2> HIDE DEF To
    <2> QED
      BY <2>2, FS_Subset, FS_Surjection
  <1>4. ASSUME Wrong(P) PROVE FALSE
    <2>1. PICK n \in Bad : \A m \in Bad : n <= m
      <3>1. Cardinality(P) \in Bad
        BY <1>4, FS_CardinalityType
      <3> QED
        BY <3>1, LeastNatural
    <2>2. PICK S : Wrong(S) /\ Cardinality(S) = n
      BY <2>1
    <2>3. PICK p : p \in S
      <3>1. SumOver(v, {}) = 0 /\ SumOver(w, {}) = 0
        BY SumStep
      <3>2. S = {} => To(S) = {}
        OBVIOUS
      <3> QED
        BY <2>2, <3>1, <3>2
    <2>4. PICK R : R = S \ {p}
      OBVIOUS
    <2>5. R \in SUBSET P /\ p \in P /\ IsFiniteSet(R) /\ Cardinality(R) = n - 1
      BY <1>3, <2>2, <2>3, <2>4, FS_RemoveElement
    <2>6. SumOver(w, R) = SumOver(v, To(R))
      <3>1. n \in Nat /\ ~(n <= n - 1)
        BY <2>1
      <3>2. Cardinality(R) \in Nat
        BY <2>5, FS_CardinalityType
      <3>3. Cardinality(R) \notin Bad
        <4> HIDE DEF Bad
        <4> QED
          BY <2>1, <2>5, <3>1
      <3> QED
        BY <2>5, <3>2, <3>3
    <2>7. S = R \cup {p} /\ p \notin R
      BY <2>3, <2>4
    <2>8. To(S) = To(R) \cup {f[p]} /\ f[p] \notin To(R)
      BY <1>1, <2>5, <2>7
    <2>9. /\ \A x \in R \cup {p} : w[x] \in Int
          /\ \A x \in To(R) \cup {f[p]} : v[x] \in Int
      BY <2>5
    <2>10. IsFiniteSet(To(R))
      BY <1>3, <2>5
    <2>11. /\ SumOver(w, S) = SumOver(w, R) + w[p]
           /\ SumOver(v, To(S)) = SumOver(v, To(R)) + v[f[p]]
      <3>1. PICK q, X, Y : q = f[p] /\ X = To(R) /\ Y = To(S)
        OBVIOUS
      <3>2. /\ Y = X \cup {q} /\ q \notin X /\ IsFiniteSet(X)
            /\ \A x \in X \cup {q} : v[x] \in Int
        BY <2>8, <2>9, <2>10, <3>1
      <3>3. SumOver(v, Y) = SumOver(v, X) + v[q]
        BY <3>2, SumAdd
      <3>4. SumOver(w, S) = SumOver(w, R) + w[p]
        BY <2>5, <2>7, <2>9, SumAdd
      <3> QED
        BY <3>1, <3>3, <3>4
    <2>12. v[f[p]] = w[p]
      BY <2>5
    <2> QED
      BY <2>2, <2>6, <2>11, <2>12
  <1> QED
    BY <1>2, <1>3, <1>4

(* Edges that are mirror images add up to the same.                         *)
LEMMA MirroredSums ==
    ASSUME NEW P, IsFiniteSet(P), \A p \in P : p = <<p[1], p[2]>>,
           NEW v, NEW w,
           \A p \in P : v[DownEdge(p)] \in Int /\ v[DownEdge(p)] = w[UpEdge(p)]
    PROVE  SumOver(v, Down(P)) = SumOver(w, Up(P))
  <1>1. PICK z : z = [p \in P |-> v[DownEdge(p)]]
    OBVIOUS
  <1>2. PICK d, u : d = [p \in P |-> DownEdge(p)] /\ u = [p \in P |-> UpEdge(p)]
    OBVIOUS
  <1>3. ASSUME NEW p \in P, NEW q \in P, DownEdge(p) = DownEdge(q) \/ UpEdge(p) = UpEdge(q)
        PROVE  p = q
    <2>1. p = <<p[1], p[2]>> /\ q = <<q[1], q[2]>>
      OBVIOUS
    <2> QED
      BY <1>3, <2>1 DEF DownEdge, UpEdge
  <1>4. d \in Bijection(P, Down(P)) /\ u \in Bijection(P, Up(P))
    BY <1>2, <1>3 DEF Bijection, Injection, Surjection, IsInjective, Down, Up
  <1>5. \A p \in P : /\ z[p] \in Int
                     /\ v[d[p]] = z[p]
                     /\ w[u[p]] = z[p]
    BY <1>1, <1>2
  <1> QED
    BY <1>4, <1>5, SumsAlike

(* The copies of a bag, counted.                                            *)
LEMMA CardinalityIsSum ==
    ASSUME NEW B, IsFiniteSet(DOMAIN B)
    PROVE  BagCardinality(B) = SumOver(B, DOMAIN B)
  <1> DEFINE Rec(E) == CHOOSE g : Sums(B, g, E)
  <1>1. BagCardinality(B) = Rec(DOMAIN B)[DOMAIN B]
    BY DEF BagCardinality, Step, First, Sums
  <1>2. SumOver(B, DOMAIN B) = Rec(DOMAIN B)[DOMAIN B]
    BY DEF SumOver, MapThenSumSet, MapThenFoldSet, Step, First, Sums
  <1> QED
    BY <1>1, <1>2

(* How often lineage is read, from either end.                              *)
Entering(g, type, id) ==
    {x \in DOMAIN g.edges : x[1] = type /\ x[3] \in WithId(g, id)}

DownTo(g, id, e) ==
    [x \in Leaving(g, "DERIVED_FROM", id) |->
        IF g.nodes[x[3]].evidence_id = e THEN g.edges[x] ELSE 0]

UpFrom(g, id, e) ==
    [x \in Entering(g, "PARENT_OF", id) |->
        IF g.nodes[x[2]].evidence_id = e THEN g.edges[x] ELSE 0]

(* read_derived counts the edges that lead down to each parent.             *)
LEMMA ReadDerivedIs ==
    ASSUME NEW g, NEW id
    PROVE  ReadDerived(g, id) =
              [e \in {g.nodes[x[3]].evidence_id : x \in Leaving(g, "DERIVED_FROM", id)} |->
                  BagCardinality(DownTo(g, id, e))]
  <1> DEFINE A == Along(g, "DERIVED_FROM", 2, WithId(g, id))
             F(x) == g.nodes[x[3]].evidence_id
  <1>1. DOMAIN A = Leaving(g, "DERIVED_FROM", id) /\ \A x \in DOMAIN A : A[x] = g.edges[x]
    BY DEF Along, Leaving, BagToSet
  <1>2. ReadDerived(g, id) = BagOfAll(F, A)
    BY DEF ReadDerived
  <1> HIDE DEF A
  <1>3. BagOfAll(F, A) = [e \in {F(x) : x \in DOMAIN A} |->
              BagCardinality([x \in DOMAIN A |-> IF F(x) = e THEN A[x] ELSE 0])]
    BY DEF BagOfAll, BagToSet, BagCardinality
  <1>4. ASSUME NEW e
        PROVE  [x \in DOMAIN A |-> IF F(x) = e THEN A[x] ELSE 0] = DownTo(g, id, e)
    BY <1>1 DEF DownTo
  <1> QED
    BY <1>1, <1>2, <1>3, <1>4

(* reconstruct_provenance counts the edges that come up from it.            *)
LEMMA ReconstructedIs ==
    ASSUME NEW g, NEW id
    PROVE  ReconstructProvenance(g, id) =
              [e \in {g.nodes[x[2]].evidence_id : x \in Entering(g, "PARENT_OF", id)} |->
                  BagCardinality(UpFrom(g, id, e))]
  <1> DEFINE A == Along(g, "PARENT_OF", 3, WithId(g, id))
             F(x) == g.nodes[x[2]].evidence_id
  <1>1. DOMAIN A = Entering(g, "PARENT_OF", id) /\ \A x \in DOMAIN A : A[x] = g.edges[x]
    BY DEF Along, Entering, BagToSet
  <1>2. ReconstructProvenance(g, id) = BagOfAll(F, A)
    BY DEF ReconstructProvenance
  <1> HIDE DEF A
  <1>3. BagOfAll(F, A) = [e \in {F(x) : x \in DOMAIN A} |->
              BagCardinality([x \in DOMAIN A |-> IF F(x) = e THEN A[x] ELSE 0])]
    BY DEF BagOfAll, BagToSet, BagCardinality
  <1>4. ASSUME NEW e
        PROVE  [x \in DOMAIN A |-> IF F(x) = e THEN A[x] ELSE 0] = UpFrom(g, id, e)
    BY <1>1 DEF UpFrom
  <1> QED
    BY <1>1, <1>2, <1>3, <1>4

(* The two directions of lineage are read alike, copies counted.            *)
LEMMA BothDirections ==
    ASSUME NEW g, IsGraph(g), NEW id
    PROVE  ReadDerived(g, id) = ReconstructProvenance(g, id)
  <1> DEFINE N == DOMAIN g.nodes
             P == {p \in N \X N : DownEdge(p) \in DOMAIN g.edges /\ p[1] \in WithId(g, id)}
             L == Leaving(g, "DERIVED_FROM", id)
             U == Entering(g, "PARENT_OF", id)
  <1>1. IsFiniteSet(P)
    <2>1. N = 1..Len(g.nodes) /\ Len(g.nodes) \in Nat
      BY ListFacts DEF IsGraph
    <2>2. IsFiniteSet(N)
      BY <2>1, FS_Interval
    <2>3. IsFiniteSet(N \X N)
      BY <2>2, FS_Product
    <2> QED
      BY <2>3, FS_Subset
  <1>2. \A p \in P : p = <<p[1], p[2]>>
    OBVIOUS
  <1>3. \A x \in DOMAIN g.edges : x = <<x[1], x[2], x[3]>> /\ x[2] \in N /\ x[3] \in N
    BY DEF IsGraph, EdgesFit
  <1>4. L = Down(P)
    <2>1. ASSUME NEW x \in L PROVE x \in Down(P)
      <3>1. x \in DOMAIN g.edges /\ x[1] = "DERIVED_FROM" /\ x[2] \in WithId(g, id)
        BY <2>1 DEF Leaving
      <3>2. x = DownEdge(<<x[2], x[3]>>)
        BY <1>3, <3>1 DEF DownEdge
      <3>3. <<x[2], x[3]>> \in P
        BY <1>3, <3>1, <3>2
      <3> QED
        BY <3>2, <3>3 DEF Down
    <2>2. ASSUME NEW p \in P PROVE DownEdge(p) \in L
      <3>1. DownEdge(p) \in DOMAIN g.edges /\ p[1] \in WithId(g, id)
        OBVIOUS
      <3> QED
        BY <3>1 DEF DownEdge, Leaving
    <2> QED
      BY <2>1, <2>2 DEF Down
  <1>5. ASSUME NEW p \in N \X N
        PROVE  /\ DownEdge(p) \in DOMAIN g.edges <=> UpEdge(p) \in DOMAIN g.edges
               /\ DownEdge(p) \in DOMAIN g.edges => g.edges[DownEdge(p)] = g.edges[UpEdge(p)]
    BY <1>5 DEF IsGraph, Mirrored, DownEdge, UpEdge
  <1>6. U = Up(P)
    <2>1. ASSUME NEW x \in U PROVE x \in Up(P)
      <3>1. x \in DOMAIN g.edges /\ x[1] = "PARENT_OF" /\ x[3] \in WithId(g, id)
        BY <2>1 DEF Entering
      <3>2. x = UpEdge(<<x[3], x[2]>>)
        BY <1>3, <3>1 DEF UpEdge
      <3>3. <<x[3], x[2]>> \in N \X N
        BY <1>3, <3>1
      <3>4. <<x[3], x[2]>> \in P
        BY <1>5, <3>1, <3>2, <3>3
      <3> QED
        BY <3>2, <3>4 DEF Up
    <2>2. ASSUME NEW p \in P PROVE UpEdge(p) \in U
      <3>1. UpEdge(p) \in DOMAIN g.edges /\ p[1] \in WithId(g, id)
        BY <1>5
      <3> QED
        BY <3>1 DEF UpEdge, Entering
    <2> QED
      BY <2>1, <2>2 DEF Up
  <1>7. {g.nodes[x[3]].evidence_id : x \in L} = {g.nodes[x[2]].evidence_id : x \in U}
    <2>1. \A p : DownEdge(p)[3] = UpEdge(p)[2]
      BY DEF DownEdge, UpEdge
    <2> HIDE DEF P, L, U
    <2> QED
      BY <1>4, <1>6, <2>1 DEF Down, Up
  <1>8. ASSUME NEW e
        PROVE  BagCardinality(DownTo(g, id, e)) = BagCardinality(UpFrom(g, id, e))
    <2>1. PICK v, w : v = DownTo(g, id, e) /\ w = UpFrom(g, id, e)
      OBVIOUS
    <2>2. DOMAIN v = L /\ DOMAIN w = U
      BY <2>1 DEF DownTo, UpFrom
    <2>3. ASSUME NEW p \in P
          PROVE  v[DownEdge(p)] \in Int /\ v[DownEdge(p)] = w[UpEdge(p)]
      <3>1. /\ DownEdge(p) \in L /\ UpEdge(p) \in U
            /\ DownEdge(p) \in DOMAIN g.edges
            /\ g.edges[DownEdge(p)] = g.edges[UpEdge(p)]
        BY <1>4, <1>5, <1>6 DEF Down, Up
      <3>2. DownEdge(p)[3] = UpEdge(p)[2]
        BY DEF DownEdge, UpEdge
      <3>3. g.edges[DownEdge(p)] \in Int
        BY <3>1 DEF IsGraph, IsABag
      <3>4. v[DownEdge(p)] = IF g.nodes[DownEdge(p)[3]].evidence_id = e
                             THEN g.edges[DownEdge(p)] ELSE 0
        BY <2>1, <3>1 DEF DownTo
      <3>5. w[UpEdge(p)] = IF g.nodes[UpEdge(p)[2]].evidence_id = e
                           THEN g.edges[UpEdge(p)] ELSE 0
        BY <2>1, <3>1 DEF UpFrom
      <3> QED
        BY <3>1, <3>2, <3>3, <3>4, <3>5
    <2> HIDE DEF P, L, U
    <2>4. SumOver(v, Down(P)) = SumOver(w, Up(P))
      BY <1>1, <1>2, <2>3, MirroredSums
    <2>5. IsFiniteSet(L) /\ IsFiniteSet(U)
      <3> DEFINE f == [q \in P |-> DownEdge(q)]
                 h == [q \in P |-> UpEdge(q)]
      <3>1. f \in Surjection(P, Down(P)) /\ h \in Surjection(P, Up(P))
        BY DEF Surjection, Down, Up
      <3> HIDE DEF f, h
      <3> QED
        BY <1>1, <1>4, <1>6, <3>1, FS_Surjection
    <2> QED
      BY <1>4, <1>6, <2>1, <2>2, <2>4, <2>5, CardinalityIsSum
  <1> HIDE DEF L, U
  <1>9. /\ ReadDerived(g, id) = [e \in {g.nodes[x[3]].evidence_id : x \in L} |->
                                    BagCardinality(DownTo(g, id, e))]
        /\ ReconstructProvenance(g, id) = [e \in {g.nodes[x[2]].evidence_id : x \in U} |->
                                    BagCardinality(UpFrom(g, id, e))]
    BY ReadDerivedIs, ReconstructedIs DEF L, U
  <1> QED
    BY <1>7, <1>8, <1>9

(* Invariant 15, lineage: see LineageReadsBack.                             *)
THEOREM LineageAlwaysReadsBack == Spec => []LineageReadsBack
  <1>1. HelixInv => LineageReadsBack
    <2> SUFFICES ASSUME HelixInv PROVE LineageReadsBack
      OBVIOUS
    <2>1. IsGraph(graph)
      BY DEF HelixInv, HelixType
    <2>2. ASSUME NEW j \in Jobs, NEW id, id = EvidenceOf(j).evidence_id
          PROVE  /\ ReadDerived(graph, id) = ReconstructProvenance(graph, id)
                 /\ \A p \in BagToSet(ReadDerived(graph, id)) :
                       \E k \in JobsOn(id) : p \in ToSet(EvidenceOf(k).parents)
      <3>1. ASSUME NEW p \in Parents(graph, id)
            PROVE  \E k \in JobsOn(id) : p \in ToSet(EvidenceOf(k).parents)
        <4>1. ParentNamed(work, id, p)
          BY DEF HelixInv, Named
        <4>2. PICK r \in DOMAIN work.jobs : \E i \in 1..Len(work.jobs[r]) :
                 /\ work.jobs[r][i].evidence_id = id
                 /\ \E m \in 1..Len(work.jobs[r][i].parents) : p = work.jobs[r][i].parents[m]
          BY <4>1 DEF ParentNamed
        <4>3. PICK i \in 1..Len(work.jobs[r]) :
                 /\ work.jobs[r][i].evidence_id = id
                 /\ \E m \in 1..Len(work.jobs[r][i].parents) : p = work.jobs[r][i].parents[m]
          BY <4>2
        <4>4. p \in ToSet(work.jobs[r][i].parents)
          BY <4>3, EvidenceIsCopy DEF ToSet, HelixInv, HelixType
        <4>5. <<r, i>> \in Jobs /\ EvidenceOf(<<r, i>>) = work.jobs[r][i]
          BY JobIs DEF HelixInv, HelixType, Recorders
        <4> QED
          BY <4>3, <4>4, <4>5 DEF JobsOn
      <3> QED
        BY <2>1, <3>1, BothDirections DEF Parents
    <2>3. ASSUME NEW r \in Recorders, NEW k \in 1..(pc[r] - 1),
                 Requests(r)[k].op = "parent",
                 NEW i \in 1..(k - 1), Requests(r)[i].op = "evidence",
                 Requests(r)[i].evidence.evidence_id = Requests(r)[k].parent
          PROVE  Requests(r)[k].parent \in Parents(graph, Requests(r)[k].child)
      <3>1. Acked(graph, Requests(r), k)
        BY DEF HelixInv
      <3> QED
        BY <2>3, <3>1 DEF Acked
    <2>4. ASSUME NEW r \in Recorders, NEW k \in 1..(pc[r] - 1)
          PROVE  LET q == Requests(r)[k]
                     before == {Requests(r)[i] : i \in 1..(k - 1)}
                 IN  q.op = "parent"
                       /\ (\E x \in before : x.op = "evidence"
                                             /\ x.evidence.evidence_id = q.parent)
                     => q.parent \in BagToSet(ReadDerived(graph, q.child))
      BY <2>3 DEF Parents
    <2> QED
      BY <2>2, <2>4 DEF LineageReadsBack
  <1> QED
    BY <1>1, HelixSafe, PTL

-----------------------------------------------------------------------------
(* A function whose value at 1..n is the engine after the first n elements  *)
(* of a job: what FoldLeft picks by CHOOSE.                                 *)
EngineFolds(g, s, n) ==
    g = [S \in SUBSET (1..n) |->
           IF S = {} THEN NewEngine
           ELSE EngineAfter(g[S \ {Max(S)}], s[Max(S)])]

(* Such a function exists for every length; by the least length without one.*)
LEMMA EngineFoldsExist == ASSUME NEW s, NEW m \in Nat PROVE \E g : EngineFolds(g, s, m)
  <1> DEFINE Bad == {n \in Nat : ~\E g : EngineFolds(g, s, n)}
  <1> SUFFICES ASSUME Bad # {} PROVE FALSE
    OBVIOUS
  <1>1. PICK n \in Bad : \A k \in Bad : n <= k
    BY LeastNatural
  <1>2. CASE n = 0
    <2> DEFINE g == [S \in SUBSET (1..0) |-> NewEngine]
    <2>1. SUBSET (1..0) = {{}}
      OBVIOUS
    <2>2. g = [S \in SUBSET (1..0) |->
                 IF S = {} THEN NewEngine
                 ELSE EngineAfter(g[S \ {Max(S)}], s[Max(S)])]
      BY <2>1
    <2>3. EngineFolds(g, s, 0)
      BY <2>2 DEF EngineFolds
    <2> QED
      BY <1>1, <1>2, <2>3
  <1>3. CASE n # 0
    <2>1. n - 1 \in Nat /\ n - 1 \notin Bad
      BY <1>1, <1>3
    <2>2. PICK g : EngineFolds(g, s, n - 1)
      BY <2>1
    <2> DEFINE h == [S \in SUBSET (1..n) |->
                       IF n \in S THEN EngineAfter(g[S \ {n}], s[n]) ELSE g[S]]
               r(S) == IF S = {} THEN NewEngine
                       ELSE EngineAfter(h[S \ {Max(S)}], s[Max(S)])
    <2>3. ASSUME NEW S \in SUBSET (1..n) PROVE h[S] = r(S)
      <3>1. \A R \in SUBSET (1..n) : n \notin R => R \in SUBSET (1..(n - 1)) /\ h[R] = g[R]
        BY <2>1
      <3>2. CASE n \in S
        <4>1. Max(S) = n
          BY <1>1, <3>2, MaxIs
        <4>2. h[S \ {n}] = g[S \ {n}]
          BY <3>1
        <4>3. h[S] = EngineAfter(g[S \ {n}], s[n])
          BY <3>2
        <4> HIDE DEF h
        <4> QED
          BY <3>2, <4>1, <4>2, <4>3
      <3>3. CASE n \notin S
        <4>1. h[S] = g[S] /\ S \in SUBSET (1..(n - 1))
          BY <3>1, <3>3
        <4>2. g[S] = IF S = {} THEN NewEngine
                     ELSE EngineAfter(g[S \ {Max(S)}], s[Max(S)])
          BY <2>2, <4>1 DEF EngineFolds
        <4>3. h[S \ {Max(S)}] = g[S \ {Max(S)}]
          BY <3>1, <3>3
        <4> HIDE DEF h
        <4> QED
          BY <4>1, <4>2, <4>3
      <3> QED
        BY <3>2, <3>3
    <2>4. h = [S \in SUBSET (1..n) |-> r(S)]
      <3>1. h = [S \in SUBSET (1..n) |-> h[S]]
        OBVIOUS
      <3> HIDE DEF h
      <3> QED
        BY <2>3, <3>1
    <2>5. EngineFolds(h, s, n)
      <3> HIDE DEF h
      <3> QED
        BY <2>4 DEF EngineFolds
    <2> QED
      BY <1>1, <2>5
  <1> QED
    BY <1>2, <1>3

(* The engine after a job is the last value of such a function.             *)
LEMMA EngineOfFolds ==
    ASSUME NEW s, NEW n \in Nat, DOMAIN s = 1..n
    PROVE  \E g : EngineFolds(g, s, n) /\ FoldLeft(EngineAfter, NewEngine, s) = g[1..n]
  <1> DEFINE g == CHOOSE g : EngineFolds(g, s, n)
  <1>1. EngineFolds(g, s, n)
    BY EngineFoldsExist
  <1>2. FoldLeft(EngineAfter, NewEngine, s) = g[1..n]
    BY DEF FoldLeft, MapThenFoldSet, EngineFolds
  <1> QED
    BY <1>1, <1>2

(* Its values at the prefixes are one call of incorporate apart.            *)
LEMMA EngineFoldsStep ==
    ASSUME NEW s, NEW n \in Nat, NEW g, EngineFolds(g, s, n)
    PROVE  /\ g[1..0] = NewEngine
           /\ \A k \in 1..n : g[1..k] = EngineAfter(g[1..(k - 1)], s[k])
  <1>1. ASSUME NEW k \in 1..n PROVE g[1..k] = EngineAfter(g[1..(k - 1)], s[k])
    <2>1. /\ 1..k \in SUBSET (1..n) /\ 1..k # {}
          /\ (1..k) \ {k} = 1..(k - 1) /\ k \in 1..k /\ k \in Nat
      OBVIOUS
    <2>2. Max(1..k) = k
      BY <2>1, MaxIs
    <2> QED
      BY <2>1, <2>2 DEF EngineFolds
  <1>2. 1..0 \in SUBSET (1..n) /\ 1..0 = {}
    OBVIOUS
  <1> QED
    BY <1>1, <1>2 DEF EngineFolds

(* Jobs that agree up to a position have the same engine up to it.          *)
LEMMA EngineFoldsAgree ==
    ASSUME NEW s, NEW n \in Nat, NEW g, EngineFolds(g, s, n),
           NEW t, NEW m \in Nat, NEW h, EngineFolds(h, t, m),
           m <= n, \A k \in 1..m : s[k] = t[k]
    PROVE  g[1..m] = h[1..m]
  <1> DEFINE Bad == {k \in 0..m : g[1..k] # h[1..k]}
  <1> SUFFICES ASSUME Bad # {} PROVE FALSE
    OBVIOUS
  <1>1. Bad \in SUBSET Nat
    OBVIOUS
  <1>2. PICK k \in Bad : \A j \in Bad : k <= j
    <2> HIDE DEF Bad
    <2> QED
      BY <1>1, LeastNatural
  <1>3. k # 0
    BY <1>2, EngineFoldsStep
  <1>4. k \in 1..m /\ k \in 1..n /\ k - 1 \in 0..m /\ ~(k <= k - 1)
    BY <1>2, <1>3
  <1>5. g[1..(k - 1)] = h[1..(k - 1)]
    BY <1>2, <1>4
  <1>6. s[k] = t[k]
    BY <1>4
  <1>7. g[1..k] = EngineAfter(g[1..(k - 1)], s[k])
    BY <1>4, EngineFoldsStep
  <1>8. h[1..k] = EngineAfter(h[1..(k - 1)], t[k])
    BY <1>4, EngineFoldsStep
  <1> QED
    BY <1>2, <1>5, <1>6, <1>7, <1>8

(* The engine after the first n elements of a job, ...                      *)
Held(s, n) == FoldLeft(EngineAfter, NewEngine, SubSeq(s, 1, n))

(* ... and how it comes about, one call at a time.                          *)
LEMMA EngineOfPrefix ==
    ASSUME NEW A, NEW s \in Seq(A)
    PROVE  /\ Held(s, 0) = NewEngine
           /\ \A n \in 1..Len(s) : Held(s, n) = EngineAfter(Held(s, n - 1), s[n])
  <1>1. ASSUME NEW n \in 0..Len(s)
        PROVE  /\ n \in Nat
               /\ DOMAIN SubSeq(s, 1, n) = 1..n
               /\ \A k \in 1..n : SubSeq(s, 1, n)[k] = s[k]
    OBVIOUS
  <1>5. Len(s) \in Nat
    OBVIOUS
  <1>2. PICK r : EngineFolds(r, s, Len(s))
    BY <1>5, EngineFoldsExist
  <1>3. ASSUME NEW n \in 0..Len(s) PROVE Held(s, n) = r[1..n]
    <2>1. PICK h : EngineFolds(h, SubSeq(s, 1, n), n) /\ Held(s, n) = h[1..n]
      BY <1>1, EngineOfFolds DEF Held
    <2>2. r[1..n] = h[1..n]
      <3> DEFINE t == SubSeq(s, 1, n)
      <3>1. /\ n \in Nat /\ Len(s) \in Nat /\ n <= Len(s)
            /\ \A k \in 1..n : s[k] = t[k]
        BY <1>1
      <3>2. EngineFolds(h, t, n)
        BY <2>1
      <3> HIDE DEF t
      <3> QED
        BY <1>2, <3>1, <3>2, EngineFoldsAgree
    <2> QED
      BY <2>1, <2>2
  <1>4. /\ r[1..0] = NewEngine
        /\ \A k \in 1..Len(s) : r[1..k] = EngineAfter(r[1..(k - 1)], s[k])
    BY <1>2, EngineFoldsStep
  <1>6. Held(s, 0) = NewEngine
    BY <1>3, <1>4
  <1>7. ASSUME NEW n \in 1..Len(s) PROVE Held(s, n) = EngineAfter(Held(s, n - 1), s[n])
    <2>1. n \in 0..Len(s) /\ n - 1 \in 0..Len(s)
      OBVIOUS
    <2> QED
      BY <1>3, <1>4, <2>1
  <1> QED
    BY <1>6, <1>7


(* An engine of persisted evidence, and what becomes of a track in it: it   *)
(* stays, or each update counts once per dimension.                         *)
HasTracks(eng) ==
    /\ IsEngine(eng)
    /\ \A s \in Subjects : eng.incorporated[s] # {} => eng.tracks[s] \in Track

Follows(t, u) ==
    /\ t \in Track /\ u \in Track
    /\ \/ u = t
       \/ u.independent_updates >= t.independent_updates + Cardinality(Dims)

(* One call of incorporate.                                                 *)
LEMMA TracksFollow ==
    ASSUME NEW eng, HasTracks(eng), NEW e, Persistable(e), NEW f, f = EngineAfter(eng, e)
    PROVE  /\ HasTracks(f)
           /\ f.tracks[e.subject] \in Track
           /\ \A s \in Subjects : eng.tracks[s] \in Track => Follows(eng.tracks[s], f.tracks[s])
  <1>1. IsEngine(eng) /\ e.subject \in Subjects /\ Verified(e) /\ Decodes(e)
    BY DEF HasTracks, Persistable
  <1>2. CASE Duplicate(eng, e)
    <2>1. f = eng
      BY <1>2 DEF EngineAfter
    <2>2. eng.tracks[e.subject] \in Track
      BY <1>1, <1>2 DEF Duplicate, HasTracks
    <2> QED
      BY <2>1, <2>2 DEF Follows
  <1>3. CASE ~Duplicate(eng, e)
    <2>1. PICK t, m, u : /\ t = TrackOrPrior(eng, e.subject) /\ m = Measured[e.payload]
                         /\ u = Updated(t, m)
      OBVIOUS
    <2>2. /\ f = [tracks |-> f.tracks, incorporated |-> f.incorporated,
                  conflicts |-> f.conflicts, last_evidence |-> f.last_evidence]
          /\ f.tracks = [eng.tracks EXCEPT ![e.subject] = u]
          /\ f.incorporated = [eng.incorporated EXCEPT ![e.subject] = @ \cup {e.observation_id}]
      <3>1. f = Fused(Gated(eng, e), e)
        BY <1>1, <1>3 DEF EngineAfter
      <3>2. PICK T, I, C, L : /\ T = [eng.tracks EXCEPT ![e.subject] = u]
                              /\ I = [eng.incorporated EXCEPT
                                        ![e.subject] = @ \cup {e.observation_id}]
                              /\ C = Flagged(eng, e)
                              /\ L = [eng.last_evidence EXCEPT ![e.subject] = e]
        OBVIOUS
      <3>3. f = [tracks |-> T, incorporated |-> I, conflicts |-> C, last_evidence |-> L]
        BY <1>1, <2>1, <3>1, <3>2, FusedRecord
      <3>4. f.tracks = T /\ f.incorporated = I /\ f.conflicts = C /\ f.last_evidence = L
        BY <3>3
      <3> QED
        BY <3>2, <3>3, <3>4
    <2>3. t \in Track
      <3>1. eng.tracks[e.subject] \in Track \cup {NoTrack}
        BY <1>1 DEF IsEngine
      <3> QED
        BY <2>1, <3>1, UninformativeType DEF TrackOrPrior
    <2>4. u \in Track
      <3>1. m \in [Dims -> Int]
        BY <1>1, <2>1, GaussianAssumption DEF Decodes, GaussianAssumption
      <3> QED
        BY <2>1, <2>3, <3>1, UpdatedType
    <2>5. u.independent_updates = t.independent_updates + Cardinality(Dims)
      BY <2>1 DEF Updated
    <2>6. IsEngine(f)
      BY <1>1, <2>2, <2>4 DEF IsEngine
    <2>7. /\ f.tracks[e.subject] = u
          /\ \A s \in Subjects : s # e.subject =>
                f.tracks[s] = eng.tracks[s] /\ f.incorporated[s] = eng.incorporated[s]
      BY <1>1, <2>2 DEF IsEngine
    <2>8. HasTracks(f)
      BY <2>4, <2>6, <2>7 DEF HasTracks
    <2>9. ASSUME NEW s \in Subjects, eng.tracks[s] \in Track
          PROVE  Follows(eng.tracks[s], f.tracks[s])
      <3>1. CASE s = e.subject
        <4>1. eng.tracks[s] = t
          BY <2>1, <2>9, <3>1, HelixAssumption DEF TrackOrPrior, HelixAssumption
        <4>2. t.independent_updates \in Nat /\ u.independent_updates \in Nat
          BY <2>3, <2>4 DEF Track
        <4>3. u.independent_updates >= t.independent_updates + Cardinality(Dims)
          BY <2>5, <4>2, DimsCount
        <4> QED
          BY <2>3, <2>4, <2>7, <3>1, <4>1, <4>3 DEF Follows
      <3>2. CASE s # e.subject
        BY <2>7, <2>9, <3>2 DEF Follows
      <3> QED
        BY <3>1, <3>2
    <2> QED
      BY <2>4, <2>7, <2>8, <2>9
  <1> QED
    BY <1>2, <1>3

(* That goes on along a job.                                                *)
LEMMA FollowsOn ==
    ASSUME NEW t, NEW u, NEW v, Follows(t, u), Follows(u, v)
    PROVE  Follows(t, v)
  <1>1. /\ t.independent_updates \in Nat /\ u.independent_updates \in Nat
        /\ v.independent_updates \in Nat
    BY DEF Follows, Track
  <1> QED
    BY <1>1, DimsCount DEF Follows

(* Tracks of a subject that count the same updates are the same.            *)
LEMMA CounterTellsTracks ==
    ASSUME NEW t, NEW u, Follows(t, u)
    PROVE  /\ t.independent_updates <= u.independent_updates
           /\ t.independent_updates = u.independent_updates => t = u
  <1>1. t \in Track /\ u \in Track
    BY DEF Follows
  <1>2. t.independent_updates \in Nat /\ u.independent_updates \in Nat
    BY <1>1 DEF Track
  <1>3. Cardinality(Dims) = 0 => Dims = {}
    BY GaussianAssumption, FS_EmptySet DEF GaussianAssumption
  <1>4. ASSUME Dims = {}, t.independent_updates = u.independent_updates PROVE t = u
    <2>1. t.mean = u.mean /\ t.var = u.var
      BY <1>1, <1>4 DEF Track
    <2> QED
      BY <1>1, <1>4, <2>1 DEF Track
  <1> QED
    BY <1>2, <1>3, <1>4, DimsCount DEF Follows

(* The tracks a recorder writes of a subject follow one another.            *)
LEMMA JobTracks ==
    ASSUME NEW job, IsJob(job), NEW i \in 1..Len(job), NEW k \in 1..Len(job), i <= k,
           job[i].subject = job[k].subject
    PROVE  Follows(TrackAfter(job, i), TrackAfter(job, k))
  <1> DEFINE s == job[i].subject
             track(n) == Held(job, n).tracks[s]
  <1>1. Len(job) \in Nat
    BY ListFacts DEF IsJob
  <1>2. /\ Held(job, 0) = NewEngine
        /\ \A n \in 1..Len(job) : Held(job, n) = EngineAfter(Held(job, n - 1), job[n])
    BY EngineOfPrefix DEF IsJob, IsList
  <1>3. \A n \in 1..Len(job) : Persistable(job[n])
    BY DEF IsJob
  <1>4. ASSUME NEW n \in 0..Len(job) PROVE HasTracks(Held(job, n))
    <2> DEFINE Bad == {m \in 0..Len(job) : ~HasTracks(Held(job, m))}
    <2> SUFFICES ASSUME Bad # {} PROVE FALSE
      OBVIOUS
    <2>1. PICK m \in Bad : \A x \in Bad : m <= x
      <3>1. Bad \in SUBSET Nat
        OBVIOUS
      <3> HIDE DEF Bad
      <3> QED
        BY <3>1, LeastNatural
    <2>2. HasTracks(NewEngine)
      BY NewEngineKnows DEF HasTracks, NewEngine
    <2>3. m \in 1..Len(job) /\ m - 1 \in 0..Len(job) /\ ~(m <= m - 1)
      BY <1>1, <1>2, <2>1, <2>2
    <2>4. HasTracks(Held(job, m - 1))
      BY <2>1, <2>3
    <2>5. HasTracks(Held(job, m))
      BY <1>2, <1>3, <2>3, <2>4, TracksFollow
    <2> QED
      BY <2>1, <2>5
  <1>5. s \in Subjects
    BY <1>3 DEF Persistable
  <1>6. track(i) \in Track
    <2>1. i - 1 \in 0..Len(job)
      BY <1>1
    <2>2. HasTracks(Held(job, i - 1))
      BY <1>4, <2>1
    <2> QED
      BY <1>2, <1>3, <2>2, TracksFollow
  <1>7. Follows(track(i), track(k))
    <2> DEFINE Bad == {m \in i..Len(job) : ~Follows(track(i), track(m))}
    <2> SUFFICES ASSUME Bad # {} PROVE FALSE
      BY <1>1
    <2>1. PICK m \in Bad : \A x \in Bad : m <= x
      <3>1. Bad \in SUBSET Nat
        BY <1>1
      <3> HIDE DEF Bad
      <3> QED
        BY <3>1, LeastNatural
    <2>2. Follows(track(i), track(i))
      BY <1>6 DEF Follows
    <2>3. /\ m \in 1..Len(job) /\ m - 1 \in i..Len(job) /\ m - 1 \in 0..Len(job)
          /\ ~(m <= m - 1)
      BY <1>1, <2>1, <2>2
    <2>4. Follows(track(i), track(m - 1))
      BY <2>1, <2>3
    <2>5. HasTracks(Held(job, m - 1)) /\ track(m - 1) \in Track
      BY <1>4, <2>3, <2>4 DEF Follows
    <2>6. Follows(track(m - 1), track(m))
      BY <1>2, <1>3, <1>5, <2>3, <2>5, TracksFollow
    <2>7. Follows(track(i), track(m))
      BY <2>4, <2>6, FollowsOn
    <2> QED
      BY <2>1, <2>7
  <1>8. TrackAfter(job, i) = track(i) /\ TrackAfter(job, k) = track(k)
    BY DEF TrackAfter, Held
  <1> QED
    BY <1>7, <1>8

(* Once a recorder is done, each belief it was to write was written.        *)
LEMMA BeliefsAreWritten ==
    ASSUME HelixInv, NEW r \in Recorders, pc[r] > Len(Requests(r)),
           NEW i \in 1..Len(work.jobs[r])
    PROVE  TrackAfter(work.jobs[r], i) \in Beliefs(graph, work.jobs[r][i].subject)
  <1>1. PICK job, S : job = work.jobs[r] /\ S = Requests(r)
    OBVIOUS
  <1>2. IsJob(job) /\ S = RequestsOf(job)
    BY <1>1, WorkIsJobs, RequestsAre DEF HelixInv, HelixType, Recorders
  <1>3. PICK o : InBlock(job, o + 1, i, o, 1)
    BY <1>1, <1>2, RequestsAreBlocks
  <1>4. PICK b, H, Q : /\ b = RequestsFor(job, i)
                       /\ H = Len(job[i].provenance) /\ Q = Len(job[i].parents)
    OBVIOUS
  <1>5. /\ H \in Nat /\ Q \in Nat /\ Len(b) = H + 2 + Q
        /\ b[H + 2] = BeliefRequest(job, i)
        /\ o \in Nat /\ o + Len(b) <= Len(S)
        /\ \A m \in 1..Len(b) : S[o + m] = b[m]
    BY <1>2, <1>3, <1>4 DEF InBlock, IsBlock, BeliefRequest
  <1>6. PICK k : k = o + (H + 2)
    OBVIOUS
  <1>7. Len(S) \in Nat /\ pc[r] \in Nat
    BY <1>1, WorkIsJobs, RequestsAre DEF HelixInv, HelixType, Recorders
  <1>8. k \in 1..(pc[r] - 1) /\ H + 2 \in 1..Len(b)
    BY <1>1, <1>5, <1>6, <1>7
  <1>9. S[k] = BeliefRequest(job, i)
    BY <1>5, <1>6, <1>8
  <1>10. Acked(graph, S, k)
    BY <1>1, <1>8 DEF HelixInv
  <1> QED
    BY <1>1, <1>9, <1>10 DEF Acked, BeliefRequest, WriteBeliefState

(* What LatestBeliefIsRecognizable says of a recorder alone on a subject.   *)
Recognizable(r, read, final) ==
    /\ \A b1, b2 \in read : b1.independent_updates = b2.independent_updates => b1 = b2
    /\ pc[r] > Len(Requests(r)) =>
          /\ final \in read
          /\ \A b \in read : b.independent_updates <= final.independent_updates

(* read_belief gives all snapshots: see LatestBeliefIsRecognizable.         *)
THEOREM LatestIsAlwaysRecognizable == Spec => []LatestBeliefIsRecognizable
  <1>1. HelixInv => LatestBeliefIsRecognizable
    <2> SUFFICES ASSUME HelixInv, NEW r \in Recorders, NEW s \in Subjects
                 PROVE  LET mine  == {i \in DOMAIN work.jobs[r] :
                                         work.jobs[r][i].subject = s}
                            alone == mine # {} /\ \A j \in Jobs :
                                        EvidenceOf(j).subject = s => j[1] = r
                            final == TrackAfter(work.jobs[r], Max(mine))
                        IN  alone => Recognizable(r, Beliefs(graph, s), final)
      BY DEF LatestBeliefIsRecognizable, Beliefs, Recognizable
    <2> SUFFICES ASSUME NEW mine, mine = {i \in DOMAIN work.jobs[r] :
                                             work.jobs[r][i].subject = s},
                        mine # {},
                        \A j \in Jobs : EvidenceOf(j).subject = s => j[1] = r,
                        NEW read, read = Beliefs(graph, s),
                        NEW final, final = TrackAfter(work.jobs[r], Max(mine))
                 PROVE  Recognizable(r, read, final)
      OBVIOUS
    <2>1. PICK job : job = work.jobs[r]
      OBVIOUS
    <2>2. IsJob(job) /\ Len(job) \in Nat /\ DOMAIN job = 1..Len(job)
      BY <2>1, WorkIsJobs DEF HelixInv, HelixType, Recorders
    <2>3. mine = {i \in 1..Len(job) : job[i].subject = s}
      BY <2>1, <2>2
    <2>4. ASSUME NEW b \in read PROVE \E i \in mine : b = TrackAfter(job, i)
      <3>1. BeliefNamed(work, s, b)
        BY DEF HelixInv, Named
      <3>2. PICK x \in Recorders : \E i \in 1..Len(work.jobs[x]) :
               work.jobs[x][i].subject = s /\ b = TrackAfter(work.jobs[x], i)
        BY <3>1 DEF BeliefNamed, Recorders
      <3>3. PICK i \in 1..Len(work.jobs[x]) :
               work.jobs[x][i].subject = s /\ b = TrackAfter(work.jobs[x], i)
        BY <3>2
      <3>4. <<x, i>> \in Jobs /\ EvidenceOf(<<x, i>>) = work.jobs[x][i]
        BY JobIs DEF HelixInv, HelixType
      <3>5. x = r
        BY <3>3, <3>4
      <3> QED
        BY <2>1, <2>3, <3>3, <3>5
    <2>5. ASSUME NEW i \in mine, NEW k \in mine, i <= k
          PROVE  Follows(TrackAfter(job, i), TrackAfter(job, k))
      BY <2>2, <2>3, <2>5, JobTracks
    <2>6. ASSUME NEW i \in mine, NEW k \in mine,
                 TrackAfter(job, i).independent_updates = TrackAfter(job, k).independent_updates
          PROVE  TrackAfter(job, i) = TrackAfter(job, k)
      <3>1. i <= k \/ k <= i
        BY <2>2, <2>3
      <3> QED
        BY <2>5, <2>6, <3>1, CounterTellsTracks
    <2>7. PICK m : m = Max(mine)
      OBVIOUS
    <2>8. m \in mine /\ \A i \in mine : i <= m
      BY <2>2, <2>3, <2>7, MaxInBounds
    <2>9. ASSUME pc[r] > Len(Requests(r)) PROVE final \in read
      BY <2>1, <2>3, <2>7, <2>8, <2>9, BeliefsAreWritten
    <2>10. ASSUME NEW b \in read
           PROVE  b.independent_updates <= final.independent_updates
      <3>1. PICK i \in mine : b = TrackAfter(job, i)
        BY <2>4
      <3> QED
        BY <2>1, <2>5, <2>7, <2>8, <3>1, CounterTellsTracks
    <2> QED
      BY <2>4, <2>6, <2>9, <2>10 DEF Recognizable
  <1> QED
    BY <1>1, HelixSafe, PTL

-----------------------------------------------------------------------------
(* Where the requests about the i-th evidence of a job begin.               *)
StartOf(job, i) == (CHOOSE off : Placed(job, off))[i]

(* The edges of custody that leave an id are those of the first m hops of   *)
(* a chain, one for each.                                                   *)
Chained(g, id, c, m) ==
    \E f \in Bijection(1..m, Leaving(g, "FORWARDED_TO", id)) :
        \A k \in 1..m : g.edges[f[k]] = 1 /\ HopAt(g, f[k][3]) = c[k]

(* How many of H hops the first n requests about an evidence record.        *)
Recorded(n, H) == IF n <= 1 THEN 0 ELSE IF n <= H THEN n - 1 ELSE H

(* What n requests about an evidence have made of it, no more and no less.  *)
Progress(g, e, n) ==
    /\ IF n <= 0 THEN WithId(g, e.evidence_id) = {}
       ELSE \E x : WithId(g, e.evidence_id) = {x}
    /\ Chained(g, e.evidence_id, e.provenance, Recorded(n, Len(e.provenance)))

(* A chain stays as it is, ...                                              *)
LEMMA ChainStays ==
    ASSUME NEW g, IsGraph(g), NEW h, KeepsCustody(g, h), NEW id,
           Leaving(h, "FORWARDED_TO", id) = Leaving(g, "FORWARDED_TO", id),
           NEW c, NEW m, Chained(g, id, c, m)
    PROVE  Chained(h, id, c, m)
  <1>1. PICK L : L = Leaving(g, "FORWARDED_TO", id)
    OBVIOUS
  <1>2. PICK f \in Bijection(1..m, L) :
           \A k \in 1..m : g.edges[f[k]] = 1 /\ HopAt(g, f[k][3]) = c[k]
    BY <1>1 DEF Chained
  <1>3. \A x \in L : h.edges[x] = g.edges[x] /\ HopAt(h, x[3]) = HopAt(g, x[3])
    BY <1>1 DEF Leaving, IsGraph, EdgesFit, KeepsCustody, Keeps, Custody, HopAt
  <1>4. \A k \in 1..m : f[k] \in L
    BY <1>2 DEF Bijection, Injection, IsInjective
  <1>5. \A k \in 1..m : h.edges[f[k]] = 1 /\ HopAt(h, f[k][3]) = c[k]
    BY <1>2, <1>3, <1>4
  <1> QED
    BY <1>1, <1>2, <1>5 DEF Chained

(* ... or grows by a hop.                                                   *)
LEMMA ChainGrows ==
    ASSUME NEW g, IsGraph(g), NEW h, NEW id, NEW hop, NEW n, Relays(g, h, id, hop, n),
           NEW x, WithId(g, id) = {x},
           NEW c, NEW m \in Nat, Chained(g, id, c, m), hop = c[m + 1]
    PROVE  Chained(h, id, c, m + 1)
  <1>1. PICK L, M, y : /\ L = Leaving(g, "FORWARDED_TO", id)
                       /\ M = Leaving(h, "FORWARDED_TO", id)
                       /\ y = <<"FORWARDED_TO", x, n>>
    OBVIOUS
  <1>2. PICK f \in Bijection(1..m, L) :
           \A k \in 1..m : g.edges[f[k]] = 1 /\ HopAt(g, f[k][3]) = c[k]
    BY <1>1 DEF Chained
  <1>3. /\ f \in [1..m -> L]
        /\ \A a, b \in 1..m : f[a] = f[b] => a = b
        /\ \A z \in L : \E k \in 1..m : f[k] = z
    BY <1>2 DEF Bijection, Injection, Surjection, IsInjective
  <1>4. M = L \cup {y} /\ y \notin L /\ y[3] = n /\ h.edges[y] = 1
    <2>1. Edges("FORWARDED_TO", WithId(g, id), {n}) = {y}
      BY <1>1 DEF Edges
    <2>2. Custody(h) = Custody(g) \cup {y} /\ WithId(h, id) = WithId(g, id)
      BY <2>1 DEF Relays
    <2>3. y \notin Custody(g)
      <3>1. n \notin DOMAIN g.nodes /\ y[3] = n
        BY <1>1 DEF Relays
      <3>2. \A z \in Custody(g) : z[3] \in DOMAIN g.nodes
        BY DEF IsGraph, EdgesFit, Custody
      <3> QED
        BY <3>1, <3>2
    <2>4. h.edges[y] = 1
      BY <2>2, <2>3 DEF Relays
    <2>5. L = {z \in Custody(g) : z[2] \in WithId(g, id)}
      BY <1>1 DEF Leaving, Custody
    <2>6. M = {z \in Custody(h) : z[2] \in WithId(h, id)}
      BY <1>1 DEF Leaving, Custody
    <2>7. y[2] \in WithId(g, id) /\ y[3] = n
      BY <1>1
    <2> QED
      BY <2>2, <2>3, <2>4, <2>5, <2>6, <2>7
  <1>5. \A z \in L : h.edges[z] = g.edges[z] /\ HopAt(h, z[3]) = HopAt(g, z[3])
    BY <1>1 DEF Leaving, IsGraph, EdgesFit, Relays, KeepsCustody, Keeps, Custody, HopAt
  <1>6. PICK F : F = [k \in 1..(m + 1) |-> IF k = m + 1 THEN y ELSE f[k]]
    OBVIOUS
  <1>7. F \in [1..(m + 1) -> M] /\ F[m + 1] = y /\ \A k \in 1..m : F[k] = f[k] /\ F[k] \in L
    BY <1>3, <1>4, <1>6
  <1>8. \A k \in 1..(m + 1) : k \in 1..m \/ k = m + 1
    OBVIOUS
  <1>9. ASSUME NEW a \in 1..(m + 1), NEW b \in 1..(m + 1), F[a] = F[b] PROVE a = b
    BY <1>3, <1>4, <1>7, <1>8, <1>9
  <1>10. ASSUME NEW z \in M PROVE \E k \in 1..(m + 1) : F[k] = z
    <2>1. CASE z = y
      BY <1>7, <2>1
    <2>2. CASE z \in L
      <3>1. PICK k \in 1..m : f[k] = z
        BY <1>3, <2>2
      <3> QED
        BY <1>7, <3>1
    <2> QED
      BY <1>4, <2>1, <2>2
  <1>11. F \in Bijection(1..(m + 1), M)
    BY <1>7, <1>9, <1>10 DEF Bijection, Injection, Surjection, IsInjective
  <1>12. HopAt(h, n) = hop
    BY DEF Relays
  <1>13. \A k \in 1..(m + 1) : h.edges[F[k]] = 1 /\ HopAt(h, F[k][3]) = c[k]
    BY <1>2, <1>4, <1>5, <1>7, <1>8, <1>12
  <1> QED
    BY <1>1, <1>11, <1>13 DEF Chained

(* Nothing leaves what is not there.                                        *)
LEMMA NoChain ==
    ASSUME NEW g, NEW id, WithId(g, id) = {}, NEW c
    PROVE  Leaving(g, "FORWARDED_TO", id) = {} /\ Chained(g, id, c, 0)
  <1>1. Leaving(g, "FORWARDED_TO", id) = {}
    BY DEF Leaving
  <1>2. 1..0 = {}
    OBVIOUS
  <1>3. [k \in {} |-> 0] \in Bijection({}, {})
    BY DEF Bijection, Injection, Surjection, IsInjective
  <1> QED
    BY <1>1, <1>2, <1>3 DEF Chained

(* Progress on a chain is about its own id.                                 *)
Elsewhere(g, h, id) ==
    \/ Leaves(g, h)
    \/ \E e, n : Copies(g, h, e, n) /\ e.evidence_id # id
    \/ \E i, hop, n : Relays(g, h, i, hop, n) /\ i # id

(* What is asked for about another id does not change it.                   *)
LEMMA ProgressElsewhere ==
    ASSUME NEW g, IsGraph(g), NEW h, NEW e, Elsewhere(g, h, e.evidence_id),
           NEW n, Progress(g, e, n)
    PROVE  Progress(h, e, n)
  <1>1. PICK id, c, m : /\ id = e.evidence_id /\ c = e.provenance
                        /\ m = Recorded(n, Len(e.provenance))
    OBVIOUS
  <1>2. /\ KeepsCustody(g, h) /\ WithId(h, id) = WithId(g, id)
        /\ Leaving(h, "FORWARDED_TO", id) = Leaving(g, "FORWARDED_TO", id)
    <2>1. /\ Leaving(g, "FORWARDED_TO", id) = {z \in Custody(g) : z[2] \in WithId(g, id)}
          /\ Leaving(h, "FORWARDED_TO", id) = {z \in Custody(h) : z[2] \in WithId(h, id)}
      BY DEF Leaving, Custody
    <2>2. CASE Leaves(g, h)
      BY <2>1, <2>2 DEF Leaves
    <2>3. ASSUME NEW d, NEW k, Copies(g, h, d, k), d.evidence_id # id
          PROVE  KeepsCustody(g, h) /\ WithId(h, id) = WithId(g, id) /\ Custody(h) = Custody(g)
      BY <2>3 DEF Copies
    <2>4. ASSUME NEW i, NEW hop, NEW k, Relays(g, h, i, hop, k), i # id
          PROVE  /\ KeepsCustody(g, h) /\ WithId(h, id) = WithId(g, id)
                 /\ Leaving(h, "FORWARDED_TO", id) = Leaving(g, "FORWARDED_TO", id)
      <3>1. /\ KeepsCustody(g, h) /\ WithId(h, id) = WithId(g, id)
            /\ Custody(h) = Custody(g) \cup Edges("FORWARDED_TO", WithId(g, i), {k})
        BY <2>4 DEF Relays
      <3>2. WithId(g, i) \cap WithId(g, id) = {}
        BY <2>4, KnownIds
      <3>3. \A z \in Edges("FORWARDED_TO", WithId(g, i), {k}) : z[2] \notin WithId(g, id)
        BY <3>2 DEF Edges
      <3> QED
        BY <2>1, <3>1, <3>3
    <2> QED
      BY <1>1, <2>1, <2>2, <2>3, <2>4 DEF Elsewhere
  <1>3. Chained(g, id, c, m)
    BY <1>1 DEF Progress
  <1>4. Chained(h, id, c, m)
    BY <1>2, <1>3, ChainStays
  <1> QED
    BY <1>1, <1>2, <1>4 DEF Progress

(* What request l about an evidence does, if the ones before it were        *)
(* executed once and no other about its id.                                 *)
NextDoes(g, h, e, l) ==
    /\ l = 1 => \E n : Copies(g, h, e, n)
    /\ l \in 2..(Len(e.provenance) + 1) =>
          \E n : Relays(g, h, e.evidence_id, e.provenance[l - 1], n)
    /\ l > Len(e.provenance) + 1 => Leaves(g, h)

(* Each request is a step of progress.                                      *)
LEMMA ProgressHere ==
    ASSUME NEW g, IsGraph(g), NEW h, NEW e, Len(e.provenance) \in Nat,
           NEW l \in Nat \ {0}, NextDoes(g, h, e, l), Progress(g, e, l - 1)
    PROVE  Progress(h, e, l)
  <1>1. PICK id, c, H : /\ id = e.evidence_id /\ c = e.provenance
                        /\ H = Len(e.provenance)
    OBVIOUS
  <1>2. CASE l = 1
    <2>1. PICK n : Copies(g, h, e, n)
      BY <1>2 DEF NextDoes
    <2>2. WithId(g, id) = {}
      BY <1>1, <1>2 DEF Progress
    <2>3. WithId(h, id) = {n} /\ KeepsCustody(g, h) /\ Custody(h) = Custody(g)
          /\ n \notin DOMAIN g.nodes
      BY <1>1, <2>1, <2>2 DEF Copies
    <2>4. \A z \in Custody(g) : z[2] # n
      BY <2>3 DEF IsGraph, EdgesFit, Custody
    <2>5. Leaving(h, "FORWARDED_TO", id) = {} /\ Leaving(g, "FORWARDED_TO", id) = {}
      BY <2>2, <2>3, <2>4, NoChain DEF Leaving, Custody
    <2>6. Chained(h, id, c, 0)
      BY <2>2, <2>3, <2>5, NoChain, ChainStays
    <2>7. Recorded(l, H) = 0 /\ ~(l <= 0)
      BY <1>2 DEF Recorded
    <2> QED
      BY <1>1, <2>3, <2>6, <2>7 DEF Progress
  <1>3. CASE l \in 2..(H + 1)
    <2>1. PICK n : Relays(g, h, id, c[l - 1], n)
      BY <1>1, <1>3 DEF NextDoes
    <2>2. ~(l - 1 <= 0) /\ ~(l <= 0) /\ l - 2 \in Nat /\ (l - 2) + 1 = l - 1
          /\ Recorded(l - 1, H) = l - 2 /\ Recorded(l, H) = l - 1
      BY <1>1, <1>3 DEF Recorded
    <2>3. PICK x : WithId(g, id) = {x}
      BY <1>1, <2>2 DEF Progress
    <2>4. Chained(g, id, c, l - 2)
      BY <1>1, <2>2 DEF Progress
    <2>5. PICK m \in Nat : m = l - 2
      BY <2>2
    <2>6. Chained(h, id, c, m + 1)
      BY <2>1, <2>2, <2>3, <2>4, <2>5, ChainGrows
    <2>7. WithId(h, id) = {x}
      BY <2>1, <2>3 DEF Relays
    <2> QED
      BY <1>1, <2>2, <2>5, <2>6, <2>7 DEF Progress
  <1>4. CASE l > H + 1
    <2>1. Leaves(g, h)
      BY <1>1, <1>4 DEF NextDoes
    <2>2. Progress(h, e, l - 1)
      BY <2>1, ProgressElsewhere DEF Elsewhere
    <2>3. ~(l - 1 <= 0) /\ ~(l <= 0) /\ Recorded(l - 1, H) = H /\ Recorded(l, H) = H
      BY <1>1, <1>4 DEF Recorded
    <2> QED
      BY <1>1, <2>2, <2>3 DEF Progress
  <1> QED
    BY <1>1, <1>2, <1>3, <1>4

(* Before the first request and after the last hop nothing is counted.      *)
LEMMA ProgressApart ==
    ASSUME NEW g, NEW e, Len(e.provenance) \in Nat, NEW n \in Int, NEW m \in Int,
           \/ n <= 0 /\ m <= 0
           \/ n > Len(e.provenance) /\ m > Len(e.provenance),
           Progress(g, e, n)
    PROVE  Progress(g, e, m)
  <1>1. /\ n <= 0 <=> m <= 0
        /\ Recorded(n, Len(e.provenance)) = Recorded(m, Len(e.provenance))
    BY DEF Recorded
  <1> QED
    BY <1>1 DEF Progress

(* What a request of the i-th block does.                                   *)
LEMMA RequestCustody ==
    ASSUME NEW job, IsJob(job), NEW k, NEW i, NEW o, NEW l, InBlock(job, k, i, o, l),
           NEW g, IsGraph(g), NEW h, h = After(g, RequestsOf(job)[k])
    PROVE  NextDoes(g, h, job[i], l)
  <1>1. PICK b : b = RequestsFor(job, i)
    OBVIOUS
  <1>2. PICK S : S = RequestsOf(job)
    OBVIOUS
  <1>3. /\ i \in 1..Len(job) /\ o \in Nat /\ l \in 1..Len(b) /\ k = o + l
        /\ \A m \in 1..Len(b) : S[o + m] = b[m]
        /\ IsBlock(b, job, i)
    BY <1>1, <1>2 DEF InBlock
  <1>4. PICK e : e = job[i]
    OBVIOUS
  <1>5. PICK H, Q : H = Len(e.provenance) /\ Q = Len(e.parents)
    OBVIOUS
  <1>6. /\ H \in Nat /\ Q \in Nat /\ Len(b) = H + 2 + Q
        /\ b[1] = WriteEvidence(e)
        /\ \A m \in 1..H : b[m + 1] = HopRequest(e, m)
        /\ b[H + 2] = BeliefRequest(job, i)
        /\ \A m \in 1..Q : b[H + 2 + m] = ParentRequest(e, m)
    BY <1>3, <1>4, <1>5 DEF IsBlock, HopRequest, BeliefRequest, ParentRequest
  <1>7. h = After(g, b[l])
    BY <1>2, <1>3
  <1>8. Persistable(e)
    BY <1>3, <1>4 DEF IsJob
  <1>9. ASSUME l = 1 PROVE \E n : Copies(g, h, e, n)
    <2>1. h = After(g, WriteEvidence(e))
      BY <1>6, <1>7, <1>9
    <2>2. h = AfterEvidence(g, e)
      BY <2>1 DEF After, WriteEvidence
    <2>3. e.subject \in Subjects
      BY <1>8 DEF Persistable
    <2> QED
      BY <2>2, <2>3, EvidenceEffect
  <1>10. ASSUME l \in 2..(H + 1) PROVE \E n : Relays(g, h, e.evidence_id, e.provenance[l - 1], n)
    <2>1. PICK m : m = l - 1
      OBVIOUS
    <2>2. m \in 1..H /\ l = m + 1
      BY <1>6, <1>10, <2>1
    <2>3. PICK hop : hop = e.provenance[m]
      OBVIOUS
    <2>4. hop = [node |-> hop.node, received_at |-> hop.received_at]
      <3>1. \A c, n : c = [x \in 1..n |-> [node        |-> c[x].node,
                                           received_at |-> c[x].received_at]]
               => \A x \in 1..n : c[x] = [node        |-> c[x].node,
                                          received_at |-> c[x].received_at]
        OBVIOUS
      <3>2. e.provenance = [x \in 1..Len(e.provenance) |->
                               [node        |-> e.provenance[x].node,
                                received_at |-> e.provenance[x].received_at]]
        BY <1>8 DEF Persistable, IsChain
      <3> QED
        BY <1>5, <2>2, <2>3, <3>1, <3>2
    <2>5. h = After(g, HopRequest(e, m))
      BY <1>6, <1>7, <2>2
    <2>6. h = AfterHop(g, e.evidence_id, hop)
      BY <2>3, <2>5 DEF After, HopRequest
    <2>7. \E n : Relays(g, h, e.evidence_id, hop, n)
      BY <2>4, <2>6, HopEffect
    <2> QED
      BY <2>1, <2>3, <2>7
  <1>11. ASSUME l > H + 1 PROVE Leaves(g, h)
    <2>1. CASE l = H + 2
      <3>1. PICK t : t = TrackAfter(job, i)
        OBVIOUS
      <3>2. h = AfterBelief(g, e.subject, t, e.evidence_id)
        <4>1. h = After(g, BeliefRequest(job, i))
          BY <1>6, <1>7, <2>1
        <4> QED
          BY <1>4, <3>1, <4>1 DEF After, BeliefRequest, WriteBeliefState
      <3> QED
        BY <3>2, BeliefEffect
    <2>2. CASE l # H + 2
      <3>1. PICK m : m = l - (H + 2)
        OBVIOUS
      <3>2. m \in 1..Q /\ l = H + 2 + m
        <4>1. H \in Nat /\ Q \in Nat /\ l \in 1..(H + 2 + Q)
          BY <1>3, <1>6
        <4> QED
          BY <1>11, <2>2, <3>1, <4>1
      <3>3. h = After(g, ParentRequest(e, m))
        BY <1>6, <1>7, <3>2
      <3>4. PICK p : p = e.parents[m]
        OBVIOUS
      <3>5. h = AfterParent(g, e.evidence_id, p)
        BY <3>3, <3>4 DEF After, ParentRequest
      <3> QED
        BY <3>5, ParentEffect
    <2> QED
      BY <2>1, <2>2
  <1> QED
    BY <1>4, <1>5, <1>9, <1>10, <1>11 DEF NextDoes

-----------------------------------------------------------------------------
(* While no call failed, evidence that one recorder persists once is        *)
(* exactly as far as that recorder is.                                      *)
Alone(r, i) == JobsOn(work.jobs[r][i].evidence_id) = {<<r, i>>}

ExactInv ==
    failures = 0 =>
      /\ \A r \in Recorders : ~failed[r]
      /\ \A r \in Recorders : \A i \in 1..Len(work.jobs[r]) :
            Alone(r, i) =>
               Progress(graph, work.jobs[r][i], pc[r] - (StartOf(work.jobs[r], i) + 1))

(* The offsets StartOf chooses are as BlocksArePlaced says.                 *)
LEMMA StartOfIs ==
    ASSUME NEW job, IsJob(job)
    PROVE  \E off : Placed(job, off) /\ \A i : StartOf(job, i) = off[i]
  <1>1. PICK off : off = CHOOSE p : Placed(job, p)
    OBVIOUS
  <1>2. Placed(job, off)
    BY <1>1, BlocksArePlaced
  <1> QED
    BY <1>1, <1>2 DEF StartOf

(* Nothing was asked for yet.                                               *)
LEMMA ExactInit == Init => ExactInv
  <1> SUFFICES ASSUME Init, NEW r \in Recorders, NEW i \in 1..Len(work.jobs[r])
               PROVE  Progress(graph, work.jobs[r][i],
                               pc[r] - (StartOf(work.jobs[r], i) + 1))
    BY DEF Init, ExactInv
  <1>1. PICK job : job = work.jobs[r]
    OBVIOUS
  <1>2. IsJob(job)
    BY <1>1, WorkIsJobs DEF Init, Recorders
  <1>3. StartOf(job, i) \in Nat
    BY <1>1, <1>2, StartOfIs DEF Placed
  <1>4. PICK n : n = pc[r] - (StartOf(job, i) + 1)
    OBVIOUS
  <1>5. n \in Int /\ n <= 0
    BY <1>3, <1>4 DEF Init
  <1>6. \A id : WithId(graph, id) = {}
    BY EmptyGraphReads, KnownIds DEF Init
  <1>7. \A H : Recorded(n, H) = 0
    BY <1>5 DEF Recorded
  <1> QED
    BY <1>1, <1>4, <1>5, <1>6, <1>7, NoChain DEF Progress

(* A recorder executes the request it is at: its own evidence gets on by a  *)
(* request, and no other does.                                              *)
LEMMA ExactExec ==
    ASSUME HelixInv, NEW r \in Recorders, pc[r] <= Len(Requests(r)),
           NEW h, h = After(graph, Requests(r)[pc[r]]),
           NEW x \in Recorders, NEW i \in 1..Len(work.jobs[x]), Alone(x, i),
           NEW e, e = work.jobs[x][i], NEW o, o = StartOf(work.jobs[x], i),
           Progress(graph, e, pc[x] - (o + 1))
    PROVE  Progress(h, e, (IF x = r THEN pc[x] + 1 ELSE pc[x]) - (o + 1))
  <1>1. PICK job : job = work.jobs[r]
    OBVIOUS
  <1>2. IsJob(job) /\ IsJob(work.jobs[x]) /\ IsGraph(graph) /\ work \in Workloads
    BY <1>1, WorkIsJobs DEF HelixInv, HelixType, Recorders
  <1>3. PICK off : Placed(job, off) /\ \A y : StartOf(job, y) = off[y]
    BY <1>2, StartOfIs
  <1>4. PICK k : k = pc[r]
    OBVIOUS
  <1>5. Requests(r) = RequestsOf(job) /\ k \in 1..Len(RequestsOf(job)) /\ k \in Nat
        /\ pc[x] \in Nat
    BY <1>1, <1>4, RequestsAre DEF HelixInv, HelixType
  <1>6. PICK j, l : InBlock(job, k, j, off[j], l)
    BY <1>3, <1>5 DEF Placed
  <1>7. PICK d : d = job[j]
    OBVIOUS
  <1>8. /\ j \in 1..Len(job) /\ off[j] \in Nat /\ k = off[j] + l
        /\ l \in 1..Len(RequestsFor(job, j)) /\ l \in Nat \ {0}
    BY <1>6 DEF InBlock
  <1>9. NextDoes(graph, h, d, l)
    BY <1>2, <1>4, <1>5, <1>6, <1>7, RequestCustody
  <1>10. /\ Persistable(d) /\ Persistable(e)
         /\ Len(d.provenance) \in Nat /\ Len(e.provenance) \in Nat
    BY <1>2, <1>7, <1>8 DEF IsJob, Persistable, IsChain
  <1>11. o \in Nat
    BY <1>2, StartOfIs DEF Placed
  <1>12. CASE x = r /\ i = j
    <2>1. e = d /\ o = off[j] /\ k = pc[x]
      BY <1>1, <1>3, <1>4, <1>7, <1>12
    <2>2. pc[x] - (o + 1) = l - 1 /\ (pc[x] + 1) - (o + 1) = l
      <3>1. pc[x] \in Nat /\ pc[x] = o + l /\ l \in Nat
        BY <1>5, <1>8, <2>1
      <3> QED
        BY <1>11, <3>1
    <2>3. Progress(h, e, l)
      BY <1>2, <1>8, <1>9, <1>10, <2>1, <2>2, ProgressHere
    <2> QED
      BY <1>12, <2>2, <2>3
  <1>13. CASE ~(x = r /\ i = j)
    <2>1. d.evidence_id # e.evidence_id
      <3>1. /\ <<r, j>> \in Jobs /\ EvidenceOf(<<r, j>>) = d
            /\ <<x, i>> \in Jobs /\ EvidenceOf(<<x, i>>) = e
        BY <1>1, <1>2, <1>7, <1>8, JobIs
      <3>2. <<r, j>> # <<x, i>>
        BY <1>13
      <3>3. JobsOn(e.evidence_id) = {<<x, i>>}
        BY DEF Alone
      <3> QED
        BY <3>1, <3>2, <3>3 DEF JobsOn
    <2>2. Elsewhere(graph, h, e.evidence_id)
      <3>1. CASE l = 1
        BY <1>9, <2>1, <3>1 DEF NextDoes, Elsewhere
      <3>2. CASE l \in 2..(Len(d.provenance) + 1)
        BY <1>9, <2>1, <3>2 DEF NextDoes, Elsewhere
      <3>3. CASE l > Len(d.provenance) + 1
        BY <1>9, <3>3 DEF NextDoes, Elsewhere
      <3> QED
        BY <1>8, <1>10, <3>1, <3>2, <3>3
    <2>3. Progress(h, e, pc[x] - (o + 1))
      BY <1>2, <2>2, ProgressElsewhere
    <2>4. CASE x # r
      BY <2>3, <2>4
    <2>5. CASE x = r
      <3>1. i \in 1..Len(job) /\ i # j /\ e = job[i] /\ o = off[i] /\ pc[x] = k
        BY <1>1, <1>3, <1>4, <1>13, <2>5
      <3>2. PICK b, c : b = RequestsFor(job, i) /\ c = RequestsFor(job, j)
        OBVIOUS
      <3>3. /\ IsBlock(b, job, i) /\ IsBlock(c, job, j)
            /\ Len(b) \in Nat /\ Len(c) \in Nat
            /\ Len(b) >= Len(e.provenance) + 2
        <4>1. IsBlock(b, job, i) /\ IsBlock(c, job, j)
          BY <1>2, <1>8, <3>1, <3>2, RequestsForIsBlock DEF IsJob
        <4>2. /\ \E Q \in Nat : Len(b) = Len(e.provenance) + 2 + Q
              /\ \E Q \in Nat : Len(c) = Len(d.provenance) + 2 + Q
          BY <1>7, <3>1, <4>1 DEF IsBlock
        <4> QED
          BY <1>10, <4>1, <4>2
      <3>4. /\ i < j => off[i] + Len(b) <= off[j]
            /\ j < i => off[j] + Len(c) <= off[i]
        BY <1>3, <1>8, <3>1, <3>2 DEF Placed
      <3>5. i \in Nat /\ j \in Nat /\ (i < j \/ j < i)
        BY <1>8, <3>1
      <3>6. PICK n, m : n = pc[x] - (o + 1) /\ m = (pc[x] + 1) - (o + 1)
        OBVIOUS
      <3>7. n \in Int /\ m \in Int
        BY <1>5, <1>11, <3>6
      <3>8. CASE i < j
        <4>1. PICK B, H, p : B = Len(b) /\ H = Len(e.provenance) /\ p = off[j]
          OBVIOUS
        <4>2. /\ B \in Nat /\ H \in Nat /\ p \in Nat /\ l \in Nat /\ k \in Nat
              /\ B >= H + 2 /\ o + B <= p /\ k = p + l /\ l # 0
          BY <1>5, <1>8, <1>10, <3>1, <3>3, <3>4, <3>8, <4>1
        <4>3. n = k - (o + 1) /\ m = (k + 1) - (o + 1)
          BY <3>1, <3>6
        <4>4. k >= o + H + 2
          BY <1>11, <4>2
        <4>5. \A y, z, w \in Nat : y >= z + w + 2 => y - (z + 1) > w /\ (y + 1) - (z + 1) > w
          OBVIOUS
        <4>6. n > H /\ m > H
          BY <1>11, <4>2, <4>3, <4>4, <4>5, Zenon
        <4> QED
          BY <1>10, <2>3, <2>5, <3>6, <3>7, <4>1, <4>6, ProgressApart
      <3>9. CASE j < i
        <4>1. k <= off[i]
          BY <1>5, <1>8, <1>11, <3>1, <3>2, <3>3, <3>4, <3>9
        <4>2. n <= 0 /\ m <= 0
          BY <1>5, <1>11, <3>1, <3>6, <4>1
        <4> QED
          BY <1>10, <2>3, <2>5, <3>6, <3>7, <4>2, ProgressApart
      <3> QED
        BY <3>5, <3>8, <3>9
    <2> QED
      BY <2>4, <2>5
  <1> QED
    BY <1>12, <1>13

(* Once a call has failed nothing is claimed; until then nothing is retried.*)
LEMMA ExactStep == HelixInv /\ ExactInv /\ [Next]_vars => ExactInv'
  <1> SUFFICES ASSUME HelixInv, ExactInv, [Next]_vars, failures' = 0 PROVE ExactInv'
    BY DEF ExactInv
  <1>1. CASE UNCHANGED vars
    <2>1. /\ work' = work /\ graph' = graph /\ pc' = pc /\ failed' = failed
          /\ failures' = failures
      BY <1>1 DEF vars
    <2> QED
      BY <2>1 DEF ExactInv, Alone, JobsOn, Jobs, EvidenceOf, Recorders
  <1>2. ASSUME NEW r \in Recorders, Exec(r) PROVE ExactInv'
    <2>1. /\ work' = work /\ failed' = failed /\ failures' = failures
          /\ pc[r] <= Len(Requests(r))
          /\ pc' = [pc EXCEPT ![r] = @ + 1]
      BY <1>2 DEF Exec, Sending
    <2>2. PICK h : h = After(graph, Requests(r)[pc[r]]) /\ graph' = h
      BY <1>2 DEF Exec
    <2>3. Recorders' = Recorders /\ \A x, i : Alone(x, i)' <=> Alone(x, i)
      BY <2>1 DEF Recorders, Alone, JobsOn, Jobs, EvidenceOf
    <2>4. /\ \A x \in Recorders : ~failed[x]
          /\ \A x \in Recorders : \A i \in 1..Len(work.jobs[x]) : Alone(x, i) =>
               Progress(graph, work.jobs[x][i], pc[x] - (StartOf(work.jobs[x], i) + 1))
      BY <2>1 DEF ExactInv
    <2>5. \A x \in Recorders : pc'[x] = IF x = r THEN pc[x] + 1 ELSE pc[x]
      BY <2>1 DEF HelixInv, HelixType
    <2>6. ASSUME NEW x \in Recorders, NEW i \in 1..Len(work.jobs[x]), Alone(x, i)
          PROVE  Progress(h, work.jobs[x][i], pc'[x] - (StartOf(work.jobs[x], i) + 1))
      <3>1. PICK e, o : e = work.jobs[x][i] /\ o = StartOf(work.jobs[x], i)
        OBVIOUS
      <3>2. Progress(graph, e, pc[x] - (o + 1))
        BY <2>4, <2>6, <3>1
      <3>3. Progress(h, e, (IF x = r THEN pc[x] + 1 ELSE pc[x]) - (o + 1))
        BY <2>1, <2>2, <2>6, <3>1, <3>2, ExactExec
      <3> QED
        BY <2>5, <3>1, <3>3
    <2> QED
      BY <2>1, <2>2, <2>3, <2>4, <2>6 DEF ExactInv
  <1>3. ASSUME NEW r \in Recorders, LoseRequest(r) \/ LoseResponse(r) PROVE FALSE
    <2>1. failures' = failures + 1 /\ failures \in Nat
      BY <1>3 DEF LoseRequest, LoseResponse, ExecFails, HelixInv, HelixType
    <2> QED
      BY <2>1
  <1>4. ASSUME NEW r \in Recorders, Retry(r) PROVE FALSE
    BY <1>4 DEF Retry, ExactInv
  <1> QED
    BY <1>1, <1>2, <1>3, <1>4 DEF Next

(* Undisturbed evidence is as far as its recorder at all times.             *)
THEOREM CustodyIsExact == Spec => []ExactInv
  BY HelixSafe, ExactInit, ExactStep, PTL DEF Spec

-----------------------------------------------------------------------------
(* How often a hop is read.                                                 *)
HopsLike(g, id, hop) ==
    [x \in Leaving(g, "FORWARDED_TO", id) |->
        IF HopAt(g, x[3]) = hop THEN g.edges[x] ELSE 0]

(* read_provenance counts the edges of custody that lead to each hop.       *)
LEMMA ReadProvenanceIs ==
    ASSUME NEW g, NEW id
    PROVE  ReadProvenance(g, id) =
              [hop \in {HopAt(g, x[3]) : x \in Leaving(g, "FORWARDED_TO", id)} |->
                  BagCardinality(HopsLike(g, id, hop))]
  <1> DEFINE A == Along(g, "FORWARDED_TO", 2, WithId(g, id))
             F(x) == [node        |-> g.nodes[x[3]].node_id,
                      received_at |-> g.nodes[x[3]].received_at]
  <1>1. DOMAIN A = Leaving(g, "FORWARDED_TO", id) /\ \A x \in DOMAIN A : A[x] = g.edges[x]
    BY DEF Along, Leaving, BagToSet
  <1>2. ReadProvenance(g, id) = BagOfAll(F, A)
    BY DEF ReadProvenance
  <1>3. \A x : F(x) = HopAt(g, x[3])
    BY DEF HopAt
  <1> HIDE DEF A, F
  <1>4. BagOfAll(F, A) = [e \in {F(x) : x \in DOMAIN A} |->
              BagCardinality([x \in DOMAIN A |-> IF F(x) = e THEN A[x] ELSE 0])]
    BY DEF BagOfAll, BagToSet, BagCardinality
  <1>5. ASSUME NEW e
        PROVE  [x \in DOMAIN A |-> IF F(x) = e THEN A[x] ELSE 0] = HopsLike(g, id, e)
    BY <1>1, <1>3 DEF HopsLike
  <1>6. {F(x) : x \in DOMAIN A} = {HopAt(g, x[3]) : x \in Leaving(g, "FORWARDED_TO", id)}
    BY <1>1, <1>3
  <1> QED
    BY <1>2, <1>4, <1>5, <1>6

(* How often each element is at a place of D.                               *)
Counted(c, D) ==
    [x \in {c[k] : k \in D} |-> BagCardinality([k \in D |-> IF c[k] = x THEN 1 ELSE 0])]

(* A list as a bag counts the places of each element.                       *)
LEMMA ListBagIs == ASSUME NEW c, NEW D, D = DOMAIN c PROVE BagOfList(c) = Counted(c, D)
  <1> DEFINE A == SetToBag(D)
             F(k) == c[k]
  <1>1. DOMAIN A = D /\ \A k \in D : A[k] = 1
    BY DEF SetToBag
  <1>2. BagOfList(c) = BagOfAll(F, A)
    BY DEF BagOfList
  <1>3. \A k : F(k) = c[k]
    OBVIOUS
  <1> HIDE DEF A, F
  <1>4. BagOfAll(F, A) = [e \in {F(k) : k \in DOMAIN A} |->
              BagCardinality([k \in DOMAIN A |-> IF F(k) = e THEN A[k] ELSE 0])]
    BY DEF BagOfAll, BagToSet, BagCardinality
  <1>5. ASSUME NEW e
        PROVE  [k \in DOMAIN A |-> IF F(k) = e THEN A[k] ELSE 0]
                 = [k \in D |-> IF c[k] = e THEN 1 ELSE 0]
    BY <1>1, <1>3
  <1>6. {F(k) : k \in DOMAIN A} = {c[k] : k \in D}
    BY <1>1, <1>3
  <1>7. BagOfList(c) = [x \in {c[k] : k \in D} |->
                           BagCardinality([k \in D |-> IF c[k] = x THEN 1 ELSE 0])]
    BY <1>2, <1>4, <1>5, <1>6
  <1> QED
    BY <1>7 DEF Counted

(* A chain that was recorded whole is read as it is.                        *)
LEMMA ChainReads ==
    ASSUME NEW g, NEW id, NEW c, NEW H \in Nat, DOMAIN c = 1..H, Chained(g, id, c, H)
    PROVE  ReadProvenance(g, id) = BagOfList(c)
  <1>1. PICK D, L : D = 1..H /\ L = Leaving(g, "FORWARDED_TO", id)
    OBVIOUS
  <1>2. PICK f \in Bijection(D, L) :
           \A k \in D : g.edges[f[k]] = 1 /\ HopAt(g, f[k][3]) = c[k]
    BY <1>1 DEF Chained
  <1>3. /\ f \in [D -> L]
        /\ \A z \in L : \E k \in D : f[k] = z
    BY <1>2 DEF Bijection, Injection, Surjection
  <1>4. {HopAt(g, x[3]) : x \in L} = {c[k] : k \in D}
    BY <1>2, <1>3
  <1>5. ASSUME NEW hop
        PROVE  BagCardinality(HopsLike(g, id, hop))
                 = BagCardinality([k \in D |-> IF c[k] = hop THEN 1 ELSE 0])
    <2>1. PICK v, w : v = HopsLike(g, id, hop) /\ w = [k \in D |-> IF c[k] = hop THEN 1 ELSE 0]
      OBVIOUS
    <2>2. DOMAIN v = L /\ DOMAIN w = D
      BY <1>1, <2>1 DEF HopsLike
    <2>3. \A x \in L : v[x] = IF HopAt(g, x[3]) = hop THEN g.edges[x] ELSE 0
      BY <1>1, <2>1 DEF HopsLike
    <2>4. \A k \in D : w[k] \in Int /\ v[f[k]] = w[k]
      BY <1>2, <1>3, <2>1, <2>3
    <2>5. IsFiniteSet(D)
      BY <1>1, FS_Interval
    <2>6. IsFiniteSet(L) /\ SumOver(w, D) = SumOver(v, L)
      BY <1>2, <2>4, <2>5, SumsAlike
    <2> QED
      BY <2>1, <2>2, <2>5, <2>6, CardinalityIsSum
  <1>6. ReadProvenance(g, id) = [hop \in {HopAt(g, x[3]) : x \in L} |->
                                    BagCardinality(HopsLike(g, id, hop))]
    BY <1>1, ReadProvenanceIs
  <1>7. BagOfList(c) = Counted(c, D)
    BY <1>1, ListBagIs
  <1> QED
    BY <1>1, <1>4, <1>5, <1>6, <1>7, SMTT(30) DEF Counted

(* What comes before a place of a list.                                     *)
LEMMA PrefixSet ==
    ASSUME NEW c, IsList(c), NEW n \in 0..Len(c)
    PROVE  ToSet(SubSeq(c, 1, n)) = {c[j] : j \in 1..n}
  <1>1. c \in Seq(ToSet(c)) /\ Len(c) \in Nat
    BY ListFacts DEF IsList
  <1>2. PICK p : p = SubSeq(c, 1, n)
    OBVIOUS
  <1>3. DOMAIN p = 1..n /\ \A j \in 1..n : p[j] = c[j]
    BY <1>1, <1>2
  <1> QED
    BY <1>2, <1>3 DEF ToSet

(* Times that increase from place to place tell which place comes first.    *)
LEMMA TimesTellPlaces ==
    ASSUME NEW t, NEW H \in Nat, \A k \in 1..H : t[k] \in Int,
           \A k \in 2..H : t[k - 1] < t[k],
           NEW j \in 1..H, NEW k \in 1..H
    PROVE  t[j] < t[k] <=> j < k
  <1>1. ASSUME NEW x \in 1..H, NEW y \in 1..H, x < y PROVE t[x] < t[y]
    <2> DEFINE T == {z \in Nat : z > x /\ z <= H /\ ~(t[x] < t[z])}
    <2> SUFFICES ASSUME T # {} PROVE FALSE
      BY <1>1
    <2>1. PICK z \in T : \A u \in T : z <= u
      BY LeastNatural
    <2>2. /\ z \in 2..H /\ z - 1 \in 1..H /\ z - 1 \in Nat
          /\ t[z - 1] < t[z] /\ ~(t[x] < t[z])
          /\ t[x] \in Int /\ t[z - 1] \in Int /\ t[z] \in Int
      BY <2>1
    <2>3. z - 1 \notin T
      BY <2>1, <2>2
    <2>4. z - 1 = x
      BY <2>1, <2>2, <2>3
    <2> QED
      BY <2>2, <2>4
  <1>2. t[j] \in Int /\ t[k] \in Int
    OBVIOUS
  <1>3. j < k => t[j] < t[k]
    BY <1>1
  <1>4. k < j => t[k] < t[j]
    BY <1>1
  <1> QED
    BY <1>2, <1>3, <1>4

(* A recorder that was acknowledged all requests about its only copy of an  *)
(* id is past the belief of that copy.                                      *)
LEMMA DoneWith ==
    ASSUME HelixInv, NEW r \in Recorders, NEW i \in 1..Len(work.jobs[r]), Alone(r, i),
           ToSet(RequestsFor(work.jobs[r], i)) \subseteq Acknowledged(r)
    PROVE  pc[r] - (StartOf(work.jobs[r], i) + 1) > Len(work.jobs[r][i].provenance)
  <1>1. PICK job, S : job = work.jobs[r] /\ S = Requests(r)
    OBVIOUS
  <1>2. IsJob(job) /\ S = RequestsOf(job) /\ Len(S) \in Nat /\ work \in Workloads
        /\ IsList(S)
    BY <1>1, WorkIsJobs, RequestsAre DEF HelixInv, HelixType, Recorders
  <1>3. PICK off : Placed(job, off) /\ \A y : StartOf(job, y) = off[y]
    BY <1>2, StartOfIs
  <1>4. PICK n : n = pc[r] - 1
    OBVIOUS
  <1>5. n \in 0..Len(S) /\ pc[r] = n + 1
    <2>1. pc[r] \in 1..(Len(S) + 1)
      BY <1>1 DEF HelixInv, HelixType
    <2> QED
      BY <1>2, <1>4, <2>1
  <1>6. PICK q : q = BeliefRequest(job, i)
    OBVIOUS
  <1>7. Persistable(job[i])
    BY <1>1, <1>2 DEF IsJob
  <1>8. q \in ToSet(RequestsFor(job, i))
    <2>1. PICK b, H, Q : b = RequestsFor(job, i) /\ H = Len(job[i].provenance)
                         /\ Q = Len(job[i].parents)
      OBVIOUS
    <2>2. /\ IsList(b) /\ H \in Nat /\ Q \in Nat /\ Len(b) = H + 2 + Q
          /\ b[H + 2] = q
      BY <1>6, <1>7, <2>1, RequestsForIsBlock DEF IsBlock, BeliefRequest
    <2>3. H + 2 \in DOMAIN b
      BY <2>2, ListFacts
    <2> QED
      BY <2>1, <2>2, <2>3 DEF ToSet
  <1>9. PICK k \in 1..n : S[k] = q
    <2>1. q \in ToSet(SubSeq(S, 1, n))
      BY <1>1, <1>4, <1>8 DEF Acknowledged
    <2> QED
      BY <1>2, <1>5, <2>1, PrefixSet
  <1>10. k \in 1..Len(S)
    BY <1>2, <1>5, <1>9
  <1>11. PICK j, l : InBlock(job, k, j, off[j], l)
    BY <1>2, <1>3, <1>10 DEF Placed
  <1>12. PICK b, H, Q : b = RequestsFor(job, j) /\ H = Len(job[j].provenance)
                        /\ Q = Len(job[j].parents)
    OBVIOUS
  <1>13. /\ j \in 1..Len(job) /\ off[j] \in Nat /\ l \in 1..Len(b) /\ k = off[j] + l
         /\ S[k] = b[l]
         /\ IsBlock(b, job, j)
    BY <1>2, <1>11, <1>12 DEF InBlock
  <1>14. /\ H \in Nat /\ Q \in Nat /\ Len(b) = H + 2 + Q
         /\ b[1] = WriteEvidence(job[j])
         /\ \A m \in 1..H : b[m + 1] = HopRequest(job[j], m)
         /\ b[H + 2] = BeliefRequest(job, j)
         /\ \A m \in 1..Q : b[H + 2 + m] = ParentRequest(job[j], m)
    BY <1>12, <1>13 DEF IsBlock, HopRequest, BeliefRequest, ParentRequest
  <1>15. b[l] = q /\ q.op = "belief" /\ q.id = job[i].evidence_id
    BY <1>6, <1>9, <1>13 DEF BeliefRequest, WriteBeliefState
  <1>16. l = H + 2
    <2>1. l # 1
      BY <1>14, <1>15 DEF WriteEvidence
    <2>2. ASSUME NEW m \in 1..H PROVE l # m + 1
      <3>1. b[m + 1] = HopRequest(job[j], m)
        BY <1>14
      <3>2. b[m + 1].op = "hop"
        BY <3>1 DEF HopRequest
      <3> QED
        BY <1>15, <3>2
    <2>3. ASSUME NEW m \in 1..Q PROVE l # H + 2 + m
      <3>1. b[H + 2 + m] = ParentRequest(job[j], m)
        BY <1>14
      <3>2. b[H + 2 + m].op = "parent"
        BY <3>1 DEF ParentRequest
      <3> QED
        BY <1>15, <3>2
    <2>4. ~(l \in 2..(H + 1))
      <3>1. l \in 2..(H + 1) => l - 1 \in 1..H /\ l = (l - 1) + 1
        BY <1>14
      <3> QED
        BY <2>2, <3>1
    <2>5. ~(l \in (H + 3)..(H + 2 + Q))
      <3>1. l \in (H + 3)..(H + 2 + Q) =>
               l - (H + 2) \in 1..Q /\ l = H + 2 + (l - (H + 2))
        BY <1>14
      <3> QED
        BY <2>3, <3>1
    <2> QED
      BY <1>13, <1>14, <2>1, <2>4, <2>5, SMTT(30)
  <1>17. job[j].evidence_id = job[i].evidence_id
    BY <1>14, <1>15, <1>16 DEF BeliefRequest, WriteBeliefState
  <1>18. j = i
    <2>1. <<r, j>> \in Jobs /\ EvidenceOf(<<r, j>>) = job[j]
      BY <1>1, <1>2, <1>13, JobIs
    <2>2. <<r, j>> \in JobsOn(job[i].evidence_id)
      BY <1>17, <2>1 DEF JobsOn
    <2> QED
      BY <1>1, <2>2 DEF Alone
  <1>19. StartOf(job, i) = off[j] /\ H = Len(job[i].provenance)
    BY <1>3, <1>12, <1>18
  <1>20. pc[r] - (off[j] + 1) > H
    <2>1. off[j] \in Nat /\ H \in Nat /\ n \in Nat /\ off[j] + (H + 2) <= n
          /\ pc[r] = n + 1
      BY <1>5, <1>9, <1>13, <1>14, <1>16
    <2>2. \A x, y, z \in Nat : x + (y + 2) <= z => (z + 1) - (x + 1) > y
      OBVIOUS
    <2> QED
      BY <2>1, <2>2
  <1> QED
    BY <1>1, <1>19, <1>20

(* What CustodyReadsBack says of evidence no call disturbed.                *)
ReadAsItIs(read, hops) ==
    /\ read = BagOfList(hops)
    /\ (\A k \in 2..Len(hops) : ByTime(hops[k - 1], hops[k])) =>
          \A k \in DOMAIN hops :
              {h \in BagToSet(read) : ByTime(h, hops[k])} = ToSet(SubSeq(hops, 1, k - 1))

(* A chain read exactly is in the order of its times.                       *)
LEMMA ListReadsInOrder ==
    ASSUME NEW c, IsChain(c)
    PROVE  ReadAsItIs(BagOfList(c), c)
  <1>1. PICK H : H = Len(c)
    OBVIOUS
  <1>2. IsList(c) /\ H \in Nat /\ DOMAIN c = 1..H
        /\ \A k \in 1..H : c[k].received_at \in Int
    <2>1. /\ H \in Nat
          /\ c = [x \in 1..H |-> [node |-> c[x].node, received_at |-> c[x].received_at]]
          /\ \A k \in 1..H : c[k].received_at \in Int
      BY <1>1 DEF IsChain
    <2>2. c = [x \in 1..H |-> c[x]]
      BY <2>1
    <2>3. IsList(c)
      BY <2>1, <2>2, FunctionIsList
    <2> QED
      BY <2>1, <2>3
  <1>3. DOMAIN BagOfList(c) = {c[k] : k \in 1..H}
    BY <1>2, ListBagIs DEF Counted
  <1> SUFFICES ASSUME \A x \in 2..H : ByTime(c[x - 1], c[x]), NEW k \in 1..H
               PROVE  {h \in BagToSet(BagOfList(c)) : ByTime(h, c[k])}
                        = ToSet(SubSeq(c, 1, k - 1))
    BY <1>1, <1>2 DEF ReadAsItIs
  <1>4. \A j \in 1..H : ByTime(c[j], c[k]) <=> j < k
    <2>1. PICK t : t = [x \in 1..H |-> c[x].received_at]
      OBVIOUS
    <2>2. \A x \in 1..H : t[x] \in Int /\ t[x] = c[x].received_at
      BY <1>2, <2>1
    <2>3. \A x \in 2..H : t[x - 1] < t[x]
      BY <1>2, <2>2 DEF ByTime
    <2>4. \A j \in 1..H : t[j] < t[k] <=> j < k
      BY <1>2, <2>2, <2>3, TimesTellPlaces
    <2> QED
      BY <2>2, <2>4 DEF ByTime
  <1>5. {h \in {c[j] : j \in 1..H} : ByTime(h, c[k])} = {c[j] : j \in 1..(k - 1)}
    <2>1. \A j \in 1..H : j < k <=> j \in 1..(k - 1)
      BY <1>2
    <2>2. \A j \in 1..(k - 1) : j \in 1..H
      BY <1>2
    <2> QED
      BY <1>4, <2>1, <2>2
  <1>6. ToSet(SubSeq(c, 1, k - 1)) = {c[j] : j \in 1..(k - 1)}
    <2>1. PICK n : n = k - 1
      OBVIOUS
    <2>2. n \in 0..Len(c)
      BY <1>1, <1>2, <2>1
    <2> QED
      BY <1>2, <2>1, <2>2, PrefixSet
  <1> QED
    BY <1>3, <1>5, <1>6 DEF BagToSet

(* Custody is read back as it was recorded: see CustodyReadsBack.           *)
THEOREM CustodyAlwaysReadsBack == Spec => []CustodyReadsBack
  <1>1. HelixInv /\ ExactInv => CustodyReadsBack
    <2> SUFFICES ASSUME HelixInv, ExactInv, NEW r \in Recorders
                 PROVE  /\ \A q \in Acknowledged(r) :
                              q.op = "hop" => q.hop \in Hops(graph, q.id)
                        /\ \A i \in DOMAIN work.jobs[r] :
                              /\ failures = 0
                              /\ Alone(r, i)
                              /\ ToSet(RequestsFor(work.jobs[r], i)) \subseteq Acknowledged(r)
                              => ReadAsItIs(ReadProvenance(graph, work.jobs[r][i].evidence_id),
                                            work.jobs[r][i].provenance)
      BY DEF CustodyReadsBack, Hops, Alone, ReadAsItIs
    <2>1. PICK S : S = Requests(r)
      OBVIOUS
    <2>2. IsList(S) /\ Len(S) \in Nat /\ IsJob(work.jobs[r])
          /\ DOMAIN work.jobs[r] = 1..Len(work.jobs[r])
      BY <2>1, WorkIsJobs, RequestsAre DEF HelixInv, HelixType, Recorders
    <2>3. pc[r] - 1 \in 0..Len(S)
      BY <2>1, <2>2 DEF HelixInv, HelixType
    <2>4. ASSUME NEW q \in Acknowledged(r), q.op = "hop"
          PROVE  q.hop \in Hops(graph, q.id)
      <3>1. PICK k \in 1..(pc[r] - 1) : q = S[k]
        BY <2>1, <2>2, <2>3, PrefixSet DEF Acknowledged
      <3>2. Acked(graph, S, k)
        BY <2>1 DEF HelixInv
      <3> QED
        BY <2>4, <3>1, <3>2 DEF Acked
    <2>5. ASSUME NEW i \in 1..Len(work.jobs[r]), failures = 0, Alone(r, i),
                 ToSet(RequestsFor(work.jobs[r], i)) \subseteq Acknowledged(r)
          PROVE  ReadAsItIs(ReadProvenance(graph, work.jobs[r][i].evidence_id),
                            work.jobs[r][i].provenance)
      <3>1. PICK e, c, H, n : /\ e = work.jobs[r][i] /\ c = e.provenance /\ H = Len(c)
                              /\ n = pc[r] - (StartOf(work.jobs[r], i) + 1)
        OBVIOUS
      <3>2. IsChain(c)
        BY <2>2, <3>1 DEF IsJob, Persistable
      <3>3. H \in Nat /\ DOMAIN c = 1..H
        BY <3>1, <3>2 DEF IsChain
      <3>4. Progress(graph, e, n)
        BY <2>5, <3>1 DEF ExactInv
      <3>5. n > H
        BY <2>5, <3>1, DoneWith
      <3>6. n \in Int
        <4>1. StartOf(work.jobs[r], i) \in Nat
          BY <2>2, <2>5, StartOfIs DEF Placed
        <4> QED
          BY <3>1, <4>1 DEF HelixInv, HelixType
      <3>7. Recorded(n, H) = H
        BY <3>3, <3>5, <3>6 DEF Recorded
      <3>8. Chained(graph, e.evidence_id, c, H)
        BY <3>1, <3>4, <3>7 DEF Progress
      <3>9. ReadProvenance(graph, e.evidence_id) = BagOfList(c)
        BY <3>3, <3>8, ChainReads
      <3> QED
        BY <3>1, <3>2, <3>9, ListReadsInOrder
    <2> QED
      BY <2>2, <2>4, <2>5
  <1> QED
    BY <1>1, HelixSafe, CustodyIsExact, PTL
=============================================================================
