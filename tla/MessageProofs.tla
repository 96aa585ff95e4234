--------------------------- MODULE MessageProofs ---------------------------
(***************************************************************************)
(* Theorems about messages: about Network for any nodes, links, sightings  *)
(* and hop bound, any pattern of loss, duplication and reordering, and     *)
(* about Wire for any evidence and any number of alterations.              *)
(*                                                                         *)
(* CustodyInv follows evidence from a sensor to the nodes: whatever is     *)
(* sent, in flight or held is a copy of a minted sighting that travelled   *)
(* the hops it names.  EngineInv adds that each engine is an exact         *)
(* function of what its node holds.  Together they are inductive.          *)
(*                                                                         *)
(* AlteredInv says what a message can have become: fields that were not    *)
(* altered are as they were written, a hexadecimal field that was is       *)
(* damaged, has other digits or, where older peers left it out, is gone,   *)
(* and a payload that was is one of those a change of bytes makes.         *)
(***************************************************************************)
EXTENDS Network, Wire, EvidenceProofs, FunctionTheorems

(* The copy of a sighting's evidence that has passed the given hops.        *)
Hop == [node : Nodes, received_at : {0}]

Copy(s, hops) ==
    [evidence_id    |-> Blake3(s[3]),
     observation_id |-> Blake3(s[3]),
     source_id      |-> s[1],
     subject        |-> s[2],
     received_at    |-> 0,
     expires_at     |-> Expiry,
     payload        |-> s[3],
     provenance     |-> hops,
     parents        |-> << >>,
     signature      |-> Sign(s[1], <<"seven/evidence/v1", Blake3(s[3]), s[3]>>)]

(* A node whom the copy reached along its hops: each held the copy with the *)
(* hops before its own and sent the copy with its own to the next.          *)
PathTo(s, hops, n) ==
    \A i \in 1..Len(hops) :
        /\ Copy(s, SubSeq(hops, 1, i - 1)) \in held[hops[i].node]
        /\ <<hops[i].node, IF i = Len(hops) THEN n ELSE hops[i + 1].node,
             Copy(s, SubSeq(hops, 1, i))>> \in sent

Travelled(e, n) ==
    /\ e.provenance \in Seq(Hop)
    /\ \E s \in Sightings :
          /\ e = Copy(s, e.provenance)
          /\ <<s[1], Copy(s, << >>)>> \in minted
          /\ PathTo(s, e.provenance, n)

(* Where evidence is and how it came there: what a sensor minted, what was  *)
(* handed to a link, what is in flight and what a node holds.               *)
MintedInv == minted \subseteq {<<s[1], Copy(s, << >>)>> : s \in Sightings}

SentInv ==
    \A x \in sent :
        /\ x = <<x[1], x[2], x[3]>>
        /\ <<x[1], x[2]>> \in Uplinks \cup Links
        /\ x[2] \in Nodes
        /\ Travelled(x[3], x[2])

WireInv ==
    /\ IsABag(wire)
    /\ \A m \in BagToSet(wire) :
          \E x \in sent : m = <<x[2], ToMessage(x[3], Domain)>>

HeldInv ==
    /\ DOMAIN held = Nodes
    /\ \A n \in Nodes : \A e \in held[n] : Travelled(e, n)

CustodyInv == MintedInv /\ SentInv /\ WireInv /\ HeldInv

(* An engine is an exact function of the payloads its node holds.           *)
Payloads(n, s) == {e.payload : e \in {x \in held[n] : x.subject = s}}

EngineInv ==
    /\ DOMAIN engine = Nodes
    /\ \A n \in Nodes :
          /\ IsEngine(engine[n])
          /\ KnowsWhatReached(engine[n])
          /\ \A s \in Subjects :
                engine[n].incorporated[s] = {Blake3(p) : p \in Payloads(n, s)}

-----------------------------------------------------------------------------
(* A sighting's evidence is a copy without hops; forwarding a copy yields   *)
(* the copy with one hop more; a copy verifies.                             *)
LEMMA CopyFacts ==
    ASSUME NEW s \in Sightings, NEW hops
    PROVE  /\ Originate(s[1], s[2], s[3], 0, Expiry) = Copy(s, << >>)
           /\ \A n : Forward(Copy(s, hops), n, 0)
                       = Copy(s, Append(hops, [node |-> n, received_at |-> 0]))
           /\ \A g : [Copy(s, hops) EXCEPT !.provenance = g] = Copy(s, g)
           /\ Copy(s, hops).provenance = hops
           /\ Copy(s, hops).source_id = s[1]
           /\ Copy(s, hops).subject = s[2]
           /\ Copy(s, hops).payload = s[3]
           /\ Copy(s, hops).observation_id = Blake3(s[3])
           /\ Verified(Copy(s, hops))
  <1>1. Originate(s[1], s[2], s[3], 0, Expiry) = Copy(s, << >>)
    BY DEF Originate, Copy, SigningPreimage
  <1>2. \A n : Forward(Copy(s, hops), n, 0)
                 = Copy(s, Append(hops, [node |-> n, received_at |-> 0]))
    <2> TAKE n
    <2> DEFINE longer == Append(hops, [node |-> n, received_at |-> 0])
    <2> DEFINE c == Copy(s, hops)
    <2>1. c.provenance = hops /\ c = [c EXCEPT !.received_at = 0]
      BY DEF Copy
    <2>2. DOMAIN c = {"evidence_id", "observation_id", "source_id", "subject",
                      "received_at", "expires_at", "payload", "provenance",
                      "parents", "signature"}
      BY DEF Copy
    <2>3. [c EXCEPT !.provenance = longer] = Copy(s, longer)
      <3> HIDE DEF longer
      <3> QED
        BY DEF Copy
    <2> HIDE DEF c
    <2>4. Forward(c, n, 0)
            = [c EXCEPT !.received_at = 0, !.provenance = longer]
      BY <2>1, <2>2 DEF Forward, Extended
    <2> HIDE DEF longer
    <2>5. [c EXCEPT !.received_at = 0, !.provenance = longer]
            = [[c EXCEPT !.received_at = 0] EXCEPT !.provenance = longer]
      OBVIOUS
    <2>6. Forward(c, n, 0) = Copy(s, longer)
      BY <2>1, <2>3, <2>4, <2>5
    <2> QED
      BY <2>6 DEF c, longer
  <1>3. \A g : [Copy(s, hops) EXCEPT !.provenance = g] = Copy(s, g)
    BY DEF Copy
  <1>4. /\ Copy(s, hops).provenance = hops
        /\ Copy(s, hops).source_id = s[1]
        /\ Copy(s, hops).subject = s[2]
        /\ Copy(s, hops).payload = s[3]
        /\ Copy(s, hops).evidence_id = Blake3(s[3])
        /\ Copy(s, hops).observation_id = Blake3(s[3])
        /\ Copy(s, hops).signature
             = Sign(s[1], <<"seven/evidence/v1", Blake3(s[3]), s[3]>>)
    BY DEF Copy
  <1>5. Copy(s, hops).signature # NoSignature
    BY <1>1, NetworkAssumption DEF NetworkAssumption, Copy
  <1>6. Verified(Copy(s, hops))
    BY <1>4, <1>5 DEF Verified, Verify, Integral, Authentic, SigningPreimage
  <1> QED
    BY <1>1, <1>2, <1>3, <1>4, <1>6

(* theMQL returns a copy as it was: received_at is 0 on both sides.         *)
LEMMA CopyReturns ==
    ASSUME NEW s \in Sightings, NEW hops
    PROVE  /\ Parse(ToMessage(Copy(s, hops), Domain)) = "Ok"
           /\ FromMessage(ToMessage(Copy(s, hops), Domain)) = Copy(s, hops)
  <1>1. IsEvidence(Copy(s, hops))
    BY DEF IsEvidence, Copy
  <1>2. Copy(s, hops).payload \in Decodable
    BY NetworkAssumption, CopyFacts DEF NetworkAssumption
  <1>3. [Copy(s, hops) EXCEPT !.received_at = 0] = Copy(s, hops)
    BY DEF Copy
  <1> QED
    BY <1>1, <1>2, <1>3, WrittenParses, WrittenReturns

(* What has travelled stays so: nothing minted, sent or held is taken back. *)
LEMMA TravelledStays ==
    ASSUME HeldInv, NEW e, NEW n, Travelled(e, n),
           minted \subseteq minted', sent \subseteq sent',
           \A k \in Nodes : held[k] \subseteq held'[k]
    PROVE  Travelled(e, n)'
  <1>1. PICK s \in Sightings : /\ e = Copy(s, e.provenance)
                               /\ <<s[1], Copy(s, << >>)>> \in minted
                               /\ PathTo(s, e.provenance, n)
    BY DEF Travelled
  <1>2. e.provenance \in Seq(Hop)
    BY DEF Travelled
  <1>3. \A i \in 1..Len(e.provenance) : e.provenance[i].node \in Nodes
    <2> DEFINE hops == e.provenance
    <2>1. \A h \in Hop : h.node \in Nodes
      BY DEF Hop
    <2> HIDE DEF hops
    <2>2. \A i \in 1..Len(hops) : hops[i] \in Hop
      BY <1>2 DEF hops
    <2> QED
      BY <2>1, <2>2 DEF hops
  <1>4. PathTo(s, e.provenance, n)'
    BY <1>1, <1>3 DEF PathTo
  <1> QED
    BY <1>1, <1>2, <1>4 DEF Travelled

-----------------------------------------------------------------------------
(* Nothing is anywhere at the start.                                        *)
LEMMA CustodyInit == Init => CustodyInv
  BY DEF Init, CustodyInv, MintedInv, SentInv, WireInv, HeldInv, IsABag,
         EmptyBag, BagToSet, SetToBag

(* A sighting enters minted with an empty chain and moves nothing else.     *)
LEMMA CustodyObserve ==
    ASSUME CustodyInv, NEW s \in Sightings, Observe(s[1], s[2], s[3])
    PROVE  CustodyInv'
  <1>1. /\ minted' = minted \cup {<<s[1], Copy(s, << >>)>>}
        /\ UNCHANGED <<sent, wire, held>>
    BY CopyFacts DEF Observe
  <1>2. \A e, n : Travelled(e, n) => Travelled(e, n)'
    BY <1>1, TravelledStays DEF CustodyInv, HeldInv
  <1>3. MintedInv'
    BY <1>1 DEF CustodyInv, MintedInv
  <1>4. SentInv' /\ HeldInv'
    BY <1>1, <1>2 DEF CustodyInv, SentInv, HeldInv
  <1>5. WireInv'
    BY <1>1 DEF CustodyInv, WireInv
  <1> QED
    BY <1>3, <1>4, <1>5 DEF CustodyInv

(* A link carries on what has travelled to where it is sent.                *)
LEMMA CustodyTransmit ==
    ASSUME CustodyInv, NEW from, NEW to \in Nodes,
           <<from, to>> \in Uplinks \cup Links, NEW e, Transmit(from, to, e),
           Travelled(e, to)'
    PROVE  CustodyInv'
  <1>1. /\ sent' = sent \cup {<<from, to, e>>}
        /\ UNCHANGED <<minted, held>>
    BY DEF Transmit
  <1>2. \A x, n : Travelled(x, n) => Travelled(x, n)'
    BY <1>1, TravelledStays DEF CustodyInv, HeldInv
  <1>3. MintedInv' /\ HeldInv'
    BY <1>1, <1>2 DEF CustodyInv, MintedInv, HeldInv
  <1>4. SentInv'
    <2>1. ASSUME NEW x \in sent
          PROVE  /\ x = <<x[1], x[2], x[3]>>
                 /\ <<x[1], x[2]>> \in Uplinks \cup Links
                 /\ x[2] \in Nodes
                 /\ Travelled(x[3], x[2])'
      BY <1>2 DEF CustodyInv, SentInv
    <2>2. ASSUME NEW x, x = <<from, to, e>>
          PROVE  /\ x = <<x[1], x[2], x[3]>>
                 /\ <<x[1], x[2]>> \in Uplinks \cup Links
                 /\ x[2] \in Nodes
                 /\ Travelled(x[3], x[2])'
      <3>1. x[1] = from /\ x[2] = to /\ x[3] = e
        BY <2>2
      <3> QED
        BY <2>2, <3>1
    <2>3. sent' = sent \cup {<<from, to, e>>}
      BY <1>1
    <2> QED
      BY <2>1, <2>2, <2>3 DEF SentInv
  <1>5. WireInv'
    <2> DEFINE m == <<to, ToMessage(e, Domain)>>
    <2>1. IsABag(wire')
          /\ BagToSet(wire') \subseteq BagToSet(wire) \cup {m}
      <3>1. PICK n \in Copies :
              wire' = wire (+) [x \in IF n = 0 THEN {} ELSE {m} |-> n]
        BY DEF Transmit
      <3>2. IsABag(wire) /\ n \in Nat
        BY DEF CustodyInv, WireInv, Copies
      <3> HIDE DEF m
      <3>3. CASE n = 0
        <4>1. wire' = wire (+) [x \in {} |-> 0]
          BY <3>1, <3>3
        <4> QED
          BY <3>2, <4>1 DEF IsABag, (+), BagToSet
      <3>4. CASE n # 0
        <4>1. wire' = wire (+) [x \in {m} |-> n] /\ n \in Nat \ {0}
          BY <3>1, <3>2, <3>4
        <4> QED
          BY <3>2, <4>1 DEF IsABag, (+), BagToSet
      <3> QED
        BY <3>3, <3>4
    <2>2. \E x \in sent' : m = <<x[2], ToMessage(x[3], Domain)>>
      <3> DEFINE x == <<from, to, e>>
      <3>1. x \in sent' /\ x[2] = to /\ x[3] = e
        BY <1>1
      <3> QED
        BY <3>1
    <2>3. \A y \in BagToSet(wire) :
            \E x \in sent' : y = <<x[2], ToMessage(x[3], Domain)>>
      BY <1>1 DEF CustodyInv, WireInv
    <2> HIDE DEF m
    <2> QED
      BY <2>1, <2>2, <2>3 DEF WireInv
  <1> QED
    BY <1>3, <1>4, <1>5 DEF CustodyInv

(* A sensor's report has no hops: there is no path to account for.          *)
LEMMA CustodyReport ==
    ASSUME CustodyInv, NEW u \in Uplinks, Report(u[1], u[2])
    PROVE  CustodyInv'
  <1>1. PICK e \in {m[2] : m \in {x \in minted : x[1] = u[1]}} :
          Transmit(u[1], u[2], e)
    BY DEF Report
  <1>2. PICK s \in Sightings : /\ e = Copy(s, << >>)
                               /\ <<s[1], Copy(s, << >>)>> \in minted
    BY <1>1 DEF CustodyInv, MintedInv
  <1>3. UNCHANGED <<minted, held>>
    BY <1>1 DEF Transmit
  <1>4. Travelled(e, u[2])'
    <2>1. e.provenance = << >> /\ << >> \in Seq(Hop)
      <3>1. e = Copy(s, << >>)
        BY <1>2
      <3>2. Copy(s, << >>).provenance = << >>
        BY DEF Copy
      <3> QED
        BY <3>1, <3>2
    <2>2. PathTo(s, << >>, u[2])'
      BY DEF PathTo
    <2> QED
      BY <1>2, <1>3, <2>1, <2>2 DEF Travelled
  <1>5. u[2] \in Nodes /\ <<u[1], u[2]>> \in Uplinks \cup Links
    BY NetworkAssumption DEF NetworkAssumption
  <1> QED
    BY <1>1, <1>4, <1>5, CustodyTransmit

(* A relay's copy has one hop more, the relay itself, which held the copy   *)
(* with the hops before and hands on the new one.                           *)
LEMMA CustodyRelay ==
    ASSUME CustodyInv, NEW l \in Links, Relay(l[1], l[2])
    PROVE  CustodyInv'
  <1> DEFINE from == l[1]
             to   == l[2]
             hop  == [node |-> from, received_at |-> 0]
  <1>1. from \in Nodes /\ to \in Nodes /\ <<from, to>> \in Uplinks \cup Links
    BY NetworkAssumption DEF NetworkAssumption
  <1>2. PICK e \in held[from] : Transmit(from, to, Forward(e, from, 0))
    BY DEF Relay
  <1>3. Travelled(e, from)
    BY <1>1, <1>2 DEF CustodyInv, HeldInv
  <1>4. PICK s \in Sightings : /\ e = Copy(s, e.provenance)
                               /\ <<s[1], Copy(s, << >>)>> \in minted
                               /\ PathTo(s, e.provenance, from)
    BY <1>3 DEF Travelled
  <1> DEFINE old == e.provenance
             new == Append(old, hop)
             f   == Forward(e, from, 0)
  <1>5. /\ old \in Seq(Hop) /\ hop \in Hop /\ new \in Seq(Hop)
        /\ Len(new) = Len(old) + 1 /\ Len(old) \in Nat
        /\ \A i \in 1..Len(old) : new[i] = old[i]
        /\ new[Len(old) + 1] = hop
        /\ \A i \in 0..Len(old) : SubSeq(new, 1, i) = SubSeq(old, 1, i)
        /\ SubSeq(old, 1, Len(old)) = old
        /\ SubSeq(new, 1, Len(new)) = new
    <2>1. old \in Seq(Hop) /\ hop \in Hop
      BY <1>1, <1>3 DEF Travelled, Hop
    <2> HIDE DEF old, hop
    <2> QED
      BY <2>1
  <1>6. f = Copy(s, new) /\ f.provenance = new
    <2>1. Forward(Copy(s, old), from, 0) = Copy(s, new)
      BY CopyFacts
    <2>2. Copy(s, new).provenance = new
      BY DEF Copy
    <2> QED
      BY <1>4, <2>1, <2>2
  <1>7. /\ sent' = sent \cup {<<from, to, f>>}
        /\ UNCHANGED <<minted, held>>
    BY <1>2 DEF Transmit
  <1> HIDE DEF old, new, f, hop
  <1>8. PathTo(s, new, to)'
    <2> SUFFICES ASSUME NEW i \in 1..Len(new)
                 PROVE  /\ Copy(s, SubSeq(new, 1, i - 1)) \in held[new[i].node]
                        /\ <<new[i].node,
                             IF i = Len(new) THEN to ELSE new[i + 1].node,
                             Copy(s, SubSeq(new, 1, i))>> \in sent'
      BY <1>7 DEF PathTo
    <2>1. CASE i = Len(old) + 1
      <3>1. SubSeq(new, 1, i - 1) = old /\ new[i].node = from
        BY <1>5, <2>1 DEF hop
      <3>2. Copy(s, old) \in held[from]
        BY <1>2, <1>4 DEF old
      <3>3. SubSeq(new, 1, i) = new /\ i = Len(new)
        BY <1>5, <2>1
      <3> QED
        BY <1>6, <1>7, <3>1, <3>2, <3>3
    <2>2. CASE i \in 1..Len(old)
      <3>1. /\ SubSeq(new, 1, i - 1) = SubSeq(old, 1, i - 1)
            /\ SubSeq(new, 1, i) = SubSeq(old, 1, i)
            /\ new[i] = old[i]
            /\ i # Len(new)
        BY <1>5, <2>2
      <3>2. new[i + 1].node = IF i = Len(old) THEN from ELSE old[i + 1].node
        <4>1. CASE i = Len(old)
          <5>1. new[i + 1] = hop
            BY <1>5, <4>1
          <5>2. hop.node = from
            BY DEF hop
          <5> QED
            BY <4>1, <5>1, <5>2
        <4>2. CASE i # Len(old)
          <5>1. i + 1 \in 1..Len(old)
            <6>1. Len(old) \in Nat
              BY <1>5
            <6> QED
              BY <2>2, <4>2, <6>1
          <5>2. new[i + 1] = old[i + 1]
            BY <1>5, <5>1
          <5> QED
            BY <4>2, <5>2
        <4> QED
          BY <4>1, <4>2
      <3>3. /\ Copy(s, SubSeq(old, 1, i - 1)) \in held[old[i].node]
            /\ <<old[i].node, IF i = Len(old) THEN from ELSE old[i + 1].node,
                 Copy(s, SubSeq(old, 1, i))>> \in sent
        BY <1>4, <2>2 DEF PathTo, old
      <3> QED
        BY <1>7, <3>1, <3>2, <3>3
    <2> QED
      BY <1>5, <2>1, <2>2
  <1>9. Travelled(f, to)'
    BY <1>4, <1>5, <1>6, <1>7, <1>8 DEF Travelled
  <1> QED
    BY <1>1, <1>2, <1>9, CustodyTransmit DEF f

(* What is in flight is a copy that travelled to its receiver.              *)
LEMMA InFlight ==
    ASSUME CustodyInv, NEW node \in Nodes, NEW m \in BagToSet(wire), m[1] = node
    PROVE  /\ Parse(m[2]) = "Ok"
           /\ Travelled(FromMessage(m[2]), node)
           /\ \E s \in Sightings, hops \in Seq(Hop) :
                 FromMessage(m[2]) = Copy(s, hops)
  <1>1. PICK x \in sent : m = <<x[2], ToMessage(x[3], Domain)>>
    BY DEF CustodyInv, WireInv
  <1>2. Travelled(x[3], node)
    BY <1>1 DEF CustodyInv, SentInv
  <1>3. PICK s \in Sightings : x[3] = Copy(s, x[3].provenance)
    BY <1>2 DEF Travelled
  <1>4. Parse(m[2]) = "Ok" /\ FromMessage(m[2]) = x[3]
    BY <1>1, <1>3, CopyReturns
  <1> QED
    BY <1>2, <1>3, <1>4 DEF Travelled

(* What is taken off the wire had been sent, so the receiver holds what the *)
(* last hop held and sent.                                                  *)
LEMMA CustodyReceive ==
    ASSUME CustodyInv, NEW node \in Nodes, Receive(node)
    PROVE  CustodyInv'
  <1>1. PICK m \in BagToSet(wire) :
          /\ m[1] = node
          /\ wire' = wire (-) SetToBag({m})
          /\ held' = [held EXCEPT ![node] = @ \cup {FromMessage(m[2])}]
          /\ UNCHANGED <<minted, sent>>
    BY DEF Receive
  <1>2. Travelled(FromMessage(m[2]), node)
    BY <1>1, InFlight
  <1>3. /\ DOMAIN held = Nodes /\ DOMAIN held' = Nodes
        /\ held'[node] = held[node] \cup {FromMessage(m[2])}
        /\ \A k \in Nodes \ {node} : held'[k] = held[k]
    BY <1>1 DEF CustodyInv, HeldInv
  <1>4. \A x, n : Travelled(x, n) => Travelled(x, n)'
    BY <1>1, <1>3, TravelledStays DEF CustodyInv
  <1>5. MintedInv' /\ SentInv'
    BY <1>1, <1>4 DEF CustodyInv, MintedInv, SentInv
  <1>6. HeldInv'
    BY <1>2, <1>3, <1>4 DEF CustodyInv, HeldInv
  <1>7. WireInv'
    <2>1. IsABag(wire') /\ BagToSet(wire') \subseteq BagToSet(wire)
      BY <1>1 DEF CustodyInv, WireInv, IsABag, (-), BagToSet, SetToBag
    <2> QED
      BY <1>1, <2>1 DEF CustodyInv, WireInv
  <1> QED
    BY <1>5, <1>6, <1>7 DEF CustodyInv

(* Every step of the network keeps custody true.                            *)
LEMMA CustodyStep == CustodyInv /\ [Next]_vars => CustodyInv'
  <1> SUFFICES ASSUME CustodyInv, [Next]_vars PROVE CustodyInv'
    OBVIOUS
  <1>1. CASE UNCHANGED vars
    <2>1. minted' = minted /\ sent' = sent /\ wire' = wire /\ held' = held
      BY <1>1 DEF vars
    <2>2. \A e, n : Travelled(e, n) => Travelled(e, n)'
      BY <2>1, TravelledStays DEF CustodyInv
    <2>3. MintedInv' /\ WireInv'
      BY <2>1 DEF CustodyInv, MintedInv, WireInv
    <2>4. SentInv' /\ HeldInv'
      BY <2>1, <2>2 DEF CustodyInv, SentInv, HeldInv
    <2> QED
      BY <2>3, <2>4 DEF CustodyInv
  <1>2. ASSUME NEW s \in Sightings, Observe(s[1], s[2], s[3]) PROVE CustodyInv'
    BY <1>2, CustodyObserve
  <1>3. ASSUME NEW u \in Uplinks, Report(u[1], u[2]) PROVE CustodyInv'
    BY <1>3, CustodyReport
  <1>4. ASSUME NEW l \in Links, Relay(l[1], l[2]) PROVE CustodyInv'
    BY <1>4, CustodyRelay
  <1>5. ASSUME NEW n \in Nodes, Receive(n) PROVE CustodyInv'
    BY <1>5, CustodyReceive
  <1> QED
    BY <1>1, <1>2, <1>3, <1>4, <1>5 DEF Next

(* Custody is true of every reachable state.                                *)
THEOREM CustodyIsKept == Spec => []CustodyInv
  BY CustodyInit, CustodyStep, PTL DEF Spec

-----------------------------------------------------------------------------
(* No engine has been told anything at the start.                           *)
LEMMA EngineInit == Init => EngineInv
  <1> SUFFICES ASSUME Init PROVE EngineInv
    OBVIOUS
  <1>1. /\ engine = [n \in Nodes |-> NewEngine]
        /\ \A n \in Nodes, s \in Subjects : Payloads(n, s) = {}
    BY DEF Init, Payloads
  <1>2. \A s \in Subjects : NewEngine.incorporated[s] = {}
    BY DEF NewEngine
  <1> QED
    BY <1>1, <1>2, NewEngineKnows DEF EngineInv

(* A copy that arrives is verified and decodes: it is either a duplicate,   *)
(* whose payload the node already holds, or fused.                          *)
LEMMA EngineReceive ==
    ASSUME CustodyInv, EngineInv, NEW node \in Nodes, Receive(node)
    PROVE  EngineInv'
  <1>1. PICK m \in BagToSet(wire) :
          /\ m[1] = node
          /\ held' = [held EXCEPT ![node] = @ \cup {FromMessage(m[2])}]
          /\ engine' = [engine EXCEPT ![node] =
                           EngineAfter(@, FromMessage(m[2]))]
    BY DEF Receive
  <1> DEFINE e == FromMessage(m[2])
             eng == engine[node]
             after == engine'[node]
  <1>2. PICK z \in Sightings, hops \in Seq(Hop) : e = Copy(z, hops)
    BY <1>1, InFlight
  <1>3. /\ Verified(e) /\ Decodes(e)
        /\ e.subject \in Subjects
        /\ e.observation_id = Blake3(e.payload)
    BY <1>2, CopyFacts, NetworkAssumption DEF NetworkAssumption, Decodes
  <1> HIDE DEF e
  <1>4. /\ DOMAIN engine' = Nodes /\ DOMAIN held = Nodes
        /\ after = EngineAfter(eng, e)
        /\ held'[node] = held[node] \cup {e}
        /\ \A n \in Nodes \ {node} :
              engine'[n] = engine[n] /\ held'[n] = held[n]
    BY <1>1 DEF EngineInv, CustodyInv, HeldInv, e
  <1>5. /\ IsEngine(eng) /\ KnowsWhatReached(eng)
        /\ \A s \in Subjects :
              eng.incorporated[s] = {Blake3(p) : p \in Payloads(node, s)}
    BY DEF EngineInv
  <1> HIDE DEF eng, after
  <1>6. \A s \in Subjects :
          Payloads(node, s)' = IF s = e.subject
                               THEN Payloads(node, s) \cup {e.payload}
                               ELSE Payloads(node, s)
    BY <1>4 DEF Payloads
  <1>7. /\ IsEngine(after) /\ KnowsWhatReached(after)
        /\ \A s \in Subjects :
              after.incorporated[s] = IF s = e.subject
                THEN eng.incorporated[s] \cup {Blake3(e.payload)}
                ELSE eng.incorporated[s]
    <2>1. CASE Duplicate(eng, e)
      <3>1. after = eng
        BY <1>4, <2>1 DEF EngineAfter
      <3>2. Blake3(e.payload) \in eng.incorporated[e.subject]
        BY <1>3, <2>1 DEF Duplicate
      <3> QED
        BY <1>5, <3>1, <3>2
    <2>2. CASE ~Duplicate(eng, e)
      <3>1. after = Fused(Gated(eng, e), e)
        BY <1>3, <1>4, <2>2 DEF EngineAfter
      <3>2. /\ IsEngine(after) /\ KnowsWhatReached(after)
            /\ after.incorporated = [eng.incorporated EXCEPT
                                       ![e.subject] = @ \cup {e.observation_id}]
        BY <1>3, <1>5, <2>2, <3>1, FusedKnows, NetworkAssumption
        DEF NetworkAssumption
      <3>3. DOMAIN eng.incorporated = Subjects
        BY <1>5 DEF IsEngine
      <3> QED
        BY <1>3, <3>2, <3>3
    <2> QED
      BY <2>1, <2>2
  <1>8. \A s \in Subjects :
          after.incorporated[s] = {Blake3(p) : p \in Payloads(node, s)'}
    <2> TAKE s \in Subjects
    <2> DEFINE P == Payloads(node, s)
    <2>1. eng.incorporated[s] = {Blake3(p) : p \in P}
      BY <1>5
    <2>2. CASE s = e.subject
      <3>1. after.incorporated[s]
              = eng.incorporated[s] \cup {Blake3(e.payload)}
        BY <1>7, <2>2
      <3>2. P' = P \cup {e.payload}
        BY <1>6, <2>2
      <3> HIDE DEF P
      <3>3. {Blake3(p) : p \in P \cup {e.payload}}
              = {Blake3(p) : p \in P} \cup {Blake3(e.payload)}
        OBVIOUS
      <3>4. after.incorporated[s] = {Blake3(p) : p \in P'}
        BY <2>1, <3>1, <3>2, <3>3
      <3> QED
        BY <3>4 DEF P
    <2>3. CASE s # e.subject
      BY <1>6, <1>7, <2>1, <2>3
    <2> QED
      BY <2>2, <2>3
  <1>9. ASSUME NEW n \in Nodes \ {node}
        PROVE  /\ IsEngine(engine'[n]) /\ KnowsWhatReached(engine'[n])
               /\ \A s \in Subjects :
                     engine'[n].incorporated[s]
                       = {Blake3(p) : p \in Payloads(n, s)'}
    BY <1>4 DEF EngineInv, Payloads
  <1>10. ASSUME NEW n \in Nodes
         PROVE  /\ IsEngine(engine'[n]) /\ KnowsWhatReached(engine'[n])
                /\ \A s \in Subjects :
                      engine'[n].incorporated[s]
                        = {Blake3(p) : p \in Payloads(n, s)'}
    BY <1>7, <1>8, <1>9 DEF after
  <1> QED
    BY <1>4, <1>10 DEF EngineInv, IsEngine, KnowsWhatReached, Reached,
       TrackOrPrior, IsPosterior, Over

(* Only Receive changes an engine, and it adds the payload it adds to held. *)
LEMMA EngineStep ==
    CustodyInv /\ EngineInv /\ [Next]_vars => EngineInv'
  <1> SUFFICES ASSUME CustodyInv, EngineInv, [Next]_vars PROVE EngineInv'
    OBVIOUS
  <1>1. CASE engine' = engine /\ held' = held
    BY <1>1, SMTT(30) DEF EngineInv, Payloads, IsEngine, KnowsWhatReached, Reached,
       TrackOrPrior, IsPosterior, Over
  <1>2. CASE UNCHANGED vars
    BY <1>1, <1>2 DEF vars
  <1>3. ASSUME NEW s \in Sightings, Observe(s[1], s[2], s[3]) PROVE EngineInv'
    BY <1>1, <1>3 DEF Observe
  <1>4. ASSUME NEW u \in Uplinks, Report(u[1], u[2]) PROVE EngineInv'
    BY <1>1, <1>4 DEF Report, Transmit
  <1>5. ASSUME NEW l \in Links, Relay(l[1], l[2]) PROVE EngineInv'
    BY <1>1, <1>5 DEF Relay, Transmit
  <1>6. ASSUME NEW n \in Nodes, Receive(n) PROVE EngineInv'
    BY <1>6, EngineReceive
  <1> QED
    BY <1>2, <1>3, <1>4, <1>5, <1>6 DEF Next

(* Every engine is, in every reachable state, an exact function of what its *)
(* node holds.                                                              *)
THEOREM EnginesKnowWhatIsHeld == Spec => []EngineInv
  BY CustodyInit, CustodyStep, EngineInit, EngineStep, PTL DEF Spec

(* All that reached a node's engine is of the payloads it holds.            *)
LEMMA ReachedIsHeld ==
    ASSUME CustodyInv, EngineInv, NEW n \in Nodes, NEW s \in Subjects
    PROVE  /\ Reached(engine[n], s) = engine[n].incorporated[s]
           /\ Cardinality(engine[n].incorporated[s])
                = Cardinality(Payloads(n, s))
           /\ engine[n].incorporated[s] = {} <=> Payloads(n, s) = {}
  <1> DEFINE I == engine[n].incorporated[s]
             P == Payloads(n, s)
  <1>1. I = {Blake3(p) : p \in P} /\ IsFiniteSet(Reached(engine[n], s))
    BY DEF EngineInv, KnowsWhatReached
  <1>2. P \subseteq DOMAIN Measured
    <2> SUFFICES ASSUME NEW e \in held[n] PROVE e.payload \in DOMAIN Measured
      BY DEF Payloads
    <2>1. PICK z \in Sightings : e = Copy(z, e.provenance)
      BY DEF CustodyInv, HeldInv, Travelled
    <2>2. Copy(z, e.provenance).payload = z[3]
      BY DEF Copy
    <2> QED
      BY <2>1, <2>2, NetworkAssumption DEF NetworkAssumption
  <1> HIDE DEF I, P
  <1>3. \A p : Blake3(p).blake3 = p
    BY DEF Blake3
  <1>4. Reached(engine[n], s) = I
    BY <1>1, <1>2, <1>3 DEF Reached, I
  <1>5. ExistsBijection(I, P)
    <2> DEFINE f == [o \in I |-> o.blake3]
    <2>1. /\ f \in [I -> P]
          /\ \A a, b \in I : f[a] = f[b] => a = b
          /\ \A p \in P : \E o \in I : f[o] = p
      BY <1>1, <1>3
    <2> HIDE DEF f
    <2> QED
      BY <2>1, Fun_IsBij DEF ExistsBijection
  <1> QED
    BY <1>1, <1>4, <1>5, FS_Bijection DEF I, P

-----------------------------------------------------------------------------
(* The bookkeeping of the network is what its comments say, and every       *)
(* message in flight parses.                                                *)
THEOREM NetworkTypeCorrect == Spec => []TypeOK
  <1>1. CustodyInv /\ EngineInv => TypeOK
    <2> SUFFICES ASSUME CustodyInv, EngineInv PROVE TypeOK
      OBVIOUS
    <2>1. ASSUME NEW x \in minted
          PROVE  x[1] = x[2].source_id /\ Verified(x[2])
      <3>1. PICK s \in Sightings : x = <<s[1], Copy(s, << >>)>>
        BY DEF CustodyInv, MintedInv
      <3>2. Copy(s, << >>).source_id = s[1] /\ Verified(Copy(s, << >>))
        BY CopyFacts
      <3> QED
        BY <3>1, <3>2
    <2>2. ASSUME NEW m \in BagToSet(wire) PROVE m[1] \in Nodes
      <3>1. PICK x \in sent : m = <<x[2], ToMessage(x[3], Domain)>>
        BY DEF CustodyInv, WireInv
      <3>2. x[2] \in Nodes
        BY DEF CustodyInv, SentInv
      <3> QED
        BY <3>1, <3>2
    <2>3. \A m \in BagToSet(wire) : Parse(m[2]) = "Ok"
      BY <2>2, InFlight
    <2> QED
      BY <2>1, <2>2, <2>3
      DEF TypeOK, CustodyInv, SentInv, WireInv, HeldInv, EngineInv
  <1> QED
    BY <1>1, CustodyIsKept, EnginesKnowWhatIsHeld, PTL

(* Invariant 7: whatever was lost, duplicated or reordered, the custody     *)
(* chain of evidence a node holds is a path the evidence took.              *)
THEOREM CustodyPathsAreReal == Spec => []CustodyIsAPath
  <1>1. CustodyInv => CustodyIsAPath
    <2> SUFFICES ASSUME CustodyInv, NEW n \in Nodes, NEW e \in held[n],
                        NEW i \in 1..Len(e.provenance)
                 PROVE  LET hops == e.provenance
                            upTo(j) == [e EXCEPT !.provenance = SubSeq(hops, 1, j)]
                            at(j) == IF j > Len(hops) THEN n ELSE hops[j].node
                        IN  /\ upTo(i - 1) \in held[hops[i].node]
                            /\ <<hops[i].node, at(i + 1), upTo(i)>> \in sent
      BY DEF CustodyIsAPath
    <2> DEFINE hops == e.provenance
    <2>1. hops \in Seq(Hop) /\ Travelled(e, n)
      BY DEF CustodyInv, HeldInv, Travelled
    <2>2. PICK s \in Sightings : e = Copy(s, hops) /\ PathTo(s, hops, n)
      BY <2>1 DEF Travelled
    <2>3. \A g : [e EXCEPT !.provenance = g] = Copy(s, g)
      BY <2>2, CopyFacts
    <2> HIDE DEF hops
    <2>4. /\ Copy(s, SubSeq(hops, 1, i - 1)) \in held[hops[i].node]
          /\ <<hops[i].node, IF i = Len(hops) THEN n ELSE hops[i + 1].node,
               Copy(s, SubSeq(hops, 1, i))>> \in sent
      BY <2>2 DEF PathTo, hops
    <2>5. (i = Len(hops)) <=> (i + 1 > Len(hops))
      BY <2>1 DEF hops
    <2> QED
      BY <2>3, <2>4, <2>5 DEF hops
  <1> QED
    BY <1>1, CustodyIsKept, PTL

(* Invariant 6: no hop mints an identity.                                   *)
THEOREM RelaysMintNothing == Spec => []ForwardingMintsNothing
  <1>1. CustodyInv /\ EngineInv => ForwardingMintsNothing
    <2> SUFFICES ASSUME CustodyInv, EngineInv, NEW n \in Nodes
                 PROVE  /\ \A e \in held[n] :
                              <<e.source_id, [e EXCEPT !.provenance = << >>]>>
                                \in minted
                        /\ \A s \in Subjects : \A o \in engine[n].incorporated[s] :
                              \E m \in minted : m[2].subject = s
                                               /\ m[2].observation_id = o
      BY DEF ForwardingMintsNothing
    <2>1. ASSUME NEW e \in held[n]
          PROVE  /\ <<e.source_id, [e EXCEPT !.provenance = << >>]>> \in minted
                 /\ \E m \in minted : /\ m[2].subject = e.subject
                                      /\ m[2].observation_id = Blake3(e.payload)
      <3>1. PICK z \in Sightings : /\ e = Copy(z, e.provenance)
                                   /\ <<z[1], Copy(z, << >>)>> \in minted
        BY DEF CustodyInv, HeldInv, Travelled
      <3>2. /\ e.source_id = z[1] /\ e.subject = z[2] /\ e.payload = z[3]
            /\ [e EXCEPT !.provenance = << >>] = Copy(z, << >>)
        BY <3>1, CopyFacts
      <3>3. /\ Copy(z, << >>).subject = z[2]
            /\ Copy(z, << >>).observation_id = Blake3(z[3])
        BY CopyFacts
      <3> QED
        BY <3>1, <3>2, <3>3
    <2>2. ASSUME NEW s \in Subjects, NEW o \in engine[n].incorporated[s]
          PROVE  \E m \in minted : m[2].subject = s /\ m[2].observation_id = o
      <3>1. PICK e \in held[n] : e.subject = s /\ o = Blake3(e.payload)
        BY DEF EngineInv, Payloads
      <3> QED
        BY <2>1, <3>1
    <2> QED
      BY <2>1, <2>2
  <1> QED
    BY <1>1, CustodyIsKept, EnginesKnowWhatIsHeld, PTL

(* Invariant 9 end to end: every copy of an observation but the first is    *)
(* ignored by every counter.                                                *)
THEOREM CopiesAreNotCounted == Spec => []CountersIgnoreCopies
  <1>1. CustodyInv /\ EngineInv => CountersIgnoreCopies
    <2> SUFFICES ASSUME CustodyInv, EngineInv,
                        NEW n \in Nodes, NEW s \in Subjects
                 PROVE  IF Payloads(n, s) = {}
                        THEN engine[n].tracks[s] = NoTrack
                        ELSE engine[n].tracks[s].independent_updates
                               = Cardinality(Dims) * Cardinality(Payloads(n, s))
      BY DEF CountersIgnoreCopies, Payloads
    <2>1. /\ engine[n].tracks[s] = NoTrack <=> Payloads(n, s) = {}
          /\ TrackOrPrior(engine[n], s).independent_updates
               = Cardinality(Dims) * Cardinality(Payloads(n, s))
      BY ReachedIsHeld DEF EngineInv, KnowsWhatReached
    <2> QED
      BY <2>1 DEF TrackOrPrior
  <1> QED
    BY <1>1, CustodyIsKept, EnginesKnowWhatIsHeld, PTL

(* Invariant 13: nodes that incorporated the same observations of a subject *)
(* believe the same of it, whichever way and in whichever order the         *)
(* evidence came.                                                           *)
THEOREM NodesConverge == Spec => []EvidenceSetsConverge
  <1>1. CustodyInv /\ EngineInv => EvidenceSetsConverge
    <2> SUFFICES ASSUME CustodyInv, EngineInv,
                        NEW n \in Nodes, NEW m \in Nodes, NEW s \in Subjects,
                        engine[n].incorporated[s] = engine[m].incorporated[s]
                 PROVE  SameBelief(engine[n].tracks[s], engine[m].tracks[s])
      BY DEF EvidenceSetsConverge
    <2> DEFINE t == engine[n].tracks[s]
               u == engine[m].tracks[s]
               S == Reached(engine[n], s)
    <2>1. Reached(engine[m], s) = S
      BY ReachedIsHeld
    <2>2. /\ IsFiniteSet(S) /\ S \subseteq Observations
          /\ t = NoTrack <=> S = {}
          /\ IsPosterior(TrackOrPrior(engine[n], s), ValueOf, S)
          /\ TrackOrPrior(engine[n], s).independent_updates
               = Cardinality(Dims) * Cardinality(S)
      BY DEF EngineInv, KnowsWhatReached
    <2>3. /\ u = NoTrack <=> S = {}
          /\ IsPosterior(TrackOrPrior(engine[m], s), ValueOf, S)
          /\ TrackOrPrior(engine[m], s).independent_updates
               = Cardinality(Dims) * Cardinality(S)
      BY <2>1 DEF EngineInv, KnowsWhatReached
    <2>4. CASE t = NoTrack
      BY <2>2, <2>3, <2>4 DEF SameBelief
    <2>5. CASE t # NoTrack
      <3>1. /\ u # NoTrack
            /\ TrackOrPrior(engine[n], s) = t /\ TrackOrPrior(engine[m], s) = u
        BY <2>2, <2>3, <2>5 DEF TrackOrPrior
      <3> HIDE DEF t, u, S
      <3>2. \A d \in Dims : \A x \in S : ValueOf[d][x] \in Int
        BY <2>2, ValueOfType
      <3>3. \A d \in Dims :
              /\ t.mean[d].num * u.mean[d].den = u.mean[d].num * t.mean[d].den
              /\ t.var[d].num * u.var[d].den = u.var[d].num * t.var[d].den
        BY <2>2, <2>3, <3>1, <3>2, PosteriorIsUnique
      <3> QED
        BY <2>2, <2>3, <2>5, <3>1, <3>3 DEF SameBelief, SameRat, t, u
    <2> QED
      BY <2>4, <2>5
  <1> QED
    BY <1>1, CustodyIsKept, EnginesKnowWhatIsHeld, PTL

-----------------------------------------------------------------------------
(* What a message was when it was written, and what damage makes of a field.*)
Written == ToMessage(original, SenderDomain)

Damaged(h) == [encodes : {h.encodes, OtherBytes}, damage : Damages \cup {"none"}]

AlteredInv ==
    /\ original \in Originals
    /\ message = [f \in DOMAIN Written |-> message[f]]
    /\ altered
         \subseteq HexFields \cup OptionalLater \cup {"subject", "kind", "payload"}
    /\ message.payload \in {original.payload} \cup OtherPayloads
    /\ \A f \in DOMAIN Written \ altered : message[f] = Written[f]
    /\ \A f \in HexFields \cap altered :
          \/ f = "source_id" /\ message[f] = Absent
          \/ Written[f] # Absent /\ message[f] \in Damaged(Written[f])

-----------------------------------------------------------------------------
(* The fields of a written message.                                         *)
LEMMA WrittenFields ==
    ASSUME original \in Originals
    PROVE  /\ DOMAIN Written = {"subject", "kind", "payload", "evidence_id",
                                "observation_id", "source_id", "provenance",
                                "expires_at", "parents", "signature"}
           /\ Written.kind = "Bytes/Postcard"
           /\ Written.payload = original.payload
           /\ Written.subject = <<"seven", SenderDomain, original.subject, "evidence">>
           /\ Written.evidence_id = Hex(original.evidence_id)
           /\ Written.observation_id = Hex(original.observation_id)
           /\ Written.source_id = Hex(original.source_id)
           /\ Written.signature = IF original.signature = NoSignature
                                  THEN Absent ELSE Hex(original.signature)
           /\ Written.provenance = [hops |-> original.provenance]
           /\ Written.parents = [i \in DOMAIN original.parents |->
                                   Hex(original.parents[i])]
  BY DEF Written, ToMessage, EvidenceSubject

(* What damage and changed digits make of a hexadecimal text.               *)
LEMMA DamageIsDamage ==
    ASSUME NEW x
    PROVE  /\ \A damage \in Damages :
                 [Hex(x) EXCEPT !.damage = damage] \in Damaged(Hex(x))
           /\ [Hex(x) EXCEPT !.encodes = OtherBytes] \in Damaged(Hex(x))
           /\ \A h \in Damaged(Hex(x)) : h.encodes \in {x, OtherBytes}
  <1>1. Hex(x).encodes = x
    BY DEF Hex
  <1>2. \A damage \in Damages :
          [Hex(x) EXCEPT !.damage = damage] = [encodes |-> x, damage |-> damage]
    BY DEF Hex
  <1>3. [Hex(x) EXCEPT !.encodes = OtherBytes]
          = [encodes |-> OtherBytes, damage |-> "none"]
    BY DEF Hex
  <1>4. Damaged(Hex(x)) = [encodes : {x, OtherBytes}, damage : Damages \cup {"none"}]
    BY <1>1 DEF Damaged
  <1>5. \A damage \in Damages :
          [encodes |-> x, damage |-> damage]
            \in [encodes : {x, OtherBytes}, damage : Damages \cup {"none"}]
    OBVIOUS
  <1>6. [encodes |-> OtherBytes, damage |-> "none"]
          \in [encodes : {x, OtherBytes}, damage : Damages \cup {"none"}]
    OBVIOUS
  <1>7. \A h \in [encodes : {x, OtherBytes}, damage : Damages \cup {"none"}] :
          h.encodes \in {x, OtherBytes}
    OBVIOUS
  <1>8. \A damage \in Damages :
          [Hex(x) EXCEPT !.damage = damage] \in Damaged(Hex(x))
    BY <1>2, <1>4, <1>5
  <1>9. [Hex(x) EXCEPT !.encodes = OtherBytes] \in Damaged(Hex(x))
    BY <1>3, <1>4, <1>6
  <1>10. \A h \in Damaged(Hex(x)) : h.encodes \in {x, OtherBytes}
    BY <1>4, <1>7
  <1> QED
    BY <1>8, <1>9, <1>10

(* A message starts as it was written.                                      *)
LEMMA AlteredInit == WireInit => AlteredInv
  <1> SUFFICES ASSUME WireInit PROVE AlteredInv
    OBVIOUS
  <1>1. original \in Originals /\ message = Written /\ altered = {}
    BY DEF WireInit, Written
  <1>3. message.payload = original.payload
    BY <1>1, WrittenFields
  <1>2. Written = [f \in DOMAIN Written |-> Written[f]]
    BY DEF Written, ToMessage
  <1> QED
    BY <1>1, <1>2, <1>3 DEF AlteredInv

(* One field altered: it is enough that the new value is a possible one.    *)
LEMMA AlteredAlter ==
    ASSUME AlteredInv, NEW field, NEW value, Alter(field, value),
           field \in HexFields \cup OptionalLater \cup {"subject", "kind", "payload"},
           field = "payload" => value \in OtherPayloads,
           field \in HexFields =>
              \/ field = "source_id" /\ value = Absent
              \/ Written[field] # Absent /\ value \in Damaged(Written[field])
    PROVE  AlteredInv'
  <1>1. /\ message' = [message EXCEPT ![field] = value]
        /\ altered' = altered \cup {field}
        /\ original' = original /\ Written' = Written
    BY DEF Alter, Written
  <1>2. field \in DOMAIN Written
    BY WrittenFields DEF AlteredInv, HexFields, OptionalLater
  <1>3. /\ DOMAIN message = DOMAIN Written
        /\ message' = [f \in DOMAIN Written |->
                         IF f = field THEN value ELSE message[f]]
    BY <1>1 DEF AlteredInv
  <1>4. /\ message' = [f \in DOMAIN Written |-> message'[f]]
        /\ message'[field] = value
        /\ \A f \in DOMAIN Written \ {field} : message'[f] = message[f]
    BY <1>2, <1>3
  <1>5. HexFields \subseteq DOMAIN Written
    BY WrittenFields DEF AlteredInv, HexFields
  <1>6. \A f \in DOMAIN Written \ altered' : message'[f] = Written[f]
    BY <1>1, <1>4 DEF AlteredInv
  <1>7. \A f \in HexFields \cap altered' :
          \/ f = "source_id" /\ message'[f] = Absent
          \/ Written[f] # Absent /\ message'[f] \in Damaged(Written[f])
    BY <1>1, <1>4, <1>5 DEF AlteredInv
  <1>8. message'.payload \in {original'.payload} \cup OtherPayloads
    <2>1. "payload" \in DOMAIN Written
      BY WrittenFields DEF AlteredInv
    <2> QED
      BY <1>1, <1>4, <2>1 DEF AlteredInv
  <1> QED
    BY <1>1, <1>4, <1>6, <1>7, <1>8 DEF AlteredInv

(* Dropping an extension and damaging a field alter what they say.          *)
LEMMA AlteredStep == AlteredInv /\ [WireNext]_wireVars => AlteredInv'
  <1> SUFFICES ASSUME AlteredInv, [WireNext]_wireVars PROVE AlteredInv'
    OBVIOUS
  <1>1. CASE UNCHANGED wireVars
    BY <1>1 DEF wireVars, AlteredInv, Written
  (* A field that is there and not altered yet is as it was written.        *)
  <1>2. ASSUME NEW f \in HexFields, message[f] # Absent, f \notin altered
        PROVE  /\ Written[f] # Absent
               /\ message[f] = Written[f]
               /\ \E x : Written[f] = Hex(x)
    <2>1. message[f] = Written[f]
      BY <1>2, WrittenFields DEF AlteredInv, HexFields
    <2>2. \E x : Written[f] = Hex(x)
      BY <1>2, <2>1, WrittenFields DEF AlteredInv, HexFields
    <2> QED
      BY <1>2, <2>1, <2>2
  <1>3. ASSUME NEW field \in OptionalLater, LeftOut(field) PROVE AlteredInv'
    BY <1>3, AlteredAlter DEF LeftOut, Default, OptionalLater, HexFields
  <1>4. ASSUME NEW field \in HexFields, NEW damage \in Damages,
               DamageHex(field, damage)
        PROVE  AlteredInv'
    <2> DEFINE value == [message[field] EXCEPT !.damage = damage]
    <2>1. field \notin altered /\ message[field] # Absent /\ Alter(field, value)
      BY <1>4 DEF DamageHex, Alter
    <2>2. value \in Damaged(Written[field]) /\ Written[field] # Absent
      BY <1>2, <2>1, DamageIsDamage
    <2>3. field # "payload"
      BY DEF HexFields
    <2> HIDE DEF value
    <2> QED
      BY <2>1, <2>2, <2>3, AlteredAlter
  <1>5. ASSUME NEW field \in HexFields, ChangeDigit(field) PROVE AlteredInv'
    <2> DEFINE value == [message[field] EXCEPT !.encodes = OtherBytes]
    <2>1. field \notin altered /\ message[field] # Absent /\ Alter(field, value)
      BY <1>5 DEF ChangeDigit, Alter
    <2>2. value \in Damaged(Written[field]) /\ Written[field] # Absent
      BY <1>2, <2>1, DamageIsDamage
    <2>3. field # "payload"
      BY DEF HexFields
    <2> HIDE DEF value
    <2> QED
      BY <2>1, <2>2, <2>3, AlteredAlter
  <1>6. ASSUME NEW i \in DOMAIN message.parents, NEW damage \in Damages,
               DamageParent(i, damage)
        PROVE  AlteredInv'
    BY <1>6, AlteredAlter DEF DamageParent, OptionalLater, HexFields
  <1>7. ASSUME NEW field \in {"provenance", "expires_at"}, WrongShape(field)
        PROVE  AlteredInv'
    BY <1>7, AlteredAlter DEF WrongShape, OptionalLater, HexFields
  <1>8. CASE OldSubject \/ OtherPayloadKind
    BY <1>8, AlteredAlter DEF OldSubject, OtherPayloadKind, HexFields
  <1>9. ASSUME NEW payload \in OtherPayloads, ChangePayload(payload)
        PROVE  AlteredInv'
    BY <1>9, AlteredAlter DEF ChangePayload, HexFields
  <1> QED
    BY <1>1, <1>3, <1>4, <1>5, <1>6, <1>7, <1>8, <1>9 DEF WireNext

(* Whatever is altered, a message stays one that AlteredInv describes.      *)
THEOREM MessagesAreAltered == WireSpec => []AlteredInv
  BY AlteredInit, AlteredStep, PTL DEF WireSpec

-----------------------------------------------------------------------------
(* Invariants 7 and 12: of an unaltered message everything comes back but   *)
(* the sender's own timestamp.                                              *)
THEOREM EvidenceRoundTrips == WireSpec => []RoundTrip
  <1>1. AlteredInv => RoundTrip
    <2> SUFFICES ASSUME AlteredInv, altered = {}
                 PROVE  /\ Parse(message) = "Ok"
                        /\ Received = [original EXCEPT !.received_at = 0]
      BY DEF RoundTrip
    <2>1. message = Written
      <3>1. Written = [f \in DOMAIN Written |-> Written[f]]
        BY DEF Written, ToMessage
      <3> QED
        BY <3>1 DEF AlteredInv
    <2>2. IsEvidence(original) /\ original.payload \in Decodable
      BY WireAssumption DEF WireAssumption, AlteredInv
    <2> QED
      BY <2>1, <2>2, WrittenParses, WrittenReturns DEF Written, Received
  <1> QED
    BY <1>1, MessagesAreAltered, PTL

(* The fields of the evidence received on which verification depends.       *)
LEMMA ReceivedFields ==
    /\ Received.payload = message.payload
    /\ Received.evidence_id = message.evidence_id.encodes
    /\ Received.source_id = IF message.source_id = Absent THEN ZeroKey
                            ELSE message.source_id.encodes
    /\ Received.signature = ParsedSignature(message.signature)
  BY DEF Received, FromMessage

(* A signature no sender changed is read as it was.                         *)
LEMMA SignatureReturns ==
    ASSUME NEW s
    PROVE  ParsedSignature(IF s = NoSignature THEN Absent ELSE Hex(s)) = s
  BY WrittenIsThere DEF ParsedSignature

(* Verification, spelled out.                                               *)
LEMMA VerifiedMeans ==
    ASSUME NEW e
    PROVE  Verified(e) <=>
             /\ e.evidence_id = Blake3(e.payload)
             /\ e.signature # NoSignature
             /\ e.signature \in SignaturesOver(e.payload, {e.source_id})
  <1>1. Verified(e) <=> Integral(e) /\ Authentic(e)
    BY DEF Verified, Verify
  <1>2. SignaturesOver(e.payload, {e.source_id})
          = {Sign(e.source_id, <<"seven/evidence/v1", Blake3(e.payload), e.payload>>)}
    BY DEF SignaturesOver
  <1> QED
    BY <1>1, <1>2 DEF Integral, Authentic, SigningPreimage

(* Older peers: what they leave out never makes evidence authentic, nor     *)
(* does it make authentic evidence unreadable.                              *)
THEOREM OlderPeersAreSafe == WireSpec => []LegacyDegradesSafely
  <1>1. AlteredInv => LegacyDegradesSafely
    <2> SUFFICES ASSUME AlteredInv,
                        \A f \in altered :
                           f \in OptionalLater /\ message[f] = Default(f)
                 PROVE  /\ Parse(message) = "Ok"
                        /\ Verified(Received) <=>
                             Verified(original) /\ "source_id" \notin altered
      BY DEF LegacyDegradesSafely
    <2>1. /\ message.kind = "Bytes/Postcard"
          /\ message.payload = original.payload
          /\ message.subject = <<"seven", SenderDomain, original.subject, "evidence">>
          /\ message.evidence_id = Hex(original.evidence_id)
          /\ message.observation_id = Hex(original.observation_id)
          /\ message.signature = IF original.signature = NoSignature
                                 THEN Absent ELSE Hex(original.signature)
      BY WrittenFields DEF AlteredInv, OptionalLater
    <2>2. message.source_id = IF "source_id" \in altered THEN Absent
                              ELSE Hex(original.source_id)
      BY WrittenFields DEF AlteredInv, Default
    <2>3. message.provenance # Malformed
      <3>1. Absent # Malformed
        BY DEF Absent, Malformed
      <3>2. CASE "provenance" \in altered
        BY <3>1, <3>2 DEF Default
      <3>3. CASE "provenance" \notin altered
        BY <3>3, WrittenFields, WrittenIsThere DEF AlteredInv
      <3> QED
        BY <3>2, <3>3
    <2>4. ~\E i \in DOMAIN message.parents : HexPanics(message.parents[i])
      <3>1. CASE "parents" \in altered
        BY <3>1 DEF Default
      <3>2. CASE "parents" \notin altered
        BY <3>2, WrittenFields, WrittenIsThere DEF AlteredInv
      <3> QED
        BY <3>1, <3>2
    <2>5. original \in Originals
      BY DEF AlteredInv
    <2>6. Parse(message) = "Ok"
      <3>1. \A x : ParseHex32(Hex(x)) = "Ok"
        BY WrittenIsThere DEF ParseHex32
      <3>2. original.payload \in Decodable
        BY <2>5, WireAssumption DEF WireAssumption
      <3>3. ~(message.signature \notin {Absent, Malformed}
                /\ HexPanics(message.signature))
        BY <2>1, WrittenIsThere
      <3>4. Len(message.subject) = 4 /\ message.subject[1] = "seven"
            /\ message.subject[4] = "evidence"
        BY <2>1
      <3>5. Checks(message) = <<"Ok", "Ok", "Ok", "Ok", "Ok", "Ok", "Ok", "Ok", "Ok">>
        BY <2>1, <2>2, <2>3, <2>4, <3>1, <3>2, <3>3, <3>4 DEF Checks
      <3> QED
        BY <3>5, ParsesWhenChecked
    <2>7. /\ Received.payload = original.payload
          /\ Received.evidence_id = original.evidence_id
          /\ Received.signature = original.signature
          /\ Received.source_id = IF "source_id" \in altered THEN ZeroKey
                                  ELSE original.source_id
      BY <2>1, <2>2, ReceivedFields, SignatureReturns, WrittenIsThere
    <2>8. original.signature \notin SignaturesOver(original.payload, {ZeroKey})
      BY <2>5, WireAssumption DEF WireAssumption, SignaturesOver
    <2> QED
      BY <2>6, <2>7, <2>8, VerifiedMeans
  <1> QED
    BY <1>1, MessagesAreAltered, PTL

(* Invariant 16: evidence that parses and verifies says what its source     *)
(* signed, whatever befell the payload and the extensions of the message.   *)
THEOREM VerifiedEvidenceIsIntact == WireSpec => []VerifiedIsIntact
  <1>1. AlteredInv => VerifiedIsIntact
    <2> SUFFICES ASSUME AlteredInv, Parse(message) = "Ok", Verified(Received)
                 PROVE  /\ Verified(original)
                        /\ Received.payload = original.payload
                        /\ Received.evidence_id = original.evidence_id
                        /\ Received.source_id = original.source_id
      BY DEF VerifiedIsIntact
    <2> DEFINE keys    == {original.source_id, ZeroKey, OtherBytes}
               payload == Received.payload
    <2>1. original \in Originals
      BY DEF AlteredInv
    <2>2. payload \in {original.payload} \cup OtherPayloads
      BY ReceivedFields DEF AlteredInv
    <2>3. /\ Received.evidence_id = Blake3(payload)
          /\ Received.signature # NoSignature
          /\ Received.signature \in SignaturesOver(payload, {Received.source_id})
      BY VerifiedMeans
    <2>4. Received.source_id \in keys
      <3>1. CASE "source_id" \in altered
        <4>1. \/ message.source_id = Absent
              \/ message.source_id.encodes \in {original.source_id, OtherBytes}
          BY <2>1, <3>1, WrittenFields, DamageIsDamage DEF AlteredInv, HexFields
        <4> QED
          BY <4>1, ReceivedFields
      <3>2. CASE "source_id" \notin altered
        BY <2>1, <3>2, ReceivedFields, WrittenFields, WrittenIsThere DEF AlteredInv
      <3> QED
        BY <3>1, <3>2
    <2>5. Received.signature \in SignaturesOver(payload, keys)
      BY <2>3, <2>4 DEF SignaturesOver
    <2>6. Received.signature = original.signature
      <3>1. CASE "signature" \in altered
        <4>1. /\ message.signature.encodes \in {original.signature, OtherBytes}
              /\ original.signature # NoSignature
          BY <2>1, <3>1, WrittenFields, DamageIsDamage DEF AlteredInv, HexFields
        <4>2. Received.signature \in {NoSignature, original.signature, OtherBytes,
                                      [by |-> Malformed, over |-> << >>]}
          BY <4>1, ReceivedFields DEF ParsedSignature
        <4>3. [by |-> Malformed, over |-> << >>]
                 \notin SignaturesOver(payload, keys)
          BY DEF SignaturesOver, Sign
        <4>4. OtherBytes \notin SignaturesOver(payload, keys)
          BY <2>1, <2>2, WireAssumption DEF WireAssumption
        <4> QED
          BY <2>3, <2>5, <4>2, <4>3, <4>4
      <3>2. CASE "signature" \notin altered
        BY <2>1, <3>2, ReceivedFields, WrittenFields, SignatureReturns DEF AlteredInv
      <3> QED
        BY <3>1, <3>2
    (* The signature is over the payload that was sent and no other.        *)
    <2>7. payload = original.payload
      <3> SUFFICES ASSUME payload # original.payload PROVE FALSE
        OBVIOUS
      <3>1. payload \in OtherPayloads \ {original.payload}
        BY <2>2
      <3>2. original.signature \notin SignaturesOver(payload, keys)
        BY <2>1, <3>1, WireAssumption DEF WireAssumption
      <3> QED
        BY <2>5, <2>6, <3>2
    <2>8. Received.evidence_id = original.evidence_id
      <3>1. CASE "evidence_id" \in altered
        <4>1. Received.evidence_id \in {original.evidence_id, OtherBytes}
          <5>1. message.evidence_id \in Damaged(Hex(original.evidence_id))
            BY <2>1, <3>1, WrittenFields DEF AlteredInv, HexFields
          <5> QED
            BY <5>1, ReceivedFields, DamageIsDamage
        <4>2. OtherBytes # Blake3(original.payload)
          BY <2>1, WireAssumption DEF WireAssumption
        <4> QED
          BY <2>3, <2>7, <4>1, <4>2
      <3>2. CASE "evidence_id" \notin altered
        BY <2>1, <3>2, ReceivedFields, WrittenFields, WrittenIsThere DEF AlteredInv
      <3> QED
        BY <3>1, <3>2
    <2>9. Received.source_id = original.source_id
      <3>1. original.signature
              \notin SignaturesOver(original.payload, {ZeroKey, OtherBytes})
        BY <2>1, WireAssumption DEF WireAssumption
      <3> QED
        BY <2>3, <2>4, <2>6, <2>7, <3>1 DEF SignaturesOver
    <2>10. Verified(original)
      BY <2>3, <2>6, <2>7, <2>8, <2>9, VerifiedMeans
    <2> QED
      BY <2>7, <2>8, <2>9, <2>10
  <1> QED
    BY <1>1, MessagesAreAltered, PTL
=============================================================================
