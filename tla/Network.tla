------------------------------ MODULE Network ------------------------------
(***************************************************************************)
(* The pipeline of seven-bin's main loop, run by several nodes at once and *)
(* extended with the relays Evidence::forward exists for: a sensor mints   *)
(* evidence, to_message projects it, LossyMql loses or duplicates the      *)
(* message, messages in flight arrive in any order, from_message recovers  *)
(* the evidence and the node's BeliefEngine ingests what the TRANSPORT     *)
(* delivered.  Nothing is retried: the code has no retry.                  *)
(*                                                                         *)
(* No decision on this path reads a clock, so every timestamp is 0.        *)
(***************************************************************************)
EXTENDS BeliefEngine, Projection, Bags

CONSTANTS
    Nodes,
    Uplinks,     \* set of <<sensor, node>>
    Links,       \* set of <<node, node>>: the relays' directed links
    Sightings,   \* set of <<sensor, subject, payload>> that will be made
    Domain,
    Expiry,
    MayLose,     \* loss_p > 0
    MayDuplicate,\* dup_p > 0
    MaxHops      \* bound on the custody chain a relay extends

ASSUME NetworkAssumption ==
    /\ Links \subseteq Nodes \X Nodes
    /\ \A u \in Uplinks : u = <<u[1], u[2]>> /\ u[2] \in Nodes
    /\ {MayLose, MayDuplicate} \subseteq BOOLEAN
    /\ MaxHops \in Nat
    /\ \A s \in Sightings :
          /\ s[2] \in Subjects /\ s[3] \in Decodable
          /\ Originate(s[1], s[2], s[3], 0, Expiry).signature # NoSignature
    /\ Decodable = DOMAIN Measured
    /\ NoTrack \notin Track

VARIABLES
    minted,    \* evidence originate has produced, with its sensor
    sent,      \* <<sender, receiver, evidence>> already handed to a link
    wire,      \* bag of <<receiver, message>>
    held,      \* [Nodes -> evidence recovered from messages]
    engine     \* [Nodes -> BeliefEngine]

vars == <<minted, sent, wire, held, engine>>

Init ==
    /\ minted = {}
    /\ sent = {}
    /\ wire = EmptyBag
    /\ held = [n \in Nodes |-> {}]
    /\ engine = [n \in Nodes |-> NewEngine]

-----------------------------------------------------------------------------
Observe(sensor, subject, payload) ==
    LET e == Originate(sensor, subject, payload, 0, Expiry)
    IN  /\ <<sensor, e>> \notin minted
        /\ minted' = minted \cup {<<sensor, e>>}
        /\ UNCHANGED <<sent, wire, held, engine>>

(* LossyMql::deliver: none, one or two copies of an unaltered message.      *)
Copies ==
    {1} \cup (IF MayLose THEN {0} ELSE {})
        \cup (IF MayDuplicate THEN {2} ELSE {})

Transmit(from, to, e) ==
    /\ Projectable(e, Domain)
    /\ <<from, to, e>> \notin sent
    /\ sent' = sent \cup {<<from, to, e>>}
    /\ \E n \in Copies :
          wire' = wire (+) [m \in IF n = 0 THEN {}
                                  ELSE {<<to, ToMessage(e, Domain)>>} |-> n]
    /\ UNCHANGED <<minted, held, engine>>

Report(sensor, node) ==
    \E e \in {m[2] : m \in {x \in minted : x[1] = sensor}} :
        Transmit(sensor, node, e)

Relay(from, to) ==
    \E e \in held[from] :
        /\ Len(e.provenance) < MaxHops
        /\ Transmit(from, to, Forward(e, from, 0))

Receive(node) ==
    \E m \in BagToSet(wire) :
        /\ m[1] = node
        /\ Parse(m[2]) = "Ok"
        /\ wire' = wire (-) SetToBag({m})
        /\ held' = [held EXCEPT ![node] = @ \cup {FromMessage(m[2])}]
        /\ engine' = [engine EXCEPT ![node] = EngineAfter(@, FromMessage(m[2]))]
        /\ UNCHANGED <<minted, sent>>

Next ==
    \/ \E s \in Sightings : Observe(s[1], s[2], s[3])
    \/ \E u \in Uplinks : Report(u[1], u[2])
    \/ \E l \in Links : Relay(l[1], l[2])
    \/ \E n \in Nodes : Receive(n)

Spec == Init /\ [][Next]_vars

(* main runs its loop to the end and a link of loss 0 delivers what it is   *)
(* given: each sensor, relay and receiver keeps taking the steps it can.    *)
Fairness ==
    /\ \A s \in Sightings : WF_vars(Observe(s[1], s[2], s[3]))
    /\ \A u \in Uplinks : WF_vars(Report(u[1], u[2]))
    /\ \A l \in Links : WF_vars(Relay(l[1], l[2]))
    /\ \A n \in Nodes : WF_vars(Receive(n))

FairSpec == Spec /\ Fairness

-----------------------------------------------------------------------------
(* The bookkeeping sets hold what their comments say and every message in   *)
(* flight parses (Receive never has to leave one behind).                   *)
TypeOK ==
    /\ \A x \in minted : x[1] = x[2].source_id /\ Verified(x[2])
    /\ \A x \in sent : <<x[1], x[2]>> \in Uplinks \cup Links
    /\ IsABag(wire)
    /\ \A m \in BagToSet(wire) : m[1] \in Nodes /\ Parse(m[2]) = "Ok"
    /\ DOMAIN held = Nodes /\ DOMAIN engine = Nodes

(* Invariant 7: the custody chain of evidence a node holds is a path the    *)
(* evidence really took: every hop held it with exactly the hops before,    *)
(* and handed it to the next.                                               *)
CustodyIsAPath ==
    \A n \in Nodes : \A e \in held[n] :
        LET hops == e.provenance
            upTo(i) == [e EXCEPT !.provenance = SubSeq(hops, 1, i)]
            at(i) == IF i > Len(hops) THEN n ELSE hops[i].node
        IN  /\ \A i \in 1..Len(hops) : upTo(i - 1) \in held[hops[i].node]
            /\ \A i \in 1..Len(hops) : <<hops[i].node, at(i + 1), upTo(i)>> \in sent

(* Invariant 6: relays forward identities and mint none: all that any node  *)
(* holds or incorporated is, up to custody, something a sensor minted.      *)
ForwardingMintsNothing ==
    \A n \in Nodes :
        /\ \A e \in held[n] :
              <<e.source_id, [e EXCEPT !.provenance = << >>]>> \in minted
        /\ \A s \in Subjects : \A o \in engine[n].incorporated[s] :
              \E m \in minted : m[2].subject = s /\ m[2].observation_id = o

(* Invariant 9 end to end: a node's counter is one per dimension and        *)
(* distinct observation among all the copies, direct, relayed or            *)
(* duplicated, that reached it.                                             *)
CountersIgnoreCopies ==
    \A n \in Nodes, s \in Subjects :
        LET seen == {e.payload : e \in {x \in held[n] : x.subject = s}}
        IN  IF seen = {} THEN engine[n].tracks[s] = NoTrack
            ELSE engine[n].tracks[s].independent_updates
                   = Cardinality(Dims) * Cardinality(seen)

SameRat(a, b) == a.num * b.den = b.num * a.den

SameBelief(t, u) ==
    IF NoTrack \in {t, u} THEN t = u
    ELSE /\ t.independent_updates = u.independent_updates
         /\ \A d \in Dims : /\ SameRat(t.mean[d], u.mean[d])
                            /\ SameRat(t.var[d], u.var[d])

(* Invariant 13: two nodes that incorporated the same set of observations   *)
(* of a subject hold the same belief of it, however differently the         *)
(* evidence reached them.  (Their conflict flags may differ: the test is    *)
(* made against the posterior so far.)                                      *)
EvidenceSetsConverge ==
    \A n, m \in Nodes, s \in Subjects :
        engine[n].incorporated[s] = engine[m].incorporated[s] =>
            SameBelief(engine[n].tracks[s], engine[m].tracks[s])

(* Without loss, where uplinks and at most MaxHops relays connect every     *)
(* sensor to every node, each sighting reaches each node's belief ...       *)
EverySightingArrives ==
    \A s \in Sightings, n \in Nodes :
        <>(Blake3(s[3]) \in engine[n].incorporated[s[2]])

(* ... and the nodes end, and stay, with one belief.                        *)
NodesAgreeInTheEnd ==
    <>[](\A n, m \in Nodes, s \in Subjects :
            /\ SameBelief(engine[n].tracks[s], engine[m].tracks[s])
            /\ engine[n].tracks[s] # NoTrack)
=============================================================================
