--------------------------- MODULE EvidenceGraph ---------------------------
(***************************************************************************)
(* The query suite of crate seven-helix: the graph the write requests      *)
(* build and what the read requests find in it.  A request is one batch,   *)
(* which HelixDB applies as a whole; a step of it that adds an edge from   *)
(* several nodes to several nodes adds one for each pair, none if either   *)
(* side matched nothing, and is no error then.                             *)
(*                                                                         *)
(* A graph node is its position in the order of insertion, since add_n     *)
(* never reuses one.  Edge properties repeat the node's and are left out.  *)
(***************************************************************************)
EXTENDS BeliefEngine, SequencesExt

EmptyGraph == [nodes |-> << >>, edges |-> EmptyBag]

Added(g, node) == [g EXCEPT !.nodes = Append(@, node)]

Newest(g) == {Len(g.nodes)}

Linked(g, type, from, to) ==
    [g EXCEPT !.edges = @ (+) SetToBag({type} \X from \X to)]

Labelled(g, label) == {n \in DOMAIN g.nodes : g.nodes[n].label = label}

(* n_with_label("Evidence").where_(evidence_id = id).                       *)
WithId(g, id) ==
    {n \in Labelled(g, "Evidence") : g.nodes[n].evidence_id = id}

-----------------------------------------------------------------------------
WriteEvidence(e) == [op |-> "evidence", evidence |-> e]

(* One request per hop, one per parent.  Fault: newest hop first.           *)
WriteProvenance_NewestFirst(e) ==
    Reverse([i \in DOMAIN e.provenance |->
                [op |-> "hop", id |-> e.evidence_id, hop |-> e.provenance[i]]])
WriteProvenance(e) ==
    [i \in DOMAIN e.provenance |->
        [op |-> "hop", id |-> e.evidence_id, hop |-> e.provenance[i]]]

WriteParentage(e) ==
    [i \in DOMAIN e.parents |->
        [op |-> "parent", child |-> e.evidence_id, parent |-> e.parents[i]]]

WriteBeliefState(subject, belief, supporting) ==
    [op |-> "belief", subject |-> subject, belief |-> belief, id |-> supporting]

AfterEvidence(g, e) ==
    LET src == Added(g, [label |-> "Source", source_id |-> e.source_id])
        ev  == Added(src, [label          |-> "Evidence",
                           evidence_id    |-> e.evidence_id,
                           observation_id |-> e.observation_id,
                           subject        |-> e.subject,
                           received_at    |-> e.received_at,
                           expires_at     |-> e.expires_at])
    IN  Linked(ev, "PRODUCED", Newest(src), Newest(ev))

(* Fault: a node already there is taken for the hop's.                      *)
AfterHop_OneNodePerId(g, id, hop) ==
    LET known == {n \in Labelled(g, "Node") : g.nodes[n].node_id = hop.node}
        relay == Added(g, [label |-> "Node", node_id |-> hop.node,
                           received_at |-> hop.received_at])
    IN  IF known = {} THEN Linked(relay, "FORWARDED_TO", WithId(g, id), Newest(relay))
        ELSE Linked(g, "FORWARDED_TO", WithId(g, id), known)
AfterHop(g, id, hop) ==
    LET relay == Added(g, [label |-> "Node", node_id |-> hop.node,
                           received_at |-> hop.received_at])
    IN  Linked(relay, "FORWARDED_TO", WithId(g, id), Newest(relay))

(* Fault: the two directions are written alike.                             *)
AfterParent_SameDirection(g, child, parent) ==
    Linked(Linked(g, "PARENT_OF", WithId(g, parent), WithId(g, child)),
           "DERIVED_FROM", WithId(g, parent), WithId(g, child))
AfterParent(g, child, parent) ==
    Linked(Linked(g, "PARENT_OF", WithId(g, parent), WithId(g, child)),
           "DERIVED_FROM", WithId(g, child), WithId(g, parent))

AfterBelief(g, subject, belief, id) ==
    LET b == Added(g, [label |-> "Belief", subject |-> subject, belief |-> belief])
    IN  Linked(b, "SUPPORTS", WithId(g, id), Newest(b))

After(g, request) ==
    CASE request.op = "evidence" -> AfterEvidence(g, request.evidence)
      [] request.op = "hop"      -> AfterHop(g, request.id, request.hop)
      [] request.op = "parent"   -> AfterParent(g, request.child, request.parent)
      [] request.op = "belief"   ->
            AfterBelief(g, request.subject, request.belief, request.id)

-----------------------------------------------------------------------------
(* Traversals return a bag: a node once for every edge that leads to it.    *)
Along(g, type, end, nodes) ==
    LET edges == {x \in BagToSet(g.edges) : x[1] = type /\ x[end] \in nodes}
    IN  [x \in edges |-> g.edges[x]]

ReadProvenance(g, id) ==
    BagOfAll(LAMBDA x : [node        |-> g.nodes[x[3]].node_id,
                         received_at |-> g.nodes[x[3]].received_at],
             Along(g, "FORWARDED_TO", 2, WithId(g, id)))

ReadDerived(g, id) ==
    BagOfAll(LAMBDA x : g.nodes[x[3]].evidence_id,
             Along(g, "DERIVED_FROM", 2, WithId(g, id)))

(* The ancestors of one step; the query does not go further up.             *)
ReconstructProvenance(g, id) ==
    BagOfAll(LAMBDA x : g.nodes[x[2]].evidence_id,
             Along(g, "PARENT_OF", 3, WithId(g, id)))

ReadSubjectHistory(g, subject) ==
    LET found == {n \in Labelled(g, "Evidence") : g.nodes[n].subject = subject}
    IN  BagOfAll(LAMBDA n : g.nodes[n].evidence_id, SetToBag(found))

(* Every snapshot of the subject, the newest not marked.                    *)
ReadBelief(g, subject) ==
    LET found == {n \in Labelled(g, "Belief") : g.nodes[n].subject = subject}
    IN  BagOfAll(LAMBDA n : g.nodes[n].belief, SetToBag(found))
=============================================================================
