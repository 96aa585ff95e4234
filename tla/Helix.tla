------------------------------- MODULE Helix -------------------------------
(***************************************************************************)
(* Recorders that persist evidence, custody, beliefs and lineage in one    *)
(* HelixDB, request by request, in the order of the crate's integration    *)
(* test, each beside a belief engine of its own.  HelixClient::exec fails  *)
(* when the request or when the response is lost and tells the two apart   *)
(* in nothing.  The crate retries nothing; a caller may repeat the request *)
(* that failed, or all requests about that evidence.                       *)
(***************************************************************************)
EXTENDS EvidenceGraph

CONSTANT Workloads   \* [jobs |-> [recorders -> evidence in the order it is
                     \*   persisted], failures |-> bound on failed calls]

(* What a recorder persists its engine has taken in: the test expects       *)
(* incorporate to succeed before it writes the belief.                      *)
Persistable(e) ==
    /\ IsEvidence(e) /\ IsChain(e.provenance)
    /\ e.subject \in Subjects
    /\ Verified(e) /\ Decodes(e)

ASSUME HelixAssumption ==
    /\ NoTrack \notin Track
    /\ \A w \in Workloads :
          /\ w.failures \in Nat
          /\ \A r \in DOMAIN w.jobs :
                /\ w.jobs[r] \in Seq(ToSet(w.jobs[r]))
                /\ \A e \in ToSet(w.jobs[r]) : Persistable(e)

VARIABLES
    work,
    graph,      \* what the database holds
    pc,         \* [recorder -> position of the request to send next]
    failed,     \* [recorder -> whether exec returned an error for it]
    failures    \* failed calls so far

vars == <<work, graph, pc, failed, failures>>

Recorders == DOMAIN work.jobs

Init ==
    /\ work \in Workloads
    /\ graph = EmptyGraph
    /\ pc = [r \in Recorders |-> 1]
    /\ failed = [r \in Recorders |-> FALSE]
    /\ failures = 0

-----------------------------------------------------------------------------
(* The track a recorder's engine holds after the i-th evidence of its job.  *)
(* Fault: the engine is a new one each time.                                *)
TrackAfter_NewEngine(job, i) ==
    EngineAfter(NewEngine, job[i]).tracks[job[i].subject]
TrackAfter(job, i) ==
    FoldLeft(EngineAfter, NewEngine, SubSeq(job, 1, i)).tracks[job[i].subject]

(* The requests about one evidence.                                         *)
RequestsFor(job, i) ==
    <<WriteEvidence(job[i])>>
      \o WriteProvenance(job[i])
      \o <<WriteBeliefState(job[i].subject, TrackAfter(job, i), job[i].evidence_id)>>
      \o WriteParentage(job[i])

Requests(r) ==
    FlattenSeq([i \in DOMAIN work.jobs[r] |-> RequestsFor(work.jobs[r], i)])

Sending(r) == ~failed[r] /\ pc[r] <= Len(Requests(r))

Exec(r) ==
    /\ Sending(r)
    /\ graph' = After(graph, Requests(r)[pc[r]])
    /\ pc' = [pc EXCEPT ![r] = @ + 1]
    /\ UNCHANGED <<work, failed, failures>>

ExecFails(r) ==
    /\ Sending(r) /\ failures < work.failures
    /\ failed' = [failed EXCEPT ![r] = TRUE]
    /\ failures' = failures + 1
    /\ UNCHANGED <<work, pc>>

LoseRequest(r) == ExecFails(r) /\ UNCHANGED graph

LoseResponse(r) ==
    ExecFails(r) /\ graph' = After(graph, Requests(r)[pc[r]])

(* From the request that failed, or from the evidence it belongs to.        *)
Retry(r) ==
    /\ failed[r]
    /\ LET start == SelectLastInSubSeq(Requests(r), 1, pc[r],
                                       LAMBDA q : q.op = "evidence")
       IN  \E k \in {start, pc[r]} : pc' = [pc EXCEPT ![r] = k]
    /\ failed' = [failed EXCEPT ![r] = FALSE]
    /\ UNCHANGED <<work, graph, failures>>

Next ==
    \E r \in Recorders : Exec(r) \/ LoseRequest(r) \/ LoseResponse(r) \/ Retry(r)

Spec == Init /\ [][Next]_vars

-----------------------------------------------------------------------------
(* Evidence given to recorders, as <<recorder, position in its job>>.       *)
Jobs == UNION {{r} \X DOMAIN work.jobs[r] : r \in Recorders}
EvidenceOf(j) == work.jobs[j[1]][j[2]]
JobsOn(id) == {j \in Jobs : EvidenceOf(j).evidence_id = id}

(* The requests up to the one to send; each was acknowledged at least once. *)
Acknowledged(r) == ToSet(SubSeq(Requests(r), 1, pc[r] - 1))

(* Invariant 15, custody, and "re-relays by the same node are distinct      *)
(* custody events": every acknowledged hop is read back, whatever was lost, *)
(* repeated or persisted by others meanwhile.  Where no call failed and one *)
(* recorder persisted one copy, the chain is read exactly, each hop as      *)
(* often as it is in it, and times that increase along it restore its       *)
(* order: what was read with an earlier time are the hops before it.        *)
ByTime(h1, h2) == h1.received_at < h2.received_at
BagOfList(s) == BagOfAll(LAMBDA k : s[k], SetToBag(DOMAIN s))

CustodyReadsBack ==
    \A r \in Recorders :
        /\ \A q \in Acknowledged(r) :
              q.op = "hop" => q.hop \in BagToSet(ReadProvenance(graph, q.id))
        /\ \A i \in DOMAIN work.jobs[r] :
              LET e    == work.jobs[r][i]
                  read == ReadProvenance(graph, e.evidence_id)
                  hops == e.provenance
                  undisturbed ==
                    /\ failures = 0
                    /\ JobsOn(e.evidence_id) = {<<r, i>>}
                    /\ ToSet(RequestsFor(work.jobs[r], i)) \subseteq Acknowledged(r)
                  ordered == \A k \in 2..Len(hops) : ByTime(hops[k - 1], hops[k])
              IN  undisturbed =>
                    /\ read = BagOfList(hops)
                    /\ ordered =>
                          \A k \in DOMAIN hops :
                              {h \in BagToSet(read) : ByTime(h, hops[k])}
                                = ToSet(SubSeq(hops, 1, k - 1))

(* Invariant 15, lineage: the two directions of the link always tell the    *)
(* same story, they name declared parents only, and a parent the recorder   *)
(* persisted before it asked for the link is there once that request was    *)
(* acknowledged.  (A parent another recorder is still writing may be left   *)
(* out in silence.)                                                         *)
LineageReadsBack ==
    /\ \A j \in Jobs :
          LET id == EvidenceOf(j).evidence_id
          IN  /\ ReadDerived(graph, id) = ReconstructProvenance(graph, id)
              /\ \A p \in BagToSet(ReadDerived(graph, id)) :
                    \E k \in JobsOn(id) : p \in ToSet(EvidenceOf(k).parents)
    /\ \A r \in Recorders : \A k \in 1..(pc[r] - 1) :
          LET q == Requests(r)[k]
              before == {Requests(r)[i] : i \in 1..(k - 1)}
          IN  q.op = "parent"
                /\ (\E x \in before : x.op = "evidence"
                                      /\ x.evidence.evidence_id = q.parent)
              => q.parent \in BagToSet(ReadDerived(graph, q.child))

(* read_belief is to give the latest snapshot and gives all, in no order:   *)
(* where one recorder writes the beliefs of a subject, the update counter   *)
(* tells them apart, and once it is done the highest is its engine's track. *)
LatestBeliefIsRecognizable ==
    \A r \in Recorders, s \in Subjects :
        LET mine == {i \in DOMAIN work.jobs[r] : work.jobs[r][i].subject = s}
            read == BagToSet(ReadBelief(graph, s))
            alone == mine # {} /\ \A j \in Jobs : EvidenceOf(j).subject = s => j[1] = r
            final == TrackAfter(work.jobs[r], Max(mine))
        IN  alone =>
              /\ \A b1, b2 \in read :
                    b1.independent_updates = b2.independent_updates => b1 = b2
              /\ pc[r] > Len(Requests(r)) =>
                    /\ final \in read
                    /\ \A b \in read :
                          b.independent_updates <= final.independent_updates

-----------------------------------------------------------------------------
(* The graph seen through the read queries.                                 *)
AllJobs == UNION {{w.jobs[r] : r \in DOMAIN w.jobs} : w \in Workloads}
AllEvidence == UNION {ToSet(job) : job \in AllJobs}
AllIds == {e.evidence_id : e \in AllEvidence}

StoredIds == UNION {BagToSet(ReadSubjectHistory(graph, s)) : s \in Subjects}

Store ==
    INSTANCE EvidenceStore
        WITH Copies    <- AllEvidence,
             Snapshots <- UNION {{<<job[i].subject, TrackAfter(job, i)>> :
                                     i \in DOMAIN job} : job \in AllJobs},
             stored  <- StoredIds,
             custody <- [id \in AllIds |-> BagToSet(ReadProvenance(graph, id))],
             lineage <- {x \in AllIds \X StoredIds :
                            x[2] \in BagToSet(ReadDerived(graph, x[1]))},
             beliefs <- UNION {{s} \X BagToSet(ReadBelief(graph, s)) :
                                  s \in Subjects}

(* Decision S05/S09: the graph, read through the queries, is a store of     *)
(* identities, custody chains that grow from their first hop on, lineage    *)
(* between stored evidence, and snapshots; retries and lost responses are   *)
(* not to be seen in it.                                                    *)
GraphIsEvidenceStore == Store!Spec
=============================================================================
