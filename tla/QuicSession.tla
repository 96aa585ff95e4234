---------------------------- MODULE QuicSession ----------------------------
(***************************************************************************)
(* Several tasks share one QUIC connection: some call send_message or      *)
(* send_messages, one stream each, others recv_message or recv_messages.   *)
(* Streams are accepted in the order they were opened, each delivers its   *)
(* bytes in order, and a dropped send side is finished by quinn.  The      *)
(* connection closes when either side drops its last handle; what had not  *)
(* arrived by then never does.                                             *)
(***************************************************************************)
EXTENDS QuicFrame, FiniteSets, FiniteSetsExt

CONSTANTS
    Tasks,       \* task identifiers, on either side
    Workloads,   \* [send |-> [tasks -> jobs], recv |-> [tasks -> kinds]]
    Window       \* flow control: bytes in flight or not yet read

ASSUME SessionAssumption ==
    /\ Window \in Nat \ {0}
    /\ \A w \in Workloads :
          /\ DOMAIN w.send \subseteq Tasks /\ DOMAIN w.recv \subseteq Tasks
          /\ \A t \in DOMAIN w.send : IsJob(w.send[t])
          /\ \A r \in DOMAIN w.recv : w.recv[r] \in {"single", "batch"}

VARIABLES
    work,       \* the workload
    send,       \* [task -> "ready", "open", "Ok" or "Err"]
    streams,    \* in the order opened: [by, script, written, finished,
                \*   arrived]; script is all the call means to write
    recv,       \* [task -> [state, stream, start, need, left, out]]
    accepted,   \* number of streams accepted
    closed

vars == <<work, send, streams, recv, accepted, closed>>

Idle == [state |-> "ready", stream |-> 0, start |-> 0, need |-> 0,
         left |-> 0, out |-> << >>]

Init ==
    /\ work \in Workloads
    /\ send = [t \in DOMAIN work.send |-> "ready"]
    /\ streams = << >>
    /\ recv = [r \in DOMAIN work.recv |-> Idle]
    /\ accepted = 0
    /\ closed = FALSE

Done == {"Ok", "Err"}
Reading == {"count", "length", "body"}

-----------------------------------------------------------------------------
(* Bytes written to stream s that are at the receiver; the FIN counts as    *)
(* one more arrival after them.                                             *)
BytesAt(s) ==
    SubSeq(streams[s].script, 1,
           Min({streams[s].arrived, streams[s].written}))
FinArrived(s) == streams[s].finished /\ streams[s].arrived > streams[s].written

ReaderOf(s) == {r \in DOMAIN recv : recv[r].stream = s}

(* read_exact takes what has arrived of the unit it is reading.             *)
Consumed(s) ==
    IF ReaderOf(s) = {} THEN 0
    ELSE LET r == CHOOSE x \in ReaderOf(s) : TRUE
         IN  Min({Len(BytesAt(s)), recv[r].start + recv[r].need})

(* The receiver has dropped the stream, which tells the sender to stop.     *)
Stopped(s) == \E r \in ReaderOf(s) : recv[r].state \in Done

StreamOf(t) == CHOOSE s \in DOMAIN streams : streams[s].by = t

-----------------------------------------------------------------------------
SenderEnds(t, result) ==
    /\ send' = [send EXCEPT ![t] = result]
    /\ streams' = [streams EXCEPT ![StreamOf(t)].finished = TRUE]
    /\ UNCHANGED <<work, recv, accepted, closed>>

(* send_message encodes before it opens a stream.                           *)
RefuseOversize(t) ==
    /\ send[t] = "ready"
    /\ work.send[t].kind = "single" /\ ~Completes(work.send[t])
    /\ send' = [send EXCEPT ![t] = "Err"]
    /\ UNCHANGED <<work, streams, recv, accepted, closed>>

Open(t) ==
    /\ send[t] = "ready" /\ ~closed
    /\ work.send[t].kind = "single" => Completes(work.send[t])
    /\ send' = [send EXCEPT ![t] = "open"]
    /\ streams' = Append(streams, [by |-> t, script |-> Script(work.send[t]), written |-> 0,
                                   finished |-> FALSE, arrived |-> 0])
    /\ UNCHANGED <<work, recv, accepted, closed>>

OpenFails(t) ==
    /\ send[t] = "ready" /\ closed
    /\ send' = [send EXCEPT ![t] = "Err"]
    /\ UNCHANGED <<work, streams, recv, accepted, closed>>

(* write_all of the count or a frame, as far as the window lets it.         *)
Write(t) ==
    /\ send[t] = "open" /\ ~closed
    /\ LET s == StreamOf(t)
       IN  \E n \in 1..(Consumed(s) + Window - streams[s].written) :
             /\ streams[s].written + n <= Len(streams[s].script)
             /\ streams' = [streams EXCEPT ![s].written = @ + n]
    /\ UNCHANGED <<work, send, recv, accepted, closed>>

WriteFails(t) ==
    /\ send[t] = "open"
    /\ closed \/ Stopped(StreamOf(t))
    /\ SenderEnds(t, "Err")

Written(t) == streams[StreamOf(t)].written = Len(streams[StreamOf(t)].script)

(* A message too long ends a batch between two frames.  Fault: the stream   *)
(* outlives the call, as keep_stream_open would have it.                    *)
Abandon_KeepsStreamOpen(t) ==
    /\ send[t] = "open" /\ Written(t) /\ ~Completes(work.send[t])
    /\ send' = [send EXCEPT ![t] = "Err"]
    /\ UNCHANGED <<work, streams, recv, accepted, closed>>

Abandon(t) ==
    /\ send[t] = "open" /\ Written(t) /\ ~Completes(work.send[t])
    /\ SenderEnds(t, "Err")

Finish(t) ==
    /\ send[t] = "open" /\ Written(t) /\ Completes(work.send[t])
    /\ SenderEnds(t, "Ok")

-----------------------------------------------------------------------------
Arrive(s) ==
    /\ s \in DOMAIN streams /\ ~closed
    /\ \E n \in 1..(streams[s].written + 1) :
          /\ n > streams[s].arrived
          /\ n > streams[s].written => streams[s].finished
          /\ streams' = [streams EXCEPT ![s].arrived = n]
    /\ UNCHANGED <<work, send, recv, accepted, closed>>

Close ==
    /\ ~closed
    /\ closed' = TRUE
    /\ UNCHANGED <<work, send, streams, recv, accepted>>

-----------------------------------------------------------------------------
(* A stream shows at the receiver once it or a later one has delivered.     *)
Acceptable ==
    \E s \in DOMAIN streams : s > accepted /\ streams[s].arrived > 0

Accept(r) ==
    /\ recv[r].state = "ready" /\ Acceptable
    /\ accepted' = accepted + 1
    /\ recv' = [recv EXCEPT ![r].stream = accepted + 1, ![r].need = 1,
                            ![r].left = 1,
                            ![r].state = IF work.recv[r] = "batch" THEN "count"
                                         ELSE "length"]
    /\ UNCHANGED <<work, send, streams, closed>>

AcceptFails(r) ==
    /\ recv[r].state = "ready" /\ ~Acceptable /\ closed
    /\ recv' = [recv EXCEPT ![r].state = "Err"]
    /\ UNCHANGED <<work, send, streams, accepted, closed>>

UnitArrived(r) ==
    Len(BytesAt(recv[r].stream)) >= recv[r].start + recv[r].need
Unit(r) ==
    SubSeq(BytesAt(recv[r].stream), recv[r].start + 1, recv[r].start + recv[r].need)

ReaderStep(r, next) ==
    /\ UnitArrived(r)
    /\ recv' = [recv EXCEPT ![r] = [next EXCEPT !.start = @ + recv[r].need]]
    /\ UNCHANGED <<work, send, streams, accepted, closed>>

ReadCount(r) ==
    /\ recv[r].state = "count"
    /\ ReaderStep(r, [recv[r] EXCEPT
            !.left = Unit(r)[1],
            !.state = IF Unit(r)[1] = 0 THEN "Ok" ELSE "length"])

Refused(r) == [recv[r] EXCEPT !.state = "Err"]
Sized(r) == [recv[r] EXCEPT !.state = "body", !.need = Unit(r)[1]]
Taken(r) == [recv[r] EXCEPT !.out = Append(@, CHOOSE m \in Parsed(Unit(r)) : TRUE),
                            !.left = @ - 1, !.need = 1,
                            !.state = IF recv[r].left = 1 THEN "Ok" ELSE "length"]

(* recv_message checks a length and a body, recv_messages again in its own  *)
(* words.                                                                   *)
ReadLength(r) ==
    /\ recv[r].state = "length" /\ work.recv[r] = "single"
    /\ ReaderStep(r, IF WithinLimit(Unit(r)[1]) THEN Sized(r) ELSE Refused(r))

ReadBody(r) ==
    /\ recv[r].state = "body" /\ work.recv[r] = "single"
    /\ ReaderStep(r, IF Parsed(Unit(r)) = {} THEN Refused(r) ELSE Taken(r))

(* Fault: a body as long as the limit is refused, in recv_messages only.    *)
ReadNextLength_Strict(r) ==
    /\ recv[r].state = "length" /\ work.recv[r] = "batch"
    /\ ReaderStep(r, IF Unit(r)[1] < RecvMax THEN Sized(r) ELSE Refused(r))

ReadNextLength(r) ==
    /\ recv[r].state = "length" /\ work.recv[r] = "batch"
    /\ ReaderStep(r, IF WithinLimit(Unit(r)[1]) THEN Sized(r) ELSE Refused(r))

ReadNextBody(r) ==
    /\ recv[r].state = "body" /\ work.recv[r] = "batch"
    /\ ReaderStep(r, IF Parsed(Unit(r)) = {} THEN Refused(r) ELSE Taken(r))

(* The stream or the connection ends inside a unit.  Fault: a batch ends    *)
(* where its stream ends.                                                   *)
ReadFails_EndsBatch(r) ==
    /\ recv[r].state \in Reading /\ ~UnitArrived(r)
    /\ closed \/ FinArrived(recv[r].stream)
    /\ recv' = [recv EXCEPT ![r].state = IF @ = "length" /\ work.recv[r] = "batch"
                                         THEN "Ok" ELSE "Err"]
    /\ UNCHANGED <<work, send, streams, accepted, closed>>

ReadFails(r) ==
    /\ recv[r].state \in Reading /\ ~UnitArrived(r)
    /\ closed \/ FinArrived(recv[r].stream)
    /\ recv' = [recv EXCEPT ![r].state = "Err"]
    /\ UNCHANGED <<work, send, streams, accepted, closed>>

-----------------------------------------------------------------------------
Sender(t) ==
    /\ t \in DOMAIN send
    /\ \/ RefuseOversize(t) \/ Open(t) \/ OpenFails(t)
       \/ Write(t) \/ WriteFails(t) \/ Abandon(t) \/ Finish(t)

Receiver(r) ==
    /\ r \in DOMAIN recv
    /\ \/ Accept(r) \/ AcceptFails(r)
       \/ ReadLength(r) \/ ReadBody(r)
       \/ ReadCount(r) \/ ReadNextLength(r) \/ ReadNextBody(r)
       \/ ReadFails(r)

Next ==
    \/ \E t \in Tasks : Sender(t) \/ Receiver(t)
    \/ \E s \in DOMAIN streams : Arrive(s)
    \/ Close

Spec == Init /\ [][Next]_vars

(* The runtime polls every task that can proceed and QUIC retransmits;      *)
(* nobody has to close the connection.                                      *)
Fairness ==
    /\ \A t \in Tasks : WF_vars(Sender(t)) /\ WF_vars(Receiver(t))
    /\ \A s \in 1..Cardinality(Tasks) : WF_vars(Arrive(s))

FairSpec == Spec /\ Fairness

-----------------------------------------------------------------------------
JobOf(r) == work.send[streams[recv[r].stream].by]

(* Invariant 12 over QUIC: a receiver that returns Ok called the function   *)
(* that matches the sender's and returns exactly what was sent, in order;   *)
(* never the front of a batch, whatever was cut, refused or closed.         *)
OkMeansSent ==
    \A r \in DOMAIN recv :
        recv[r].state = "Ok" =>
            /\ JobOf(r).kind = work.recv[r]
            /\ recv[r].out = JobOf(r).messages

(* Fail-explicit: a receiver that got a stream fails only for a reason: the *)
(* connection closed, the wrong function was called, or a message exceeds   *)
(* one of the two limits.                                                   *)
ErrorsAreExplained ==
    \A r \in DOMAIN recv :
        recv[r].state = "Err" /\ recv[r].stream # 0 =>
            \/ closed
            \/ JobOf(r).kind # work.recv[r]
            \/ \E i \in DOMAIN JobOf(r).messages :
                  Len(BodyOf[JobOf(r).messages[i]]) > Min({SendMax, RecvMax})

(* What has arrived from the length of the frame a receiver is at.          *)
AtFrame(r) ==
    LET bytes == BytesAt(recv[r].stream)
        from  == IF recv[r].state = "length" THEN recv[r].start + 1 ELSE recv[r].start
    IN  SubSeq(bytes, from, Len(bytes))

(* decode_frame, recv_message and recv_messages, three decoders of one      *)
(* format, agree on every frame a receiver comes to, of a batch or alone,   *)
(* cut short or not: where decode_frame finds a message the receiver takes  *)
(* that one, and what the receiver refuses decode_frame refuses, or waits   *)
(* for if it is the stream or the connection that ended.                    *)
DecodersAgree ==
    [][\A r \in DOMAIN recv :
          recv[r].state \in {"length", "body"} =>
             LET decoded == DecodeFrame(AtFrame(r))
             IN  /\ recv'[r].out # recv[r].out =>
                        /\ decoded[1] = "message"
                        /\ recv'[r].out = Append(recv[r].out, decoded[2])
                 /\ recv'[r].state = "Err" =>
                        decoded = IF UnitArrived(r) THEN <<"error">> ELSE <<"more">>]_vars

(* A receiver that has accepted a stream returns: every sender finishes or  *)
(* drops its stream, also where a message too long ends a batch half way,   *)
(* and the window opens as long as somebody reads.                          *)
AcceptedReturns ==
    \A r \in Tasks :
        (r \in DOMAIN recv /\ recv[r].state \in Reading)
            ~> (r \in DOMAIN recv /\ recv[r].state \in Done)
=============================================================================
