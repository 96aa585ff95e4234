---------------------------- MODULE FaultyStream ----------------------------
(***************************************************************************)
(* LossyChannel::send_stream and reorder_in_place of crate seven-sim, one  *)
(* message and one swap at a time.  The seeded generator's draws are left  *)
(* open: every outcome some seed gives is a behaviour.  The stream is then *)
(* a fault log and a sequence of arrivals, and the question is whether the *)
(* log tells the whole truth about the arrivals.                           *)
(***************************************************************************)
EXTENDS Integers, Sequences, FiniteSets, SequencesExt

CONSTANTS
    Streams,        \* the streams of messages that may be sent
    MayLose, MayDuplicate, MayReorder

VARIABLES
    stream,       \* the messages as sent; a message stands for its id
    next,         \* index of the next message to send
    arrivals,     \* messages that came through, in the order of the vector
    log,          \* the fault events appended to the EventLog
    phase,        \* "send", "shuffle" or "done"
    i             \* of reorder_in_place: the position about to be swapped

vars == <<stream, next, arrivals, log, phase, i>>

Init ==
    /\ stream \in Streams
    /\ next = 1
    /\ arrivals = << >>
    /\ log = << >>
    /\ phase = "send"
    /\ i = 0

(* Fault: a duplicate is logged as a loss.                                  *)
Duplicate_AsLoss(m) == [type |-> "TransportLoss", message_id |-> m]

Loss(m)      == [type |-> "TransportLoss", message_id |-> m]
Duplicate(m) == [type |-> "TransportDuplicate", message_id |-> m]
Reorder(a, b) == [type |-> "TransportReorder", from_index |-> a, to_index |-> b]

-----------------------------------------------------------------------------
Sending == phase = "send" /\ next <= Len(stream)

(* send: lost and logged, doubled and logged, or passed on.                 *)
Lose ==
    /\ Sending /\ MayLose
    /\ log' = Append(log, Loss(stream[next]))
    /\ next' = next + 1
    /\ UNCHANGED <<stream, arrivals, phase, i>>

Double ==
    /\ Sending /\ MayDuplicate
    /\ log' = Append(log, Duplicate(stream[next]))
    /\ arrivals' = arrivals \o <<stream[next], stream[next]>>
    /\ next' = next + 1
    /\ UNCHANGED <<stream, phase, i>>

Pass ==
    /\ Sending
    /\ arrivals' = Append(arrivals, stream[next])
    /\ next' = next + 1
    /\ UNCHANGED <<stream, log, phase, i>>

(* The shuffle is drawn once for the stream and never for fewer than two.   *)
Shuffle ==
    /\ phase = "send" /\ next > Len(stream)
    /\ MayReorder /\ Len(arrivals) > 1
    /\ phase' = "shuffle"
    /\ i' = Len(arrivals)
    /\ UNCHANGED <<stream, next, arrivals, log>>

Deliver ==
    /\ phase = "send" /\ next > Len(stream)
    /\ phase' = "done"
    /\ UNCHANGED <<stream, next, arrivals, log, i>>

(* Faults: one message is copied over the other; the swap is logged after   *)
(* the position moved on.                                                   *)
Swapped_Copies(s, a, b) == [s EXCEPT ![a] = s[b]]
SwapEvent_Late(a, b) == Reorder(a - 2, b - 1)

(* Fisher-Yates downwards, positions logged from 0 as the code does; a draw *)
(* of the position itself swaps and logs nothing.                           *)
Swapped(s, a, b) == [s EXCEPT ![a] = s[b], ![b] = s[a]]
SwapEvent(a, b) == Reorder(a - 1, b - 1)

Swap(j) ==
    /\ phase = "shuffle" /\ i > 1 /\ j \in 1..i
    /\ IF j = i THEN UNCHANGED <<arrivals, log>>
       ELSE /\ arrivals' = Swapped(arrivals, i, j)
            /\ log' = Append(log, SwapEvent(i, j))
    /\ i' = i - 1
    /\ UNCHANGED <<stream, next, phase>>

Shuffled ==
    /\ phase = "shuffle" /\ i = 1
    /\ phase' = "done"
    /\ UNCHANGED <<stream, next, arrivals, log, i>>

Next ==
    \/ Lose \/ Double \/ Pass
    \/ Shuffle \/ Deliver
    \/ \E j \in 1..Len(arrivals) : Swap(j)
    \/ Shuffled

Spec == Init /\ [][Next]_vars

-----------------------------------------------------------------------------
UniqueIds == IsInjective(stream)

CountIn(s, x) == Cardinality({k \in DOMAIN s : s[k] = x})

Logged(type, m) == CountIn(log, [type |-> type, message_id |-> m])

(* Invariant 16 and S17's "observable, not swallowed": of every message id, *)
(* as many copies arrive as were sent, less the losses logged, plus the     *)
(* duplications logged, also when one id is sent many times and after any   *)
(* number of swaps.                                                         *)
CopiesAccountedFor ==
    \A m \in Range(stream) :
        CountIn(arrivals, m)
          = CountIn(SubSeq(stream, 1, next - 1), m)
              - Logged("TransportLoss", m) + Logged("TransportDuplicate", m)

(* What the stream leaves of a message by the log's word, all that survived *)
(* of a prefix in the order sent, and the log's swaps redone on that.       *)
Survivors(m) ==
    IF Logged("TransportLoss", m) > 0 THEN << >>
    ELSE IF Logged("TransportDuplicate", m) > 0 THEN <<m, m>>
    ELSE <<m>>

Redo(s, ev) ==
    IF ev.type # "TransportReorder" THEN s
    ELSE [s EXCEPT ![ev.from_index + 1] = s[ev.to_index + 1],
                   ![ev.to_index + 1]   = s[ev.from_index + 1]]

Survived[k \in 0..Len(stream)] ==
    IF k = 0 THEN << >> ELSE Survived[k - 1] \o Survivors(stream[k])

Rebuilt[n \in 0..Len(log)] ==
    IF n = 0 THEN Survived[next - 1] ELSE Redo(Rebuilt[n - 1], log[n])

(* The stronger reading for streams of distinct ids: from the stream and    *)
(* the log alone an auditor can rebuild the arrivals, order included.       *)
LogExplainsArrivals == UniqueIds => arrivals = Rebuilt[Len(log)]
=============================================================================
