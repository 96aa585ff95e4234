# A TLA+ model of Seven

Seven lets many observers contribute uncertain, timestamped, provenance-carrying
evidence about physical objects and maintains a deterministic belief about each.
This directory holds TLA+ modules translated from the crates under `src/crates`,
TLC configurations that check them on small instances, and TLAPS proofs, for every
instance, of every safety property, action property and refinement the passing runs check.
Liveness is model-checked only.

`PROJECT.json` maps each definition to the lines it models, lists the runs, the
faults each property was tried against, the hazards, and the proved theorems.

- [Components](#components)
- [Modules](#modules)
- [Runs](#runs)
- [Bounds](#bounds)
- [Fairness](#fairness)
- [Proofs](#proofs)
- [Disagreements found](#disagreements-found)
- [Not modelled](#not-modelled)
- [Plan](#plan)

## Components

`specs/seven.toml` numbers the system's invariants; "invariant n" below and in
the modules refers to that list. "Decision 0004" is
`specs/decisions/0004-conflict-criterion.md`.

**seven-core** turns a raw observation into a `CanonicalState`: validate, normalise
the quaternion, choose a hemisphere, quantise to integers, postcard-encode. It keeps
no state. `recanonicalize` dequantises and quantises again. Correct when equal
rotations give equal bytes (invariants 1, 3), canonicalising twice changes nothing (2), and
nothing non-finite gets through. Hard: the numeric edges (underflow, overflow,
rounding after the sign was chosen, saturation of i64).

**seven-evidence** wraps a canonical payload as `Evidence`: `originate` mints an
identity (a blake3 hash of the payload) and signs it, `forward` copies and appends a
hop of custody, `verify` recomputes the hash and checks the signature, `is_stale`
compares with the expiry. Values only, no state. Correct when forwarding preserves
identity (6), custody chains tell the truth (7), and only intact evidence of the named
source verifies.

**seven-belief** has two stateful engines. `BeliefEngine` keeps per subject a
Gaussian track, the set of incorporated observation ids and the last evidence, and
a list of conflict pairs; `incorporate` verifies, gates duplicates, decodes,
tests the innovation, flags, fuses. `ImuFusedTrack` puts the same gate in front
of an external EKF which has its own prediction steps and may refuse an update.
Correct when belief depends on the *set* of evidence only (8, 13),
duplicates and relayed copies count once (9), disagreements are retained (11) and pairs are
what they claim. Hard: four maps written by separate statements with early
returns between them; an id recorded before the step it guards can fail.

**seven-mql** carries evidence. *Projection*: `to_message` writes a message with
extensions, `from_message` parses it with defaults for older peers. *LossyMql*:
loses or doubles messages. *LoRa*: a compact frame cut into fragments and
reassembled. *QUIC*: length-prefixed single messages and counted batches over
streams. Correct when nothing but what is documented is lost on the way (7, 12) and
loss, duplication, reordering and damage never turn into false evidence (16).

**seven-bin** is the pipeline: observe, originate, project, transmit, recover,
incorporate what the *transport* delivered. It has no retry.

**seven-replay** records an `EventLog` and replays it twice from scratch, comparing
fingerprints of the final state; the first failing event ends the replay. Correct
when replay is deterministic (14) and the verdict and the state are those of the whole log.

**seven-sim** is a seeded lossy channel and reorder stage that writes every
fault into an `EventLog`. Correct when the log explains the arrivals completely.

**seven-helix** persists evidence, custody chains, belief snapshots and lineage as a graph
in an external database, HelixDB: a suite of write and read requests and a client that executes one at a
time. The state is the database's. Correct when what was acknowledged reads back (15) and re-relays are kept
apart. Hard: inserts are unconditional, so a repeated request multiplies nodes and edges; a step that matches
nothing succeeds in silence; a lost request and a lost response look alike; copies of one
observation share an id.

**seven-six** maps an operation and key to a cache tier; a stateless table.

How they interact: sensors call `originate`; `to_message` output goes into a transport
(LossyMql, QUIC, LoRa); the receiver calls `from_message` and then
`incorporate`; relays call `forward` between; seven-replay calls the same
`incorporate`, and `LossyChannel` writes seven-replay's events. All of this is
synchronous and single-threaded except QUIC and helix, which are async. The
concurrency that matters is between *nodes*: messages in flight, copies by several paths,
several recorders.

## Modules

| module | models | state | actions |
|---|---|---|---|
| `Evidence` | seven-evidence | none | `IsEvidence` is the struct; `Originate`, `Forward`, `Verify` are operators |
| `Gaussian` | `GaussianBelief`, the innovation test | none | exact rationals in place of f64 |
| `BeliefEngine` | `BeliefEngine` as a value, `incorporate` as a function | none | `Outcome`, `EngineAfter` |
| `BeliefOfSet` | what the engine promises | `observed`, `posterior` | `Observe` |
| `Belief` | one engine and its callers | `engine` | `Incorporate` |
| `ImuTrack` | `ImuFusedTrack` | its fields, and the last result | `Predict`, `PredictFails`, and one action per way `update_from_evidence` ends |
| `Projection` | `to_message`, `from_message` | none | `ToMessage`, `Parse`, `FromMessage` |
| `Wire` | a message between the two | the original, the message, the altered fields | older peers' omissions; damage to the payload and each extension |
| `Network` | `main` on several nodes, with `LossyMql` and relays | minted, sent and held evidence, messages in flight, an engine per node | `Observe`, `Report`, `Relay`, `Receive` |
| `FaultyStream` | `LossyChannel`, `reorder_in_place` | stream, arrivals, log, positions | one per message and one per swap |
| `ReplayEngine` | `apply`, the fingerprint | none | `Effect`, `Fails`, `Fingerprint` |
| `Replay` | `EventLog`, `replay` | log, pass, index, engine, verdict | `Push`, `Start`, `ApplyNext`, `FailEvent`, `SecondPass`, `Compare` |
| `Simulation` | a recorder, the channel and the replay on one `EventLog` | that of `FaultyStream` and `Replay`, the log shared | `Announce`, `Record`, `Transport`, `ReplayLog` |
| `Canonical` | `CanonicalState::canonicalize`, `recanonicalize` | the observation and its canonical state | `Refuse`, `Canonicalize`, `Recanonicalize` |
| `EvidenceGraph` | the query suite of seven-helix | none | a write request as a value and `After`, its effect on the graph; the read requests as operators |
| `EvidenceStore` | what persistence promises | identities, custody, lineage, snapshots | `Store`, `RecordHop`, `RecordParent`, `Snapshot` |
| `Helix` | recorders calling `HelixClient::exec` | the graph, each recorder's position, failures | `Exec`, `LoseRequest`, `LoseResponse`, `Retry` |
| `Lora` | frame, `fragment`, `reassemble` | none | operators |
| `LoraLink` | senders, a radio, a receiver | what was sent, the receiver's list | `Send`, `Hear` |
| `QuicFrame` | `encode_frame`, `decode_frame`, the bytes of a stream | none | operators |
| `QuicSession` | the two send and two receive functions as tasks on a connection | results, streams, receivers, what is accepted or closed | sender: `RefuseOversize`, `Open`, `Write`, `Finish`, `Abandon`; receiver: `Accept`, then `ReadLength`, `ReadBody` of `recv_message` or `ReadCount`, `ReadNextLength`, `ReadNextBody` of `recv_messages`; their failures; `Arrive`, `Close` |

`BeliefEngine` is a function over a value, so that `Belief` (one engine), `Network` (one
per node) and `ReplayEngine` (one inside a replay) share one translation of
`incorporate`. `Network` likewise uses `Projection` and `Evidence`.

`BeliefOfSet` is the abstract specification: a growing set of observations per
subject and the textbook posterior of that set. Its state has no order, no
repetition and no relay in it. `Belief` gives the refinement mapping (the recursive
update's fractions are brought to the textbook denominator), `belief` checks that
`Belief` implements it and `BeliefProofs` proves it.

Theorems are in modules of their own, named after what they are about; see [Proofs](#proofs).

`EvidenceStore` is the abstract specification of persistence, a store of sets that knows no nodes, edges or
repetitions; `Helix` maps the graph to it through the crate's own read requests
(`GraphIsEvidenceStore`). The hop-by-hop guard of `RecordHop` says that a chain is recorded from its first hop on.
The order of a recorder's requests is that of the crate's integration test (`tests/live.rs`), the one caller there
is; the crate never retries, so `Retry` is the caller's: it repeats the failed request, or everything about
that evidence.

`Simulation` composes `FaultyStream` and `Replay`, whose `log` is one `EventLog`. Nothing in the repository
logs `MessageSent` for the channel's messages yet; `Announce` is how a caller would, before sending. The channel is one that
`LossyChannel::new` returned: its refusal of probabilities outside 0..1 lies before the model begins, where a
probability is either zero or not.

An operator `Op_Name` is `Op` with a plausible programming fault. It is used in no
specification; each property of a passing run is violated when one of these
replaces the operator it is named after (`PROJECT.json`, "mutants").

Abstractions. A payload is an opaque value; whether it decodes and what it measures are
constants. A hash is a record around what it hashes, so it is injective; a signature names
its key and what it covers, so it cannot be forged. Hexadecimal text is the value
it encodes and the way it departs from a well-formed encoding, because
`hex_bytes` treats each way differently. In `Lora` an id, a payload unit and a
signature are one word each. In `QuicFrame` a prefix of four bytes is one byte. What lets a receiver
notice that it called the wrong function survives that: a body begins with a brace, which read as a
prefix exceeds every limit, and a prefix within the limit begins no JSON. The EKF is outside: it accepts or refuses, and its
innovation test goes either way. HelixDB is outside: it applies a request as a whole, and an edge step from
several nodes to several nodes adds an edge for each pair and none if either side matched nothing. Random draws are nondeterministic.

One precondition deserves attention. `verify` checks `evidence_id` and the payload;
it does not look at `observation_id`, on which the dedup gate works. `Belief` therefore
assumes (`InputsAssumption`) that evidence which verifies carries the observation id that
`originate` gave it, the hash of its payload. `originate` and `forward` guarantee that,
and `Network` does not assume it: its evidence comes from `Originate`,
`Forward` and an undamaged message. `Wire`'s `VerifiedIsIntact` says exactly what
survives damage instead.

## Runs

| run | properties | what it shows |
|---|---|---|
| `belief` | `TypeOK` | variances stay positive under the exact update |
| | `LastEvidenceBacksTrack` | track and last evidence, written separately, never drift apart |
| | `ConflictPairsSound`, `FlaggedOncePerRole` | a pair is two distinct incorporated observations; an observation is a newcomer once and a predecessor once |
| | `CounterCountsObservations` | the update counter is \|Dims\| per distinct observation |
| | `NothingForgotten`, `OneObservationPerUpdate` | action properties: no retained pair or id is lost; a step fuses one new observation into one track or touches none |
| | `BeliefIsFunctionOfSet` | `Belief` implements `BeliefOfSet` |
| `imu` | `CountersMatchFilter`, `ConflictPairsChain` | with refused updates and retries, nothing enters the filter twice, the counters say what it accepted; pairs chain through time |
| `imu_duplicate` | `DuplicatesWereFused` | violated, see below |
| `wire` | `RoundTrip`, `LegacyDegradesSafely`, `VerifiedIsIntact` | an unaltered message returns the evidence; an older peer's is never taken for authenticated; evidence that verifies after damage to its payload or its extensions is intact in all that is signed |
| `network` | `TypeOK` | every message a node sends parses where it arrives |
| | `CustodyIsAPath` | every hop of a chain held the evidence with the hops before it and sent it to the next |
| | `ForwardingMintsNothing`, `CountersIgnoreCopies`, `EvidenceSetsConverge` | identity, counting and convergence, with relays in both directions, loss and duplication |
| `network_fair` | `EverySightingArrives`, `NodesAgreeInTheEnd` | without loss, every sighting reaches every node's belief and the beliefs become and stay equal |
| `simulation` | `CopiesAccountedFor`, `LogExplainsArrivals` | the log accounts for every copy, and from stream and log the arrivals can be rebuilt in order, whatever else is logged between |
| | `StateIsLastWrite`, `VerdictIsAboutTheLog`, `BeliefsIgnoreLogOrder` | state and verdict are functions of the log stated without the engine, and the passes agree; reversing the log leaves the beliefs |
| | `ReplayKnowsWhatArrived` | a replay of the shared log takes a message for seen exactly if a copy of it arrived |
| `replay_fingerprint` | `FingerprintSeparates` | violated, see below |
| `canonical` | `ErrorWithinHalfStep` | a canonical length is within half a step of the observed one, or both lie at or beyond one end of i64 |
| | `SameRotationSameIdentity` | a quaternion and its opposite share a canonical form whatever becomes of their squares, and so do its doubles where no square loses digits |
| | `HemisphereUpToRounding`, `RecanonicalizeIsIdentity` | the hemisphere is the promised one up to rounding; canonicalising again keeps the state |
| `lora` | `FrameOrNothing`, `VerifiedFrameWasSent` | a frame comes whole or not at all while no id is shared, and says of its evidence what was sent, hops that exceed the counter saturating; where ids are shared no mixture verifies |
| `quic` | `OkMeansSent`, `ErrorsAreExplained` | a receiver that returns Ok has exactly what one matching call sent, never the front of a batch; one that fails has a reason |
| | `DecodersAgree` | `decode_frame`, `recv_message` and `recv_messages` agree on every frame a receiver comes to, alone or in a batch, cut short or not |
| | `AcceptedReturns` | a receiver that accepted a stream returns, whatever its sender did |
| `helix` | `CustodyReadsBack` | every acknowledged hop reads back; without failures each as often as it is in the chain, and times that increase restore the order: what was read with an earlier time than a hop are the hops before it |
| | `LineageReadsBack` | both directions of a link agree, name declared parents only, and a parent its recorder persisted earlier is there |
| | `LatestBeliefIsRecognizable` | with one writer per subject, the update counter tells snapshots apart and the highest is the engine's track |
| | `GraphIsEvidenceStore` | seen through the queries, the graph is the abstract store; retries and lost responses do not show |

`TypeOK` is checked where types can be got wrong: in `belief`, where variances must stay positive, and in
`network`. Elsewhere the properties say what the state's shape is for.

## Bounds

- `belief`: two subjects, two dimensions, twelve pieces of evidence that may be
  presented for ever; the state space is finite because the gate closes. Payloads are far
  enough apart that some orders flag and others do not, and they include a relayed
  copy, two observers of one state, an unsigned copy, a payload swapped under
  another's identity, and one that does not decode.
- `imu`: four observations and two predictions (`MaxPredicts`): failures, retries and
  predictions interleave in every order.
- `wire`: up to three of the ten fields altered (`MaxDamage`): every pair of damages meets,
  and a third shows no new outcome. A payload becomes one that does not decode, or one that does and whose hash is what
  changed digits spell, so that identity and payload can be damaged to match each other.
- `network`: two sensors whose sightings conflict, each reporting to a node of its own, relays both ways,
  chains of three hops (`MaxHops`), so that evidence returns to a node that had it, and by a relay that passed
  it on before. One subject: subjects do not interact
  in `incorporate` (`OneObservationPerUpdate` checks that with two).
- `simulation`: without a stream, all logs of up to four events (`MaxEvents`) of thirteen kinds; four are enough for
  two writes of a key with events of two other kinds around them. With a stream of up to three messages, one of
  them with an id sent twice, up to six arrivals and a chain of five swaps, and beside it events of one kind
  (`Beside`). Logs of up to nine events (`MaxReplayed`) are replayed: three announcements, three faults
  and three swaps.
- `canonical`: seven values per component and two that are not finite, with one place; nine lengths and NaN on each
  axis, with one attitude, i64 cut to four bits, so that ties, both ends and values beyond them occur; the scale 1e6 is cut to 5 and
  f64 to a grid of 16, which keeps what matters, a scale coarser than the grid. Squares below 9 (`LeastNormal`) are rounded
  to multiples of 3 (`LeastStep`), those of 1 to zero and of 2 to 3; a component a thirteenth (`Tiny`) of the norm vanishes;
  sums of squares above 350 (`Overflow`) are infinite. So attitudes are refused, accepted with a wrong norm, lose a component
  before or after the sign is chosen, or all of them, as with f64 near 1e-162 and 1e154.
- `lora`: two frames, two ids, five pieces of evidence of two or three fragments, one of them with more hops than the
  counter holds, and a sixth whose payload exceeds the length field; a list of up to
  four (`MaxSends`, `MaxHeard`): one more than any frame needs, so repeats and strangers occur. No frame that passes `encode`
  has more fragments than a byte counts unless the mtu is 7, so `fragment`'s own refusal is left to the proof.
- `quic`: two tasks on either side, a window of three bytes (`Window`), which is less than a batch, so that
  senders wait; the sender's limit is three (`SendMax`), the receiver's two (`RecvMax`), so that
  messages meet each exactly and exceed one or both. Five workloads pair matching and crossed
  functions with a batch cut by a long message, an empty batch, and a single refused by its sender or
  its receiver. The connection may close at any point and any byte may be the last to arrive.
- `helix`: three workloads: two recorders persisting copies of one observation, a parent and its child persisted
  by different recorders, and one recorder with a relayed duplicate and a derived observation, one of whose parents
  nobody persists. Each with one or two failures, so that a retry may itself fail or multiply what an earlier one
  left.

`NeverExpires` is 2^31-1 in place of `i64::MAX`. Deadlock is not checked where the system
really stops: a stream is delivered, a verdict is given, all budgets are spent.

## Fairness

`network_fair` and `quic` assume some; no other run does.

`network_fair`: weak fairness of every `Observe`, `Report`, `Relay` and
`Receive`. `main` runs its loop to the end without a condition under which it
idles, and a link whose loss is 0 delivers what it was handed (`deliver` returns
at least one copy). No fairness is put on *lossy* links; `EverySightingArrives` is
false there, as nothing is retried. `MaxHops` is 1, so that the relays'
work is finite; each sighting reaches the other node only through the relay.

`quic`: weak fairness of every task, as tokio polls each task that can proceed, and of `Arrive` for every
stream, as QUIC retransmits. Nobody has to close the connection. A sender that no receiver reads from
may wait for ever, and a receiver that no stream reaches too; `AcceptedReturns` claims neither.

## Proofs

All theorems are checked by TLAPS for every value of the constants: any number of subjects,
dimensions, nodes, links, events, messages, calls and steps.

| module | theorem | property |
|---|---|---|
| `BeliefProofs` | `TypeCorrect` | `TypeOK`, including positive variances |
| | `TracksAreBacked` | `LastEvidenceBacksTrack` |
| | `ConflictPairsAreSound`, `ObservationsFlagOnce` | `ConflictPairsSound`, `FlaggedOncePerRole` |
| | `NoDoubleCounting` | `CounterCountsObservations` |
| | `EngineForgetsNothing`, `EngineFusesOneObservation` | `NothingForgotten`, `OneObservationPerUpdate`, of every step |
| | `EngineImplementsBeliefOfSet` | `BeliefIsFunctionOfSet`, the refinement |
| `ImuTrackProofs` | `FilterCountsOnce`, `PairsChain` | `CountersMatchFilter`, `ConflictPairsChain` |
| `MessageProofs` | `EvidenceRoundTrips`, `OlderPeersAreSafe`, `VerifiedEvidenceIsIntact` | `RoundTrip`, `LegacyDegradesSafely`, `VerifiedIsIntact` |
| | `NetworkTypeCorrect` | `TypeOK` of `Network` |
| | `CustodyPathsAreReal`, `RelaysMintNothing` | `CustodyIsAPath`, `ForwardingMintsNothing` |
| | `CopiesAreNotCounted`, `NodesConverge` | `CountersIgnoreCopies`, `EvidenceSetsConverge` |
| `SimulationProofs` | `ReplayIsLastWrite`, `ReplayVerdict`, `ReplayIgnoresOrder` | `StateIsLastWrite`, `VerdictIsAboutTheLog`, `BeliefsIgnoreLogOrder` |
| | `FaultsAreLogged`, `LogRebuildsArrivals` | `CopiesAccountedFor`, `LogExplainsArrivals` |
| | `ReplayTellsArrivals` | `ReplayKnowsWhatArrived` |
| `TransportProofs` | `FramesComeWhole`, `VerifiedFramesWereSent` | `FrameOrNothing`, `VerifiedFrameWasSent` of LoRa |
| | `SessionSafe` | the inductive invariant of a QUIC session |
| | `ReceivedIsSent`, `FailuresHaveACause` | `OkMeansSent`, `ErrorsAreExplained` |
| | `DecodersNeverDisagree` | `DecodersAgree` |
| `CanonicalProofs` | `LengthsAreFaithful` | `ErrorWithinHalfStep` |
| | `RotationIsIdentity`, `HemisphereKept` | `SameRotationSameIdentity`, `HemisphereUpToRounding` |
| | `AgainChangesNothing` | `RecanonicalizeIsIdentity`, of every step |
| `HelixProofs` | `HelixSafe`, `CustodyIsExact` | the inductive invariants of persistence |
| | `HelixImplementsStore` | `GraphIsEvidenceStore`, the refinement |
| | `CustodyAlwaysReadsBack` | `CustodyReadsBack` |
| | `LineageAlwaysReadsBack` | `LineageReadsBack` |
| | `LatestIsAlwaysRecognizable` | `LatestBeliefIsRecognizable` |

`EvidenceProofs` holds lemmas only. Its first half is about `incorporate` as a function, which `Belief`, `Network` and
`Simulation` have in common, and so have their proofs. Its second half says that `from_message` inverts
`to_message`, which the proofs about messages, damaged or in flight, use.

### Assumptions

They are named and stand in the module that declares the constants; TLC evaluates each on the instances of the
runs.

- `GaussianAssumption`: finitely many dimensions; noise, prior and sigma positive.
- `InputsAssumption`, `ImuAssumption`, `LoggedEvidenceAssumption`: what is presented to an engine, or logged, and
  verifies carries the observation id `originate` gave it (see the precondition above). `Network` needs none of it.
- `MarkersAssumption` and the like: the markers for "no track", "no evidence" and "nothing" are not tracks,
  evidence or payloads, as `None` is not `Some` in Rust.
- `NetworkAssumption`: links join nodes, and what is sighted is about subjects, decodes and gets a signature. Nothing is assumed of the topology,
  of loss or of duplication.
- `WireAssumption`: damage is not forgery. Changed digits spell neither the hash of the payload that was sent nor a signature,
  the signature sent is over no other payload, and nobody signs with a key of zeros. Cryptography promises that; the code depends on it.
  Changed digits may well spell the hash of the payload that arrives.
- `LoraAssumption`, `LoraLinkAssumption`: fragments hold something; what is to be sent has a payload of bytes, of any length, and any number of hops, and is as `originate` and `forward`
  make it or has no signature. Where senders relay a signature under a payload that is not its own, a mixture of frames could restore what was
  signed and never sent.
- `FrameAssumption`, `SessionAssumption`: a message has one JSON text, no other message has it, and it begins with a
  brace; both limits, in the bytes of the model, are below what a brace read as a length says, as 8 MiB is below
  `{...` read as four bytes; a call of `send_message` has one message, a batch any number. The window holds at least a byte.
- `CanonicalAssumption`: a quaternion's scale is more than one and f64 is finer than its step, as 1e6 is less
  than 2^52; scales, the unit and i64's range are positive; an observation has three, three and four components, each an
  integer of the small unit or not finite; the least quotient is below a step of the quantisation. Where squares begin to lose digits, to vanish and to overflow is left open.
- `ReplayAssumption`, `OrderAssumption`, `SimulationAssumption`: logs name existing ids, and what is recorded beside a
  stream is not about the messages of the stream. If it were, the log would not tell the two apart.

- `HelixAssumption`: what is persisted is well-formed evidence about a known subject that verifies and decodes, as
  the integration test expects `incorporate` to succeed before it writes the belief; "no track" is not a track.
  Nothing is assumed of ids, of how often or by whom a copy is persisted, of parents or of failures.

### Arguments

*The engine.* `EvidenceProofs` shows that a recursive update by one observation turns the textbook posterior of a set into that of
the set with the observation, exactly. The sum in it is a recursion over a finite set, so it is first
shown not to depend on which element is taken out first. `KnowsWhatReached` then holds of an
engine after any number of calls: each track is the posterior of the observations that reached it, and the counter is one
per dimension and observation. Order, grouping and copies are not in that statement, which is why
`NoDoubleCounting`, the refinement, `NodesConverge` and `ReplayIgnoresOrder` follow from it.

*Conflicts.* The properties of pairs are not inductive one by one: that an observation is a predecessor once needs that the *current* last
evidence has not been one yet (`LastNotYetPredecessor`), that it is behind the gate needs
`LastEvidenceBacksTrack`, and that the newcomer differs from everything before it is the
gate itself. Their conjunction `ConflictInv` is inductive. `ChainInv` is its counterpart on the EKF path, where
ids are recorded before the filter may refuse: the last evidence is a newcomer of the last pair at most.
`FilterInv` says that an observation the filter accepted is recorded and at one position.

*The wire.* `AlteredInv` says what a message can have become: unaltered fields are as written, an altered
hexadecimal field is damaged, has other digits, or is absent where an older peer did not know it, and an altered payload is one of
`OtherPayloads`. What verifies of that is decided field by field: a changed payload under the identity sent fails the hash, and under an identity changed to
match it fails the signature, which is over the payload.

*The network.* `CustodyInv` follows a sighting: everything sent, in flight or held is the copy of a minted sighting
that passed the hops it names, and every one of those nodes held the copy with the hops before its own. `EngineInv` adds that an engine
has incorporated exactly the payloads its node holds, and `KnowsWhatReached`. Loss and duplication
change the bag of messages in flight only, and both invariants speak of its members.

*The replay.* `ReplayOf` is a fold, which TLA+ defines by a recursive function over sets of positions; `ReplayOfPrefix` turns that into one `Effect` per event.
Then `ReplayHolds` is about *every* replay of *every* log, not about a machine: the state is what the last event about each key
left, and the engine has recorded the ids in the log. `ReplayInv` says that what the passes accumulate is that fold. `VerdictInv` adds that what
was applied was justified, so that the second pass cannot fail where the first did not.

*The channel.* `CopiesInv` is the property itself, counted over positions; appending adds to both sides alike and a swap is a bijection
of positions. `ArrivalInv` orders the shared log: announcements are in the order of the stream and before every loss, so that the last event about a lost message is its
loss. `RebuildInv` says that the arrivals equal what is rebuilt at every moment, and that while messages are still being sent there is nothing to
redo yet; a swap is redone last because it is logged last.

*LoRa.* `LoraInv` says that all that was heard was sent, and the rest is about operators. Chunks of any size join to the frame they were cut from
(`ChunksJoin`, with the rounding in `total`), `decode` inverts `encode`, as what `encode` and `fragment` let pass fits the bytes it is cast to
(`AsByteIs`, `Sendable`), and `reassemble` yields words of frames that were sent, whatever
it mixes. In a frame that verifies one of these words is the signature, which covers id and payload and names the source; so one word settles the
others.

*QUIC.* `OkMeansSent` speaks of a receiver that is done, and is not inductive: what a receiver will return depends on where in the
bytes it stands. `SessionInv` says of each stream that it belongs to one call and carries a front of that call's script, all of it once the
sender finished unhindered; and of each receiver on a stream that it stands at `Offset` of the frame after the messages
it has (`Matched`), or called the function the sender did not. Then (`Crossed`) it must end in an error: a count read as a length is followed by bytes no
message begins with, and a length read as a count by a brace read as a length, beyond every limit.
`DecodersAgree` is about steps: where a receiver stands before one, `decode_frame` of what lies
ahead makes the same choices in the same order (`DecodeAt`, `DecodesAlike`).
The offsets are lemmas on the script alone (`FrameAt`): frame *k* + 1 lies where the first *k* end, and a unit read there is
its length, or its body. How writes and arrivals interleave enters only as how much has arrived.

*The canonical state.* There is next to no machine in it, `PipelineInv` says where a value came from; the work is
arithmetic. Rounding is within half a step of what is rounded (`RoundedIs`), and an integer closer than that is the only one
(`RoundedUnique`); so lengths are faithful, and the way to f64 and back ends at the integer it began from, because the error made on
the way is half a cell of f64, less than half a step. A normalised component is the natural
number whose half-way neighbours enclose it, compared by squares. There is one among those the model looks at (`NearestExists`), and only one, as two neighbours
cannot both be even (`NearestIsOne`). A multiple whose norm is the multiple of the norm multiplies both sides of every comparison by the same square,
makes the same components vanish, and its sign is undone by the choice of hemisphere (`MultipleSame`). The opposite has the very norm, whatever squares
were rounded to; a double has twice the norm where they were not (`NormOfMultiple`). Elsewhere it need not, which is why nothing is claimed of
multiples there. A square is at most doubled by rounding (`SquaredIs`), so some component has an
eighth of the square of the norm; it can neither vanish in the division nor in rounding, hence only overflow gives zeros.

*Persistence.* Each kind of request has a lemma that says what it does to what the queries read (`EvidenceEffect`,
`HopEffect`, `BeliefEffect`, `ParentEffect`): it adds what it names where its evidence is stored, nothing where it is not, and
leaves every other query's answer as it was. A recorder's requests are flattened blocks, one for each evidence (`BlocksArePlaced`),
so the request at a position is known by its block and its place in it, and evidence comes before what is said about it. `HelixInv`
then says that what was acknowledged is read, even if a retry sends the recorder back, that nothing is read that nobody was to
persist, and that each edge of lineage has its mirror image as often as it is there. That a request acts as one step of
`EvidenceStore` or as none is read off the effects; that both directions of lineage are *counted* alike needs that the edges of the one
are a bijection of those of the other and sums along it agree. The tracks an engine passes through on one
subject grow in their counter (`TracksFollow`), so it tells snapshots apart.

Exact custody is another matter: that a chain is read with each hop once cannot be seen from what is read, since a hop
written twice and a hop that occurs twice look alike. `ExactInv` relates the graph to the recorder's
*position*: as long as no call failed, evidence that one recorder persists once has as many edges of custody, in a bijection with the
first hops of its chain, as its recorder has sent requests for hops (`Progress`), and no request about another id touches them
(`ProgressElsewhere`).

Induction over numbers and finite sets is done by the least counterexample (`LeastNatural`), since the library's induction theorems take an operator, which the
provers cannot instantiate. The invariants of `Belief`, `ImuTrack`, `Network`, `Simulation`, `QuicSession` and `Helix` hold on the runs' instances too, by TLC.

Proving changed the models. `Justified` had accepted an undecodable observation whose
very event occurs earlier; the dedup gate compares ids, so the general statement is about a *recorded id*
(`Recorded`), which the small instance could not tell apart. `Authentic` now refuses evidence without a signature first, as `verify` does,
instead of leaving that to the difference between "no signature" and every signature. The counts and the reconstruction of
`FaultyStream` are now written with cardinalities and recursive functions, which can be reasoned about. `LineageReadsBack` had asked for the link after an
acknowledged request whose parent the recorder persists before some copy of the child. A recorder that persists a copy of the
child, then the parent, then another copy of the child refutes that in the general case, until the second copy's request is
sent. It now asks for the parent to come before the request itself, which is what `write_parentage` demands of its caller. `CustodyReadsBack` had compared sequences sorted
by time; it now compares bags and, for the order, what was read with an earlier time, which says the same.

### Only model-checked

- Liveness: `EverySightingArrives`, `NodesAgreeInTheEnd`, `AcceptedReturns`. TLAPS has no rule for
  fairness.

What is proved or checked of numeric values is about exact rationals;
f64 agrees up to rounding, so equality of tracks between nodes means equality up to
rounding. `Canonical` models where squares underflow or overflow and where quotients vanish; the rounding of normal products
(a length by its scale), sums, roots and quotients to 53 digits is left out, so half a step means up to that.

## Disagreements found

Two have a run of their own.

- `imu_duplicate`. `update_from_evidence` records the observation id first
  (`seven-belief/src/lib.rs:256`). When decoding or the EKF then fails, the retry returns
  `Ok(false)`, "duplicate", and the observation is never fused.
- `replay_fingerprint`. `state_fingerprint` concatenates names and values without
  lengths, so different states can have one fingerprint.

Others were met while modelling and have no run:

- `hex_bytes` (`seven-mql/src/lib.rs:233`) panics on a text of odd length and skips pairs that are not
  hexadecimal; malformed parents are dropped and a malformed expiry becomes "never". The doc
  of `from_message` (line 112) lists malformed extensions as errors. `Wire` models all of it, and
  `VerifiedIsIntact` holds nevertheless.
- `keep_stream_open` of `QuicAdapterConfig` is `true` by default and nothing reads it; every call finishes
  or drops its stream. `AcceptedReturns` would fail if a stream outlived a call that gave up.
- `independent_updates` of a Gaussian track is documented as the number of evidence groups
  (`seven-belief/src/lib.rs:58`) and grows by one per *dimension*;
  `CounterCountsObservations` states what it really is.
- Which observations are flagged depends on the order of arrival, since the test is made
  against the posterior so far, while decision 0004 reads "Same prior + same evidence
  ⇒ same flags". `EvidenceSetsConverge` is about tracks for that reason.
- The quaternion's sign is chosen before quantisation (`seven-core/src/lib.rs:139`); if
  the deciding component rounds to zero, the next one may be negative, although the docs
  speak of a "quantized quaternion in canonical hemisphere". A quaternion whose squares overflow
  becomes all zeros, although a comment calls that "already rejected above". `HemisphereUpToRounding`
  states what holds.
- The doc of `recanonicalize` (`seven-core/src/lib.rs:250`) calls a canonical quaternion "within half a
  quantization ulp of unit norm", and `to_canonical` asserts in debug builds that it is normalised (line 165). A quaternion with components near
  1e-162 has squares of a few of the least positive numbers; its norm is above `MIN_POSITIVE`, so it is accepted and divided by a norm that is
  wrong. One with components above 1e154 is divided by infinity. `SameRotationSameIdentity` says what is left: opposite quaternions are treated
  alike; multiples need not be, where squares lose digits.
- `read_belief` promises "the latest belief snapshot" (`seven-helix/src/lib.rs:312`) and returns all of a
  subject, in no order. `LatestBeliefIsRecognizable` states when a caller can tell which is the latest; with two
  recorders that keep an engine each for one subject it cannot.
- `reconstruct_provenance` says "traverse `PARENT_OF` up from an evidence id" (line 351) and goes up one step:
  it returns what `read_derived` does.
- A parent request whose parent is not stored yet succeeds and links nothing. The doc of
  `write_parentage` makes the order the caller's duty (line 107); two recorders cannot fulfil it without
  talking to each other, which is why `LineageReadsBack` is about parents of the same recorder.
- Message ids may repeat in a log. A loss then removes an id from `seen_messages` although another message of that id
  arrived (`seven-replay/src/lib.rs:158`); `ReplayKnowsWhatArrived` is about distinct ids.

## Not modelled

- Of seven-helix: endpoint resolution, client construction, the JSON of responses, and a restart of the
  database, whose development instance keeps its data in memory only.
- Binding, connecting and loading certificates in `quic.rs`: calls of quinn and rustls that keep no state.
- Two-way traffic over QUIC: one side sends and the other receives, so two peers that both wait for a window
  are outside the model.
- The postcard codec: payloads are opaque elsewhere, so only identity of bytes matters there.
- The EKF's numbers, hashing and signing: external libraries.
- `noisy_observations` of seven-sim, a pure generator; `stream_hash` and the seed of the
  `EventLog`, which nothing reads back.
- seven-six: a stateless table.
- `is_stale`: a comparison that nothing on the path from message to belief calls.
- Benchmarks, scripts, build files.

## Plan

1. Done: evidence, belief, IMU track, projection, network, simulation and replay, canonical state, LoRa, QUIC,
   persistence; proofs of the safety of all of these.
2. Two-way traffic over QUIC, where two peers that write before they read wait for each other.
