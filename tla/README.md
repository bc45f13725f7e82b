# Fortress Rollback: TLA+ models and proofs

Fortress Rollback (`src/`) is a Rust library for peer-to-peer rollback
networking. Every peer runs the same deterministic game. It simulates a frame as
soon as its *local* inputs are there, *predicts* the inputs of the remote players,
and when a real input turns out different from the prediction it loads a saved
state and simulates the frames again. The library promises that once a frame is
*confirmed* every peer has simulated it with the same, real inputs, that this
survives late inputs, stalls and lost players, and that the session goes on for as
long as the peers hear of each other.

This directory models that promise from the source. Line numbers below refer to
`src/src/`.

## 1. Inventory

| Component | State | Operations | Talks to |
|---|---|---|---|
| **InputQueue** `input_queue/` | a ring of `queue_length` inputs (`head`, `tail`, `length`), `last_added_frame`, the delay, the *prediction episode* (`prediction`, `last_requested_frame`, `first_incorrect_frame`), the frozen value of a dropped player, two side slots for reclaimed inputs | add an input (delay fill, eviction of a full ring), change the delay, ask for a frame, reset the prediction, discard, backfill, freeze at a cut, reopen | called by the sync layer, one queue per player |
| **SyncLayer** `sync_layer/` | `current_frame`, `last_confirmed_frame`, `last_saved_frame`, a ring of `max_prediction + 1` saved states, the queues | save, load, advance, `synchronized_inputs`, `confirmed_inputs`, confirm and discard, freeze | called by the sessions; the game fills its cells |
| **P2PSession** `sessions/p2p_session.rs` | connect status of each player (ours, and what each peer reports), submitted local inputs, `disconnect_frame`, halt ceiling, exposed high-water mark, the active drop | `add_local_input`, `advance_frame`, `set_input_delay`, `poll_remote_clients` (its events), `confirmed_frame`, `disconnect_player`, `remove_player` | the game (requests), endpoints (events, messages), spectators |
| **Coordinated drop** `sessions/p2p_session.rs:946-2643` | operations, participants, inventories, cut, phase, deadline | prepare, report, plan, backfill, ready, commit, abort, time out | the survivors' sessions, by messages that are resent |
| **UdpProtocol** `network/protocol/` | handshake state, `pending_output`, received inputs, acks, timers, peer connect status | synchronise, send and resend input, acknowledge, keep-alive, disconnect | the session (events), the socket |
| **Confirmation floors** `p2p_session.rs:10658-11109` | floor rounds and their reports | start, answer and finish a round (four or more peers) | other sessions |
| **Spectator session** | ring of input vectors per frame, hosts, divergence latch | receive, merge, advance, catch up, fail over | hosts' endpoints |
| **Desync detection** `p2p_session.rs:12169-12345` | local and pending remote checksums | record, send, compare | endpoints |
| **TimeSync** `time_sync.rs` | windows of frame advantages | advance, average, recommend a wait | session |
| **SyncTestSession, replay, recording** | check distance, checksum history; recorded vectors | force rollbacks and compare; record and play back | sync layer |
| **Event queue** | bounded queue of events | insert with retention, drain | session, game |
| **Compression and codec** | none | delta, run-length, wire encoding | endpoints |
| **Hot join** (feature, off by default) | serve and join protocols, snapshots, reactivation floors | request, serve, reserve, reactivate, abort | queues, sync layer, endpoints |

What is hard here: nothing runs in parallel *inside* a session (`&mut self`), but
a session interleaves the game's calls with events that arrive in any order, late
or never. State is computed early in a call and used late in it
(`confirmed_frame`); a save or a load is only *requested* and performed by the game
after the call has returned; rings wrap and evict; a drop rewrites inputs that were
already simulated while other predictions are outstanding; and everyone waits for
everyone at the prediction threshold. `PROJECT.json` lists each of these hazards at
its line, with the properties that would catch it going wrong.

What makes each component correct:

* InputQueue: a lookup of a frame returns that frame's input or nothing; no wrong
  prediction goes unnoticed; what a rollback still needs is never dropped; a failed
  operation leaves no trace.
* SyncLayer and P2PSession: confirmed frames are final; every state and input a
  rollback needs is there; what was reported or broadcast as confirmed stays true;
  what is stored locally is sent; the session does not stall for ever; a halted
  session confirms nothing new.
* Coordinated drop: all survivors commit the same cut, not below anything any of
  them has exposed, or fail closed.
* UdpProtocol: inputs arrive in order, without gap or duplicate, although packets
  do not; the handshake completes; a dead peer is noticed.
* Spectator: plays exactly a prefix of the host's final inputs, or reports a
  divergence.
* Desync detection: no false alarm; a real divergence is reported.

## 2. Modules

| Module | Models | Shape |
|---|---|---|
| `InputQueueOps` | `InputQueue`'s methods | operators on a queue record: each returns the new queue and the result |
| `InputQueue` | one queue and its callers | state machine, an action per method; history variables of what the callers gave and received |
| `SyncLayerOps` | `SyncLayer`'s methods | operators on a sync-layer record, extends `InputQueueOps` |
| `P2PSession` | one peer's session, its game, its checksum reports, and the other peers as environment | state machine that composes the two operator modules |
| `InputChannel` | what a session expects of an endpoint | abstract specification: inputs arrive in order, each once |
| `UdpProtocol` | two endpoints and the network between them | state machine that implements `InputChannel` |
| `CoordinatedDrop` | the drop barrier between two or three survivors | state machine, messages in a set that only grows |
| `Spectator` | a spectator session and its hosts | state machine, the hosts as environment |
| `MCInputQueue`, `MCP2PSession`, `MCUdpProtocol`, `MCCoordinatedDrop`, `MCSpectator` | instances for TLC | |
| `InputQueueOpsProofs` | lemmas on slots, induction and what each method of the queue preserves | TLAPS |
| `InputQueueProofs` | theorems on the state of `InputQueue` (types, ring, episode) and on what its callers gave and received | TLAPS |
| `UdpProtocolProofs` | theorems about `UdpProtocol`, with the refinement of `InputChannel` | TLAPS |
| `P2PSessionOpsProofs` | lemmas on the queues of a session and on the stages of `advance_frame` | TLAPS |
| `P2PSessionProofs` | theorems about `P2PSession`: what is held, exposed and broadcast | TLAPS |
| `P2PSessionRollbackProofs` | theorems about `P2PSession`: rollback, saved states, the confirmed frame | TLAPS |
| `SpectatorProofs` | theorems about `Spectator` | TLAPS |
| `CoordinatedDropProofs` | theorems about `CoordinatedDrop` | TLAPS |

How they fit together. `P2PSession` takes two things for granted: that a remote
player's inputs come in order and once (`RemoteInput`), and that the survivors of a
drop agree on a cut at or above everything exposed (`CommitDrop`). The first is what
`UdpProtocol` is shown to provide (`ImplementsChannel`, the refinement of
`InputChannel`), the second is what `CoordinatedDrop` is about (`SurvivorsAgree`,
`ExposedBelowCut`). `CoordinatedDrop` in turn uses the input queue's contract, checked
in `InputQueue`, and `Spectator` uses the endpoints' and the drop's.

The queue and the sync layer are plain sequential data structures that the session
owns, hence operators with the source's names rather than processes; two state
machines drive them. `InputQueue` drives one queue by *every* order of calls
its callers allow, `P2PSession` by what one session really does.

### InputQueue

The record has the fields of the Rust struct. `add_input` covers
`advance_queue_head` (duplicates and gaps are refused with `NULL_FRAME`, a first
input with a delay fills the skipped frames with the default), the eviction of the
oldest slot of a full ring, and the comparison with the prediction (`EpisodeDone`,
`EpisodeStart`). A run of additions that may fail half-way
(`AddRun`) is a recursive function over the number of inputs stored, so that the
restoring gap fill of `set_frame_delay` and the backfill of a drop can be stated
and proved about. Guards on the actions state what the callers guarantee: the
simulation asks for non-decreasing frames between two resets, the rollback floor is
never above the frame it asked for last, a frozen queue is not asked beyond the
agreed cut, the first input is for frame 0. `RequestInput` asks from the activation
frame of the last reopen on, as `synchronized_inputs` does.

History variables: `written` (the input meant for each frame), `served` (the
predictions handed out), `next_user` (the caller's next frame), `agreed`,
`activation`, `era`.

### P2PSession

One call of `advance_frame` is one step. Its stages, in the order of the code, are
operators on a work record (`Start`): `Rollback` (save of frame 0, consistency
check, `adjust_gamestate`), `SaveAfterRollback`, `SendToSpectators`,
`StoreLocalInputs` (which confirms, discards, then stores and stamps the local
inputs) and `AdvanceLocal`. Before them comes the desync stage: the checksum of the
next scheduled frame is looked up in the saved states, sent and remembered in a
bounded history, unless a resimulation is still due. `confirmed_frame` is evaluated before the rollback and
used after it, as in the code. A stage that fails ends the call and loses its
requests. `Fulfil` is the game handling the requests in order; a saved state is the
whole sequence of input vectors simulated so far, so two states are equal exactly
when a deterministic game cannot tell them apart, and `game[f + 1]` is the vector
frame `f` was simulated with.

| Action | Code |
|---|---|
| `AddLocalInput`, `AdvanceFrame`, `SetInputDelay`, `ConfirmedFrame` | the public methods |
| `AdvanceFrameHalts` | `advance_frame` with a propagated disconnect (`update_player_disconnects`) |
| `RemoteInput` | `Event::Input` in `handle_event` |
| `Gossip`, `GossipDisconnect` | the connect status in a peer's packet (`merge_peer_connect_status`) |
| `DisconnectPlayer` | `disconnect_player`, or `Event::Disconnected` with `Halt` |
| `BeginDrop`, `CommitDrop`, `FailDrop` | `begin_coordinated_drop`, `coordinated_drop_apply_commit`, fail-closed |

The environment. Each remote player has an endpoint of its own, which delivers its
inputs in order. A peer is never more than `MaxPrediction` frames past our inputs
(`Horizon`): it stalls there, by the same code. Reports grow until they say
*disconnected*; with `ContinueWithout` a peer reports that only with the agreed
cut. The history variables `sent` and `truth` hold what was sent and the players' real
inputs.

### UdpProtocol

| Action | Code (`network/protocol/mod.rs`) |
|---|---|
| `Synchronize`, `RetrySync` | `synchronize`, the sync branch of `poll` |
| `SendInput`, `ResendPending` | `send_input` (a full `pending_output` ends the connection), the resend branch of `poll` |
| `Nudge` | the status-only input packet of an idle endpoint |
| `ChangeView` | the session's connect status changes, or is lowered |
| `OnSyncRequest`, `OnSyncReply` | the handshake, with the configuration check and the remote's connection identifier |
| `OnInput`, `OnInputAck` | `on_input` with its decode reference, its staging and its acknowledgements; `on_input_ack` |
| `OnGoodbye` | the peer's farewell |
| `Interrupt`, `DisconnectTimeout`, `DisconnectRemote`, `Disconnect`, `Shutdown` | silence timers, the session's calls |
| `NoticePrune`, `AnswerFloorRequest` | the session's `drive_floor_round` |
| `SendFloorRequest`, `OnFloorRequest`, `OnFloorReply` | the floor round of one endpoint |
| `Restart` | the peer's process is started again, with a new identifier |
| `Receive`, `ReceiveCopy`, `Lose` | the network: a packet arrives, arrives and is repeated, is lost |

`Accepts` is the filter of `handle_message` that every packet passes (state,
identifier, bound peer). An input is a set of bits and an input packet carries the
differences to a reference input, so a receiver that decodes against another
reference than the sender's gets another input: `Verdict` is the case distinction of
`on_input` over which reference it still has. `sent` and `delivered` are the abstract channel's
variables; both are history.

### CoordinatedDrop

Every peer runs the same code: it may coordinate a drop, take part in one, or both.
A handler is an operator on a work record (the peer's state, the messages to send,
the error that makes the attempt fail closed), like the `coordinated_drop_*` methods
that take and return the active operation.

| Action | Code (`sessions/p2p_session.rs`) |
|---|---|
| `RemovePlayer` | `begin_coordinated_drop` from `remove_player` |
| `Receive` | one of `coordinated_drop_accept_{prepare,report,backfill,commit,abort}` |
| `Drive` | `drive_coordinated_drop`: rebroadcast, lost participants, timeout, deferred and queued operations |
| `ReceiveInput` | an input of a target still arrives and is stored, unless the attempt holds it |
| `ConfirmedFrame`, `AdvanceFrame` | frames are exposed; confirmed inputs are discarded from the front |

`Holds` and `SlotBound` are what an active attempt does to `confirmed_frame`: a
survivor that has reported its inventory exposes nothing past it until the drop is
decided.

### Spectator

| Action | Code (`sessions/p2p_spectator_session.rs`) |
|---|---|
| `PollRemoteClients` | `poll_remote_clients`: a batch of frames of each host, then disconnects |
| `AdvanceFrame` | `advance_frame`: poll, then one frame, or `catchup_speed` of them when behind |
| `SeekToFrame` | rewind to a saved state |
| `HostConfirms`, `HostChangesView` | environment: a host confirms a frame; its view of the slot changes |

A batch goes through the handlers in the order of the code: stage the frame in its host's ring, compare with what the
other hosts staged and with what was committed (`Contradicts`), commit what the
canonical host and the others make available, converge the slot's status
(`ConvergedStatus`, `Freezes`, `Witnessed`).

### Abstractions

* The default build: without the hot-join feature (the queue's two hot-join
  operations *are* modelled).
* Inputs are model values (sets of bits in `UdpProtocol`); predictions are
  `RepeatLastConfirmed`, as in the queue.
* Frames stay far below the limits of `i32`, so saturating additions do not bite.
* `P2PSession`: at most two remote endpoints, one player each: the relay topology, in
  which `confirmed_frame` consults floor rounds, needs three. Of a drop it has one
  peer's side, with any agreement `CoordinatedDrop` allows. Every saved state has
  a checksum, which is the state itself; a peer in step is taken to report the checksum
  of the final state. The deferral of checksums before a disconnect's resimulation is
  modelled, and with coordinated drops alone it is never needed.
* `UdpProtocol`: no clock. A timer fires whenever the state allows it, which
  includes every real timing. Keep-alives and quality reports change only the time of
  the last packet and statistics. The peers' other links are in the setup: how often a
  session loses another remote, and the lowest freeze its other remotes report. A loss
  and the poll that notices it are one step; in the code `confirmed_frame`, called between
  the two, still goes by the round before. The run-length coding on top of the delta is lossless.
* `CoordinatedDrop`: a sent message stays receivable, so loss is a message that is never
  received and duplication is receiving it twice. A poll handles messages and then
  drives; `busy` keeps other calls of that peer out in between. A backfill chunk has one
  frame. An input that was discarded is gone: in the code `confirmed_input` still answers for
  it until its ring slot is written again, so the model can only miss more inputs. `closed` is a
  set without the code's bound on its length. A drop is not asked for again by a peer that has failed closed. A digest is the input at the cut, as in
  the code.
* `Spectator`: one slot, the one that may be dropped; the packets carry all slots
  together and the handlers treat them alike. It begins after the first host has
  synchronised. The slot is dropped and reopened at most once. `canonical_hosts` is
  kept with the committed inputs. The `last_frame` of a connected slot is never read and
  is left NULL.
* Events to the user, logging, telemetry, statistics and recording are left out.

## 3. Runs

| Run | Instance | Checks | States |
|---|---|---|---|
| `input_queue` | ring of 3, two inputs, frames 0..3, one reopen | types, alignment, lookups, mispredictions, episodes, the stream after a refused gap fill, freezes, retention | 168,176 |
| `p2p_session` | two peers, frames 0..5: window 2 saving every frame, window 2 sparse with a delayed remote, and lockstep; the local delay may grow, the peer may be lost | types, final frames, no failing `advance_frame`, what is stored is sent, final checksums, held states, liveness | 96,235 |
| `p2p_loss` | three peers, frames 0..3: window 1 with a graceful drop, lockstep with `Halt`, window 2 with two mispredicted remotes that stay | final frames and broadcasts, exposed frames, no regress, liveness | 361,736 |
| `p2p_drop_stall` | as the drop of `p2p_loss`, the *surviving* remote's inputs vary | expected violation, section 6 | |
| `p2p_sparse_checksums` | two peers, sparse saving, interval 1 | expected violation, section 6 | |
| `udp_safety` | three setups, see below | the channel is implemented, acks are honest, connections and floor rounds do not mix | 2,337,162 |
| `udp_delivery` | one sender, with or without a restart of an incompatible peer | delivery, gossip, diagnosis (liveness) | 11,028 |
| `drop_barrier` | two survivors, two crossed drops, three survivors | agreement, exposure, history, liveness | 463,117 |
| `drop_pristine` | two survivors that need not have an input of the target yet | expected violation, section 6 | |
| `drop_overtaken` | two survivors, four inputs of the target | expected violation, section 6 | |
| `spectator` | two hosts that drop and reopen, two that freeze at different frames, one with seeks | playback, conflicts, freezes, liveness | 45,101 |
| `spectator_failover` | two hosts, the second runs ahead of a silent first one | expected violation, section 6 | |

What they show.

*Queue.* In `input_queue` the ring wraps, evicts up to a floor, refuses without one,
and is frozen, re-rolled and reopened in every order; `confirmed_input` (which looks
at slot `f mod length`) and `input` (which walks from the tail) never disagree with
what was stored, and every wrong prediction is reported at or before its frame.

*Session.* The P2P runs let inputs arrive before, while and after their frame is
predicted, in every order between players. `ConfirmedFramesAreFinal` is the library's
promise; `AdvanceNeverFails` says that the error paths of `advance_frame` (a state
that is not in its cell, an input that is not in its queue) are not taken in a session
whose peers behave, and that the requests take the game exactly to the session's frame.
One session of `p2p_loss` has two remote players that are mispredicted from different
frames on: the rollback must start at the earlier of the two, and `set_last_confirmed_frame`,
which clamps to the *later* one, must not be reached before it. `ReportedChecksumsAreFinal` is why desync
detection raises no false alarm: no reported checksum is of a state that a late input or a drop rewrites.
`ExposedFramesAreKnown` says that a frame reported as confirmed, before or after a halt,
has the real input of every player.

*Endpoint.* `ImplementsChannel`: whatever is lost, repeated or reordered, and however
much history the receiver has pruned, the session sees the peer's inputs in order,
undamaged and once. `AckedIsDelivered`: the sender forgets an input only when it has
arrived. `RunningPeersAgree` and `StaleGoodbyeIgnored`: packets of an earlier start of
a peer neither bind nor end a later one. `FreshFloorIsCurrent`: the observer of a floor
round trusts only a floor that the relay had after the loss that started the round.
`udp_delivery` shows what the retries are
for: inputs are delivered and acknowledged unless an endpoint gives up (its queue was
full), the connect status of a dropped slot reaches the peer and is not undone by an older
packet, and both of two incompatible sessions find out.

*Drop.* `SurvivorsAgree`: all that commit, commit one cut with the player's real
inputs up to it. `ExposedBelowCut`: no survivor has by then exposed a frame past it.
`NeededHistoryIsKept`: an input that another survivor still needs for the backfill is
discarded only by one whose confirmation had passed the other one's inventory *before*
it entered the operation itself; that case is `Overtaken` (section 6). `DropCompletes`:
without a timeout and without that, the barrier never deadlocks, although both survivors
may coordinate at once and each defers to the other's operation.

*Spectator.* What is played is what the mesh agreed on; a host that contradicts it is
noticed while the frame is still held; hosts that agree, however far apart they drop
and reopen the slot, are never taken to disagree; and playback reaches the end. In
`Lowered` the mesh allows either input at the frames between the two freezes, so there
the values rest on agreement and freezes; what is played is pinned down by `BothReopen`
and `Rewound`.

Bounds, and why they are enough. Ring and window sizes are the smallest at which
the case exists: a ring of 3 wraps within frames 0..3, and a gap fill that is
refused after it has stored a frame needs 3, because the delay grows by at most the
ring's length minus one; a window of 2 has rollbacks over more than one frame and
replayed frames that are mispredicted again; with `LastFrame` 5 and a window of 2
every cell is overwritten. With losses, three peers are run with window 1, because the
third peer's reports multiply the states. The session of `p2p_loss` with two mispredicted
remotes has the window of 2 that two different first wrong frames need, and leaves the
losses out; there player 1 always submits the input that is not predicted, so it is
mispredicted at frame 0 only, and player 2 at any frame. Only one player's inputs vary
where a player may be lost, which is what separates `p2p_loss` (the dropped player's vary)
from `p2p_drop_stall` (the other one's do): `p2p_loss` therefore says nothing of a
misprediction of the surviving remote player beside a drop. `MaxEras`, `MaxInputDelay` and `LastFrame` only bound the
exploration.

A configuration of `UdpProtocol` is a setup: `Transport` (three different inputs
against a queue of 2 and a history of 1, so that the queue fills and the reference is
pruned; peer 1 starts at frame 1, as with an input delay), `Handshake` (two sync
rounds, each peer may start twice, all timers) and `FloorRound` (the observer loses two
other remotes, the relay's floor falls twice, three requests). They are one run because
they ask the same questions; combined in one setup they would be too large. `MaxInFlight` 2 lets an old packet
overtake a new one. `Randoms` has one number: a reply is matched by its number, and a
wrong number only drops it. In `CoordinatedDrop` three frames of the target allow cuts
that need a backfill of one or two frames, `Known` 1 starts past the case of
`drop_pristine` (which has `Known` 0), and the crossed drops supersede each other; it takes a fourth
frame for one survivor to discard past the other's inventory (`drop_overtaken`). In
`Spectator` a buffer of 3 is overwritten within 4 frames; `ahead` keeps the hosts of
`spectator` within the buffer, and `spectator_failover` lifts it.

Deadlock is not checked in these runs, except for the queue's: a bounded session stops
at its last frame, a halted one for good, and endpoints with everything acknowledged
have nothing to do.

Fairness. It is assumed of what the code repeats, and of nothing else.

* `P2PSession`: the game loop submits inputs and calls `advance_frame` again and
  again. Endpoints resend inputs until they are acknowledged and repeat their reports
  in every packet, so an input or report that stays possible arrives. A peer that has
  committed a drop reports its cut. An active drop is decided, at the latest by its
  timeout (`p2p_session.rs:2337`). Nothing makes `set_input_delay`, a disconnect or
  the start of a drop happen.
* `UdpProtocol`: `poll` runs its retries (`RetrySync`, `ResendPending`, weak fairness;
  `Nudge`, while the peer has not yet reported the dropped slot as dropped), and a kind
  of packet that is resent until it is answered arrives
  (strong fairness per kind, since it may be lost any number of times before). A peer
  that is bound to a dead earlier start of the other stays in the handshake; the
  properties say so.
* `CoordinatedDrop`: survivors poll, and a message that would change something is
  received, as long as no attempt has timed out. After a timeout the messages of that
  attempt are no longer resent, so nothing is assumed of them.
* `Spectator`: the viewer polls and advances, hosts confirm, confirmed frames arrive.

Where `ENABLED` would be expensive, weak fairness is written out with the guard in its
place, `[]<>~Guard \/ []<><<A>>_vars`.

Each property has a mutant in `PROJECT.json`: a definition with a plausible bug
(`..._Late`, `..._OneTooMany`, `..._NoCeiling`) under which the property fails.

## 4. Proofs

TLAPS checks the following for **every** value of the constants that the named
assumptions allow; the runs of section 3 only show them on small instances. Each proof
has the same shape: an inductive invariant, a lemma that `Init` implies it, one lemma
per action that the action preserves it, and a theorem that reads the property off it.

### The input queue

For every ring size `QueueLength >= 2`, every set of inputs that contains
`DefaultInput` and not `None`, and every bound on frames and reopens.

| Theorem | Statement | Invariant |
|---|---|---|
| `TypeCorrect` | `[]TypeOK` | `IInv` |
| `RingStaysAligned` | `[]RingAligned` | `IInv` |
| `EpisodeInStep` | `[]EpisodeAwaitsNextArrival`: the branch that `add_input_by_frame` calls impossible is | `IInv` |
| `AnswersAreStored` | `[]ConfirmedIsWritten` | `IInv`, `HInv` |
| `MispredictionsAreReported` | `[]NoSwallowedMisprediction` | `IInv`, `HInv` |
| `StreamInStep` | `[]StreamStaysSequential` | `IInv`, `HInv` |
| `FrozenInputAgreed` | `[]FrozenRepeatsAgreedInput` | `IInv`, `HInv` |
| `RequestedInputHeld` | `RequestedStaysHeld` (an action property) | `IInv` |

`IInv`: the queue satisfies `QueueInv` (its type, `Aligned` and
`AwaitsNextArrival`), `last_added_frame` is at most `LastFrame`, and the history
variables have their types. The three parts need each other: that the slot
written next is not one that is still held needs alignment *and* the
length's type; that a settled episode awaits the next arrival needs the slot
behind the head to carry `last_added_frame`, which alignment says; and
`last_added_frame` must be bounded because `written` is indexed by frames.

`HInv` relates the queue to its history. `Tracks` says that every slot, and the side
slot of a reclaimed input, holds the input that was written for its frame (`Content`);
that every prediction that was wrong is reported, and those not yet answered have the
one value of the episode that is going on (`Episode`); that before the first addition
nothing is stored but the value the queue was reopened with (`Pristine`); and that a
frozen queue repeats the input of the agreed frame (`Repeats`). `InStep` ties the caller's
next frame to `last_added_frame` and the delay. The second half of `Episode` is why the
first is inductive: an arrival is compared with the value of the episode, which must be
what the simulation was given. One addition is described field by field (`Added`), and a
run of them (gap fill, backfill) keeps whatever each addition keeps (`RunStays`).

The argument has three layers. *Slots*: consecutive frames have consecutive slots
and frames less than a ring apart have different ones (`SlotSteps`, `SlotsDiffer`). This
rests on the quotient and remainder of `%`, given to the prover as explicit
witnesses because the products are not linear. *Operators*: one lemma per method
says that it preserves `QueueInv` (`AddByFrameInv`, `DiscardInv`, `FreezeInv`,
`ReopenInv`, ...). *Actions*: one lemma per action with history, and `NextInv`.

`AddRun`, the run of additions, is a recursive function; the library's induction
theorems take an operator as a parameter, which the installed provers cannot
instantiate. `IndexInduction` states induction for a *set* of indices instead and
is proved from the existence of a least counterexample; `RunExists` builds the function
and `AddRunInv` carries `QueueInv` along it.

### The endpoints

For every setup that satisfies `SetupAssumption`: any inputs, first frames,
configurations, numbers of starts and of sync rounds, any window, history length and
number of packets under way.

| Theorem | Statement |
|---|---|
| `RunningAgree` | `[]RunningPeersAgree`: an endpoint that runs is bound to a start of its peer with its own configuration |
| `AckedDelivered` | `[]AckedIsDelivered` |
| `ChannelRefinement` | `ImplementsChannel`: `UdpProtocol` implements `InputChannel` |
| `GoodbyesAreOwn` | `StaleGoodbyeIgnored` (an action property) |
| `FreshFloors` | `[]FreshFloorIsCurrent`, while neither process is started again (`[]NotRestarted`) |

The invariant is `TypeInv /\ HandshakeInv /\ TransportInv`. `HandshakeInv` adds to
`RunningPeersAgree` what the packets on their way prove of their senders: a request or
reply carries the configuration of the connection it names, and only a connection that
really left has said goodbye. `TransportInv` has a part for the endpoint and one for the packets. Of the
endpoint: the first `k` inputs sent are acknowledged, all of them are delivered,
`pending_output` is what follows and the reference is input `k`; the receiver's history
has the input sent for every frame in it, the newest one always among them. Of a packet: it codes a stretch of the sent
inputs against the input before the stretch, or is a nudge for a delivered frame, and
no acknowledgement in it is above what is delivered. The packets need their part because they are *old*: the reference of a
packet may lie behind both sides by any distance, and `on_input` must then either find
that reference in its history or drop the packet. The refinement maps each step to a
`Send`, a `Deliver` or a stutter; the long case is `OnInput`, by the cases of `Verdict`.

`FreshFloors` has an invariant of its own, `FloorInv`, about the numbers of floor rounds:
no request under way, noted by the relay or answered has a number above those made, and an
answer numbered above `floor_prune_seq` was computed in a view that the relay had after
the observer's last loss. The requests made before a loss are left behind because
`reset_floor_freshness` moves `floor_prune_seq` up to the last one (`Ages`). The relay's
own knowledge of a player comes from the observer's input packets, in any order, hence
`ReportsOf`. `NotRestarted` is a hypothesis, and it is needed. A process that is started
again counts its requests from zero. If it binds to the peer's old connection before that
one has finished its own handshake (which a late reply to the earlier process then does),
an answer to the earlier process's first request passes for the answer to its own first
request, and may have been computed before the loss it asks about. TLC finds this in
eighteen steps when `FloorRound` lets the observer be started twice; in the floor setup of
`udp_safety` each process is started once.

### The session

For every set of players, split into local and remote ones, every window, ring size,
delay, saving mode, disconnect behaviour and bound, whatever the players submit and
whoever may be lost.

| Theorem | Statement |
|---|---|
| `SessionTyped` | `[]TypeOK` |
| `ExposedIsKnown` | `[]ExposedFramesAreKnown` |
| `SpectatorsSeeFinal` | `[]SpectatorsSeeFinalInputs` |
| `StoredInputsAreSent` | `[]StoredIsSent` |
| `DropsCutAboveExposed` | `DropKeepsExposedFrames` (an action property) |
| `AdvanceSucceeds` | `[](SaveMode = "EveryFrame" /\ LastPairRemains => AdvanceNeverFails)` |
| `ScheduledStateHeld` | `[](LastPairRemains => EveryFrameStateIsHeld)` |
| `ConfirmedOnlyRises` | `ConfirmedNeverRegresses` when states are saved every frame and `LastPairRemains` (an action property) |
| `ConfirmsAfterRollback` | `[](SaveMode = "EveryFrame" /\ LastPairRemains => NothingPendingIsConfirmed)` |

The first five follow from `SessionInvariant`, `Spec => []SessionInv`. The parts of `SessionInv`
besides the properties themselves, and why each is needed:

* `QueuesHold`: each player's queue satisfies `QueueInv` and holds, slot by slot, the
  player's real inputs; otherwise a broadcast vector is only what some slot contains.
* `LocalsAt(n)`: the local players' next inputs are for *one* frame `n`, with the delay
  of each queue, and their statuses are those of their queues. A call may fail after it
  has stored the local inputs, hence `n >= current_frame` rather than equality.
* `RemotesBehind`: a remote player's status is never ahead of its queue, so a frame
  that all statuses confirm has an input in every queue.
* `LossKnown`: a dropped player's status is its cut and its queue repeats the real
  input there; any other lost player has halted the session below its last input
  (`halt_confirmed_ceiling`). Without it a made-up input could be taken for confirmed.
* `ExposureHeld`: while a drop is being agreed confirmation is held where the inventory
  was taken, so no cut falls below what is exposed, and nothing is broadcast that is
  not exposed. `DropsCutAboveExposed` is this and the guard of `CommitDrop`.

The whole of `advance_frame` is one step, so the work is in its stages
(`P2PSessionOpsProofs`). A stage only reads, resets or discards what is in the queues
(`SameInputs`, `Derived`); only `StoreLocalInputs` adds, one input per local player at
the frame it is due (`Given`). `Replay` and `Fulfil` are recursive functions over frames
and requests, carried by `IndexInduction`. `CallOutcome` puts the stages together, with
every place where the call may end early; `ConfirmedBounds` says what `confirmed_frame`
can be; `CallBroadcasts` that what is sent is final.

The last four are about sessions that save every state, in lockstep or with any
prediction window, and follow from `RollbackInvariant`. `LastPairRemains` is a hypothesis
of the theorems, not an assumption of the module: nobody may be removed (any number of
players, who may all be lost with behaviour Halt), or whoever is removed leaves at most
one other remote peer. `P2PSession` lets a peer report more of a player than the cut of its drop,
and then the cut; with two other peers such a report may lower the minimum that
`confirmed_frame` takes. `RollbackInv`, its parts and why each is needed:

* `ExposedConfirmed`: nothing that `confirmed_frame` is the minimum of lies below what
  was exposed. It is inductive because a status or a report only grows, or no longer
  counts (`RemoteGrows`), and because a halt or a drop holds confirmation at or above what
  is exposed (`HeldAbove`). With `last_confirmed_frame <= exposed` it gives
  `ConfirmedOnlyRises`.
* `PendingAbove`: in a running session a known misprediction and the frame from which a
  lost player is simulated again are after the confirmed frame. A misprediction is found
  by an input of a connected player, who has given all that was exposed
  (`ConnectedGave`); a drop cuts at or above it.
* `InWindow`: the session is at most `MaxPrediction` frames past the confirmed frame, so
  what is pending is inside the rollback window.
* `StatesSaved`: the game is at the session's frame, and each cell of the window holds
  the state of its frame: the prefix of the inputs the game simulated. This is what
  `load_frame` and the checksum schedule rely on.
* `InputsRetained`: no queue has lost an input from the window's floor, or the confirmed
  frame, on; `discard_confirmed_frames` and every eviction stay below.
* `AwaitedQuiet`: no prediction runs for a local player, and none at all in lockstep.
* `ScheduleAhead`: the frame of the next checksum is not below the window.

`InStep` follows a call stage by stage: `Done` is what the game and the cells will be once
the requests issued so far are fulfilled, and every stage keeps the game at the sync
layer's frame and the window's states in their cells (`SaveInStep`, `LoadInStep`,
`AdvanceInStep`, `ReplayInStep`). `ConfirmsAfterRollback` is read off on the way: after the
rollback no queue has a known misprediction left (`CaughtUp`), so the maximum that
`set_last_confirmed_frame` folds over the queues, where the earliest would be meant, is that
of none. The steps that do not advance only give queues more
inputs (`Grown`, `RollbackKept`). TLC has checked the invariant's parts on the instances of
`p2p_session` and `p2p_loss`, with two local players, and without removals.

### The spectator

For every number of hosts, every buffer size, stream delay and catch-up setting, every
sequence of views the hosts go through, every way their frames are cut into batches and
every order in which they leave.

| Theorem | Statement |
|---|---|
| `SpectatorTyped` | `[]TypeOK` |
| `ConflictsAreFound` | `[]NoSilentConflict` |
| `AgreementIsSafe` | `[]AgreeingHostsPlayOn` |
| `FreezesAreFollowed` | `FreezeHolds` (an action property) |
| `PlayedInMesh` | `[](FrozenInputStays => PlayedIsMeshInput)` |

`SpectatorInvariant` has a part for the hosts (`Environment`), one for the session
(`Poll`) and one for playback (`Playback`). `Poll` consists of

* `Staged`: an entry of a host's ring is a frame the host has delivered, with its input
  and a status it has reported, and the last `BufferSize` frames it delivered are all
  there. The second half is what makes the comparison at a commit *complete*: a host
  that stays and has delivered the frame still has it staged.
* `Ring`: the committed ring holds exactly the last `BufferSize` frames committed, each
  in its slot, so a late frame is compared with what was committed for it.
* `Agreement`: no host is further ahead than its ring is long (where `ahead` says so),
  and without a divergence every host that stays agrees with the committed ring.
* `Reports`: the freeze the session believes in was reported by some host, every witness
  is of the cycle of the drop, and, compared with the session before the poll
  (`Follows`), the freeze has not moved up and the slot was not reopened by itself.

A poll is a nest of loops, over the hosts, the frames of a host, and the frames that
become ready, and `advance_frame` has a loop of its own. Each is a recursive function of
the round (`HandleBatch`, `CommitNext`, `PlayNext`); `LoopExists` builds such a function,
`RoundInduction` carries an invariant along it, and there is one lemma per round
(`CommitNextKeeps`, `HandleKeeps`, `PlayNextKeeps`). In the middle of a poll a host that is
about to leave is not compared, hence the parameter `leaving` of `Agreement`;
`RemoveKeeps` shows that nothing is owed to it once it is gone. `Playing` says that a
frame the loop of `advance_frame` has played is still in the committed ring. Hence
`SpectatorTooFarBehind` is only ever raised at the first frame of a call: raised later it
would lose requests whose frames `current_frame` already counts.

`PlayedInMesh` adds `Faithful`: the game and every saved state hold inputs of the mesh. A
frame is played with its own input, which the committed ring still has, or with the input
of the freeze, if the slot of the freeze frame still holds that frame; the freeze is one
that some host reported (`Frozen`). `FrozenInputStays` says that the mesh allows such an
input for the frames after the freeze: true of scenarios where the slot is never reopened
(`Lowered` and `Rewound` of `MCSpectator` satisfy it, with freezes that are lowered and
with seeks), false of `BothReopen`, which stays with TLC.

### The drop barrier

For every mesh that satisfies `ScenarioAssumption`: any number of peers, of players that
may be dropped and of their inputs, any set of requests, and any loss, duplication and
reordering of messages.

| Theorem | Statement | Meshes |
|---|---|---|
| `DropTypeOK` | `[]TypeOK` | all |
| `DropKeepsRealInputs` | `[]DroppedInputsAreReal`: what is held of a dropped player up to the cut is what it submitted | all, `Known >= 1` |
| `DropSurvivorsAgree` | `[]SurvivorsAgree` | one target, `Known >= 1` |
| `DropExposedBelowCut` | `[]ExposedBelowCut` | one target, `Known >= 1` |
| `DropSharesHistory` | `[]SurvivorsShareHistory` | one target, `Known >= 1` |
| `DropNeededHistoryIsKept` | `[]NeededHistoryIsKept` | one target, `Known >= 1` |

`Known >= 1` (every peer starts with an input of the target) is needed: `drop_pristine`
violates `SurvivorsShareHistory` with `Known = 0`. *One target* is a hypothesis of the
theorems (`OneTarget => ...`), not an assumption of the module: a drop that crosses
another one may lose its participants, and the argument below rests on every survivor
taking part in the same operation. Crossed drops stay with TLC.

The invariant is `DropInv`. For all meshes it has the records, attempts and messages
in their domains, the backfill in chunks and in queues equal to the target's stream
(`ValuesOK`, `Chunks`), and a cut never past what is held. For one target, `SoleInv` adds

* `SoleNet`, what is said: there is one operation; a survivor has *one* inventory,
  which claims at least what it exposed; a chunk is numbered from the first frame that
  somebody misses, by the inventories of *all*.
* `SolePeer`, what a survivor is: an attempt's reports are among what was said, its cut
  is the maximum over the inventories of all survivors (`SoundCut`), what has been filled
  in reaches as far as its chunk counter says (`SoundFill`), and a committed survivor's
  cut is the one that follows from all inventories (`CutOfAll`). Two such cuts are equal
  because an inventory cannot be revised.
* `KeepsWord`, how the two are tied: until it has dropped the player, a survivor that has
  sent an inventory exposes nothing past it, through the hold of the active attempt and,
  after a failure, through the ceiling of the halted session. This is what makes
  `ExposedBelowCut` inductive: the exposed frame of a survivor is bounded by its
  inventory, and that by the cut.
* `Blame`: a failure for missing history, one's own or one that somebody's abort
  reports, goes back to inventories without a donor or to a survivor that had already
  given up and has discarded past an inventory (`Overrun`). Both are `Overtaken`.

A handler is a composition of operators on a work record. `Good` says of a work record
that its peer and what it is about to send satisfy the invariant together with
everything said before, and there is one lemma per operator from good work to good work
(`EnterGood`, `SendBackfillGood`, `MarkReadyGood`, `ApplyCommitGood`, `AcceptInventoryGood`,
...); the runs of chunks and deferred prepares are recursive functions, carried by
`RoundInduction`. `StepInv` turns good work into a step, with what it says to the *other*
peers: their claims still hold when more has been said (`SolePeerGrows`), and blame is
the same for everyone (`BlameIsShared`). TLC has checked `DropInv` itself as an
invariant of the scenarios of `drop_barrier`, of `drop_overtaken` (1,795,125 states) and
of a mesh with a lone survivor.

### Assumptions

They are those of the modules, evaluated by TLC in every run: `QueueLengthAssumption`
and `InputAssumption`; `NoneAssumption` and `OptionAssumption` (`Option::None` is none of
the values it stands beside); `PayloadAssumption` and `LossAssumption` (in every mode inputs are submitted, and
only remote players are lost), `ModeAssumption` (the builder's checks: lockstep saves every frame, window
and input delay fit in the ring, the remote delay is one that `set_frame_delay` accepts);
`LimitAssumption` and `SetupAssumption`; `ScenarioAssumption` (hosts confirm inputs the
mesh allows, the delay is shorter than the buffer; in `CoordinatedDrop`: finitely many
peers, some of whom may be dropped, and requests for them by others) and `CycleAssumption` (the slot is
dropped and reopened at most once, and reopened only after the hosts have settled on the
freeze frame: what the drop barrier establishes). The model of the endpoints has one bound that
the theorems inherit: a peer is restarted only before inputs flow (`BeforeInputs`), since
`sent` and `delivered` record one stream.

### Only model-checked

* `ConfirmedFramesAreFinal` and `ReportedChecksumsAreFinal`: they relate the game's whole
  history and the saved cells to every queue's prediction episode across rollbacks. The
  first does *not* hold for all constants (`p2p_drop_stall`), so a theorem would need the
  restriction under which it does.
* `AdvanceNeverFails` and `ConfirmedNeverRegresses` with sparse saving, where the state to
  load is an older one and the confirmed frame waits for the last saved one, and where a
  removal leaves two or more other remote peers.
* `PlayedIsMeshInput` of the spectator where the slot is reopened: with three or more
  hosts that leave in turn, whether the witnesses of a drop outlast a reopening depends on
  which hosts reported it, and the invariant for that is not found yet. Where the session
  does not follow a reopening it repeats the frozen input, which the mesh need not allow.
* `SurvivorsAgree`, `ExposedBelowCut` and `NeededHistoryIsKept` where several players are
  dropped at once (the crossed drops of `drop_barrier`).
* All liveness: liveness under fairness and `ENABLED` are out of the prover's reach, as
  are induction with an operator parameter and modules with RECURSIVE operators (there
  are none here).

## 5. Not modelled

* *Confirmation floors* (`p2p_session.rs:10658-11109`): the rounds are modelled, between
  an observer and one relay. What `confirmed_frame` makes of several relays' floors
  needs four or more peers, and is planned.
* *Time synchronisation, SyncTest, replay, the event queue*: small and sequential.
  Planned, as operators over `SyncLayerOps` where they use it.
* *Hot join*: behind a feature that is off by default; its serve, snapshot and
  reactivation protocols are as large as the drop barrier. What it asks of a queue is
  modelled (`reset_to_frame`, `refreeze_with_value`).
* Parts of modelled components: the receiving side of desync detection, several
  players per endpoint, batch limits by bytes, `seek` of the sync layer.
* *Run-length coding, wire codec, sockets, telemetry, metrics, the builders and
  utility containers*: conversions, I/O or observation. They keep no protocol state.

## 6. Findings

`p2p_drop_stall`. A graceful drop whose cut is `current_frame - 1` arms
`disconnect_frame = current_frame`. The next `advance_frame` enters
`adjust_gamestate` with a target that is not in the past and takes the branch at
`p2p_session.rs:10181`, which resets the prediction of **every** queue without
replaying anything; the comment there says "we just need to reset predictions - the
next frame advance will use the correct inputs". If the session is stalled at the
prediction threshold, another player's prediction for an already simulated frame is
forgotten with it. That player's real input then arrives without being compared,
`first_incorrect_frame` stays NULL, nothing is rolled back, and a frame simulated with
a wrong input is confirmed. In the trace three peers, a window of one and a drop of
player 2 are enough.

`p2p_sparse_checksums`. `check_checksum_send_interval` sends the checksum of exactly
the scheduled frame and, when no saved state has that frame, leaves the schedule where
it is; the comment at `p2p_session.rs:12302` says "This shouldn't happen if frame is
within confirmed and saved range". With sparse saving it does: only the confirmed frame
of each refresh is saved. Later saved states are only further away, so no
checksum is sent any more and desync detection is off without a word.

`drop_pristine`. A survivor that has no input of the target and has exposed nothing past
frame 0 reports the default input for frame 0 (`p2p_session.rs:1110`: "every peer's
canonical target value is `Input::default()`"). Another survivor may hold the target's
real inputs of frames 0 and 1. The cut is then 1, the first survivor is sent frame 1
only, and as the ready certificates carry a digest of the input *at* the cut, the two
commit with different inputs for frame 0. `SurvivorsAgree` holds once every survivor has
the target's first input, which is what `drop_barrier` assumes.

`drop_overtaken`. An inventory says what a survivor held when it entered the operation.
Until another survivor enters, both go on receiving the target's inputs, and the other
one may confirm and discard past what the first inventory claims. Its own inventory then
begins above the first frame that, by the inventories, somebody misses; no donor is
found (`p2p_session.rs:2545`) and every survivor halts with `MissingHistory`, documented
as "No participant retained enough target history to form a safe cut"
(`network/messages.rs:510`). In the trace both hold everything up to the cut by then.
The theorem `DropNeededHistoryIsKept` says that this is the only way to that failure.

`spectator_failover`. While a silent first host is still connected nothing is committed,
and `handle_host_input` replaces whatever frame is in the ring slot
(`p2p_spectator_session.rs:2049`). A second host that gets more than `buffer_size`
frames ahead overwrites its own frame for the next commit; its endpoint has delivered
that frame and never sends it again. When the first host is removed, playback stops for
good, against "spectation continues while at least one host remains" (lines 113-114).
The default buffer of 60 frames is shorter than the default disconnect timeout.

## 7. Plan

Done: the queue, the sync layer, the rollback core with the sending side of desync
detection, the endpoints and their channel, the drop barrier, the spectator; the
theorems about the queue, the endpoints, the session, the spectator and the drop barrier
of section 4. Next:

1. Proofs: crossed drops; sparse saving and the final inputs of confirmed frames in the
   session; `PlayedIsMeshInput` across a reopening.
2. `ConfirmationFloor`: the floors of several relays in `confirmed_frame`, with four
   peers.
3. `TimeSync`, `SyncTest`, `Replay`, the event queue; run-length coding against its
   inverse.
4. Hot join.
