----------------------------- MODULE P2PSession -----------------------------
(***************************************************************************)
(* One peer's P2PSession (src/src/sessions/p2p_session.rs) and the game    *)
(* that handles its requests: local inputs, remote inputs as the endpoints *)
(* deliver them, advance_frame with its rollbacks, the confirmed-input     *)
(* stream to spectators, and the loss of a remote player (a halt, or a     *)
(* coordinated drop at an agreed cut).                                     *)
(*                                                                         *)
(* The methods take &mut self, so each call is one step.  A call of        *)
(* advance_frame returns requests, and the game handles all of them before *)
(* its next call: they are part of the same step, after the call.          *)
(*                                                                         *)
(* The other peers are the environment.  They deliver each player's inputs *)
(* in order (the endpoints' job), run at most MaxPrediction frames ahead   *)
(* of what we sent, and report in their packets what they received.  One   *)
(* endpoint per remote player; at most two of them, so that the relay      *)
(* topology of pessimistic_floor_relay_topology does not arise.            *)
(***************************************************************************)
EXTENDS SyncLayerOps

CONSTANTS
    LocalPlayers,        \* handles of this peer
    Modes,               \* the sessions: how each is built and what its environment does
    InputDelay,          \* the delay of the local players at the start
    MaxInputDelay,       \* bound: set_input_delay is called up to this delay
    ChecksumInterval,    \* interval of DesyncDetection::On
    MaxChecksumHistory,  \* max_checksum_history
    LastFrame            \* bound: the session is advanced up to this frame

ASSUME LocalPlayersAssumption == LocalPlayers \subseteq Players /\ LocalPlayers # {}
ASSUME LossAssumption ==
    \A m \in Modes : m.removable \cup m.disconnectable \subseteq Players \ LocalPlayers
ASSUME PayloadAssumption == \A m \in Modes : m.payload \in [Players -> SUBSET Input]
ASSUME ModeAssumption ==
    \A m \in Modes :
        /\ m.save \in {"EveryFrame", "Sparse"}
        /\ m.behavior \in {"Halt", "ContinueWithout"}
        /\ m.prediction \in Nat /\ m.prediction + InputDelay <= QueueLength - 1
        /\ m.prediction = 0 => m.save = "EveryFrame"
        /\ m.remote_delay \in 0 .. max_frame_delay
ASSUME ChecksumAssumption == {ChecksumInterval, MaxChecksumHistory} \subseteq Nat \ {0}
\* Option::None is neither a frame, nor a coordinated drop, nor a saved state.
ASSUME OptionAssumption ==
    /\ None \notin Int
    /\ None \notin [target : Players, held_at : Nat, high : Nat]
    /\ None \notin [frame : FrameOrNull, state : Seq([Players -> Input])]
ASSUME BoundsAssumption == InputDelay \in Nat /\ MaxInputDelay \in Nat /\ LastFrame \in Nat

VARIABLES
    mode,                   \* save_mode, disconnect_behavior, max_prediction of the builder;
                            \* the frame of a remote player's first input, the inputs each
                            \* player submits and the remote players that may be lost
    sl,                     \* sync_layer, its cells as the game has filled them
    game,                   \* the game: the input vectors it has simulated
    local_inputs,           \* local player -> PlayerInput or None
    local_connect_status,   \* player -> [disconnected, last_frame]
    peer_connect_status,    \* endpoint -> player -> what that peer reports
    running,                \* endpoint -> is_running()
    state,                  \* "Running" or, once halted, "Synchronizing"
    disconnect_frame,
    halt_confirmed_ceiling, \* a frame, or None
    exposed,                \* exposed_confirmed_high_water
    drop,                   \* the active coordinated drop, or None
    committed,              \* player -> the cut of its committed drop, or NULL_FRAME
    last_sent_checksum_frame,
    local_checksum_history, \* frame -> the checksum sent for it, which tells states apart
    broadcast,              \* input vectors sent to the spectators
    result,                 \* of the last advance_frame
    sent,                   \* history: local player -> the inputs sent to the peers
    truth                   \* history: player -> its real inputs, by frame

vars == <<mode, sl, game, local_inputs, local_connect_status, peer_connect_status, running, state,
          disconnect_frame, halt_confirmed_ceiling, exposed, drop, committed,
          last_sent_checksum_frame, local_checksum_history, broadcast, result, sent, truth>>
checksum_vars == <<last_sent_checksum_frame, local_checksum_history>>

Remotes == Players \ LocalPlayers
SaveMode == mode.save
DisconnectBehavior == mode.behavior
MaxPrediction == mode.prediction
RemoteDelay == mode.remote_delay
\* The inputs that players submit, the remote players that may be dropped gracefully,
\* and those whose loss may halt the session.
Payload == mode.payload
Removable == mode.removable
Disconnectable == mode.disconnectable
lockstep == MaxPrediction = 0

MinOf(S) == CHOOSE x \in S : \A y \in S : x <= y

Init ==
    /\ mode \in Modes
    /\ sl = [NewSyncLayer(mode.prediction) EXCEPT !.input_queues =
                [p \in Players |-> IF p \in LocalPlayers
                                   THEN set_frame_delay(NewQueue, InputDelay, NoFloor).q
                                   ELSE NewQueue]]
    /\ game = <<>>
    /\ local_inputs = [p \in LocalPlayers |-> None]
    /\ local_connect_status = [p \in Players |-> [disconnected |-> FALSE, last_frame |-> NULL_FRAME]]
    /\ peer_connect_status = [e \in Remotes |-> local_connect_status]
    /\ running = [e \in Remotes |-> TRUE]
    /\ state = "Running"
    /\ disconnect_frame = NULL_FRAME
    /\ halt_confirmed_ceiling = None
    /\ exposed = NULL_FRAME
    /\ drop = None
    /\ committed = [p \in Players |-> NULL_FRAME]
    /\ last_sent_checksum_frame = NULL_FRAME
    /\ local_checksum_history = <<>>
    /\ broadcast = <<>>
    /\ result = "Ok"
    /\ sent = [p \in LocalPlayers |-> <<>>]
    /\ truth = [p \in Players |-> <<>>]

-----------------------------------------------------------------------------
(* confirmed_frame                                                         *)

\* What the other endpoints report of player p.  Its own endpoint reports at
\* least what it delivered, which the min with our own receipt absorbs.
Reports(p) == {peer_connect_status[e][p] : e \in {r \in Remotes \ {p} : running[r]}}

\* Mutant of remote_slot_confirmed_bound: a dropped slot is never excluded.
remote_slot_confirmed_bound_Kept(p) ==
    {MinOf({r.last_frame : r \in Reports(p)} \cup {local_connect_status[p].last_frame})}

\* remote_slot_confirmed_bound, as a set: empty when the slot is excluded.
remote_slot_confirmed_bound(p) ==
    LET frames == {r.last_frame : r \in Reports(p)}
    IN  IF ~local_connect_status[p].disconnected
        THEN {MinOf(frames \cup {local_connect_status[p].last_frame})}
        ELSE IF \E r \in Reports(p) : ~r.disconnected THEN {MinOf(frames)}
        ELSE {}

\* Mutant of HeldBack: an active drop does not hold confirmation back.
HeldBack_NoDrop == IF halt_confirmed_ceiling = None THEN {} ELSE {halt_confirmed_ceiling}

\* Mutant of HeldBack: the halted session's ceiling is forgotten.
HeldBack_NoCeiling == IF drop = None THEN {} ELSE {drop.held_at}

HeldBack ==
    (IF halt_confirmed_ceiling = None THEN {} ELSE {halt_confirmed_ceiling})
        \cup (IF drop = None THEN {} ELSE {drop.held_at})

\* The newest frame for which every player's input is known.
confirmed_frame ==
    LET bounds == {local_connect_status[p].last_frame : p \in LocalPlayers}
                      \cup UNION {remote_slot_confirmed_bound(p) : p \in Remotes}
    IN  MinOf(HeldBack \cup {IF bounds = {} THEN 0 ELSE MinOf(bounds)})

-----------------------------------------------------------------------------
(* Desync detection: the first stage of advance_frame.  The peers compare  *)
(* the checksums they send each other; here a peer that simulates the same *)
(* inputs always has the final state of a frame, so what matters is which  *)
(* states this peer sends.  The game gives every saved state a checksum.   *)

FrameToSend ==
    IF last_sent_checksum_frame = NULL_FRAME THEN ChecksumInterval
    ELSE last_sent_checksum_frame + ChecksumInterval

\* Mutant of ChecksumDue: the state is sent as soon as it is saved.
ChecksumDue_Speculative ==
    /\ FrameToSend <= sl.last_saved_frame
    /\ disconnect_frame = NULL_FRAME \/ FrameToSend < disconnect_frame

\* Mutant of ChecksumDue: any pending rollback defers the checksum, not only a
\* rollback that reaches its frame.
ChecksumDue_NeverBeforeRollback ==
    /\ FrameToSend <= sl.last_confirmed_frame
    /\ FrameToSend <= sl.last_saved_frame
    /\ check_simulation_consistency(sl, disconnect_frame) = NULL_FRAME

\* The scheduled frame is confirmed and saved, and no pending resimulation will
\* change its state.
ChecksumDue ==
    /\ FrameToSend <= sl.last_confirmed_frame
    /\ FrameToSend <= sl.last_saved_frame
    /\ disconnect_frame = NULL_FRAME \/ FrameToSend < disconnect_frame

\* The history without what leaves its window when frame is sent.
checksum_history_oldest_frame(frame) == frame - (MaxChecksumHistory - 1) * ChecksumInterval
PrunedHistory(frame) ==
    IF Cardinality(DOMAIN local_checksum_history) < MaxChecksumHistory THEN local_checksum_history
    ELSE [f \in {g \in DOMAIN local_checksum_history : g >= checksum_history_oldest_frame(frame)} |->
             local_checksum_history[f]]

\* check_checksum_send_interval: at most one checksum per call; without the exact
\* saved state the schedule stays where it is.
check_checksum_send_interval ==
    LET frame == FrameToSend
        cell  == saved_state_by_frame(sl, frame)
        kept  == PrunedHistory(frame)
    IN  IF ChecksumDue /\ cell # None
        THEN /\ last_sent_checksum_frame' = frame
             /\ local_checksum_history' = [f \in DOMAIN kept \cup {frame} |->
                                              IF f = frame THEN cell.state ELSE kept[f]]
        ELSE UNCHANGED checksum_vars

-----------------------------------------------------------------------------
(* advance_frame: the stages of the call on a work record, which holds the *)
(* fields the call changes, the requests it has issued and whether no      *)
(* stage has failed; a failed stage ends the call with an error.           *)

Start ==
    [sl |-> sl, status |-> local_connect_status, local_inputs |-> local_inputs,
     disconnect_frame |-> disconnect_frame, broadcast |-> broadcast, requests |-> <<>>, ok |-> TRUE]

Request(w, r) == [w EXCEPT !.requests = Append(@, r)]
RequestSave(w) ==
    Request([w EXCEPT !.sl = save_current_state(@)], [type |-> "Save", frame |-> w.sl.current_frame])
RequestSaveIf(w, save) == IF save THEN RequestSave(w) ELSE w

\* One simulated frame: inputs, an optional save, the advance.
SimulateWith(w, got, save) ==
    IF ~got.ok THEN [w EXCEPT !.sl = got.sl, !.ok = FALSE]
    ELSE Request([RequestSaveIf([w EXCEPT !.sl = got.sl], save) EXCEPT !.sl = advance_frame(@)],
                 [type |-> "Advance", inputs |-> got.inputs])
Simulate(w, save) ==
    IF ~w.ok THEN w ELSE SimulateWith(w, synchronized_inputs(w.sl, w.status), save)

\* Mutant of FrameToLoad: sparse saving looks for the mispredicted frame itself.
FrameToLoad_NotSparse(s, first_incorrect) == first_incorrect

\* Sparse saving loads its last saved state, or an older one that predates the
\* misprediction; otherwise the state of the mispredicted frame itself.
FrameToLoad(s, first_incorrect) ==
    LET earlier == newest_saved_frame_in_range(s, rollback_window_floor(s), first_incorrect)
    IN  IF SaveMode # "Sparse" THEN first_incorrect
        ELSE IF s.last_saved_frame > first_incorrect /\ earlier # NULL_FRAME THEN earlier
        ELSE s.last_saved_frame

\* Mutant of SaveWhileReplaying: replayed frames are not saved again.
SaveWhileReplaying_Never(frame, i, min_confirmed) == FALSE

\* Sparse saving saves only the confirmed frame, otherwise every replayed frame
\* but the loaded one.
SaveWhileReplaying(frame, i, min_confirmed) ==
    IF SaveMode = "Sparse" THEN frame = min_confirmed ELSE i > 1

\* Simulates n frames from the loaded state on.
Replay(loaded, n, min_confirmed) ==
    LET replay[i \in 0 .. n] ==
            IF i = 0 THEN loaded
            ELSE Simulate(replay[i - 1],
                          SaveWhileReplaying(replay[i - 1].sl.current_frame, i, min_confirmed))
    IN  replay[n]

\* Loads a state at or before the first incorrect frame and simulates back to
\* the current frame.
LoadAndReplay(w, target, min_confirmed) ==
    IF target >= w.sl.current_frame THEN [w EXCEPT !.sl = SyncLayer_reset_prediction(@)]
    ELSE IF ~CanLoadFrame(w.sl, target) THEN [w EXCEPT !.ok = FALSE]
    ELSE Replay(Request([w EXCEPT !.sl = SyncLayer_reset_prediction(load_frame(@, target))],
                        [type |-> "Load", frame |-> target]),
                w.sl.current_frame - target, min_confirmed)
adjust_gamestate(w, first_incorrect, min_confirmed) ==
    LoadAndReplay(w, MaxFrameOf(FrameToLoad(w.sl, first_incorrect), rollback_window_floor(w.sl)),
                  min_confirmed)

\* Mutant of check_last_saved_state: the last saved state is refreshed too late.
check_last_saved_state_Late(w, confirmed) ==
    IF w.sl.current_frame - w.sl.last_saved_frame <= MaxPrediction THEN w
    ELSE IF confirmed >= w.sl.current_frame THEN RequestSave(w)
    ELSE adjust_gamestate(w, w.sl.last_saved_frame, confirmed)

\* Sparse saving: refreshes a last saved state about to leave the window.
check_last_saved_state(w, confirmed) ==
    IF w.sl.current_frame - w.sl.last_saved_frame < MaxPrediction THEN w
    ELSE IF confirmed >= w.sl.current_frame THEN RequestSave(w)
    ELSE adjust_gamestate(w, w.sl.last_saved_frame, confirmed)

\* The first frame is saved, and what is known to be wrong is simulated again.
DisconnectHandled(w) == IF w.ok THEN [w EXCEPT !.disconnect_frame = NULL_FRAME] ELSE w
Rollback(w, confirmed) ==
    LET wrong == check_simulation_consistency(sl, disconnect_frame)
        first == RequestSaveIf(w, sl.current_frame = 0 /\ ~lockstep)
    IN  IF lockstep \/ wrong = NULL_FRAME THEN first
        ELSE DisconnectHandled(adjust_gamestate(first, wrong, confirmed))

\* The save that follows it.
SaveAfterRollback(w, confirmed) ==
    IF lockstep \/ ~w.ok THEN w
    ELSE IF SaveMode = "Sparse" THEN check_last_saved_state(w, confirmed)
    ELSE RequestSave(w)

\* send_confirmed_inputs_to_spectators: the frames after the last one sent, up
\* to the confirmed frame, and none from the first one that is not held any more.
SendVectors(w, vectors) ==
    LET lost == {i \in DOMAIN vectors : \E p \in Players : vectors[i][p] = None}
    IN  [w EXCEPT !.ok = lost = {},
                  !.broadcast = @ \o SubSeq(vectors, 1, (IF lost = {} THEN Len(vectors)
                                                         ELSE MinOf(lost) - 1))]
SendToSpectators(w, confirmed) ==
    IF ~w.ok THEN w
    ELSE SendVectors(w, [i \in 1 .. MaxFrameOf(confirmed + 1 - Len(broadcast), 0) |->
                            confirmed_inputs(w.sl, Len(broadcast) + i - 1, w.status)])

\* Confirms and discards; each local player's input is stored and stamped with
\* the frame it was stored for, NULL_FRAME when it was refused.
StoreWith(w, added) ==
    [w EXCEPT !.sl.input_queues = [p \in Players |->
                  IF p \in LocalPlayers THEN added[p].sl.input_queues[p] ELSE @[p]],
              !.local_inputs = [p \in LocalPlayers |-> [@[p] EXCEPT !.frame = added[p].frame]],
              !.status = [p \in Players |->
                  IF p \in LocalPlayers /\ added[p].frame # NULL_FRAME
                  THEN [@[p] EXCEPT !.last_frame = added[p].frame] ELSE @[p]]]
StoreLocal(w) ==
    StoreWith(w, [p \in LocalPlayers |->
                     SyncLayer_add_local_input(w.sl, p, w.local_inputs[p].frame,
                                               w.local_inputs[p].input)])
StoreLocalInputs(w, confirmed) ==
    IF ~w.ok THEN w
    ELSE StoreLocal([w EXCEPT !.sl = set_last_confirmed_frame(@, confirmed, SaveMode)])

CanAdvance(s) ==
    IF lockstep THEN s.last_confirmed_frame = s.current_frame
    ELSE s.current_frame - MaxFrameOf(s.last_confirmed_frame, 0) < MaxPrediction

\* The new frame, unless the prediction threshold stalls the call; local_inputs
\* is emptied once it is simulated.
ClearLocalInputs(w) ==
    IF w.ok THEN [w EXCEPT !.local_inputs = [p \in LocalPlayers |-> None]] ELSE w
AdvanceLocal(w) ==
    IF w.ok /\ CanAdvance(w.sl) THEN ClearLocalInputs(Simulate(w, FALSE)) ELSE w

\* The whole call after its early returns.
Advanced(confirmed) ==
    AdvanceLocal(StoreLocalInputs(SendToSpectators(
        SaveAfterRollback(Rollback(Start, confirmed), confirmed), confirmed), confirmed))

\* The game handles the requests of one call in order.
Fulfil(cells, requests) ==
    LET done[i \in 0 .. Len(requests)] ==
            IF i = 0 THEN [cells |-> cells, game |-> game]
            ELSE LET g == done[i - 1]
                     r == requests[i]
                 IN  CASE r.type = "Save" ->
                              [g EXCEPT !.cells[get_cell(cells, r.frame)] =
                                  [frame |-> r.frame, state |-> g.game]]
                       [] r.type = "Load" -> [g EXCEPT !.game = g.cells[get_cell(cells, r.frame)].state]
                       [] r.type = "Advance" -> [g EXCEPT !.game = Append(@, r.inputs)]
    IN  done[Len(requests)]

\* The real inputs of a player once it has submitted value for frame: the frames
\* a first input skips (an input delay) hold the default.
Submit(inputs, frame, value) ==
    inputs \o Replicate(DefaultInput, frame - Len(inputs)) \o <<value>>

\* update_player_disconnects: the cut of a committed drop is restored, and with
\* Halt a slot some running endpoint reports disconnected is taken over.
PropagatedDisconnects ==
    {p \in Remotes : /\ committed[p] = NULL_FRAME
                     /\ drop # None => drop.target # p
                     /\ \E r \in Reports(p) : r.disconnected
                     /\ \/ ~local_connect_status[p].disconnected
                        \/ \E r \in Reports(p) : r.last_frame < local_connect_status[p].last_frame}

-----------------------------------------------------------------------------
(* The loss of a player.                                                   *)

\* disconnect_player_at_frames: the endpoint stops, the slot is disconnected at
\* frame, never above an earlier disconnect, and what was simulated after it is
\* to be simulated again.
DisconnectedAt(status, p, frame) ==
    [status EXCEPT ![p] = [disconnected |-> TRUE,
                           last_frame   |-> IF @.disconnected THEN MinFrame(@.last_frame, frame)
                                            ELSE frame]]

ResimulateFrom(frame) ==
    IF sl.current_frame <= frame THEN disconnect_frame
    ELSE IF disconnect_frame = NULL_FRAME THEN frame + 1
    ELSE MinFrame(disconnect_frame, frame + 1)

\* The checksums of those frames are void.
ForgetChecksumsAfter(frame) ==
    /\ local_checksum_history' =
           IF sl.current_frame <= frame THEN local_checksum_history
           ELSE [f \in {g \in DOMAIN local_checksum_history : g <= frame} |-> local_checksum_history[f]]
    /\ UNCHANGED last_sent_checksum_frame

\* enter_fail_closed_disconnect_state_at: the session stops for good.
Halt(ceiling) ==
    /\ state' = "Synchronizing"
    /\ halt_confirmed_ceiling' = IF halt_confirmed_ceiling = None THEN ceiling
                                 ELSE MinFrame(halt_confirmed_ceiling, ceiling)

\* A call of confirmed_frame leaves its answer in the high-water mark.
Expose(frame) == exposed' = MaxFrameOf(exposed, frame)

-----------------------------------------------------------------------------
(* The session's calls and events.                                         *)

AddLocalInput(p, value) ==
    /\ local_inputs' = [local_inputs EXCEPT ![p] = [frame |-> sl.current_frame, input |-> value]]
    /\ UNCHANGED <<mode, checksum_vars, sl, game, local_connect_status, peer_connect_status, running, state,
                   disconnect_frame, halt_confirmed_ceiling, exposed, drop, committed,
                   broadcast, result, sent, truth>>

\* The slots a propagated disconnect takes over halt the session (behaviour
\* Halt) before advance_frame looks at anything else.
AdvanceFrameHalts ==
    LET taken     == PropagatedDisconnects
        lowest(p) == MinOf({r.last_frame : r \in Reports(p)} \cup
                           IF local_connect_status[p].disconnected THEN {}
                           ELSE {local_connect_status[p].last_frame})
    IN  /\ taken # {}
        /\ local_connect_status' = [p \in Players |->
               IF p \in taken THEN DisconnectedAt(local_connect_status, p, lowest(p))[p]
               ELSE local_connect_status[p]]
        /\ running' = [e \in Remotes |-> running[e] /\ e \notin taken]
        /\ disconnect_frame' = ResimulateFrom(MinOf({lowest(p) : p \in taken}))
        /\ ForgetChecksumsAfter(MinOf({lowest(p) : p \in taken}))
        /\ Halt(confirmed_frame)
        /\ Expose(confirmed_frame)
        /\ UNCHANGED <<mode, sl, game, local_inputs, peer_connect_status, drop, committed, broadcast,
                       result, sent, truth>>

\* What a call leaves behind: a failed one loses the requests it had issued.  The
\* inputs it stored go to the peers if every local player's was stored.
Return(w, user) ==
    LET stored == {p \in LocalPlayers : w.status[p] # local_connect_status[p]}
        after  == [p \in stored |-> Submit(truth[p], w.status[p].last_frame, local_inputs[p].input)]
    IN  /\ result' = IF w.ok THEN "Ok" ELSE "Err"
        /\ sl' = IF w.ok THEN [w.sl EXCEPT !.saved_states = user.cells] ELSE w.sl
        /\ game' = IF w.ok THEN user.game ELSE game
        /\ disconnect_frame' = w.disconnect_frame
        /\ broadcast' = w.broadcast
        /\ local_connect_status' = w.status
        /\ local_inputs' = w.local_inputs
        /\ truth' = [p \in Players |-> IF p \in stored THEN after[p] ELSE truth[p]]
        /\ sent' = [p \in LocalPlayers |-> IF stored = LocalPlayers THEN after[p] ELSE sent[p]]

\* advance_frame on a running session with every local input submitted.
CanCallAdvanceFrame ==
    /\ PropagatedDisconnects = {}
    /\ state = "Running"
    /\ \A p \in LocalPlayers : local_inputs[p] # None
    /\ sl.current_frame < LastFrame
AdvanceFrame ==
    /\ CanCallAdvanceFrame
    /\ UNCHANGED <<mode, peer_connect_status, running, state, halt_confirmed_ceiling, drop, committed>>
    /\ Expose(confirmed_frame)
    /\ check_checksum_send_interval
    /\ \E w \in {Advanced(confirmed_frame)} : Return(w, Fulfil(sl.saved_states, w.requests))

\* Mutant of SendReplicated: the replicated inputs are stored and not sent.
SendReplicated_Never(p, inputs) == sent

\* The inputs a longer delay replicates go to the peers too.
SendReplicated(p, inputs) == [sent EXCEPT ![p] = inputs]

\* set_input_delay for a local player.  Whether every endpoint has room for the
\* replicated inputs is the endpoints' matter.
SetInputDelay(p, delay) ==
    LET q   == sl.input_queues[p]
        res == SyncLayer_set_frame_delay(sl, p, delay)
        new == res.sl.input_queues[p].last_added_frame
        gap == q.last_added_frame # NULL_FRAME /\ delay > q.frame_delay
        filled == [f \in 1 .. new + 1 |-> IF f <= Len(truth[p]) THEN truth[p][f]
                                          ELSE truth[p][Len(truth[p])]]
    IN  /\ MaxPrediction + delay <= QueueLength - 1
        /\ gap => LocalPlayers = {p}
        /\ sl' = res.sl
        /\ IF gap /\ res.res = "Ok"
           THEN /\ local_connect_status' = [local_connect_status EXCEPT ![p].last_frame = new]
                /\ sent' = SendReplicated(p, filled)
                /\ truth' = [truth EXCEPT ![p] = filled]
           ELSE UNCHANGED <<local_connect_status, sent, truth>>
        /\ UNCHANGED <<mode, checksum_vars, game, local_inputs, peer_connect_status, running, state, disconnect_frame,
                       halt_confirmed_ceiling, exposed, drop, committed, broadcast, result>>

\* The newest frame another peer can have produced: it runs at most
\* MaxPrediction frames past our inputs.
Horizon == MaxFrameOf(MinOf({local_connect_status[p].last_frame : p \in LocalPlayers}), 0)
               + MaxPrediction + RemoteDelay

\* Event::Input of remote player p.  A queue that cannot take it halts the session.
NextFrame(p) ==
    LET last == local_connect_status[p].last_frame
    IN  IF last = NULL_FRAME THEN RemoteDelay ELSE last + 1
CanReceive(p) ==
    /\ ~local_connect_status[p].disconnected
    /\ NextFrame(p) <= Horizon
    /\ NextFrame(p) <= LastFrame
RemoteInput(p, value) ==
    LET frame == NextFrame(p)
        res   == SyncLayer_add_remote_input(sl, p, frame, value)
    IN  /\ CanReceive(p)
        /\ UNCHANGED <<mode, checksum_vars, game, local_inputs, peer_connect_status, running, disconnect_frame, drop,
                       committed, broadcast, result, sent>>
        /\ IF res.ok
           THEN /\ local_connect_status' = [local_connect_status EXCEPT ![p].last_frame = frame]
                /\ truth' = [truth EXCEPT ![p] = Submit(@, frame, value)]
                /\ UNCHANGED <<state, halt_confirmed_ceiling, exposed>>
           ELSE /\ Halt(confirmed_frame)
                /\ Expose(confirmed_frame)
                /\ UNCHANGED <<local_connect_status, truth>>
        /\ sl' = res.sl

\* A packet of peer e reports that it holds the inputs of p up to frame
\* (merge_peer_connect_status: a maximum while connected).
Gossip(e, p, frame) ==
    /\ e # p
    /\ running[e]
    /\ ~peer_connect_status[e][p].disconnected
    /\ peer_connect_status[e][p].last_frame < frame
    /\ frame >= RemoteDelay
    /\ frame <= Horizon
    /\ peer_connect_status' = [peer_connect_status EXCEPT ![e][p].last_frame = frame]
    /\ UNCHANGED <<mode, checksum_vars, sl, game, local_inputs, local_connect_status, running, state, disconnect_frame,
                   halt_confirmed_ceiling, exposed, drop, committed, broadcast, result, sent, truth>>

\* A packet of peer e reports p disconnected at frame: the cut once p's drop is
\* committed, with Halt the last frame e received from p.
GossipDisconnect(e, p, frame) ==
    /\ e # p
    /\ running[e]
    /\ ~peer_connect_status[e][p].disconnected
    /\ \/ committed[p] = frame
       \/ DisconnectBehavior = "Halt" /\ frame >= peer_connect_status[e][p].last_frame
              /\ frame <= Horizon
    /\ peer_connect_status' = [peer_connect_status EXCEPT
                                  ![e][p] = [disconnected |-> TRUE, last_frame |-> frame]]
    /\ UNCHANGED <<mode, checksum_vars, sl, game, local_inputs, local_connect_status, running, state, disconnect_frame,
                   halt_confirmed_ceiling, exposed, drop, committed, broadcast, result, sent, truth>>

\* The game asks for the confirmed frame.
ConfirmedFrame ==
    /\ Expose(confirmed_frame)
    /\ UNCHANGED <<mode, checksum_vars, sl, game, local_inputs, local_connect_status, peer_connect_status, running,
                   state, disconnect_frame, halt_confirmed_ceiling, drop, committed, broadcast,
                   result, sent, truth>>

\* disconnect_player, or the timeout of p's endpoint with behaviour Halt.
DisconnectPlayer(p) ==
    LET frame == local_connect_status[p].last_frame
    IN  /\ ~local_connect_status[p].disconnected
        /\ local_connect_status' = DisconnectedAt(local_connect_status, p, frame)
        /\ running' = [running EXCEPT ![p] = FALSE]
        /\ disconnect_frame' = ResimulateFrom(frame)
        /\ ForgetChecksumsAfter(frame)
        /\ Halt(confirmed_frame)
        /\ Expose(confirmed_frame)
        /\ UNCHANGED <<mode, sl, game, local_inputs, peer_connect_status, drop, committed, broadcast,
                       result, sent, truth>>

\* coordinated_drop_apply_commit on the sync layer s: the target's queue is frozen
\* at the cut and its slot disconnected there; without the cut's input, or when
\* the slot is already gone, the session fails closed.
ApplyDropCommit(s, p, cut, held_at) ==
    /\ drop' = None
    /\ IF ~local_connect_status[p].disconnected /\ CutValid(s.input_queues[p], cut)
       THEN /\ sl' = SyncLayer_set_frozen_value_at(freeze_player_at_cut(s, p, cut), p, cut)
            /\ local_connect_status' = DisconnectedAt(local_connect_status, p, cut)
            /\ running' = [running EXCEPT ![p] = FALSE]
            /\ disconnect_frame' = ResimulateFrom(cut)
            /\ ForgetChecksumsAfter(cut)
            /\ committed' = [committed EXCEPT ![p] = cut]
            /\ UNCHANGED <<state, halt_confirmed_ceiling>>
       ELSE /\ sl' = s
            /\ Halt(held_at)
            /\ UNCHANGED <<local_connect_status, running, disconnect_frame, committed, checksum_vars>>

RetainedThrough(q) ==
    IF retained_input_range(q) = None THEN NULL_FRAME ELSE retained_input_range(q).last

\* Mutant of HoldAt: confirmation restarts while the drop is agreed.
HoldAt_Zero == 0

\* Where a drop holds confirmation: what was confirmed or exposed stays so.
HoldAt == MaxFrameOf(MaxFrameOf(confirmed_frame, exposed), 0)

\* begin_coordinated_drop (remove_player, or a timeout with ContinueWithout):
\* confirmation is held where it was exposed and the inventory is taken; a queue
\* without any input is given a default for frame 0.  With no other survivor the
\* drop commits at once.
BeginDrop(p) ==
    LET held   == HoldAt
        blank  == retained_input_range(sl.input_queues[p]) = None /\ held = 0
        s      == IF blank THEN SyncLayer_install_missing_backfill(sl, p, <<blank_input(0)>>).sl
                  ELSE sl
        high   == MaxFrameOf(held, RetainedThrough(s.input_queues[p]))
    IN  /\ drop = None
        /\ state = "Running"
        /\ ~local_connect_status[p].disconnected
        /\ Expose(confirmed_frame)
        /\ truth' = IF blank THEN [truth EXCEPT ![p] = <<DefaultInput>>] ELSE truth
        /\ IF \E e \in Remotes \ {p} : running[e]
           THEN /\ drop' = [target |-> p, held_at |-> held, high |-> high]
                /\ sl' = s
                /\ UNCHANGED <<local_connect_status, running, state, disconnect_frame,
                               halt_confirmed_ceiling, committed, checksum_vars>>
           ELSE ApplyDropCommit(s, p, high, held)
        /\ UNCHANGED <<mode, game, local_inputs, peer_connect_status, broadcast, result, sent>>

\* The survivors agree on a cut no survivor's inventory exceeds, and a donor has
\* filled in what this peer misses below it.
CommitDrop(cut, values) ==
    LET p    == drop.target
        q    == sl.input_queues[p]
        fill == SyncLayer_install_missing_backfill(sl, p,
                    [i \in 1 .. Len(values) |-> [frame |-> q.last_added_frame + i, input |-> values[i]]])
    IN  /\ cut >= drop.high
        /\ cut <= Horizon
        /\ Len(values) = MaxFrameOf(cut - q.last_added_frame, 0)
        /\ fill.ok
        /\ ApplyDropCommit(fill.sl, p, cut, drop.held_at)
        /\ truth' = [truth EXCEPT ![p] = @ \o values]
        /\ UNCHANGED <<mode, game, local_inputs, peer_connect_status, exposed, broadcast, result, sent>>

\* The attempt times out, is aborted or loses a participant.
FailDrop ==
    /\ drop # None
    /\ drop' = None
    /\ Halt(drop.held_at)
    /\ UNCHANGED <<mode, checksum_vars, sl, game, local_inputs, local_connect_status, peer_connect_status, running,
                   disconnect_frame, exposed, committed, broadcast, result, sent, truth>>

RemoteFrames == 0 .. LastFrame

Next ==
    \/ \E p \in LocalPlayers : \E value \in Payload[p] : AddLocalInput(p, value)
    \/ AdvanceFrame
    \/ AdvanceFrameHalts
    \/ \E p \in LocalPlayers, delay \in 0 .. MaxInputDelay : SetInputDelay(p, delay)
    \/ \E p \in Remotes : \E value \in Payload[p] : RemoteInput(p, value)
    \/ \E e, p \in Remotes, frame \in RemoteFrames : Gossip(e, p, frame)
    \/ \E e \in Remotes, p \in Removable \cup Disconnectable, frame \in RemoteFrames :
           GossipDisconnect(e, p, frame)
    \/ ConfirmedFrame
    \/ \E p \in Disconnectable : DisconnectPlayer(p)
    \/ \E p \in Removable : BeginDrop(p)
    \/ /\ drop # None
       /\ \E n \in 0 .. LastFrame + 1, cut \in RemoteFrames :
              \E values \in [1 .. n -> Payload[drop.target]] : CommitDrop(cut, values)
    \/ FailDrop

Spec == Init /\ [][Next]_vars

\* The game submits inputs and calls advance_frame again and again; endpoints
\* resend inputs and reports until they are acknowledged, so each arrives in the
\* end; a coordinated drop is decided, at the latest by its timeout.
Fairness ==
    /\ \A p \in LocalPlayers : WF_vars(\E value \in Payload[p] : AddLocalInput(p, value))
    /\ []<>~CanCallAdvanceFrame \/ []<><<AdvanceFrame>>_vars
    /\ WF_vars(AdvanceFrameHalts)
    /\ \A p \in Remotes : \/ []<>~CanReceive(p)
                          \/ []<><<\E value \in Payload[p] : RemoteInput(p, value)>>_vars
    /\ \A p \in Remotes : \A e \in Remotes \ {p} :
           /\ WF_vars(\E frame \in RemoteFrames : Gossip(e, p, frame))
           /\ WF_vars(committed[p] # NULL_FRAME /\ GossipDisconnect(e, p, committed[p]))
    /\ WF_vars(FailDrop)

FairSpec == Spec /\ Fairness

-----------------------------------------------------------------------------
(* Properties.                                                             *)

Status == [disconnected : BOOLEAN, last_frame : FrameOrNull]

\* A game state is told apart by the input vectors it results from.
GameState == Seq([Players -> Input])
Cell == [frame : FrameOrNull, state : GameState]
SyncLayer ==
    [max_prediction       : {MaxPrediction},
     saved_states         : [0 .. MaxPrediction -> Cell],
     last_confirmed_frame : FrameOrNull,
     last_saved_frame     : FrameOrNull,
     current_frame        : Nat,
     input_queues         : [Players -> Queue]]

\* Every field of the session, the states the game saved and the inputs it simulated
\* stay in their domains.
TypeOK ==
    /\ mode \in Modes
    /\ sl \in SyncLayer
    /\ {game, broadcast} \subseteq GameState
    /\ local_inputs \in [LocalPlayers -> PlayerInput \cup {None}]
    /\ local_connect_status \in [Players -> Status]
    /\ peer_connect_status \in [Remotes -> [Players -> Status]]
    /\ running \in [Remotes -> BOOLEAN]
    /\ state \in {"Running", "Synchronizing"}
    /\ {disconnect_frame, exposed} \subseteq FrameOrNull
    /\ halt_confirmed_ceiling \in FrameOrNull \cup {None}
    /\ drop \in [target : mode.removable, held_at : Nat, high : Nat] \cup {None}
    /\ committed \in [Players -> FrameOrNull]
    /\ last_sent_checksum_frame \in FrameOrNull
    /\ DOMAIN local_checksum_history \subseteq Nat
    /\ result \in {"Ok", "Err"}
    /\ sent \in [LocalPlayers -> Seq(Input)]
    /\ truth \in [Players -> Seq(Input)]

\* What player p's input for a frame finally is: the real one up to the cut of
\* its drop, the input at the cut after it.
FinalInput(p, frame) ==
    IF committed[p] # NULL_FRAME /\ frame > committed[p] THEN truth[p][committed[p] + 1]
    ELSE truth[p][frame + 1]
FinalInputs(frame) == [p \in Players |-> FinalInput(p, frame)]

\* Every confirmed frame has been simulated with the players' real inputs, however
\* late they arrived and however often it was mispredicted: the rollback of the
\* call that confirms a frame has corrected it.
ConfirmedFramesAreFinal ==
    \A f \in 0 .. MinFrame(sl.last_confirmed_frame, sl.current_frame - 1) :
        game[f + 1] = FinalInputs(f)

\* The spectators are sent exactly the final inputs, frame after frame: nothing is
\* sent that a later drop or rollback changes, and no frame is discarded unsent.
SpectatorsSeeFinalInputs ==
    \A i \in DOMAIN broadcast : broadcast[i] = FinalInputs(i - 1)

\* No stage of advance_frame fails: the state a rollback loads is in its cell, the
\* queues hold every input a replay or the spectators need, and the requests take
\* the game exactly to the session's frame.
AdvanceNeverFails == result = "Ok" /\ Len(game) = sl.current_frame

\* Every checksum this peer has sent and still compares is that of the frame's final
\* state: no confirmed frame is sent from a cell that a rollback or a drop rewrites,
\* which two peers in step would take for a desync.
ReportedChecksumsAreFinal ==
    \A f \in DOMAIN local_checksum_history :
        f <= sl.last_confirmed_frame =>
            local_checksum_history[f] = [i \in 1 .. f |-> FinalInputs(i - 1)]

\* The state of the scheduled frame is still held when its checksum is due: once it
\* has left the ring, no checksum is ever sent again and a desync goes unnoticed.
ScheduledStateIsHeld == ChecksumDue => saved_state_by_frame(sl, FrameToSend) # None

\* With a state saved every frame, the ring is long enough for that.
EveryFrameStateIsHeld == SaveMode = "EveryFrame" => ScheduledStateIsHeld

\* Every input stored for a local player has been sent to the peers, and the input
\* of a stalled call is neither stored nor sent twice.
StoredIsSent == \A p \in LocalPlayers : sent[p] = truth[p]

\* The confirmed frame of the sync layer never moves back.
ConfirmedNeverRegresses == [][sl'.last_confirmed_frame >= sl.last_confirmed_frame]_vars

\* A drop never cuts below a frame that the session has already reported as
\* confirmed, not even one it reported while the drop was being agreed.
DropKeepsExposedFrames ==
    [][\A p \in Players : committed'[p] # committed[p] => committed'[p] >= exposed]_vars

\* Every frame the session has reported as confirmed has an input that each player
\* really gave, or a value agreed by a drop: the lost player of a halted session no
\* longer holds the minimum back, but its made-up inputs never count as confirmed.
ExposedFramesAreKnown ==
    \A p \in Players : committed[p] = NULL_FRAME => exposed < Len(truth[p])

\* The prediction threshold stalls the session only for a while: it keeps advancing
\* until it halts, whatever order the inputs and reports of the other peers arrive
\* in and whoever is dropped on the way.
KeepsAdvancing == <>(sl.current_frame = LastFrame \/ state = "Synchronizing")
=============================================================================
