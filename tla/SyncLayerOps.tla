---------------------------- MODULE SyncLayerOps ----------------------------
(***************************************************************************)
(* The sync layer (src/src/sync_layer/mod.rs): one input queue per player, *)
(* a ring of saved game states and the frame counters, as operators on a   *)
(* sync-layer value.                                                       *)
(*                                                                         *)
(* save_current_state and load_frame only REQUEST a save or a load: the    *)
(* game fills or reads the cell when it handles the requests, after the    *)
(* call that issued them has returned.  Until then the cells are the old   *)
(* ones, which is what load_frame checks against.                          *)
(*                                                                         *)
(* Built without the hot-join feature (the default): no reactivation       *)
(* floors.                                                                 *)
(***************************************************************************)
EXTENDS InputQueueOps, FiniteSets

CONSTANT NumPlayers     \* players have handles 0 .. NumPlayers - 1

ASSUME NumPlayersAssumption == NumPlayers \in Nat \ {0}

Players == 0 .. NumPlayers - 1

MaxFrameOf(a, b) == IF a >= b THEN a ELSE b

\* SavedStates: max_prediction + 1 cells, a frame's cell is frame mod their number.
get_cell(cells, frame) == frame % Cardinality(DOMAIN cells)

\* SyncLayer::new; max_prediction: the frames the simulation may run ahead of
\* confirmed input.
NewSyncLayer(max_prediction) ==
    [max_prediction       |-> max_prediction,
     saved_states         |-> [c \in 0 .. max_prediction |-> [frame |-> NULL_FRAME, state |-> <<>>]],
     last_confirmed_frame |-> NULL_FRAME,
     last_saved_frame     |-> NULL_FRAME,
     current_frame        |-> 0,
     input_queues         |-> [p \in Players |-> NewQueue]]

advance_frame(sl) == [sl EXCEPT !.current_frame = @ + 1]

\* The oldest frame a rollback may still load.
rollback_window_floor(sl) == MaxFrameOf(sl.current_frame - sl.max_prediction, 0)

save_current_state(sl) == [sl EXCEPT !.last_saved_frame = sl.current_frame]

\* load_frame succeeds for a past frame of the window whose cell holds it.
CanLoadFrame(sl, frame) ==
    /\ frame # NULL_FRAME
    /\ frame < sl.current_frame
    /\ frame >= sl.current_frame - sl.max_prediction
    /\ sl.saved_states[get_cell(sl.saved_states, frame)].frame = frame

\* The cell of a frame, if it still holds that frame.
saved_state_by_frame(sl, frame) ==
    LET cell == sl.saved_states[get_cell(sl.saved_states, frame)]
    IN  IF cell.frame = frame THEN cell ELSE None

load_frame(sl, frame) == [sl EXCEPT !.current_frame = frame, !.last_saved_frame = frame]

newest_saved_frame_in_range(sl, lower, upper) ==
    LET held == {f \in {sl.saved_states[c].frame : c \in DOMAIN sl.saved_states} :
                     f # NULL_FRAME /\ lower <= f /\ f <= upper /\ f < sl.current_frame}
    IN  IF held = {} THEN NULL_FRAME ELSE CHOOSE f \in held : \A g \in held : g <= f

SyncLayer_reset_prediction(sl) ==
    [sl EXCEPT !.input_queues = [p \in Players |-> reset_prediction(@[p])]]

-----------------------------------------------------------------------------
(* Inputs.                                                                 *)

\* Adds the local player's input for frame; it must be for the current frame.
SyncLayer_add_local_input(sl, p, frame, value) ==
    LET res == add_input(sl.input_queues[p], frame, value, rollback_window_floor(sl))
    IN  IF frame # sl.current_frame THEN [frame |-> NULL_FRAME, sl |-> sl]
        ELSE [frame |-> res.frame, sl |-> [sl EXCEPT !.input_queues[p] = res.q]]

SyncLayer_add_remote_input(sl, p, frame, value) ==
    LET res == add_input(sl.input_queues[p], frame, value, rollback_window_floor(sl))
    IN  [ok |-> res.frame = frame, sl |-> [sl EXCEPT !.input_queues[p] = res.q]]

SyncLayer_set_frame_delay(sl, p, delay) ==
    LET res == set_frame_delay(sl.input_queues[p], delay, rollback_window_floor(sl))
    IN  [res |-> res.res, sl |-> [sl EXCEPT !.input_queues[p] = res.q]]

SyncLayer_install_missing_backfill(sl, p, inputs) ==
    LET res == install_missing_backfill(sl.input_queues[p], inputs, rollback_window_floor(sl))
    IN  [ok |-> res.ok, sl |-> [sl EXCEPT !.input_queues[p] = res.q]]

\* The slot of a player dropped before the frame is served without its queue:
\* the frozen value of a graceful drop, the default of a hard one.
IsDropped(status, p, frame) == status[p].disconnected /\ status[p].last_frame < frame

\* Mutant of DroppedInput: a graceful drop is served like a hard one.
DroppedInput_Default(sl, p) == DefaultInput

DroppedInput(sl, p) ==
    IF sl.input_queues[p].frozen THEN predict(sl.input_queues[p].last_confirmed_input)
    ELSE DefaultInput

\* The inputs of the current frame, predicted where unknown.  The players are
\* asked in order and the first failure ends the call.
synchronized_inputs(sl, status) ==
    LET ask    == [p \in Players |-> input(sl.input_queues[p], sl.current_frame)]
        asked  == {p \in Players : ~IsDropped(status, p, sl.current_frame)}
        failed == {p \in asked : ask[p].status = "None"}
    IN  [ok     |-> failed = {},
         inputs |-> [p \in Players |-> IF p \in asked THEN ask[p].input ELSE DroppedInput(sl, p)],
         sl     |-> [sl EXCEPT !.input_queues =
                        [p \in Players |-> IF p \in asked /\ \A f \in failed : p <= f
                                           THEN ask[p].q ELSE @[p]]]]

\* The confirmed inputs of a frame; an entry is None where a queue lost it.
confirmed_inputs(sl, frame, status) ==
    [p \in Players |-> IF IsDropped(status, p, frame) THEN DroppedInput(sl, p)
                       ELSE confirmed_input(sl.input_queues[p], frame)]

\* freeze_players_at_cuts for one player (the caller has checked CutValid).
freeze_player_at_cut(sl, p, cut) ==
    [sl EXCEPT !.input_queues[p] = freeze_at_prevalidated_cut(@, cut)]

SyncLayer_set_frozen_value_at(sl, p, frame) ==
    [sl EXCEPT !.input_queues[p] = set_frozen_value_at(@, frame)]

-----------------------------------------------------------------------------
(* Confirmation.                                                           *)

FirstIncorrects(sl) ==
    {sl.input_queues[p].first_incorrect_frame : p \in Players} \ {NULL_FRAME}

\* Mutant of check_simulation_consistency: the rollback goes to the latest wrong frame.
check_simulation_consistency_Latest(sl, disconnect_frame) ==
    LET wrong == FirstIncorrects(sl) \cup ({disconnect_frame} \ {NULL_FRAME})
    IN  IF wrong = {} THEN NULL_FRAME ELSE CHOOSE f \in wrong : \A g \in wrong : g <= f

\* The earliest frame any queue, or the session's disconnect, knows to be wrong.
check_simulation_consistency(sl, disconnect_frame) ==
    LET wrong == FirstIncorrects(sl) \cup ({disconnect_frame} \ {NULL_FRAME})
    IN  IF wrong = {} THEN NULL_FRAME ELSE CHOOSE f \in wrong : \A g \in wrong : f <= g

ConfirmedBound(sl, frame, save_mode) ==
    MinFrame(IF save_mode = "Sparse" THEN MinFrame(frame, sl.last_saved_frame) ELSE frame,
             sl.current_frame)

\* Never confirms past the current frame, past the last saved state of sparse
\* saving, or past a known misprediction (the fold takes the LARGEST of them).
set_last_confirmed_frame(sl, frame, save_mode) ==
    LET bound     == ConfirmedBound(sl, frame, save_mode)
        wrong     == FirstIncorrects(sl)
        incorrect == IF wrong = {} THEN NULL_FRAME ELSE CHOOSE f \in wrong : \A g \in wrong : g <= f
        confirmed == IF incorrect # NULL_FRAME /\ incorrect < bound THEN incorrect ELSE bound
    IN  [sl EXCEPT !.last_confirmed_frame = confirmed,
                   !.input_queues = IF confirmed > 0
                        THEN [p \in Players |-> discard_confirmed_frames(@[p], confirmed - 1)]
                        ELSE @]
=============================================================================
