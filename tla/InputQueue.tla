----------------------------- MODULE InputQueue -----------------------------
(***************************************************************************)
(* One input queue driven by its callers in any order the sync layer       *)
(* allows: inputs arrive, the simulation asks for frames in increasing     *)
(* order until a rollback resets the prediction, confirmed frames are      *)
(* discarded, the delay grows, a dropped player's queue is frozen, cut,    *)
(* re-rolled and reopened.                                                 *)
(*                                                                         *)
(* The variables after queue are history: they record what the callers     *)
(* gave and received, so that the properties can compare the ring with it. *)
(***************************************************************************)
EXTENDS InputQueueOps

CONSTANTS
    LastFrame,   \* bound: no input is stored for a frame above this one
    MaxEras      \* bound: how often the queue is reopened by reset_to_frame

ASSUME LastFrameAssumption == LastFrame \in Nat /\ MaxEras \in Nat

VARIABLES
    queue,      \* the InputQueue
    written,    \* frame -> the input its caller meant to store, or None
    served,     \* frame -> the prediction handed out for it, or None
    next_user,  \* the game frame of the next input the caller will add
    agreed,     \* the frame whose input a frozen queue repeats, or NULL_FRAME
    activation, \* the frame the queue was last reopened at, 0 before that
    era         \* how often the queue has been reopened

vars == <<queue, written, served, next_user, agreed, activation, era>>

Frames == 0 .. LastFrame
NoInputs == [f \in Frames |-> None]

\* The reclaim floors: none (NULL_FRAME) from the queue's own add_input and
\* set_frame_delay; from the sync layer current_frame - max_prediction, never past
\* the frame the simulation asked for last.
Floors == {f \in Frames \cup {NULL_FRAME} : queue.last_requested_frame # NULL_FRAME
                                              => f <= queue.last_requested_frame}

TypeOK ==
    /\ queue \in Queue
    /\ written \in [Frames -> Input \cup {None}]
    /\ served \in [Frames -> Input \cup {None}]
    /\ next_user \in Nat
    /\ agreed \in FrameOrNull
    /\ activation \in Nat
    /\ era \in 0 .. MaxEras

Init ==
    /\ queue = NewQueue
    /\ written = NoInputs
    /\ served = NoInputs
    /\ next_user = 0
    /\ agreed = NULL_FRAME
    /\ activation = 0
    /\ era = 0

\* Frames newly stored by a step, with the input the caller meant for each.
Record(new, meant(_)) ==
    written' = [f \in Frames |->
                   IF queue.last_added_frame < f /\ f <= new.last_added_frame
                   THEN meant(f) ELSE written[f]]

\* A local or remote input for game frame `frame`: next_user, a duplicate of
\* the one before it, or one that skips a frame.  The first is for frame 0.
AddInput(frame, value, floor) ==
    LET res == add_input(queue, frame, value, floor)
    IN  /\ queue.last_added_frame = NULL_FRAME => frame = 0
        /\ frame + queue.frame_delay <= LastFrame
        /\ queue' = res.q
        /\ Record(res.q, LAMBDA f : IF f = res.frame THEN value ELSE DefaultInput)
        /\ next_user' = IF ~queue.frozen /\ res.frame # NULL_FRAME THEN frame + 1 ELSE next_user
        /\ UNCHANGED <<served, agreed, activation, era>>

SetFrameDelay(delay, floor) ==
    LET res == set_frame_delay(queue, delay, floor)
    IN  /\ queue.last_added_frame + delay - queue.frame_delay <= LastFrame
        /\ queue' = res.q
        /\ Record(res.q, LAMBDA f : written[queue.last_added_frame])
        /\ UNCHANGED <<served, next_user, agreed, activation, era>>

\* The simulation asks for the input of a frame.  synchronized_inputs asks the
\* queue only from its activation frame on, and once it is frozen only up to the
\* frame the drop was agreed at.
RequestInput(frame) ==
    LET res == input(queue, frame)
    IN  /\ frame >= queue.last_requested_frame
        /\ frame >= activation
        /\ queue.frozen => frame <= agreed
        /\ queue' = res.q
        /\ served' = IF res.status = "Predicted"
                     THEN [served EXCEPT ![frame] = res.input] ELSE served
        /\ UNCHANGED <<written, next_user, agreed, activation, era>>

\* A rollback: what was predicted will be simulated again.
ResetPrediction ==
    /\ queue' = reset_prediction(queue)
    /\ served' = NoInputs
    /\ UNCHANGED <<written, next_user, agreed, activation, era>>

DiscardConfirmedFrames(before) ==
    /\ queue' = discard_confirmed_frames(queue, before)
    /\ UNCHANGED <<written, served, next_user, agreed, activation, era>>

\* A donor's inputs for the frames from `from` on (a remote queue, no delay).
InstallMissingBackfill(from, values, floor) ==
    LET inputs == [i \in 1 .. Len(values) |-> [frame |-> from + i - 1, input |-> values[i]]]
        res    == install_missing_backfill(queue, inputs, floor)
    IN  /\ queue.frame_delay = 0
        /\ from + Len(values) - 1 <= LastFrame
        /\ queue' = res.q
        /\ Record(res.q, LAMBDA f : values[f - from + 1])
        /\ next_user' = next_user + res.q.last_added_frame - queue.last_added_frame
        /\ UNCHANGED <<served, agreed, activation, era>>

FreezeAt(frame) ==
    /\ queue' = freeze_at(queue, frame)
    /\ agreed' = IF queue.frozen THEN agreed
                 ELSE IF frame # NULL_FRAME /\ confirmed_input(queue, frame) # None THEN frame
                 ELSE NULL_FRAME
    /\ UNCHANGED <<written, served, next_user, activation, era>>

SetFrozenValueAt(frame) ==
    /\ queue' = set_frozen_value_at(queue, frame)
    /\ agreed' = IF queue.frozen /\ confirmed_input(queue, frame) # None THEN frame ELSE agreed
    /\ UNCHANGED <<written, served, next_user, activation, era>>

\* freeze_players_at_cuts: the cut is checked, then applied.
FreezeAtCut(cut) ==
    /\ CutValid(queue, cut)
    /\ queue' = freeze_at_prevalidated_cut(queue, cut)
    /\ agreed' = cut
    /\ UNCHANGED <<written, served, next_user, activation, era>>

\* A hot-join abort puts back the value captured before the reopen.
RefreezeWithValue(value) ==
    /\ queue' = refreeze_with_value(queue, value)
    /\ agreed' = NULL_FRAME
    /\ UNCHANGED <<written, served, next_user, activation, era>>

\* A hot join reopens the queue at its activation frame.
ResetToFrame(frame) ==
    LET new == reset_to_frame(queue, frame)
    IN  /\ era < MaxEras
        /\ new.last_added_frame <= LastFrame
        /\ queue' = new
        /\ written' = [f \in Frames |-> IF f = new.last_added_frame
                                        THEN predict(queue.last_confirmed_input) ELSE None]
        /\ served' = NoInputs
        /\ next_user' = frame
        /\ agreed' = NULL_FRAME
        /\ activation' = frame
        /\ era' = era + 1

Next ==
    \/ \E frame \in (next_user - 1 .. next_user + 1) \cap Nat, value \in Input, floor \in Floors :
           AddInput(frame, value, floor)
    \/ \E delay \in 0 .. max_frame_delay + 1, floor \in Floors : SetFrameDelay(delay, floor)
    \/ \E frame \in Frames : RequestInput(frame)
    \/ ResetPrediction
    \/ \E before \in Frames : DiscardConfirmedFrames(before)
    \/ \E from \in Frames, n \in 1 .. 2 : \E values \in [1 .. n -> Input], floor \in Floors \cap Frames :
           InstallMissingBackfill(from, values, floor)
    \/ \E frame \in Frames \cup {NULL_FRAME} : FreezeAt(frame)
    \/ \E frame \in Frames : SetFrozenValueAt(frame)
    \/ \E cut \in Frames : FreezeAtCut(cut)
    \/ \E value \in Input \cup {None} : RefreezeWithValue(value)
    \/ \E frame \in Frames : ResetToFrame(frame)

Spec == Init /\ [][Next]_vars

-----------------------------------------------------------------------------
(* Properties.                                                             *)

\* The ring stays aligned through adds, evictions, discards, gap fills, freezes
\* and reopens.
RingAligned == Aligned(queue)

\* Whatever confirmed_input answers for a frame, discarded and reclaimed frames
\* included, is what the player's input for that frame was: no wrapped slot or
\* stale side slot is ever taken for another frame's input.
ConfirmedIsWritten ==
    \A f \in Frames : confirmed_input(queue, f) \in {None, written[f]}

\* If a prediction that was handed to the simulation turns out wrong, the queue
\* reports a frame at or before it, so that the rollback replays it: no arrival
\* of an episode escapes the comparison in add_input_by_frame.
NoSwallowedMisprediction ==
    \A f \in Frames :
        served[f] # None /\ written[f] \notin {None, served[f]} /\ f <= queue.last_added_frame
            => queue.first_incorrect_frame \in 0 .. f

\* The prediction episode always waits for exactly the next arrival, which makes
\* the mismatch branch of add_input_by_frame ("IMPOSSIBLE STATE") unreachable.
EpisodeAwaitsNextArrival == AwaitsNextArrival(queue)

\* The caller's next input is always the one the queue expects: neither a failed
\* gap fill of set_frame_delay nor a reopen leaves the stream off by a frame.
StreamStaysSequential ==
    queue.last_added_frame # NULL_FRAME
        => next_user + queue.frame_delay = queue.last_added_frame + 1

\* A frozen queue repeats the input of the frame it was agreed to freeze at,
\* however often the agreement was lowered.
FrozenRepeatsAgreedInput ==
    queue.frozen /\ agreed # NULL_FRAME
        => queue.last_confirmed_input = written[agreed]

\* An input the queue holds for the frame last asked for stays held: neither a
\* discard nor the eviction of a full ring loses what the next rollback reads.
RequestedStaysHeld ==
    [][LET f == queue.last_requested_frame
       IN  era' = era /\ retained_confirmed_input(queue, f) # None
               => retained_confirmed_input(queue', f) # None]_vars
=============================================================================
