---------------------------- MODULE InputQueueOps ----------------------------
(***************************************************************************)
(* The per-player input queue of fortress-rollback                         *)
(* (src/src/input_queue/mod.rs) as operators on a queue value.             *)
(*                                                                         *)
(* A queue is a ring of QueueLength slots, each holding a frame number and *)
(* the input confirmed for it, with the bookkeeping of one prediction      *)
(* episode.  `&mut self` gives every method exclusive access, so a method  *)
(* is one operator from the queue before the call to the queue after it;   *)
(* where it also returns something, the operator returns a record with the *)
(* new queue in its field q.                                               *)
(*                                                                         *)
(* Frames are i32 in the code and Frame::NULL is -1.  The frames explored  *)
(* here stay far below i32::MAX, where safe_frame_add! saturates.          *)
(***************************************************************************)
EXTENDS Integers, Sequences

CONSTANTS
    QueueLength,   \* slots in the ring (128 in production, configurable)
    Input,         \* the payloads a player may submit
    DefaultInput,  \* T::Input::default()
    None           \* Option::None

ASSUME QueueLengthAssumption == QueueLength \in Nat /\ QueueLength >= 2
ASSUME InputAssumption == DefaultInput \in Input /\ None \notin Input

NULL_FRAME == -1

\* Option<Frame>::None for reclaim_before.  Every slot of a full ring has a
\* frame >= 0, so a floor of -1 permits no eviction, as None does.
NoFloor == NULL_FRAME

MinFrame(a, b) == IF a <= b THEN a ELSE b

Slot == 0 .. QueueLength - 1
FrameOrNull == Nat \cup {NULL_FRAME}
PlayerInput == [frame : FrameOrNull, input : Input]
blank_input(frame) == [frame |-> frame, input |-> DefaultInput]

\* Option::None is neither a stored input nor an interval of frames.
ASSUME NoneAssumption == None \notin PlayerInput /\ None \notin [first : Int, last : Int]

max_frame_delay == QueueLength - 1

\* The fields of struct InputQueue.  player_index is left out: the one
\* prediction strategy the queue uses ignores it.
Queue ==
    [head                  : Slot,
     tail                  : Slot,
     length                : 0 .. QueueLength,
     first_frame           : BOOLEAN,
     last_added_frame      : FrameOrNull,
     first_incorrect_frame : FrameOrNull,
     last_requested_frame  : FrameOrNull,
     frame_delay           : 0 .. max_frame_delay,
     inputs                : [Slot -> PlayerInput],
     prediction            : PlayerInput,
     last_confirmed_input  : Input \cup {None},
     reclaimed_floor_input : PlayerInput \cup {None},
     frozen                : BOOLEAN]

NewQueue ==
    [head                  |-> 0,
     tail                  |-> 0,
     length                |-> 0,
     first_frame           |-> TRUE,
     last_added_frame      |-> NULL_FRAME,
     first_incorrect_frame |-> NULL_FRAME,
     last_requested_frame  |-> NULL_FRAME,
     frame_delay           |-> 0,
     inputs                |-> [s \in Slot |-> blank_input(NULL_FRAME)],
     prediction            |-> blank_input(NULL_FRAME),
     last_confirmed_input  |-> None,
     reclaimed_floor_input |-> None,
     frozen                |-> FALSE]

\* frame.as_i32() as usize % queue_length: the slot of a frame's input.
SlotOf(frame) == frame % QueueLength

circular_index_add(index, offset) == (index + offset) % QueueLength

\* The slot behind index: match index { 0 => queue_length - 1, _ => index - 1 }.
previous_position(index) == (index + QueueLength - 1) % QueueLength

-----------------------------------------------------------------------------
(* Adding inputs.                                                          *)

\* Mutant of EpisodeDone: the episode ends at its first correct arrival.
EpisodeDone_FirstArrival(q, frame, incorrect) == incorrect = NULL_FRAME

\* An episode ends once the last requested frame has arrived without a mismatch.
EpisodeDone(q, frame, incorrect) ==
    frame = q.last_requested_frame /\ incorrect = NULL_FRAME

\* The comparison of an arrival with the running prediction episode, and the
\* exit from the episode once its last requested frame has been confirmed.
SettlePrediction(q, frame, input) ==
    IF q.prediction.frame = NULL_FRAME THEN q
    ELSE IF frame # q.prediction.frame
    THEN [q EXCEPT !.first_incorrect_frame =
                       IF @ = NULL_FRAME THEN MinFrame(frame, q.prediction.frame) ELSE @,
                   !.prediction.frame = frame + 1]
    ELSE LET incorrect == IF /\ q.first_incorrect_frame = NULL_FRAME
                             /\ q.prediction.input # input
                          THEN frame
                          ELSE q.first_incorrect_frame
         IN  [q EXCEPT !.first_incorrect_frame = incorrect,
                       !.prediction.frame = IF EpisodeDone(q, frame, incorrect)
                                           THEN NULL_FRAME ELSE frame + 1]

\* Mutant of ReclaimOldest: the length is not given back.
ReclaimOldest_KeepsLength(q, floor) ==
    IF q.length < QueueLength THEN q
    ELSE [q EXCEPT !.reclaimed_floor_input =
                       IF q.inputs[q.tail].frame = floor THEN q.inputs[q.tail] ELSE @,
                   !.tail = circular_index_add(@, 1)]

\* Full ring: give up the oldest slot, keeping the input at the rollback floor
\* itself in the side slot.
ReclaimOldest(q, floor) ==
    IF q.length < QueueLength THEN q
    ELSE [q EXCEPT !.reclaimed_floor_input =
                       IF q.inputs[q.tail].frame = floor THEN q.inputs[q.tail] ELSE @,
                   !.tail   = circular_index_add(@, 1),
                   !.length = @ - 1]

\* add_input_by_frame refuses (and changes nothing) unless the frame follows
\* the last one and a full ring may evict its oldest slot.
CanAddByFrame(q, frame, floor) ==
    /\ q.last_added_frame # NULL_FRAME => frame = q.last_added_frame + 1
    /\ frame # 0 => q.inputs[previous_position(q.head)].frame = frame - 1
    /\ q.length = QueueLength => q.inputs[q.tail].frame <= floor

add_input_by_frame(q, frame, input, floor) ==
    IF ~CanAddByFrame(q, frame, floor) THEN [ok |-> FALSE, q |-> q]
    ELSE LET r == ReclaimOldest(q, floor)
             w == [r EXCEPT !.inputs[r.head]      = [frame |-> frame, input |-> input],
                            !.head                = circular_index_add(@, 1),
                            !.length              = @ + 1,
                            !.first_frame         = FALSE,
                            !.last_added_frame    = frame,
                            !.last_confirmed_input = input]
         IN  [ok |-> TRUE, q |-> SettlePrediction(w, frame, input)]

\* The loops over add_input_by_frame: the inputs are added for the frames
\* from, from + 1, ... until one is refused.
AddRun(q, from, inputs, floor) ==
    LET run[n \in 0 .. Len(inputs)] ==
            IF n = 0 THEN [ok |-> TRUE, q |-> q]
            ELSE IF ~run[n - 1].ok THEN run[n - 1]
            ELSE add_input_by_frame(run[n - 1].q, from + n - 1, inputs[n], floor)
    IN  run[Len(inputs)]

\* Replicates one payload over count frames.
Replicate(input, count) == [i \in 1 .. count |-> input]

\* Fills the frames below frame + frame_delay (a fresh queue with a delay) and
\* returns the delayed frame, or NULL_FRAME when it may not be added.
advance_queue_head(q, frame, floor) ==
    LET previous == q.inputs[previous_position(q.head)]
        expected == IF q.first_frame THEN 0 ELSE previous.frame + 1
        delayed  == frame + q.frame_delay
    IN  IF expected > delayed THEN [frame |-> NULL_FRAME, q |-> q]
        ELSE LET filled == AddRun(q, expected, Replicate(previous.input, delayed - expected), floor)
                 last   == filled.q.inputs[previous_position(filled.q.head)]
             IN  [frame |-> IF filled.ok /\ (delayed # 0 => delayed = last.frame + 1)
                            THEN delayed ELSE NULL_FRAME,
                  q     |-> filled.q]

\* add_input / add_input_reclaiming_before.  Returns the frame the input was
\* stored for, the unchanged last_added_frame on a frozen queue, or NULL_FRAME.
add_input(q, frame, input, floor) ==
    IF q.frozen THEN [frame |-> q.last_added_frame, q |-> q]
    ELSE IF /\ q.last_added_frame # NULL_FRAME
            /\ frame + q.frame_delay # q.last_added_frame + 1
    THEN [frame |-> NULL_FRAME, q |-> q]
    ELSE LET head  == advance_queue_head(q, frame, floor)
             added == add_input_by_frame(head.q, head.frame, input, floor)
         IN  IF head.frame = NULL_FRAME THEN head
             ELSE [frame |-> IF added.ok THEN head.frame ELSE NULL_FRAME, q |-> added.q]

\* Mutant of FillOrRestore: the partial fill stays behind.
FillOrRestore_KeepsPartialFill(q, filled, delay) ==
    IF filled.ok THEN [res |-> "Ok", q |-> [filled.q EXCEPT !.frame_delay = delay]]
    ELSE [res |-> "InputQueueGapFillFailed", q |-> filled.q]

FillOrRestore(q, filled, delay) ==
    IF filled.ok THEN [res |-> "Ok", q |-> [filled.q EXCEPT !.frame_delay = delay]]
    ELSE [res |-> "InputQueueGapFillFailed", q |-> q]

\* set_frame_delay: an increase after the first input replicates the newest
\* input over the new gap, and a refused fill restores the queue it started from.
set_frame_delay(q, delay, floor) ==
    LET newest == q.inputs[previous_position(q.head)]
        filled == AddRun(q, q.last_added_frame + 1,
                         Replicate(newest.input, delay - q.frame_delay), floor)
    IN  IF q.frozen THEN [res |-> "Ok", q |-> q]
        ELSE IF delay > max_frame_delay THEN [res |-> "FrameDelayTooLarge", q |-> q]
        ELSE IF delay = q.frame_delay \/ q.last_added_frame = NULL_FRAME
        THEN [res |-> "Ok", q |-> [q EXCEPT !.frame_delay = delay]]
        ELSE IF delay < q.frame_delay
        THEN [res |-> "InputDelayDecreaseUnsupported", q |-> q]
        ELSE FillOrRestore(q, filled, delay)

-----------------------------------------------------------------------------
(* Reading inputs.                                                         *)

\* RepeatLastConfirmed: the last confirmed input, or the default.
predict(last_confirmed) == IF last_confirmed = None THEN DefaultInput ELSE last_confirmed

\* The side slot first, then the absolute slot of the frame: discarded frames
\* stay readable until their slot is overwritten.  None models the error.
confirmed_input(q, frame) ==
    LET slot == q.inputs[SlotOf(frame)]
    IN  IF q.reclaimed_floor_input # None /\ q.reclaimed_floor_input.frame = frame
        THEN q.reclaimed_floor_input.input
        ELSE IF slot.frame = frame THEN slot.input ELSE None

\* Mutant of EpisodeStart: the episode awaits the requested frame.
EpisodeStart_Requested(q, frame) == frame

\* A new prediction episode awaits the next arrival, whatever frame was asked for.
EpisodeStart(q, frame) == q.last_added_frame + 1

\* The input handed to the simulation for a frame: confirmed, predicted, or
\* None after a misprediction or for a frame before the tail.
input(q, frame) ==
    LET asked  == [q EXCEPT !.last_requested_frame = frame]
        oldest == q.inputs[q.tail]
        offset == frame - oldest.frame
        slot   == q.inputs[circular_index_add(q.tail, offset)]
        begun  == [asked EXCEPT !.prediction =
                      [frame |-> EpisodeStart(q, frame),
                       input |-> predict(q.last_confirmed_input)]]
    IN  IF q.first_incorrect_frame # NULL_FRAME
        THEN [status |-> "None", input |-> None, q |-> q]
        ELSE IF q.reclaimed_floor_input # None /\ q.reclaimed_floor_input.frame = frame
        THEN [status |-> "Confirmed", input |-> q.reclaimed_floor_input.input, q |-> asked]
        ELSE IF frame < oldest.frame
        THEN [status |-> "None", input |-> None, q |-> asked]
        ELSE IF q.prediction.frame # NULL_FRAME
        THEN [status |-> "Predicted", input |-> q.prediction.input, q |-> asked]
        ELSE IF offset >= q.length
        THEN [status |-> "Predicted", input |-> begun.prediction.input, q |-> begun]
        ELSE IF slot.frame # frame
        THEN [status |-> "None", input |-> None, q |-> asked]
        ELSE [status |-> "Confirmed", input |-> slot.input, q |-> asked]

reset_prediction(q) ==
    [q EXCEPT !.prediction.frame      = NULL_FRAME,
              !.first_incorrect_frame = NULL_FRAME,
              !.last_requested_frame  = NULL_FRAME]

-----------------------------------------------------------------------------
(* Discarding and the retained interval.                                   *)

\* Mutant of DiscardBound: the last requested frame does not hold it back.
DiscardBound_Unclamped(q, before) == before

DiscardBound(q, before) ==
    IF q.last_requested_frame = NULL_FRAME THEN before
    ELSE MinFrame(before, q.last_requested_frame)

\* Drops the frames before `before`, never past the last requested frame.  An
\* offset past the ring's contents is reported and drops nothing.
discard_confirmed_frames(q, before) ==
    LET frame  == DiscardBound(q, before)
        side   == IF q.reclaimed_floor_input # None /\ q.reclaimed_floor_input.frame < frame
                  THEN None ELSE q.reclaimed_floor_input
        kept   == [q EXCEPT !.reclaimed_floor_input = side]
        offset == frame - q.inputs[q.tail].frame
    IN  IF q.length = 0 THEN q
        ELSE IF frame >= q.last_added_frame
        THEN [kept EXCEPT !.tail = previous_position(q.head), !.length = 1]
        ELSE IF offset <= 0 \/ offset > q.length THEN kept
        ELSE [kept EXCEPT !.tail = circular_index_add(@, offset), !.length = @ - offset]

\* The contiguous frames still held, the side slot included; None when empty.
retained_input_range(q) ==
    LET first == q.inputs[q.tail].frame
        last  == q.last_added_frame
    IN  IF \/ q.length = 0 \/ first = NULL_FRAME \/ last = NULL_FRAME
           \/ last - first + 1 # q.length
        THEN None
        ELSE [first |-> IF /\ q.reclaimed_floor_input # None
                           /\ q.reclaimed_floor_input.frame + 1 = first
                        THEN first - 1 ELSE first,
              last  |-> last]

retained_confirmed_input(q, frame) ==
    LET range == retained_input_range(q)
    IN  IF range = None \/ frame < range.first \/ frame > range.last THEN None
        ELSE confirmed_input(q, frame)

-----------------------------------------------------------------------------
(* Backfill: an overlap with what is held, followed by missing frames.     *)

\* The first index of inputs (a sequence of PlayerInput) past last_added_frame.
MissingFrom(q, inputs) ==
    CHOOSE i \in 1 .. Len(inputs) + 1 :
        /\ i <= Len(inputs) => inputs[i].frame > q.last_added_frame
        /\ \A j \in 1 .. i - 1 : inputs[j].frame <= q.last_added_frame

\* What validate_missing_backfill requires; which error names a failed check is
\* left out.  Its structural checks (RetainedHistoryError::Invariant) are the
\* ring's own invariant and its i32 overflow checks are out of range here.
BackfillValid(q, inputs, floor) ==
    LET n         == Len(inputs)
        from      == MissingFrom(q, inputs)
        evictions == q.length + (n + 1 - from) - QueueLength
    IN  /\ n <= QueueLength
        /\ floor >= 0
        /\ \A i \in 1 .. n : inputs[i].frame >= 0
        /\ \A i \in 1 .. n - 1 : inputs[i + 1].frame = inputs[i].frame + 1
        /\ q.frozen => n = 0
        /\ \A i \in 1 .. from - 1 :
               retained_confirmed_input(q, inputs[i].frame) = inputs[i].input
        /\ from <= n => inputs[from].frame = q.last_added_frame + 1
        /\ \A o \in 0 .. evictions - 1 :
               q.inputs[circular_index_add(q.tail, o)].frame <= floor

\* Installs the missing suffix, every check done before the first write.
install_missing_backfill(q, inputs, floor) ==
    LET from   == MissingFrom(q, inputs)
        suffix == [i \in 1 .. Len(inputs) + 1 - from |-> inputs[from + i - 1].input]
    IN  IF ~BackfillValid(q, inputs, floor) THEN [ok |-> FALSE, q |-> q]
        ELSE AddRun(q, q.last_added_frame + 1, suffix, floor)

-----------------------------------------------------------------------------
(* Freezing the queue of a dropped player, and reopening it.               *)

\* Sets the repeated value to the input confirmed at frame, if it is held.
roll_confirmed_input_to(q, frame) ==
    IF frame = NULL_FRAME \/ confirmed_input(q, frame) = None THEN q
    ELSE [q EXCEPT !.last_confirmed_input = confirmed_input(q, frame)]

freeze_at(q, frame) ==
    IF q.frozen THEN q ELSE [roll_confirmed_input_to(q, frame) EXCEPT !.frozen = TRUE]

\* Mutant of set_frozen_value_at: a queue that is already frozen is left alone.
set_frozen_value_at_Ignored(q, frame) == q

set_frozen_value_at(q, frame) ==
    IF q.frozen THEN roll_confirmed_input_to(q, frame) ELSE q

\* validate_freeze_at_cut: a live queue that still holds the cut.
CutValid(q, cut) ==
    cut >= 0 /\ ~q.frozen /\ retained_confirmed_input(q, cut) # None

freeze_at_prevalidated_cut(q, cut) ==
    IF retained_confirmed_input(q, cut) = None THEN q
    ELSE [q EXCEPT !.last_confirmed_input = retained_confirmed_input(q, cut),
                   !.frozen = TRUE]

refreeze_with_value(q, value) ==
    [q EXCEPT !.last_confirmed_input = value, !.frozen = TRUE]

\* Mutant of ReopenedSlot: the ring restarts at slot 0.
ReopenedSlot_Zero(frame) == 0

\* head and tail of a reopened ring: the slot of the next frame to be added.
ReopenedSlot(frame) == SlotOf(frame)

\* Mutant of ReopenedRing: the slots of the earlier era stay.
ReopenedRing_Stale(q) == q.inputs

ReopenedRing(q) == [s \in Slot |-> blank_input(NULL_FRAME)]

\* Reopens the queue so that its next input is for game frame `frame`: the ring
\* is blanked and realigned, and the slot behind the head is stamped with the
\* preserved value so that the next add finds its predecessor.
reset_to_frame(q, frame) ==
    LET delayed == frame + q.frame_delay
        next    == ReopenedSlot(delayed)
        phantom == [frame |-> delayed - 1, input |-> predict(q.last_confirmed_input)]
        blank   == ReopenedRing(q)
    IN  IF frame < 0 THEN q
        ELSE [NewQueue EXCEPT
                 !.head                 = next,
                 !.tail                 = next,
                 !.first_frame          = delayed - 1 = NULL_FRAME,
                 !.last_added_frame     = delayed - 1,
                 !.frame_delay          = q.frame_delay,
                 !.inputs               = IF delayed - 1 = NULL_FRAME THEN blank
                                          ELSE [blank EXCEPT ![previous_position(next)] = phantom],
                 !.last_confirmed_input = q.last_confirmed_input]

-----------------------------------------------------------------------------
(* Where the index computations expect a queue.                            *)

\* The frames between tail and head.
HeldFrames(q) == q.last_added_frame - q.length + 1 .. q.last_added_frame

\* The ring is where every index computation expects it: frame f lives in slot
\* f mod QueueLength, head is the slot of the next frame, tail that of the
\* oldest of `length` consecutive frames, and the slot behind the head carries
\* last_added_frame (the slot reset_to_frame stamps after a reopen).
Aligned(q) ==
    /\ q.head = SlotOf(q.last_added_frame + 1)
    /\ q.tail = SlotOf(q.last_added_frame + 1 - q.length)
    /\ q.length <= q.last_added_frame + 1
    /\ \A f \in HeldFrames(q) : q.inputs[SlotOf(f)].frame = f
    /\ q.inputs[previous_position(q.head)].frame = q.last_added_frame
    /\ q.first_frame <=> q.last_added_frame = NULL_FRAME

\* The running prediction episode awaits the arrival after the last one.
AwaitsNextArrival(q) == q.prediction.frame \in {NULL_FRAME, q.last_added_frame + 1}
=============================================================================
