-------------------------- MODULE InputQueueProofs --------------------------
(***************************************************************************)
(* Proofs about the input queue for every ring size, every set of inputs   *)
(* and every bound.                                                        *)
(*                                                                         *)
(* Its state: the ring stays aligned, the prediction episode awaits the    *)
(* next arrival, and the state is well typed.  The argument is the         *)
(* invariant of a single queue, QueueInv, which every operator preserves   *)
(* (InputQueueOpsProofs), with a bound on the frames.                      *)
(*                                                                         *)
(* Its history: what it answers for a frame is what was stored for it, no  *)
(* wrong prediction goes unreported, the stream of a caller never falls    *)
(* out of step, a frozen queue repeats the agreed input, and what the      *)
(* simulation asked for last stays held.  One add is described field by    *)
(* field (Added), a run of adds keeps whatever set of queues every single  *)
(* add keeps (RunStays), and the rest is one invariant per promise, shown  *)
(* kept by one add and then by every action.                               *)
(***************************************************************************)
EXTENDS InputQueue, InputQueueOpsProofs

-----------------------------------------------------------------------------
(* The specification.                                                      *)

HistoryOK ==
    /\ written \in [Frames -> Input \cup {None}]
    /\ served \in [Frames -> Input \cup {None}]
    /\ next_user \in Nat
    /\ agreed \in FrameOrNull
    /\ activation \in Nat
    /\ era \in 0 .. MaxEras

\* The inductive invariant.  The bound on the last added frame is what types
\* the histories: every frame a step stores is one of Frames.
IInv ==
    /\ QueueInv(queue)
    /\ queue.last_added_frame <= LastFrame
    /\ HistoryOK

\* The bounded frames are frames.
LEMMA FramesType == \A f \in Frames : f \in Nat /\ f \in Int /\ f \in FrameOrNull
  BY LastFrameAssumption DEF Frames, FrameOrNull

\* An empty history is a history.
LEMMA NoInputsType == NoInputs \in [Frames -> Input \cup {None}]
  BY DEF NoInputs

\* A new queue with empty histories.
LEMMA InitInv == Init => IInv
<1> SUFFICES ASSUME Init PROVE IInv
  OBVIOUS
<1>1. QueueInv(queue)
  BY NewQueueInv DEF Init
<1>2. queue.last_added_frame <= LastFrame
  BY LastFrameAssumption DEF Init, NewQueue, NULL_FRAME
<1>3. HistoryOK
  BY NoInputsType, LastFrameAssumption DEF Init, HistoryOK, FrameOrNull, NULL_FRAME
<1> QED BY <1>1, <1>2, <1>3 DEF IInv

\* A step that records, for every frame it stores, an input or None.
LEMMA RecordInv ==
    ASSUME IInv, NEW new, QueueInv(new), new.last_added_frame <= LastFrame, queue' = new,
           NEW M, \A f \in Frames : queue.last_added_frame < f /\ f <= new.last_added_frame
                                       => M[f] \in Input \cup {None},
           written' = [f \in Frames |->
                          IF queue.last_added_frame < f /\ f <= new.last_added_frame
                          THEN M[f] ELSE written[f]],
           next_user' \in Nat, UNCHANGED <<served, agreed, activation, era>>
    PROVE  IInv'
<1>1. written' \in [Frames -> Input \cup {None}]
  BY DEF IInv, HistoryOK
<1>2. HistoryOK'
  BY <1>1 DEF IInv, HistoryOK
<1> QED BY <1>2 DEF IInv, QueueInv

\* AddInput: what add_input or its delay fill stores is below the bound.
LEMMA AddInputStep ==
    ASSUME IInv, NEW frame \in Nat, NEW value \in Input, NEW floor \in Floors,
           AddInput(frame, value, floor)
    PROVE  IInv'
<1> DEFINE res == add_input(queue, frame, value, floor)
           M   == [f \in Frames |-> IF f = res.frame THEN value ELSE DefaultInput]
<1>1. floor \in Int /\ QueueInv(queue) /\ queue.last_added_frame <= LastFrame
  BY FramesType DEF Floors, NULL_FRAME, IInv
<1>2. /\ AddStep(queue, res.q)
      /\ \/ res.q.last_added_frame = queue.last_added_frame
         \/ res.q.last_added_frame <= frame + queue.frame_delay
  BY <1>1, AddInputInv
<1>3. QueueInv(res.q) /\ res.q.last_added_frame \in Int /\ queue.frame_delay \in Nat
  BY <1>1, <1>2, PreviousSlot DEF AddStep
<1>4. frame + queue.frame_delay <= LastFrame /\ queue' = res.q
  BY DEF AddInput
<1>5. res.q.last_added_frame <= LastFrame
  BY <1>1, <1>2, <1>3, <1>4, LastFrameAssumption
<1>6. written' = [f \in Frames |->
                     IF queue.last_added_frame < f /\ f <= res.q.last_added_frame
                     THEN M[f] ELSE written[f]]
  BY DEF AddInput, Record
<1>7. \A f \in Frames : M[f] \in Input \cup {None}
  BY InputAssumption
<1>8. next_user' \in Nat /\ UNCHANGED <<served, agreed, activation, era>>
  BY DEF AddInput, IInv, HistoryOK
<1> HIDE DEF res, M
<1> QED BY <1>3, <1>4, <1>5, <1>6, <1>7, <1>8, RecordInv

\* SetFrameDelay: the gap fill repeats the input of a frame that was written.
LEMMA SetFrameDelayStep ==
    ASSUME IInv, NEW delay \in 0 .. max_frame_delay + 1, NEW floor \in Floors,
           SetFrameDelay(delay, floor)
    PROVE  IInv'
<1> DEFINE res == set_frame_delay(queue, delay, floor)
           M   == [f \in Frames |-> written[queue.last_added_frame]]
<1>1. /\ floor \in Int /\ QueueInv(queue) /\ queue.last_added_frame <= LastFrame
      /\ written \in [Frames -> Input \cup {None}]
  BY FramesType DEF Floors, NULL_FRAME, IInv, HistoryOK
<1>2. delay \in Nat
  BY QueueLengthAssumption DEF max_frame_delay
<1>3. /\ QueueInv(res.q)
      /\ \/ res.q.last_added_frame = queue.last_added_frame
         \/ /\ queue.last_added_frame # NULL_FRAME
            /\ res.q.last_added_frame <= queue.last_added_frame + delay - queue.frame_delay
  BY <1>1, <1>2, SetFrameDelayInv
<1>4. /\ res.q.last_added_frame \in Int /\ queue.frame_delay \in Nat
      /\ queue.last_added_frame \in Int /\ queue.last_added_frame >= -1
  BY <1>1, <1>3, PreviousSlot
<1>5. queue.last_added_frame + delay - queue.frame_delay <= LastFrame /\ queue' = res.q
  BY DEF SetFrameDelay
<1>6. res.q.last_added_frame <= LastFrame
  BY <1>1, <1>2, <1>3, <1>4, <1>5, LastFrameAssumption
<1>7. written' = [f \in Frames |->
                     IF queue.last_added_frame < f /\ f <= res.q.last_added_frame
                     THEN M[f] ELSE written[f]]
  BY DEF SetFrameDelay, Record
<1>8. next_user' \in Nat /\ UNCHANGED <<served, agreed, activation, era>>
  BY DEF SetFrameDelay, IInv, HistoryOK
<1>9. ASSUME NEW f \in Frames, queue.last_added_frame < f, f <= res.q.last_added_frame
      PROVE  M[f] \in Input \cup {None}
  <2>1. res.q.last_added_frame # queue.last_added_frame
    BY <1>4, <1>9, FramesType
  <2>2. queue.last_added_frame \in Frames
    BY <1>1, <1>3, <1>4, <2>1, LastFrameAssumption DEF Frames, NULL_FRAME
  <2> QED BY <1>1, <2>2
<1> HIDE DEF res, M
<1> QED BY <1>3, <1>5, <1>6, <1>7, <1>8, <1>9, RecordInv

\* InstallMissingBackfill: every frame added has a value of its own.
LEMMA BackfillStep ==
    ASSUME IInv, NEW from \in Frames, NEW n \in 1 .. 2, NEW values \in [1 .. n -> Input],
           NEW floor \in Floors, InstallMissingBackfill(from, values, floor)
    PROVE  IInv'
<1> DEFINE new == Backfilled(queue, from, values, floor)
           M   == [f \in Frames |-> values[f - from + 1]]
<1>1. floor \in Int /\ from \in Nat /\ n \in Nat /\ Len(values) = n
  BY FramesType DEF Floors, NULL_FRAME
<1>2. /\ QueueInv(queue) /\ queue.last_added_frame <= LastFrame /\ next_user \in Nat
      /\ queue.last_added_frame \in Int
  BY PreviousSlot DEF IInv, HistoryOK
<1>3. /\ QueueInv(new) /\ queue.last_added_frame <= new.last_added_frame
      /\ \/ new.last_added_frame = queue.last_added_frame
         \/ from <= queue.last_added_frame + 1 /\ new.last_added_frame <= from + n - 1
  BY <1>1, <1>2, BackfillInv
<1>4. /\ queue' = new /\ from + n - 1 <= LastFrame
      /\ next_user' = next_user + new.last_added_frame - queue.last_added_frame
      /\ UNCHANGED <<served, agreed, activation, era>>
  BY <1>1 DEF InstallMissingBackfill, Backfilled
<1>5. written' = [f \in Frames |->
                     IF queue.last_added_frame < f /\ f <= new.last_added_frame
                     THEN M[f] ELSE written[f]]
  BY DEF InstallMissingBackfill, Backfilled, Record
<1> HIDE DEF new
<1>6. new.last_added_frame \in Int
  BY <1>3, PreviousSlot
<1>7. new.last_added_frame <= LastFrame /\ next_user' \in Nat
  BY <1>1, <1>2, <1>3, <1>4, <1>6, LastFrameAssumption
<1>8. ASSUME NEW f \in Frames, queue.last_added_frame < f, f <= new.last_added_frame
      PROVE  M[f] \in Input \cup {None}
  <2>1. f \in Int
    BY FramesType
  <2>2. f - from + 1 \in 1 .. n
    BY <1>1, <1>2, <1>3, <1>6, <1>8, <2>1
  <2> QED BY <2>2
<1> HIDE DEF M
<1> QED BY <1>3, <1>4, <1>5, <1>7, <1>8, RecordInv

\* A step that leaves the last added frame and what was written alone.
LEMMA QuietStep ==
    ASSUME IInv, QueueInv(queue'), queue'.last_added_frame = queue.last_added_frame,
           UNCHANGED <<written, next_user, activation, era>>,
           served' \in [Frames -> Input \cup {None}], agreed' \in FrameOrNull
    PROVE  IInv'
<1>1. HistoryOK'
  BY DEF IInv, HistoryOK
<1> QED BY <1>1 DEF IInv, QueueInv

\* ResetToFrame: the reopened queue and the histories of the new era.
LEMMA ResetToFrameStep ==
    ASSUME IInv, NEW frame \in Frames, ResetToFrame(frame)
    PROVE  IInv'
<1>1. frame \in Nat /\ QueueInv(queue) /\ HistoryOK
  BY FramesType DEF IInv
<1>2. QueueInv(reset_to_frame(queue, frame)) /\ queue' = reset_to_frame(queue, frame)
  BY <1>1, ReopenInv DEF ResetToFrame
<1>3. queue'.last_added_frame <= LastFrame
  BY DEF ResetToFrame
<1>4. predict(queue.last_confirmed_input) \in Input
  BY <1>1, InputAssumption DEF predict, QueueInv, Queue
<1>5. written' \in [Frames -> Input \cup {None}] /\ served' \in [Frames -> Input \cup {None}]
  BY <1>4, NoInputsType DEF ResetToFrame
<1>6. next_user' \in Nat /\ agreed' \in FrameOrNull /\ activation' \in Nat
  BY <1>1 DEF ResetToFrame, FrameOrNull
<1>7. era' \in 0 .. MaxEras
  BY <1>1, LastFrameAssumption DEF ResetToFrame, HistoryOK
<1> QED BY <1>2, <1>3, <1>5, <1>6, <1>7 DEF IInv, HistoryOK, QueueInv

\* Every step of the specification keeps the inductive invariant.
LEMMA NextInv ==
    ASSUME IInv, [Next]_vars
    PROVE  IInv'
<1>1. /\ QueueInv(queue) /\ queue \in Queue /\ HistoryOK
      /\ served \in [Frames -> Input \cup {None}] /\ agreed \in FrameOrNull
  BY DEF IInv, QueueInv, HistoryOK
<1>2. ASSUME NEW frame \in (next_user - 1 .. next_user + 1) \cap Nat, NEW value \in Input,
             NEW floor \in Floors, AddInput(frame, value, floor)
      PROVE  IInv'
  BY <1>2, AddInputStep
<1>3. ASSUME NEW delay \in 0 .. max_frame_delay + 1, NEW floor \in Floors,
             SetFrameDelay(delay, floor)
      PROVE  IInv'
  BY <1>3, SetFrameDelayStep
<1>4. ASSUME NEW frame \in Frames, RequestInput(frame)
      PROVE  IInv'
  <2> DEFINE res == input(queue, frame)
  <2>1. /\ QueueInv(res.q) /\ res.q.last_added_frame = queue.last_added_frame
        /\ res.status = "Predicted" => res.input \in Input
    BY <1>1, FramesType, RequestInv
  <2>2. /\ queue' = res.q
        /\ served' = IF res.status = "Predicted"
                     THEN [served EXCEPT ![frame] = res.input] ELSE served
        /\ UNCHANGED <<written, next_user, agreed, activation, era>>
    BY <1>4 DEF RequestInput
  <2> HIDE DEF res
  <2>3. served' \in [Frames -> Input \cup {None}]
    BY <1>1, <2>1, <2>2
  <2> QED BY <1>1, <2>1, <2>2, <2>3, QuietStep
<1>5. ASSUME ResetPrediction
      PROVE  IInv'
  <2>1. QueueInv(queue') /\ queue'.last_added_frame = queue.last_added_frame
    BY <1>1, <1>5, ResetPredictionInv DEF ResetPrediction
  <2>2. /\ served' \in [Frames -> Input \cup {None}] /\ agreed' \in FrameOrNull
        /\ UNCHANGED <<written, next_user, activation, era>>
    BY <1>1, <1>5, NoInputsType DEF ResetPrediction
  <2> QED BY <2>1, <2>2, QuietStep
<1>6. ASSUME NEW before \in Frames, DiscardConfirmedFrames(before)
      PROVE  IInv'
  <2>1. QueueInv(queue') /\ queue'.last_added_frame = queue.last_added_frame
    BY <1>1, <1>6, FramesType, DiscardInv DEF DiscardConfirmedFrames
  <2>2. /\ served' \in [Frames -> Input \cup {None}] /\ agreed' \in FrameOrNull
        /\ UNCHANGED <<written, next_user, activation, era>>
    BY <1>1, <1>6 DEF DiscardConfirmedFrames
  <2> QED BY <2>1, <2>2, QuietStep
<1>7. ASSUME NEW from \in Frames, NEW n \in 1 .. 2, NEW values \in [1 .. n -> Input],
             NEW floor \in Floors \cap Frames, InstallMissingBackfill(from, values, floor)
      PROVE  IInv'
  BY <1>7, BackfillStep
<1>8. ASSUME NEW frame \in Frames \cup {NULL_FRAME}, FreezeAt(frame)
      PROVE  IInv'
  <2>1. frame \in FrameOrNull /\ None \in Input \cup {None}
    BY FramesType DEF FrameOrNull
  <2>2. QueueInv(queue') /\ queue'.last_added_frame = queue.last_added_frame
    BY <1>1, <1>8, <2>1, FreezeInv DEF FreezeAt
  <2>3. /\ served' \in [Frames -> Input \cup {None}] /\ agreed' \in FrameOrNull
        /\ UNCHANGED <<written, next_user, activation, era>>
    BY <1>1, <1>8, <2>1 DEF FreezeAt, FrameOrNull
  <2> QED BY <2>2, <2>3, QuietStep
<1>9. ASSUME NEW frame \in Frames, SetFrozenValueAt(frame)
      PROVE  IInv'
  <2>1. frame \in FrameOrNull /\ None \in Input \cup {None}
    BY FramesType
  <2>2. QueueInv(queue') /\ queue'.last_added_frame = queue.last_added_frame
    BY <1>1, <1>9, <2>1, FreezeInv DEF SetFrozenValueAt
  <2>3. /\ served' \in [Frames -> Input \cup {None}] /\ agreed' \in FrameOrNull
        /\ UNCHANGED <<written, next_user, activation, era>>
    BY <1>1, <1>9, <2>1 DEF SetFrozenValueAt
  <2> QED BY <2>2, <2>3, QuietStep
<1>10. ASSUME NEW cut \in Frames, FreezeAtCut(cut)
       PROVE  IInv'
  <2>1. cut \in FrameOrNull /\ None \in Input \cup {None}
    BY FramesType
  <2>2. QueueInv(queue') /\ queue'.last_added_frame = queue.last_added_frame
    BY <1>1, <1>10, <2>1, FreezeInv DEF FreezeAtCut
  <2>3. /\ served' \in [Frames -> Input \cup {None}] /\ agreed' \in FrameOrNull
        /\ UNCHANGED <<written, next_user, activation, era>>
    BY <1>1, <1>10, <2>1 DEF FreezeAtCut
  <2> QED BY <2>2, <2>3, QuietStep
<1>11. ASSUME NEW value \in Input \cup {None}, RefreezeWithValue(value)
       PROVE  IInv'
  <2>1. NULL_FRAME \in FrameOrNull
    BY DEF FrameOrNull
  <2>2. QueueInv(queue') /\ queue'.last_added_frame = queue.last_added_frame
    BY <1>1, <1>11, <2>1, FreezeInv DEF RefreezeWithValue
  <2>3. /\ served' \in [Frames -> Input \cup {None}] /\ agreed' \in FrameOrNull
        /\ UNCHANGED <<written, next_user, activation, era>>
    BY <1>1, <1>11, <2>1 DEF RefreezeWithValue
  <2> QED BY <2>2, <2>3, QuietStep
<1>12. ASSUME NEW frame \in Frames, ResetToFrame(frame)
       PROVE  IInv'
  BY <1>12, ResetToFrameStep
<1>13. ASSUME UNCHANGED vars
       PROVE  IInv'
  BY <1>13 DEF vars, IInv, HistoryOK, QueueInv
<1> QED
  BY <1>2, <1>3, <1>4, <1>5, <1>6, <1>7, <1>8, <1>9, <1>10, <1>11, <1>12, <1>13 DEF Next

\* The inductive invariant holds in every reachable state.
LEMMA IInvAlways == Spec => []IInv
<1>1. Init => IInv
  BY InitInv
<1>2. IInv /\ [Next]_vars => IInv'
  BY NextInv
<1> QED BY <1>1, <1>2, PTL DEF Spec

\* Every ring index, frame and recorded input of the queue stays in its domain,
\* for every ring size and delay: no add, eviction, discard, gap fill, backfill
\* or reopen of input_queue/mod.rs leaves a head, tail or length out of bounds.
THEOREM TypeCorrect == Spec => []TypeOK
<1>1. IInv => TypeOK
  BY DEF IInv, QueueInv, HistoryOK, TypeOK
<1> QED BY <1>1, IInvAlways, PTL

\* Frame f is found in slot f mod queue_length, and head, tail and length agree
\* with last_added_frame, in every reachable state: confirmed_input's absolute
\* lookup and input's tail-relative lookup read the same slots.
THEOREM RingStaysAligned == Spec => []RingAligned
<1>1. IInv => RingAligned
  BY DEF IInv, QueueInv, RingAligned
<1> QED BY <1>1, IInvAlways, PTL

\* A prediction episode always awaits exactly the next frame to be added: the
\* branch of add_input_by_frame that reports an arrival for another frame than
\* the predicted one is dead code.
THEOREM EpisodeInStep == Spec => []EpisodeAwaitsNextArrival
<1>1. IInv => EpisodeAwaitsNextArrival
  BY DEF IInv, QueueInv, EpisodeAwaitsNextArrival
<1> QED BY <1>1, IInvAlways, PTL

-----------------------------------------------------------------------------
(* No arrival of an episode escapes the comparison.                        *)

\* S holds the predictions handed out, W what was stored.
Episode(q, W, S) ==
    /\ q.first_incorrect_frame <= q.last_added_frame
    /\ \A f \in Frames :
           S[f] # None /\ f <= q.last_added_frame /\ W[f] # None /\ W[f] # S[f]
               => q.first_incorrect_frame # NULL_FRAME /\ q.first_incorrect_frame <= f
    /\ q.first_incorrect_frame = NULL_FRAME
         => \A f \in Frames : S[f] # None /\ q.last_added_frame < f
                => /\ q.prediction.frame # NULL_FRAME
                   /\ S[f] = q.prediction.input
                   /\ f <= q.last_requested_frame
    /\ q.first_incorrect_frame = NULL_FRAME /\ q.prediction.frame # NULL_FRAME
         => \A f \in Frames : q.last_requested_frame <= f /\ f <= q.last_added_frame
                => W[f] = None \/ W[f] = q.prediction.input

\* An add compares its input with every prediction handed out for its frame.
LEMMA AddEpisode ==
    ASSUME NEW q, QueueInv(q), NEW frame \in Int, NEW v \in Input, NEW floor \in Int,
           NEW W, NEW S, Episode(q, W, S), W[frame] = v
    PROVE  Episode(add_input_by_frame(q, frame, v, floor).q, W, S)
<1>1. CASE ~CanAddByFrame(q, frame, floor)
  BY <1>1 DEF add_input_by_frame
<1>2. CASE CanAddByFrame(q, frame, floor)
  <2>1. frame = q.last_added_frame + 1 /\ frame \in Nat /\ q.last_added_frame \in Int
    BY <1>2, CanAddNext, PreviousSlot
  <2>2. PICK r : r = add_input_by_frame(q, frame, v, floor).q /\ Added(q, r, frame, v, floor)
    BY <1>2, AddFields
  <2>3. q.first_incorrect_frame \in Int /\ q.last_requested_frame \in Int
          /\ q.prediction.frame \in {NULL_FRAME, frame}
    BY <2>1 DEF QueueInv, Queue, AwaitsNextArrival, FrameOrNull, NULL_FRAME
  <2>4. r.last_added_frame = frame /\ r.last_requested_frame = q.last_requested_frame
          /\ Settled(q, r, frame, v)
    BY <2>2 DEF Added
  <2>5. \A f \in Frames : f \in Int /\ f >= 0
    BY FramesType
  <2>6. r.first_incorrect_frame \in {frame, q.first_incorrect_frame}
    BY <2>4 DEF Settled
  <2>7. r.first_incorrect_frame <= r.last_added_frame
    BY <2>1, <2>3, <2>4, <2>6 DEF Episode
  <2>8. ASSUME NEW f \in Frames, S[f] # None, f <= frame, W[f] # None, W[f] # S[f]
        PROVE  r.first_incorrect_frame # NULL_FRAME /\ r.first_incorrect_frame <= f
    <3>1. CASE f < frame
      <4>1. q.first_incorrect_frame # NULL_FRAME /\ q.first_incorrect_frame <= f
        BY <2>1, <2>5, <2>8, <3>1 DEF Episode
      <4> QED BY <2>4, <4>1 DEF Settled
    <3>2. CASE f = frame /\ q.first_incorrect_frame # NULL_FRAME
      BY <2>1, <2>3, <2>4, <3>2 DEF Settled, Episode
    <3>3. CASE f = frame /\ q.first_incorrect_frame = NULL_FRAME
      <4>1. q.prediction.frame # NULL_FRAME /\ S[f] = q.prediction.input
        BY <2>1, <2>8, <3>3 DEF Episode
      <4>2. q.prediction.input # v
        BY <2>8, <3>3, <4>1
      <4>3. r.first_incorrect_frame = frame
        BY <2>4, <3>3, <4>1, <4>2 DEF Settled
      <4> QED BY <2>1, <3>3, <4>3 DEF NULL_FRAME
    <3> QED BY <2>1, <2>5, <2>8, <3>1, <3>2, <3>3
  <2>9. ASSUME r.first_incorrect_frame = NULL_FRAME
        PROVE  q.first_incorrect_frame = NULL_FRAME
                 /\ (q.prediction.frame # NULL_FRAME => q.prediction.input = v)
    BY <2>1, <2>4, <2>9 DEF Settled, NULL_FRAME
  <2>10. ASSUME r.first_incorrect_frame = NULL_FRAME, NEW f \in Frames, S[f] # None, frame < f
         PROVE  /\ r.prediction.frame # NULL_FRAME
                /\ S[f] = r.prediction.input
                /\ f <= r.last_requested_frame
    <3>1. /\ q.prediction.frame # NULL_FRAME /\ S[f] = q.prediction.input
          /\ f <= q.last_requested_frame
      BY <2>1, <2>5, <2>9, <2>10 DEF Episode
    <3>2. frame # q.last_requested_frame
      BY <2>1, <2>3, <2>5, <2>10, <3>1
    <3>3. r.prediction.frame = frame + 1 /\ r.prediction.input = q.prediction.input
      BY <2>4, <3>1, <3>2 DEF Settled, EpisodeDone
    <3> QED BY <2>1, <2>4, <3>1, <3>3 DEF NULL_FRAME
  <2>11. ASSUME r.first_incorrect_frame = NULL_FRAME, r.prediction.frame # NULL_FRAME,
                NEW f \in Frames, r.last_requested_frame <= f, f <= frame
         PROVE  W[f] = None \/ W[f] = r.prediction.input
    <3>1. q.prediction.frame # NULL_FRAME /\ r.prediction.input = q.prediction.input
      BY <2>4, <2>11 DEF Settled
    <3>2. q.first_incorrect_frame = NULL_FRAME /\ q.prediction.input = v
      BY <2>9, <2>11, <3>1
    <3>3. CASE f = frame
      BY <3>1, <3>2, <3>3
    <3>4. CASE f # frame
      <4>1. q.last_requested_frame <= f /\ f <= q.last_added_frame
        BY <2>1, <2>4, <2>5, <2>11, <3>4
      <4> QED BY <3>1, <3>2, <4>1 DEF Episode
    <3> QED BY <3>3, <3>4
  <2>12. Episode(r, W, S)
    BY <2>4, <2>7, <2>8, <2>10, <2>11 DEF Episode
  <2> QED BY <2>2, <2>12
<1> QED BY <1>1, <1>2

Faithful(q, W, S) == QueueInv(q) /\ Content(q, W) /\ Episode(q, W, S)

\* A run of the inputs W has for its frames is faithful to W.
LEMMA RunFaithful ==
    ASSUME NEW q, NEW W, NEW S, Faithful(q, W, S), NEW from \in Int, NEW inputs \in Seq(Input),
           NEW floor \in Int, \A n \in 1 .. Len(inputs) : W[from + n - 1] = inputs[n]
    PROVE  Faithful(AddRun(q, from, inputs, floor).q, W, S)
<1> DEFINE Q == {r \in Queue : Faithful(r, W, S)}
<1>1. PICK N \in Nat : N = Len(inputs)
  OBVIOUS
<1>2. ASSUME NEW r \in Q, NEW n \in 1 .. N
      PROVE  add_input_by_frame(r, from + n - 1, inputs[n], floor).q \in Q
  <2>1. PICK frame \in Int, v \in Input : frame = from + n - 1 /\ v = inputs[n] /\ W[frame] = v
    BY <1>1
  <2>2. PICK x : x = add_input_by_frame(r, frame, v, floor).q
    OBVIOUS
  <2>3. QueueInv(r) /\ Content(r, W) /\ Episode(r, W, S)
    BY DEF Faithful
  <2>4. QueueInv(x)
    BY <2>2, <2>3, AddByFrameInv DEF AddStep
  <2>5. Content(x, W)
    BY <2>1, <2>2, <2>3, AddContent
  <2>6. Episode(x, W, S)
    BY <2>1, <2>2, <2>3, AddEpisode
  <2>7. x \in Queue
    BY <2>4 DEF QueueInv
  <2> QED BY <2>1, <2>2, <2>4, <2>5, <2>6, <2>7 DEF Faithful
<1>3. q \in Q
  BY DEF Faithful, QueueInv
<1> HIDE DEF Q
<1>4. AddRun(q, from, inputs, floor).q \in Q
  BY <1>1, <1>2, <1>3, RunStays
<1> QED BY <1>4 DEF Q

-----------------------------------------------------------------------------
(* A queue and its history.                                                *)

\* Before the first add of an era nothing is stored but the value the queue was
\* reopened with, which is what it predicts.
Pristine(q, W) ==
    q.length = 0 => \A f \in Frames : W[f] # None
                        => /\ f = q.last_added_frame
                           /\ ~q.frozen => W[f] = predict(q.last_confirmed_input)

\* A frozen queue repeats the input of the agreed frame.
Repeats(q, W, a) ==
    q.frozen /\ a # NULL_FRAME => a \in Frames /\ W[a] # None /\ q.last_confirmed_input = W[a]

Tracks(q, W, S, a) ==
    /\ Content(q, W)
    /\ Episode(q, W, S)
    /\ Pristine(q, W)
    /\ Repeats(q, W, a)

\* Episode looks at the frames that were added only.
LEMMA EpisodeSame ==
    ASSUME NEW q, NEW V, NEW W, NEW S, Episode(q, V, S),
           \A f \in Nat : f <= q.last_added_frame => V[f] = W[f]
    PROVE  Episode(q, W, S)
<1>1. \A f \in Frames : f <= q.last_added_frame => V[f] = W[f]
  BY FramesType
<1> QED BY <1>1 DEF Episode

\* The history, continued by what the caller means to store.
Meant(q, W, M) == [f \in Nat |-> IF f <= q.last_added_frame THEN W[f] ELSE M[f]]

\* The history a step records.
Recorded(q, new, W, M) ==
    [f \in Frames |-> IF q.last_added_frame < f /\ f <= new.last_added_frame THEN M[f] ELSE W[f]]

\* Before a step the queue is faithful to the continued history.
LEMMA MeantFaithful ==
    ASSUME NEW q, QueueInv(q), NEW W, NEW S, NEW a, Tracks(q, W, S, a), NEW M
    PROVE  Faithful(q, Meant(q, W, M), S)
<1>1. PICK V : V = Meant(q, W, M)
  OBVIOUS
<1>2. \A f \in Nat : f <= q.last_added_frame => W[f] = V[f]
  BY <1>1 DEF Meant
<1>3. Content(q, V)
  BY <1>2, ContentSame DEF Tracks
<1>4. Episode(q, V, S)
  BY <1>2, EpisodeSame DEF Tracks
<1> QED BY <1>1, <1>3, <1>4 DEF Faithful

\* After a step that is faithful to the continued history, the recorded history
\* is tracked.
LEMMA RecordTracks ==
    ASSUME NEW q, QueueInv(q), NEW W \in [Frames -> Input \cup {None}], NEW S, NEW a,
           Tracks(q, W, S, a), NEW M, NEW new, Faithful(new, Meant(q, W, M), S),
           q.last_added_frame <= new.last_added_frame, new.last_added_frame <= LastFrame,
           new = q \/ (new.length > 0 /\ ~new.frozen)
    PROVE  Tracks(new, Recorded(q, new, W, M), S, a)
<1>1. q.last_added_frame \in Int /\ new.last_added_frame \in Int
  BY PreviousSlot DEF Faithful
<1>2. PICK V, R : V = Meant(q, W, M) /\ R = Recorded(q, new, W, M)
  OBVIOUS
<1>3. ASSUME NEW f \in Nat, f <= new.last_added_frame PROVE V[f] = R[f]
  <2>1. f \in Frames
    BY <1>1, <1>3, LastFrameAssumption DEF Frames
  <2> QED BY <1>1, <1>2, <1>3, <2>1 DEF Meant, Recorded
<1>4. Content(new, R) /\ Episode(new, R, S)
  BY <1>2, <1>3, ContentSame, EpisodeSame DEF Faithful
<1>5. CASE new = q
  <2>1. R = W
    <3>1. \A f \in Frames : R[f] = W[f]
      BY <1>1, <1>2, <1>5, FramesType DEF Recorded
    <3> QED BY <1>2, <3>1 DEF Recorded
  <2> QED BY <1>2, <1>5, <2>1
<1>6. CASE new.length > 0 /\ ~new.frozen
  <2>1. Pristine(new, R) /\ Repeats(new, R, a)
    BY <1>6 DEF Pristine, Repeats
  <2> QED BY <1>2, <1>4, <2>1 DEF Tracks
<1> QED BY <1>5, <1>6

LEMMA EpisodeKept ==
    ASSUME NEW q, NEW r, SameEntries(q, r), SameEpisode(q, r), NEW W, NEW S, Episode(q, W, S)
    PROVE  Episode(r, W, S)
  BY DEF SameEntries, SameEpisode, Episode

\* Another delay keeps track of the history.
LEMMA DelayTracks ==
    ASSUME NEW q, QueueInv(q), NEW delay, NEW W, NEW S, NEW a, Tracks(q, W, S, a)
    PROVE  Tracks([q EXCEPT !.frame_delay = delay], W, S, a)
<1>1. PICK r : r = [q EXCEPT !.frame_delay = delay]
  OBVIOUS
<1>2. /\ SameEntries(q, r) /\ SameEpisode(q, r) /\ r.frozen = q.frozen
      /\ r.last_confirmed_input = q.last_confirmed_input
  BY <1>1, DelayKeeps
<1>3. Content(r, W) /\ Episode(r, W, S)
  BY <1>2, EntriesKept, EpisodeKept DEF Tracks
<1>4. Pristine(r, W) /\ Repeats(r, W, a)
  BY <1>2 DEF Tracks, Pristine, Repeats, SameEntries
<1> QED BY <1>1, <1>3, <1>4 DEF Tracks

\* add_input keeps track of what its caller means to store.
LEMMA AddInputTracks ==
    ASSUME NEW q, QueueInv(q), q.last_added_frame <= LastFrame,
           NEW W \in [Frames -> Input \cup {None}], NEW S, NEW a, Tracks(q, W, S, a),
           NEW frame \in Nat, NEW v \in Input, NEW floor \in Int,
           q.last_added_frame = NULL_FRAME => frame = 0, frame + q.frame_delay <= LastFrame,
           NEW res, res = add_input(q, frame, v, floor),
           NEW M, M = [f \in Frames |-> IF f = res.frame THEN v ELSE DefaultInput]
    PROVE  Tracks(res.q, Recorded(q, res.q, W, M), S, a)
<1>1. /\ q.last_added_frame \in Int /\ q.last_added_frame >= -1
      /\ q.frame_delay \in Nat /\ Newest(q) \in Input
  BY PreviousSlot DEF Newest
<1>2. PICK V : V = Meant(q, W, M)
  OBVIOUS
<1>3. Faithful(q, V, S)
  BY <1>2, MeantFaithful
<1>4. CASE res.q = q
  BY <1>1, <1>2, <1>3, <1>4, RecordTracks
<1>5. ASSUME NEW fill, StoredAfter(q, res, fill, frame, v, floor)
      PROVE  Tracks(res.q, Recorded(q, res.q, W, M), S, a)
  <2>1. PICK to \in Nat : to = frame + q.frame_delay
    BY <1>1
  <2>2. PICK count \in Nat : count = to - (q.last_added_frame + 1)
    BY <1>5, <2>1 DEF StoredAfter
  <2>3. /\ count # 0 => q.last_added_frame = NULL_FRAME
        /\ fill = AddRun(q, q.last_added_frame + 1, Replicate(Newest(q), count), floor).q
        /\ QueueInv(fill) /\ res.q = add_input_by_frame(fill, to, v, floor).q
        /\ res.frame = to /\ res.q.last_added_frame = to /\ res.q # fill /\ ~q.frozen
    BY <1>5, <2>1, <2>2 DEF StoredAfter
  <2>4. PICK run : run = Replicate(Newest(q), count)
    OBVIOUS
  <2>5. run \in Seq(Input) /\ Len(run) = count /\ \A n \in 1 .. count : run[n] = Newest(q)
    <3>1. PICK w \in Input : w = Newest(q)
      BY <1>1
    <3>2. run \in Seq(Input) /\ Len(run) = count
      BY <2>4, <3>1, ReplicateType
    <3>3. \A n \in 1 .. count : run[n] = w
      BY <2>4, <3>1 DEF Replicate
    <3> QED BY <3>1, <3>2, <3>3
  <2>6. ASSUME NEW n \in 1 .. count PROVE V[q.last_added_frame + 1 + n - 1] = run[n]
    <3>1. count # 0 /\ q.last_added_frame = -1
      BY <2>3 DEF NULL_FRAME
    <3>2. Newest(q) = DefaultInput
      BY <3>1, NewestContent DEF Tracks, NULL_FRAME
    <3>3. PICK f \in Nat : f = q.last_added_frame + 1 + n - 1
      BY <3>1
    <3>4. f < to /\ f > q.last_added_frame /\ f \in Frames
      BY <2>1, <2>2, <3>1, <3>3, LastFrameAssumption DEF Frames
    <3>5. V[f] = M[f]
      BY <1>1, <1>2, <3>4 DEF Meant
    <3>6. M[f] = DefaultInput
      BY <2>3, <3>4
    <3> QED BY <2>5, <3>2, <3>3, <3>5, <3>6
  <2>7. q.last_added_frame + 1 \in Int
    BY <1>1
  <2>8. Faithful(fill, V, S)
    BY <1>3, <2>3, <2>4, <2>5, <2>6, <2>7, RunFaithful
  <2>9. V[to] = v
    <3>1. to \in Frames /\ to > q.last_added_frame
      BY <1>1, <2>1, <2>2, LastFrameAssumption DEF Frames
    <3>2. M[to] = v
      BY <2>3, <3>1
    <3> QED BY <1>1, <1>2, <3>1, <3>2 DEF Meant
  <2>10. to \in Int
    OBVIOUS
  <2>11. Content(res.q, V)
    BY <2>3, <2>8, <2>9, <2>10, AddContent DEF Faithful
  <2>12. Episode(res.q, V, S)
    BY <2>3, <2>8, <2>9, <2>10, AddEpisode DEF Faithful
  <2>13. AddStep(q, res.q)
    BY AddInputInv
  <2>14. res.q.length > 0
    BY <2>3, <2>10, AddNonempty
  <2>15. QueueInv(res.q) /\ ~res.q.frozen
    BY <2>3, <2>13 DEF AddStep
  <2>16. Faithful(res.q, V, S)
    BY <2>11, <2>12, <2>15 DEF Faithful
  <2>17. q.last_added_frame <= res.q.last_added_frame /\ res.q.last_added_frame <= LastFrame
    BY <1>1, <2>1, <2>2, <2>3
  <2> QED BY <1>2, <2>14, <2>15, <2>16, <2>17, RecordTracks
<1>6. res.q = q \/ \E fill : StoredAfter(q, res, fill, frame, v, floor)
  BY AddInputCases
<1> QED BY <1>4, <1>5, <1>6

\* set_frame_delay keeps track: its fill repeats the last stored input.
LEMMA SetFrameDelayTracks ==
    ASSUME NEW q, QueueInv(q), q.last_added_frame <= LastFrame,
           NEW W \in [Frames -> Input \cup {None}], NEW S, NEW a, Tracks(q, W, S, a),
           NEW delay \in Nat, NEW floor \in Int,
           q.last_added_frame + delay - q.frame_delay <= LastFrame,
           NEW r, r = set_frame_delay(q, delay, floor).q,
           NEW M, M = [f \in Frames |-> W[q.last_added_frame]]
    PROVE  Tracks(r, Recorded(q, r, W, M), S, a)
<1>1. /\ q.last_added_frame \in Int /\ q.last_added_frame >= -1
      /\ q.frame_delay \in Nat /\ Newest(q) \in Input
  BY PreviousSlot DEF Newest
<1>2. PICK V : V = Meant(q, W, M)
  OBVIOUS
<1>3. Faithful(q, V, S)
  BY <1>2, MeantFaithful
<1>4. CASE r = q
  BY <1>1, <1>2, <1>3, <1>4, RecordTracks
<1>5. CASE r = [q EXCEPT !.frame_delay = delay]
  <2>1. r.last_added_frame = q.last_added_frame
    BY <1>5, DelayKeeps DEF SameEntries
  <2>2. Recorded(q, r, W, M) = W
    <3>1. \A f \in Frames : ~(q.last_added_frame < f /\ f <= r.last_added_frame)
      BY <1>1, <2>1, FramesType
    <3> QED BY <3>1 DEF Recorded
  <2> QED BY <1>5, <2>2, DelayTracks
<1>6. ASSUME NEW fill, FilledTo(q, r, fill, delay, floor)
      PROVE  Tracks(r, Recorded(q, r, W, M), S, a)
  <2>1. PICK count \in Nat : count = delay - q.frame_delay
    BY <1>6 DEF FilledTo
  <2>2. /\ ~q.frozen /\ q.last_added_frame # NULL_FRAME /\ QueueInv(fill)
        /\ fill = AddRun(q, q.last_added_frame + 1, Replicate(Newest(q), count), floor).q
        /\ fill.last_added_frame = q.last_added_frame + count
        /\ fill.frozen = q.frozen /\ fill.length > 0
        /\ r = [fill EXCEPT !.frame_delay = delay]
    BY <1>6, <2>1 DEF FilledTo
  <2>3. PICK run : run = Replicate(Newest(q), count)
    OBVIOUS
  <2>4. run \in Seq(Input) /\ Len(run) = count /\ \A n \in 1 .. count : run[n] = Newest(q)
    <3>1. PICK w \in Input : w = Newest(q)
      BY <1>1
    <3>2. run \in Seq(Input) /\ Len(run) = count
      BY <2>3, <3>1, ReplicateType
    <3>3. \A n \in 1 .. count : run[n] = w
      BY <2>3, <3>1 DEF Replicate
    <3> QED BY <3>1, <3>2, <3>3
  <2>5. Newest(q) = W[q.last_added_frame]
    BY <2>2, NewestContent DEF Tracks
  <2>6. fill.last_added_frame <= LastFrame
    BY <1>1, <2>1, <2>2
  <2>7. ASSUME NEW n \in 1 .. count PROVE V[q.last_added_frame + 1 + n - 1] = run[n]
    <3>1. PICK f \in Nat : f = q.last_added_frame + 1 + n - 1
      BY <1>1
    <3>2. f > q.last_added_frame /\ f \in Frames
      <4>1. PICK last \in Int : last = q.last_added_frame
        BY <1>1
      <4>2. last + count <= LastFrame
        BY <2>2, <2>6, <4>1
      <4>3. f > last /\ f <= LastFrame
        BY <3>1, <4>1, <4>2, LastFrameAssumption
      <4> QED BY <4>1, <4>3, LastFrameAssumption DEF Frames
    <3>3. V[f] = M[f]
      BY <1>1, <1>2, <3>2 DEF Meant
    <3> QED BY <2>4, <2>5, <3>1, <3>2, <3>3
  <2>8. q.last_added_frame + 1 \in Int /\ q.last_added_frame <= fill.last_added_frame
    BY <1>1, <2>2
  <2>9. Faithful(fill, V, S)
    BY <1>3, <2>2, <2>3, <2>4, <2>7, <2>8, RunFaithful
  <2>10. Tracks(fill, Recorded(q, fill, W, M), S, a)
    BY <1>2, <2>2, <2>6, <2>8, <2>9, RecordTracks
  <2>11. r.last_added_frame = fill.last_added_frame
    BY <2>2, DelayKeeps DEF SameEntries
  <2>12. Recorded(q, r, W, M) = Recorded(q, fill, W, M)
    BY <2>11 DEF Recorded
  <2> QED BY <2>2, <2>10, <2>12, DelayTracks
<1> QED BY <1>4, <1>5, <1>6, SetFrameDelayCases

\* A backfill keeps track of the donor's values.
LEMMA BackfillTracks ==
    ASSUME NEW q, QueueInv(q), q.last_added_frame <= LastFrame,
           NEW W \in [Frames -> Input \cup {None}], NEW S, NEW a, Tracks(q, W, S, a),
           NEW from \in Nat, NEW n \in Nat, n > 0, NEW values \in [1 .. n -> Input],
           NEW floor \in Int, from + n - 1 <= LastFrame,
           NEW r, r = Backfilled(q, from, values, floor),
           NEW M, M = [f \in Frames |-> values[f - from + 1]]
    PROVE  Tracks(r, Recorded(q, r, W, M), S, a)
<1>1. q.last_added_frame \in Int /\ q.last_added_frame >= -1 /\ q.last_added_frame + 1 \in Int
  BY PreviousSlot
<1>2. PICK V : V = Meant(q, W, M)
  OBVIOUS
<1>3. Faithful(q, V, S)
  BY <1>2, MeantFaithful
<1>4. /\ QueueInv(r) /\ q.last_added_frame <= r.last_added_frame
      /\ \/ r.last_added_frame = q.last_added_frame
         \/ from <= q.last_added_frame + 1 /\ r.last_added_frame <= from + n - 1
  BY BackfillInv
<1>5. r.last_added_frame <= LastFrame
  BY <1>1, <1>4, PreviousSlot, LastFrameAssumption
<1>6. CASE r = q
  BY <1>1, <1>2, <1>3, <1>6, RecordTracks
<1>7. ASSUME NEW suffix, BackfilledRun(q, r, from, values, suffix, floor)
      PROVE  Tracks(r, Recorded(q, r, W, M), S, a)
  <2>1. /\ ~q.frozen /\ suffix \in Seq(Input)
        /\ r = AddRun(q, q.last_added_frame + 1, suffix, floor).q
        /\ \A i \in 1 .. Len(suffix) :
               suffix[i] = values[(q.last_added_frame + 1 + i - 1) - from + 1]
    BY <1>7 DEF BackfilledRun
  <2>2. PICK N \in Nat : N = Len(suffix)
    BY <2>1
  \* Beyond Frames the continuation is what the run stores.
  <2> DEFINE K == [f \in Nat |-> IF f <= q.last_added_frame THEN W[f] ELSE values[f - from + 1]]
  <2>3. ASSUME NEW f \in Nat, f <= LastFrame PROVE K[f] = V[f]
    BY <1>2, <2>3, LastFrameAssumption DEF Meant, Frames
  <2>4. ASSUME NEW i \in 1 .. N PROVE K[q.last_added_frame + 1 + i - 1] = suffix[i]
    <3>1. PICK f \in Nat : f = q.last_added_frame + 1 + i - 1
      BY <1>1
    <3>2. ~(f <= q.last_added_frame)
      BY <1>1, <3>1
    <3>3. K[f] = values[f - from + 1]
      BY <3>2
    <3>4. suffix[i] = values[f - from + 1]
      BY <2>1, <2>2, <3>1, Zenon
    <3> HIDE DEF K
    <3> QED BY <3>1, <3>3, <3>4, Zenon
  <2>5. Faithful(q, K, S)
    <3>1. \A f \in Nat : f <= q.last_added_frame => W[f] = K[f]
      OBVIOUS
    <3> HIDE DEF K
    <3>2. Content(q, K) /\ Episode(q, K, S)
      BY <3>1, ContentSame, EpisodeSame DEF Tracks
    <3> QED BY <3>2 DEF Faithful
  <2> HIDE DEF K
  <2>6. Faithful(r, K, S)
    BY <1>1, <2>1, <2>2, <2>4, <2>5, RunFaithful
  <2>7. \A f \in Nat : f <= r.last_added_frame => K[f] = V[f]
    <3>1. r.last_added_frame \in Int
      BY <1>4, PreviousSlot
    <3> QED BY <1>5, <2>3, <3>1, LastFrameAssumption
  <2>8. Faithful(r, V, S)
    BY <2>6, <2>7, ContentSame, EpisodeSame DEF Faithful
  <2>9. RunInv(q, AddRun(q, q.last_added_frame + 1, suffix, floor), N)
    BY <1>1, <2>1, <2>2, AddRunInv
  <2>10. ~r.frozen
    BY <2>1, <2>9 DEF RunInv, AddStep
  <2>11. r = q \/ r.length > 0
    BY <1>1, <2>1, RunNonempty
  <2> QED BY <1>2, <1>4, <1>5, <2>8, <2>10, <2>11, RecordTracks
<1> QED BY <1>6, <1>7, BackfillCases

-----------------------------------------------------------------------------
(* The operations that add nothing.                                        *)

\* What is stored at or after a frame that opens an episode is what it predicts.
LEMMA EpisodeOpens ==
    ASSUME NEW q, QueueInv(q), NEW W \in [Frames -> Input \cup {None}], NEW a \in FrameOrNull,
           Pristine(q, W), Repeats(q, W, a), NEW frame \in Frames, q.frozen => frame <= a,
           frame - q.inputs[q.tail].frame >= q.length,
           NEW f \in Frames, frame <= f, f <= q.last_added_frame
    PROVE  W[f] = None \/ W[f] = predict(q.last_confirmed_input)
<1>1. /\ q.length \in Nat /\ q.last_added_frame \in Int /\ q.frozen \in BOOLEAN
      /\ frame \in Nat /\ f \in Nat
  BY QueueLengthAssumption, FramesType DEF QueueInv, Queue, FrameOrNull, NULL_FRAME
<1>2. q.length = 0
  <2>1. SUFFICES ASSUME q.length > 0 PROVE FALSE
    BY <1>1
  <2>2. PICK oldest \in Nat : oldest = q.inputs[q.tail].frame /\ oldest = q.last_added_frame + 1 - q.length
    BY <2>1, OldestSlot
  <2> QED BY <1>1, <2>2
<1>3. SUFFICES ASSUME W[f] # None PROVE W[f] = predict(q.last_confirmed_input)
  OBVIOUS
<1>4. f = q.last_added_frame /\ (~q.frozen => W[f] = predict(q.last_confirmed_input))
  BY <1>2, <1>3 DEF Pristine
<1>5. CASE q.frozen
  <2>1. a # NULL_FRAME
    BY <1>1, <1>5 DEF NULL_FRAME
  <2>2. a \in Frames /\ W[a] # None /\ q.last_confirmed_input = W[a]
    BY <1>5, <2>1 DEF Repeats
  <2>3. a = f
    BY <1>2, <1>4, <2>2 DEF Pristine
  <2> QED BY <2>2, <2>3 DEF predict
<1> QED BY <1>1, <1>4, <1>5

\* A request keeps track of the predictions it hands out.
LEMMA RequestTracks ==
    ASSUME NEW q, QueueInv(q), NEW W \in [Frames -> Input \cup {None}],
           NEW S \in [Frames -> Input \cup {None}], NEW a \in FrameOrNull, Tracks(q, W, S, a),
           NEW frame \in Frames, frame >= q.last_requested_frame, q.frozen => frame <= a,
           NEW res, res = input(q, frame), NEW T,
           T = IF res.status = "Predicted" THEN [S EXCEPT ![frame] = res.input] ELSE S
    PROVE  Tracks(res.q, W, T, a)
<1>1. frame \in Nat /\ \A f \in Frames : f \in Int
  BY FramesType
<1>2. RequestAs(q, res, frame)
  BY <1>1, RequestCases
<1>3. PICK r : r = res.q
  OBVIOUS
<1>4. /\ SameEntries(q, r) /\ r.first_incorrect_frame = q.first_incorrect_frame
      /\ r.frozen = q.frozen /\ r.last_confirmed_input = q.last_confirmed_input
      /\ r.last_added_frame = q.last_added_frame
  BY <1>2, <1>3 DEF RequestAs, SameEntries
<1>5. Content(r, W) /\ Pristine(r, W) /\ Repeats(r, W, a)
  <2>1. Content(r, W)
    BY <1>4, EntriesKept DEF Tracks
  <2>2. Pristine(r, W) /\ Repeats(r, W, a)
    BY <1>4 DEF Tracks, Pristine, Repeats, SameEntries
  <2> QED BY <2>1, <2>2
<1>6. /\ q.last_requested_frame \in Int /\ q.last_added_frame \in Int
      /\ q.last_added_frame >= -1 /\ q.first_incorrect_frame \in Int
  BY DEF QueueInv, Queue, FrameOrNull, NULL_FRAME
<1>7. Episode(q, W, S)
  BY DEF Tracks
<1> SUFFICES Episode(r, W, T)
  BY <1>3, <1>5 DEF Tracks
<1>8. CASE res.status # "Predicted" /\ SameEpisode(q, r)
  BY <1>4, <1>7, <1>8, EpisodeKept
<1>9. CASE res.status # "Predicted" /\ r.prediction = q.prediction /\ r.last_requested_frame = frame
  <2>1. T = S
    BY <1>9
  <2> QED BY <1>1, <1>4, <1>6, <1>7, <1>9, <2>1 DEF Episode
<1>10. CASE /\ res.status = "Predicted" /\ r.prediction = q.prediction
            /\ r.last_requested_frame = frame
            /\ q.first_incorrect_frame = NULL_FRAME /\ q.prediction.frame # NULL_FRAME
            /\ res.input = q.prediction.input
  <2>1. /\ T[frame] = q.prediction.input
        /\ \A f \in Frames : f # frame => T[f] = S[f]
    BY <1>10
  <2>2. frame <= q.last_added_frame => W[frame] = None \/ W[frame] = q.prediction.input
    BY <1>7, <1>10 DEF Episode
  <2>3. ASSUME NEW f \in Frames, T[f] # None, f <= r.last_added_frame, W[f] # None, W[f] # T[f]
        PROVE  FALSE
    BY <1>4, <1>7, <1>10, <2>1, <2>2, <2>3 DEF Episode
  <2>4. ASSUME NEW f \in Frames, T[f] # None, r.last_added_frame < f
        PROVE  /\ r.prediction.frame # NULL_FRAME /\ T[f] = r.prediction.input
               /\ f <= r.last_requested_frame
    BY <1>1, <1>4, <1>6, <1>7, <1>10, <2>1, <2>4 DEF Episode
  <2>5. ASSUME NEW f \in Frames, r.last_requested_frame <= f, f <= r.last_added_frame
        PROVE  W[f] = None \/ W[f] = r.prediction.input
    BY <1>1, <1>4, <1>6, <1>7, <1>10, <2>5 DEF Episode
  <2>6. r.first_incorrect_frame <= r.last_added_frame
    BY <1>4, <1>7 DEF Episode
  <2> QED BY <2>3, <2>4, <2>5, <2>6 DEF Episode
<1>11. CASE /\ res.status = "Predicted" /\ r.last_requested_frame = frame
            /\ q.first_incorrect_frame = NULL_FRAME /\ q.prediction.frame = NULL_FRAME
            /\ r.prediction.frame = q.last_added_frame + 1
            /\ r.prediction.input = res.input
            /\ res.input = predict(q.last_confirmed_input)
            /\ frame - q.inputs[q.tail].frame >= q.length
  <2>1. /\ T[frame] = r.prediction.input
        /\ \A f \in Frames : f # frame => T[f] = S[f]
    BY <1>11
  <2>2. ASSUME NEW f \in Frames, frame <= f, f <= q.last_added_frame
        PROVE  W[f] = None \/ W[f] = r.prediction.input
    BY <1>11, <2>2, EpisodeOpens DEF Tracks
  <2>3. ASSUME NEW f \in Frames, T[f] # None, f <= r.last_added_frame, W[f] # None, W[f] # T[f]
        PROVE  FALSE
    <3>1. CASE f = frame
      BY <1>1, <1>4, <2>1, <2>2, <2>3, <3>1
    <3>2. CASE f # frame
      BY <1>4, <1>7, <1>11, <2>1, <2>3, <3>2 DEF Episode
    <3> QED BY <3>1, <3>2
  <2>4. ASSUME NEW f \in Frames, T[f] # None, r.last_added_frame < f
        PROVE  /\ r.prediction.frame # NULL_FRAME /\ T[f] = r.prediction.input
               /\ f <= r.last_requested_frame
    <3>1. CASE f = frame
      BY <1>1, <1>6, <1>11, <2>1, <3>1 DEF NULL_FRAME
    <3>2. CASE f # frame
      BY <1>4, <1>7, <1>11, <2>1, <2>4, <3>2 DEF Episode
    <3> QED BY <3>1, <3>2
  <2>5. r.first_incorrect_frame <= r.last_added_frame
    BY <1>4, <1>7 DEF Episode
  <2> QED BY <1>4, <1>11, <2>2, <2>3, <2>4, <2>5 DEF Episode
<1> QED BY <1>2, <1>3, <1>8, <1>9, <1>10, <1>11 DEF RequestAs

\* A rollback forgets the episode and what was predicted.
LEMMA ResetTracks ==
    ASSUME NEW q, QueueInv(q), NEW W, NEW S, NEW a, Tracks(q, W, S, a)
    PROVE  Tracks(reset_prediction(q), W, NoInputs, a)
<1>1. PICK r : r = reset_prediction(q)
  OBVIOUS
<1>2. /\ SameEntries(q, r) /\ r.first_incorrect_frame = NULL_FRAME
      /\ r.prediction.frame = NULL_FRAME
      /\ r.frozen = q.frozen /\ r.last_confirmed_input = q.last_confirmed_input
  BY <1>1 DEF reset_prediction, QueueInv, Queue, PlayerInput, SameEntries
<1>3. Content(r, W)
  BY <1>2, EntriesKept DEF Tracks
<1>4. Pristine(r, W) /\ Repeats(r, W, a)
  BY <1>2 DEF Tracks, Pristine, Repeats, SameEntries
<1>5. Episode(r, W, NoInputs)
  <2>1. r.first_incorrect_frame <= r.last_added_frame
    BY <1>2, PreviousSlot DEF SameEntries, NULL_FRAME
  <2>2. \A f \in Frames : NoInputs[f] = None
    BY DEF NoInputs
  <2> HIDE DEF NoInputs
  <2> QED BY <1>2, <2>1, <2>2 DEF Episode
<1> QED BY <1>1, <1>3, <1>4, <1>5 DEF Tracks

\* A discard keeps track: it forgets no slot, only the side slot.
LEMMA DiscardTracks ==
    ASSUME NEW q, QueueInv(q), NEW W, NEW S, NEW a, Tracks(q, W, S, a), NEW before \in Nat
    PROVE  Tracks(discard_confirmed_frames(q, before), W, S, a)
<1>1. PICK r, bound : r = discard_confirmed_frames(q, before) /\ bound = DiscardBound(q, before)
  OBVIOUS
<1>2. CASE r = q
  BY <1>1, <1>2
<1>3. CASE Discarded(q, r, bound)
  <2>1. Content(r, W)
    BY <1>3 DEF Tracks, Content, SlotHolds, Discarded
  <2>2. Episode(r, W, S)
    BY <1>3 DEF Tracks, Episode, Discarded, SameEpisode
  <2>3. Pristine(r, W)
    BY <1>3 DEF Pristine, Discarded
  <2>4. Repeats(r, W, a)
    BY <1>3 DEF Tracks, Repeats, Discarded
  <2> QED BY <1>1, <2>1, <2>2, <2>3, <2>4 DEF Tracks
<1> QED BY <1>1, <1>2, <1>3, DiscardCases

\* Freezing on a value, with an agreed frame that has that value or none.
LEMMA FreezeTracks ==
    ASSUME NEW q, QueueInv(q), NEW W, NEW S, NEW a, Tracks(q, W, S, a), NEW v, NEW b,
           b # NULL_FRAME => b \in Frames /\ v # None /\ v = W[b]
    PROVE  Tracks([q EXCEPT !.last_confirmed_input = v, !.frozen = TRUE], W, S, b)
<1>1. PICK r : r = [q EXCEPT !.last_confirmed_input = v, !.frozen = TRUE]
  OBVIOUS
<1>2. /\ SameEntries(q, r) /\ SameEpisode(q, r) /\ r.frozen = TRUE /\ r.last_confirmed_input = v
  BY <1>1 DEF QueueInv, Queue, SameEntries, SameEpisode
<1>3. Content(r, W) /\ Episode(r, W, S)
  BY <1>2, EntriesKept, EpisodeKept DEF Tracks
<1>4. Pristine(r, W) /\ Repeats(r, W, b)
  BY <1>2 DEF Tracks, Pristine, Repeats, SameEntries
<1> QED BY <1>1, <1>3, <1>4 DEF Tracks

\* A reopened queue starts a new history.
LEMMA ReopenTracks ==
    ASSUME NEW q, QueueInv(q), NEW frame \in Nat, NEW r, r = reset_to_frame(q, frame),
           r.last_added_frame <= LastFrame, NEW W,
           W = [f \in Frames |-> IF f = r.last_added_frame
                                 THEN predict(q.last_confirmed_input) ELSE None]
    PROVE  /\ Tracks(r, W, NoInputs, NULL_FRAME)
           /\ r.last_added_frame = frame + q.frame_delay - 1
           /\ r.frame_delay = q.frame_delay
<1>1. q.frame_delay \in Nat
  BY PreviousSlot
<1>2. PICK delayed \in Nat : delayed = frame + q.frame_delay
  BY <1>1
<1> DEFINE phantom == [frame |-> delayed - 1, input |-> predict(q.last_confirmed_input)]
           blank   == [s \in Slot |-> blank_input(NULL_FRAME)]
           behind  == previous_position(SlotOf(delayed))
           inputs  == IF delayed - 1 = NULL_FRAME THEN blank ELSE [blank EXCEPT ![behind] = phantom]
<1>3. r = [NewQueue EXCEPT !.head = SlotOf(delayed), !.tail = SlotOf(delayed),
                           !.first_frame = delayed - 1 = NULL_FRAME,
                           !.last_added_frame = delayed - 1,
                           !.frame_delay = q.frame_delay,
                           !.inputs = inputs,
                           !.last_confirmed_input = q.last_confirmed_input]
  BY <1>2 DEF reset_to_frame, ReopenedSlot, ReopenedRing
<1> HIDE DEF inputs
<1>4. /\ r.inputs = inputs /\ r.last_added_frame = delayed - 1 /\ r.frame_delay = q.frame_delay
      /\ r.first_incorrect_frame = NULL_FRAME /\ r.prediction.frame = NULL_FRAME
      /\ r.reclaimed_floor_input = None /\ r.length = 0
      /\ r.last_confirmed_input = q.last_confirmed_input
  BY <1>3 DEF NewQueue, blank_input
<1>5. ASSUME NEW s \in Slot PROVE SlotHolds(r.inputs[s], r, W)
  <2>1. CASE inputs[s] = blank_input(NULL_FRAME)
    BY <1>4, <2>1 DEF SlotHolds, blank_input
  <2>2. CASE inputs[s] = phantom /\ delayed - 1 # NULL_FRAME
    <3>1. delayed - 1 \in Frames
      BY <1>4, <2>2, LastFrameAssumption DEF Frames, NULL_FRAME
    <3>2. W[delayed - 1] = predict(q.last_confirmed_input)
      BY <1>4, <3>1
    <3> QED BY <1>2, <1>4, <2>2, <3>2 DEF SlotHolds
  <2> QED BY <2>1, <2>2 DEF inputs
<1>6. Content(r, W)
  BY <1>4, <1>5 DEF Content
<1>7. Episode(r, W, NoInputs)
  <2>1. r.first_incorrect_frame <= r.last_added_frame
    BY <1>2, <1>4 DEF NULL_FRAME
  <2>2. \A f \in Frames : NoInputs[f] = None
    BY DEF NoInputs
  <2> HIDE DEF NoInputs
  <2> QED BY <1>4, <2>1, <2>2 DEF Episode
<1>8. Pristine(r, W) /\ Repeats(r, W, NULL_FRAME)
  BY <1>4 DEF Pristine, Repeats
<1>9. r.last_added_frame = frame + q.frame_delay - 1
  <2>1. r.last_added_frame = delayed - 1
    BY <1>4
  <2>2. delayed - 1 = frame + q.frame_delay - 1
    BY <1>1, <1>2
  <2> QED BY <2>1, <2>2, Zenon
<1>10. Tracks(r, W, NoInputs, NULL_FRAME)
  BY <1>6, <1>7, <1>8 DEF Tracks
<1> QED BY <1>4, <1>9, <1>10

-----------------------------------------------------------------------------
(* The specification.                                                      *)

\* The caller's next input is the one the queue expects; before the first add
\* that is the input of frame 0.
InStep(q, user) ==
    /\ q.last_added_frame = NULL_FRAME => user = 0
    /\ q.last_added_frame # NULL_FRAME => user + q.frame_delay = q.last_added_frame + 1

\* The inductive invariant of the queue and its history, on top of IInv.
HInv == Tracks(queue, written, served, agreed) /\ InStep(queue, next_user)

LEMMA InitTracks == Init => HInv
<1> SUFFICES ASSUME Init PROVE HInv
  OBVIOUS
<1>1. \A f \in Frames : NoInputs[f] = None
  BY DEF NoInputs
<1>2. /\ queue.inputs = [s \in Slot |-> blank_input(NULL_FRAME)]
      /\ queue.last_added_frame = NULL_FRAME /\ queue.first_incorrect_frame = NULL_FRAME
      /\ queue.prediction.frame = NULL_FRAME /\ queue.reclaimed_floor_input = None
      /\ queue.frozen = FALSE
  BY DEF Init, NewQueue, blank_input
<1>3. written = NoInputs /\ served = NoInputs /\ next_user = 0 /\ agreed = NULL_FRAME
  BY DEF Init
<1> HIDE DEF NoInputs
<1>4. Content(queue, written)
  BY <1>2 DEF Content, SlotHolds, blank_input
<1>5. Episode(queue, written, served)
  BY <1>1, <1>2, <1>3 DEF Episode, NULL_FRAME
<1>6. Pristine(queue, written) /\ Repeats(queue, written, agreed)
  BY <1>1, <1>2, <1>3 DEF Pristine, Repeats
<1>7. InStep(queue, next_user)
  BY <1>2, <1>3 DEF InStep
<1> QED BY <1>4, <1>5, <1>6, <1>7 DEF HInv, Tracks

\* What the invariant says of the queue before a step.
LEMMA Before ==
    ASSUME IInv, HInv
    PROVE  /\ QueueInv(queue) /\ queue.last_added_frame <= LastFrame
           /\ queue.last_added_frame \in Int /\ queue.last_added_frame >= -1
           /\ queue.frame_delay \in Nat
           /\ written \in [Frames -> Input \cup {None}] /\ served \in [Frames -> Input \cup {None}]
           /\ agreed \in FrameOrNull /\ next_user \in Nat
           /\ Tracks(queue, written, served, agreed) /\ InStep(queue, next_user)
  BY PreviousSlot DEF IInv, HInv, HistoryOK

LEMMA AddInputHistory ==
    ASSUME IInv, HInv, NEW frame \in Nat, NEW value \in Input, NEW floor \in Floors,
           AddInput(frame, value, floor)
    PROVE  HInv'
<1>1. floor \in Int
  BY FramesType DEF Floors, NULL_FRAME
<1>2. PICK res : res = add_input(queue, frame, value, floor)
  OBVIOUS
<1>3. PICK M : M = [f \in Frames |-> IF f = res.frame THEN value ELSE DefaultInput]
  OBVIOUS
<1>4. /\ queue.last_added_frame = NULL_FRAME => frame = 0
      /\ frame + queue.frame_delay <= LastFrame /\ queue' = res.q
      /\ next_user' = IF ~queue.frozen /\ res.frame # NULL_FRAME THEN frame + 1 ELSE next_user
      /\ served' = served /\ agreed' = agreed
  BY <1>2 DEF AddInput
<1>5. written' = Recorded(queue, res.q, written, M)
  BY <1>2, <1>3 DEF AddInput, Record, Recorded
<1>6. Tracks(res.q, Recorded(queue, res.q, written, M), served, agreed)
  BY <1>1, <1>2, <1>3, <1>4, Before, AddInputTracks
<1>7. Tracks(queue', written', served', agreed')
  BY <1>4, <1>5, <1>6
<1>8. InStep(res.q, next_user')
  <2>1. \/ res.q = queue /\ (queue.frozen \/ res.frame = NULL_FRAME)
        \/ \E fill : StoredAfter(queue, res, fill, frame, value, floor)
    BY <1>1, <1>2, <1>4, Before, AddInputCases
  <2>2. CASE res.q = queue /\ (queue.frozen \/ res.frame = NULL_FRAME)
    <3>1. next_user' = next_user
      BY <1>4, <2>2
    <3> QED BY <2>2, <3>1, Before
  <2>3. ASSUME NEW fill, StoredAfter(queue, res, fill, frame, value, floor)
        PROVE  InStep(res.q, next_user')
    <3>1. AddStep(queue, res.q)
      BY <1>1, <1>2, Before, AddInputInv
    <3>2. /\ ~queue.frozen /\ res.frame = frame + queue.frame_delay
          /\ res.q.last_added_frame = frame + queue.frame_delay
      BY <2>3 DEF StoredAfter
    <3>3. PICK delay \in Nat : delay = queue.frame_delay /\ delay = res.q.frame_delay
      BY <3>1, Before DEF AddStep
    <3>a. res.frame # NULL_FRAME
      BY <3>2, <3>3 DEF NULL_FRAME
    <3>4. next_user' = frame + 1
      BY <1>4, <3>2, <3>a, Zenon
    <3>5. res.q.last_added_frame = frame + delay /\ res.q.last_added_frame # NULL_FRAME
      BY <3>2, <3>3 DEF NULL_FRAME
    <3>6. next_user' + delay = res.q.last_added_frame + 1
      BY <3>4, <3>5
    <3> QED BY <3>3, <3>5, <3>6 DEF InStep
  <2> QED BY <2>1, <2>2, <2>3
<1> QED BY <1>4, <1>7, <1>8 DEF HInv

LEMMA SetFrameDelayHistory ==
    ASSUME IInv, HInv, NEW delay \in 0 .. max_frame_delay + 1, NEW floor \in Floors,
           SetFrameDelay(delay, floor)
    PROVE  HInv'
<1>1. floor \in Int /\ delay \in Nat
  BY FramesType, QueueLengthAssumption DEF Floors, NULL_FRAME, max_frame_delay
<1>2. PICK r, M : r = set_frame_delay(queue, delay, floor).q
                  /\ M = [f \in Frames |-> written[queue.last_added_frame]]
  OBVIOUS
<1>3. /\ queue.last_added_frame + delay - queue.frame_delay <= LastFrame /\ queue' = r
      /\ served' = served /\ agreed' = agreed /\ next_user' = next_user
  BY <1>2 DEF SetFrameDelay
<1>4. written' = Recorded(queue, r, written, M)
  BY <1>2 DEF SetFrameDelay, Record, Recorded
<1>5. Tracks(r, Recorded(queue, r, written, M), served, agreed)
  BY <1>1, <1>2, <1>3, Before, SetFrameDelayTracks
<1>6. InStep(r, next_user)
  <2>1. CASE r = queue
    BY <2>1, Before
  <2>2. CASE queue.last_added_frame = NULL_FRAME /\ r = [queue EXCEPT !.frame_delay = delay]
    <3>1. r.last_added_frame = NULL_FRAME
      BY <2>2, Before, DelayKeeps DEF SameEntries
    <3> QED BY <2>2, <3>1, Before DEF InStep
  <2>3. ASSUME NEW fill, FilledTo(queue, r, fill, delay, floor) PROVE InStep(r, next_user)
    <3>1. PICK count \in Nat : count = delay - queue.frame_delay
      BY <2>3 DEF FilledTo
    <3>2. /\ queue.last_added_frame # NULL_FRAME /\ QueueInv(fill)
          /\ fill.last_added_frame = queue.last_added_frame + count
          /\ r = [fill EXCEPT !.frame_delay = delay]
      BY <2>3, <3>1 DEF FilledTo
    <3>3. r.last_added_frame = queue.last_added_frame + count /\ r.frame_delay = delay
      BY <3>2, DelayKeeps DEF SameEntries
    <3>4. next_user + queue.frame_delay = queue.last_added_frame + 1
      BY <3>2, Before DEF InStep
    <3>5. PICK last \in Int, old \in Nat : last = queue.last_added_frame /\ old = queue.frame_delay
                                           /\ last >= -1
      BY Before
    <3>6. next_user \in Nat /\ last # -1
      BY <3>2, <3>5, Before DEF NULL_FRAME
    <3>7. next_user + delay = last + count + 1 /\ last + count # -1
      BY <1>1, <3>1, <3>4, <3>5, <3>6
    <3> QED BY <3>3, <3>5, <3>7 DEF InStep, NULL_FRAME
  <2> QED BY <1>1, <1>2, <2>1, <2>2, <2>3, Before, SetFrameDelayCases
<1> QED BY <1>3, <1>4, <1>5, <1>6 DEF HInv

LEMMA BackfillHistory ==
    ASSUME IInv, HInv, NEW from \in Frames, NEW n \in 1 .. 2, NEW values \in [1 .. n -> Input],
           NEW floor \in Floors, InstallMissingBackfill(from, values, floor)
    PROVE  HInv'
<1>1. floor \in Int /\ from \in Nat /\ n \in Nat /\ n > 0 /\ Len(values) = n
  BY FramesType DEF Floors, NULL_FRAME
<1>2. PICK r, M : r = Backfilled(queue, from, values, floor)
                  /\ M = [f \in Frames |-> values[f - from + 1]]
  OBVIOUS
<1>3. /\ queue' = r /\ from + n - 1 <= LastFrame /\ queue.frame_delay = 0
      /\ next_user' = next_user + r.last_added_frame - queue.last_added_frame
      /\ served' = served /\ agreed' = agreed
  BY <1>1, <1>2 DEF InstallMissingBackfill, Backfilled
<1>4. written' = Recorded(queue, r, written, M)
  BY <1>2 DEF InstallMissingBackfill, Backfilled, Record, Recorded
<1>5. Tracks(r, Recorded(queue, r, written, M), served, agreed)
  <2>1. /\ QueueInv(queue) /\ queue.last_added_frame <= LastFrame
        /\ written \in [Frames -> Input \cup {None}]
        /\ Tracks(queue, written, served, agreed)
    BY Before
  <2> QED BY <1>1, <1>2, <1>3, <2>1, BackfillTracks
<1>6. QueueInv(r) /\ queue.last_added_frame <= r.last_added_frame
  BY <1>1, <1>2, Before, BackfillInv
<1>7. r.frame_delay = 0
  <2>1. CASE r = queue
    BY <1>3, <2>1
  <2>2. ASSUME NEW suffix, BackfilledRun(queue, r, from, values, suffix, floor)
        PROVE  r.frame_delay = 0
    <3>1. suffix \in Seq(Input) /\ r = AddRun(queue, queue.last_added_frame + 1, suffix, floor).q
      BY <2>2 DEF BackfilledRun
    <3>2. RunInv(queue, AddRun(queue, queue.last_added_frame + 1, suffix, floor), Len(suffix))
      BY <1>1, <3>1, Before, AddRunInv
    <3> QED BY <1>3, <3>1, <3>2 DEF RunInv, AddStep
  <2> QED BY <1>1, <1>2, <2>1, <2>2, Before, BackfillCases
<1>8. InStep(r, next_user')
  <2>1. PICK last \in Int, new \in Int : last = queue.last_added_frame /\ new = r.last_added_frame
    BY <1>6, Before, PreviousSlot
  <2>2. last <= new /\ last >= -1 /\ next_user' = next_user + new - last /\ next_user \in Nat
    BY <1>3, <1>6, <2>1, Before
  <2>3. next_user = last + 1
    <3>1. CASE last = NULL_FRAME
      BY <2>1, <3>1, Before DEF InStep, NULL_FRAME
    <3>2. CASE last # NULL_FRAME
      <4>1. next_user + 0 = last + 1
        BY <1>3, <2>1, <3>2, Before DEF InStep
      <4> QED BY <2>2, <4>1
    <3> QED BY <3>1, <3>2
  <2>4. next_user' = new + 1
    BY <2>2, <2>3
  <2>5. new = NULL_FRAME => next_user' = 0
    BY <2>4 DEF NULL_FRAME
  <2>6. next_user' + 0 = new + 1
    BY <2>4
  <2> QED BY <1>7, <2>1, <2>5, <2>6 DEF InStep
<1> QED BY <1>3, <1>4, <1>5, <1>8 DEF HInv

\* A step that adds nothing leaves the stream in step.
LEMMA QuietHistory ==
    ASSUME IInv, HInv, queue'.last_added_frame = queue.last_added_frame,
           queue'.frame_delay = queue.frame_delay, next_user' = next_user,
           Tracks(queue', written', served', agreed')
    PROVE  HInv'
  BY DEF HInv, InStep

\* Freezing leaves the fields the stream is about.
LEMMA FreezeHistory ==
    ASSUME IInv, HInv, NEW v, queue' = [queue EXCEPT !.last_confirmed_input = v, !.frozen = TRUE],
           agreed' # NULL_FRAME => agreed' \in Frames /\ v # None /\ v = written[agreed'],
           UNCHANGED <<written, served, next_user>>
    PROVE  HInv'
<1>1. PICK b, r : b = agreed' /\ r = [queue EXCEPT !.last_confirmed_input = v, !.frozen = TRUE]
  OBVIOUS
<1>2. Tracks(r, written, served, b)
  BY <1>1, Before, FreezeTracks
<1>3. r.last_added_frame = queue.last_added_frame /\ r.frame_delay = queue.frame_delay
  BY <1>1 DEF IInv, QueueInv, Queue
<1> QED BY <1>1, <1>2, <1>3, QuietHistory

LEMMA RequestHistory ==
    ASSUME IInv, HInv, NEW frame \in Frames, RequestInput(frame)
    PROVE  HInv'
<1>1. PICK res : res = input(queue, frame)
  OBVIOUS
<1>2. PICK T : T = IF res.status = "Predicted" THEN [served EXCEPT ![frame] = res.input] ELSE served
  OBVIOUS
<1>3. /\ frame >= queue.last_requested_frame /\ (queue.frozen => frame <= agreed)
      /\ queue' = res.q /\ served' = T
      /\ UNCHANGED <<written, next_user, agreed>>
  BY <1>1, <1>2 DEF RequestInput
<1>4. Tracks(res.q, written, T, agreed)
  BY <1>1, <1>2, <1>3, Before, RequestTracks
<1>5. frame \in Nat
  BY FramesType
<1>6. RequestAs(queue, res, frame)
  BY <1>1, <1>5, Before, RequestCases
<1>7. res.q.last_added_frame = queue.last_added_frame /\ res.q.frame_delay = queue.frame_delay
  BY <1>6 DEF RequestAs, SameEntries
<1> QED BY <1>3, <1>4, <1>7, QuietHistory

LEMMA DiscardHistory ==
    ASSUME IInv, HInv, NEW before \in Frames, DiscardConfirmedFrames(before)
    PROVE  HInv'
<1>1. before \in Nat
  BY FramesType
<1>2. PICK r : r = discard_confirmed_frames(queue, before)
  OBVIOUS
<1>3. queue' = r /\ UNCHANGED <<written, served, next_user, agreed>>
  BY <1>2 DEF DiscardConfirmedFrames
<1>4. Tracks(r, written, served, agreed)
  BY <1>1, <1>2, Before, DiscardTracks
<1>5. r = queue \/ Discarded(queue, r, DiscardBound(queue, before))
  BY <1>1, <1>2, Before, DiscardCases
<1>6. r.last_added_frame = queue.last_added_frame /\ r.frame_delay = queue.frame_delay
  BY <1>5 DEF Discarded
<1> QED BY <1>3, <1>4, <1>6, QuietHistory

LEMMA ResetPredictionHistory ==
    ASSUME IInv, HInv, ResetPrediction
    PROVE  HInv'
<1>1. PICK r : r = reset_prediction(queue)
  OBVIOUS
<1>2. queue' = r /\ served' = NoInputs /\ UNCHANGED <<written, next_user, agreed>>
  BY <1>1 DEF ResetPrediction
<1>3. Tracks(r, written, NoInputs, agreed)
  BY <1>1, Before, ResetTracks
<1>4. r.last_added_frame = queue.last_added_frame /\ r.frame_delay = queue.frame_delay
  BY <1>1 DEF reset_prediction, IInv, QueueInv, Queue
<1> QED BY <1>2, <1>3, <1>4, QuietHistory

LEMMA FreezeAtHistory ==
    ASSUME IInv, HInv, NEW frame \in Frames \cup {NULL_FRAME}, FreezeAt(frame)
    PROVE  HInv'
<1>1. UNCHANGED <<written, served, next_user>> /\ queue \in Queue
  BY DEF FreezeAt, IInv, QueueInv
<1>2. CASE queue.frozen
  <2>1. queue' = queue /\ agreed' = agreed
    BY <1>2 DEF FreezeAt, freeze_at
  <2> QED BY <1>1, <2>1, Before, QuietHistory
<1>3. CASE ~queue.frozen /\ (frame = NULL_FRAME \/ confirmed_input(queue, frame) = None)
  <2>1. agreed' = NULL_FRAME
    BY <1>3 DEF FreezeAt
  <2>2. queue' = [queue EXCEPT !.frozen = TRUE]
    BY <1>3 DEF FreezeAt, freeze_at, roll_confirmed_input_to
  <2>3. [queue EXCEPT !.frozen = TRUE]
          = [queue EXCEPT !.last_confirmed_input = queue.last_confirmed_input, !.frozen = TRUE]
    BY <1>1 DEF Queue
  <2> QED BY <1>1, <2>1, <2>2, <2>3, FreezeHistory
<1>4. CASE ~queue.frozen /\ frame # NULL_FRAME /\ confirmed_input(queue, frame) # None
  <2>1. PICK v : v = confirmed_input(queue, frame)
    OBVIOUS
  <2>2. agreed' = frame /\ frame \in Frames /\ frame \in Nat
    BY <1>4, FramesType DEF FreezeAt
  <2>3. queue' = [queue EXCEPT !.last_confirmed_input = v, !.frozen = TRUE]
    BY <1>4, <2>1 DEF FreezeAt, freeze_at, roll_confirmed_input_to
  <2>4. v # None /\ v = written[frame]
    BY <1>4, <2>1, <2>2, Before, ConfirmedIsStored DEF Tracks
  <2> QED BY <1>1, <2>2, <2>3, <2>4, FreezeHistory
<1> QED BY <1>2, <1>3, <1>4

LEMMA SetFrozenValueHistory ==
    ASSUME IInv, HInv, NEW frame \in Frames, SetFrozenValueAt(frame)
    PROVE  HInv'
<1>1. UNCHANGED <<written, served, next_user>> /\ queue \in Queue /\ frame \in Nat
        /\ frame # NULL_FRAME
  BY FramesType DEF SetFrozenValueAt, IInv, QueueInv, NULL_FRAME
<1>2. CASE ~queue.frozen \/ confirmed_input(queue, frame) = None
  <2>1. queue' = queue /\ agreed' = agreed
    BY <1>2 DEF SetFrozenValueAt, set_frozen_value_at, roll_confirmed_input_to
  <2> QED BY <1>1, <2>1, Before, QuietHistory
<1>3. CASE queue.frozen /\ confirmed_input(queue, frame) # None
  <2>1. PICK v : v = confirmed_input(queue, frame)
    OBVIOUS
  <2>2. agreed' = frame
    BY <1>3 DEF SetFrozenValueAt
  <2>3. queue' = [queue EXCEPT !.last_confirmed_input = v]
    BY <1>1, <1>3, <2>1 DEF SetFrozenValueAt, set_frozen_value_at, roll_confirmed_input_to
  <2>4. [queue EXCEPT !.last_confirmed_input = v]
          = [queue EXCEPT !.last_confirmed_input = v, !.frozen = TRUE]
    BY <1>1, <1>3 DEF Queue
  <2>5. v # None /\ v = written[frame]
    BY <1>1, <1>3, <2>1, Before, ConfirmedIsStored DEF Tracks
  <2> QED BY <1>1, <2>2, <2>3, <2>4, <2>5, FreezeHistory
<1> QED BY <1>2, <1>3

LEMMA FreezeAtCutHistory ==
    ASSUME IInv, HInv, NEW cut \in Frames, FreezeAtCut(cut)
    PROVE  HInv'
<1>1. UNCHANGED <<written, served, next_user>> /\ agreed' = cut /\ cut \in Nat
  BY FramesType DEF FreezeAtCut
<1>2. PICK v : v = retained_confirmed_input(queue, cut)
  OBVIOUS
<1>3. v # None
  BY <1>2 DEF FreezeAtCut, CutValid
<1>4. queue' = [queue EXCEPT !.last_confirmed_input = v, !.frozen = TRUE]
  BY <1>2, <1>3 DEF FreezeAtCut, freeze_at_prevalidated_cut
<1>5. v = confirmed_input(queue, cut)
  BY <1>2, <1>3 DEF retained_confirmed_input
<1>6. v = written[cut]
  BY <1>1, <1>3, <1>5, Before, ConfirmedIsStored DEF Tracks
<1> QED BY <1>1, <1>3, <1>4, <1>6, FreezeHistory

LEMMA ReopenHistory ==
    ASSUME IInv, HInv, NEW frame \in Frames, ResetToFrame(frame)
    PROVE  HInv'
<1>1. frame \in Nat
  BY FramesType
<1>2. PICK r : r = reset_to_frame(queue, frame)
  OBVIOUS
<1>3. PICK W : W = [f \in Frames |-> IF f = r.last_added_frame
                                     THEN predict(queue.last_confirmed_input) ELSE None]
  OBVIOUS
<1>4. /\ queue' = r /\ written' = W /\ served' = NoInputs /\ agreed' = NULL_FRAME
      /\ next_user' = frame /\ r.last_added_frame <= LastFrame
  BY <1>2, <1>3 DEF ResetToFrame
<1>5. /\ Tracks(r, W, NoInputs, NULL_FRAME)
      /\ r.last_added_frame = frame + queue.frame_delay - 1
      /\ r.frame_delay = queue.frame_delay
  BY <1>1, <1>2, <1>3, <1>4, Before, ReopenTracks
<1>6. PICK delay \in Nat : delay = queue.frame_delay
  BY Before
<1>7. r.last_added_frame = frame + delay - 1
  BY <1>5, <1>6
<1>8. /\ r.last_added_frame = NULL_FRAME => frame = 0
      /\ frame + delay = r.last_added_frame + 1
  BY <1>1, <1>7 DEF NULL_FRAME
<1>9. InStep(r, frame)
  BY <1>5, <1>6, <1>8 DEF InStep
<1> QED BY <1>4, <1>5, <1>9 DEF HInv

\* Every step keeps the queue true to its history.
LEMMA NextHistory ==
    ASSUME IInv, HInv, [Next]_vars
    PROVE  HInv'
<1>1. ASSUME NEW frame \in (next_user - 1 .. next_user + 1) \cap Nat, NEW value \in Input,
             NEW floor \in Floors, AddInput(frame, value, floor)
      PROVE  HInv'
  BY <1>1, AddInputHistory
<1>2. ASSUME NEW delay \in 0 .. max_frame_delay + 1, NEW floor \in Floors,
             SetFrameDelay(delay, floor)
      PROVE  HInv'
  BY <1>2, SetFrameDelayHistory
<1>3. ASSUME NEW frame \in Frames, RequestInput(frame) PROVE HInv'
  BY <1>3, RequestHistory
<1>4. ASSUME ResetPrediction PROVE HInv'
  BY <1>4, ResetPredictionHistory
<1>5. ASSUME NEW before \in Frames, DiscardConfirmedFrames(before) PROVE HInv'
  BY <1>5, DiscardHistory
<1>6. ASSUME NEW from \in Frames, NEW n \in 1 .. 2, NEW values \in [1 .. n -> Input],
             NEW floor \in Floors \cap Frames, InstallMissingBackfill(from, values, floor)
      PROVE  HInv'
  BY <1>6, BackfillHistory
<1>7. ASSUME NEW frame \in Frames \cup {NULL_FRAME}, FreezeAt(frame) PROVE HInv'
  BY <1>7, FreezeAtHistory
<1>8. ASSUME NEW frame \in Frames, SetFrozenValueAt(frame) PROVE HInv'
  BY <1>8, SetFrozenValueHistory
<1>9. ASSUME NEW cut \in Frames, FreezeAtCut(cut) PROVE HInv'
  BY <1>9, FreezeAtCutHistory
<1>10. ASSUME NEW value \in Input \cup {None}, RefreezeWithValue(value) PROVE HInv'
  <2>1. /\ queue' = [queue EXCEPT !.last_confirmed_input = value, !.frozen = TRUE]
        /\ agreed' = NULL_FRAME /\ UNCHANGED <<written, served, next_user>>
    BY <1>10 DEF RefreezeWithValue, refreeze_with_value
  <2> QED BY <2>1, FreezeHistory
<1>11. ASSUME NEW frame \in Frames, ResetToFrame(frame) PROVE HInv'
  BY <1>11, ReopenHistory
<1>12. ASSUME UNCHANGED vars PROVE HInv'
  BY <1>12 DEF vars, HInv
<1> QED
  BY <1>1, <1>2, <1>3, <1>4, <1>5, <1>6, <1>7, <1>8, <1>9, <1>10, <1>11, <1>12 DEF Next

LEMMA HInvAlways == Spec => [](IInv /\ HInv)
<1>1. Init => IInv /\ HInv
  BY InitInv, InitTracks
<1>2. IInv /\ HInv /\ [Next]_vars => (IInv /\ HInv)'
  BY NextInv, NextHistory
<1> QED BY <1>1, <1>2, PTL DEF Spec

\* Whatever confirmed_input answers, for held, discarded and reclaimed frames
\* alike, is the input that was stored for that frame in this era.
THEOREM AnswersAreStored == Spec => []ConfirmedIsWritten
<1>1. ASSUME IInv, HInv PROVE ConfirmedIsWritten
  <2> SUFFICES ASSUME NEW f \in Frames, confirmed_input(queue, f) # None
               PROVE  confirmed_input(queue, f) = written[f]
    BY DEF ConfirmedIsWritten
  <2>1. f \in Nat
    BY FramesType
  <2> QED BY <1>1, <2>1, Before, ConfirmedIsStored DEF Tracks
<1> QED BY <1>1, HInvAlways, PTL

\* A prediction that was handed out and turned out wrong is reported at or before
\* its frame: no arrival escapes the comparison in add_input_by_frame, through
\* gap fills, backfills and reopens alike.
THEOREM MispredictionsAreReported == Spec => []NoSwallowedMisprediction
<1>1. ASSUME IInv, HInv PROVE NoSwallowedMisprediction
  <2> SUFFICES ASSUME NEW f \in Frames, served[f] # None, written[f] \notin {None, served[f]},
                      f <= queue.last_added_frame
               PROVE  queue.first_incorrect_frame \in 0 .. f
    BY DEF NoSwallowedMisprediction
  <2>1. queue.first_incorrect_frame # NULL_FRAME /\ queue.first_incorrect_frame <= f
    BY <1>1 DEF HInv, Tracks, Episode
  <2>2. queue.first_incorrect_frame \in FrameOrNull /\ f \in Nat
    BY <1>1, FramesType DEF IInv, QueueInv, Queue
  <2> QED BY <2>1, <2>2 DEF FrameOrNull
<1> QED BY <1>1, HInvAlways, PTL

\* The caller's next input is the one add_input expects, whatever fills failed and
\* however often the queue was reopened.
THEOREM StreamInStep == Spec => []StreamStaysSequential
<1>1. ASSUME HInv PROVE StreamStaysSequential
  BY <1>1 DEF HInv, InStep, StreamStaysSequential
<1> QED BY <1>1, HInvAlways, PTL

\* A frozen queue repeats the input of the frame that was agreed last, through
\* freezes, lowered agreements and cuts.
THEOREM FrozenInputAgreed == Spec => []FrozenRepeatsAgreedInput
<1>1. ASSUME HInv PROVE FrozenRepeatsAgreedInput
  BY <1>1 DEF HInv, Tracks, Repeats, FrozenRepeatsAgreedInput
<1> QED BY <1>1, HInvAlways, PTL

-----------------------------------------------------------------------------
(* What was asked for last stays held.                                     *)

\* Every step of an era keeps the frame asked for last.
LEMMA NextKeeps ==
    ASSUME IInv, HInv, Next, era' = era, NEW f \in Nat, f = queue.last_requested_frame,
           Kept(queue, f)
    PROVE  Kept(queue', f)
<1>0. QueueInv(queue) /\ queue \in Queue
  BY Before DEF QueueInv
<1>1. \A floor \in Floors : floor \in Int /\ floor <= f
  BY FramesType DEF Floors, NULL_FRAME
<1>2. ASSUME NEW frame \in (next_user - 1 .. next_user + 1) \cap Nat, NEW value \in Input,
             NEW floor \in Floors, AddInput(frame, value, floor)
      PROVE  Kept(queue', f)
  BY <1>0, <1>1, <1>2, AddInputKeeps DEF AddInput
<1>3. ASSUME NEW delay \in 0 .. max_frame_delay + 1, NEW floor \in Floors,
             SetFrameDelay(delay, floor)
      PROVE  Kept(queue', f)
  <2>1. delay \in Nat
    BY QueueLengthAssumption DEF max_frame_delay
  <2> QED BY <1>0, <1>1, <1>3, <2>1, SetFrameDelayKeeps DEF SetFrameDelay
<1>4. ASSUME NEW frame \in Frames, RequestInput(frame) PROVE Kept(queue', f)
  <2>1. SameEntries(queue, input(queue, frame).q)
    BY <1>0, FramesType, RequestCases DEF RequestAs
  <2>2. queue' = input(queue, frame).q
    BY <1>4 DEF RequestInput
  <2> QED BY <2>1, <2>2, EntriesKeep
<1>5. ASSUME ResetPrediction PROVE Kept(queue', f)
  <2>1. SameEntries(queue, reset_prediction(queue))
    BY <1>0 DEF reset_prediction, Queue, SameEntries
  <2> QED BY <1>5, <2>1, EntriesKeep DEF ResetPrediction
<1>6. ASSUME NEW before \in Frames, DiscardConfirmedFrames(before) PROVE Kept(queue', f)
  BY <1>0, <1>6, FramesType, DiscardKeeps DEF DiscardConfirmedFrames
<1>7. ASSUME NEW from \in Frames, NEW n \in 1 .. 2, NEW values \in [1 .. n -> Input],
             NEW floor \in Floors \cap Frames, InstallMissingBackfill(from, values, floor)
      PROVE  Kept(queue', f)
  <2>1. queue' = Backfilled(queue, from, values, floor)
    BY <1>7 DEF InstallMissingBackfill, Backfilled
  <2>2. from \in Nat /\ n \in Nat /\ n > 0
    BY FramesType
  <2> QED BY <1>0, <1>1, <2>1, <2>2, BackfillKeeps
<1>8. ASSUME NEW v, NEW b, queue' = [queue EXCEPT !.last_confirmed_input = v, !.frozen = b]
      PROVE  Kept(queue', f)
  <2>1. SameEntries(queue, [queue EXCEPT !.last_confirmed_input = v, !.frozen = b])
    BY <1>0 DEF Queue, SameEntries
  <2> QED BY <1>8, <2>1, EntriesKeep
<1>9. ASSUME NEW frame, queue' = roll_confirmed_input_to(queue, frame) PROVE Kept(queue', f)
  <2>1. SameEntries(queue, roll_confirmed_input_to(queue, frame))
    BY <1>0 DEF roll_confirmed_input_to, Queue, SameEntries
  <2> QED BY <1>9, <2>1, EntriesKeep
<1>10. ASSUME NEW frame, FreezeAt(frame) PROVE Kept(queue', f)
  <2>1. SameEntries(queue, freeze_at(queue, frame))
    BY <1>0 DEF freeze_at, roll_confirmed_input_to, Queue, SameEntries
  <2> QED BY <1>10, <2>1, EntriesKeep DEF FreezeAt
<1>11. ASSUME NEW frame, SetFrozenValueAt(frame) PROVE Kept(queue', f)
  BY <1>9, <1>11 DEF SetFrozenValueAt, set_frozen_value_at
<1>12. ASSUME NEW cut, FreezeAtCut(cut) PROVE Kept(queue', f)
  BY <1>8, <1>12 DEF FreezeAtCut, freeze_at_prevalidated_cut
<1>13. ASSUME NEW value, RefreezeWithValue(value) PROVE Kept(queue', f)
  BY <1>8, <1>13 DEF RefreezeWithValue, refreeze_with_value
<1>14. ASSUME NEW frame, ResetToFrame(frame) PROVE Kept(queue', f)
  <2>1. era' = era + 1 /\ era \in Int
    BY <1>14, Before DEF ResetToFrame, IInv, HistoryOK
  <2> QED BY <2>1
<1> QED
  BY <1>2, <1>3, <1>4, <1>5, <1>6, <1>7, <1>10, <1>11, <1>12, <1>13, <1>14 DEF Next

\* What the queue holds for the frame asked for last is held after every step of
\* the era: neither a discard nor an eviction for a gap fill, a backfill or an
\* arrival loses the input the next rollback reads.
THEOREM RequestedInputHeld == Spec => RequestedStaysHeld
<1> DEFINE Stays == LET f == queue.last_requested_frame
                    IN  era' = era /\ retained_confirmed_input(queue, f) # None
                            => retained_confirmed_input(queue', f) # None
<1>1. ASSUME IInv, HInv, IInv', [Next]_vars PROVE [Stays]_vars
  <2> SUFFICES ASSUME Next, era' = era, NEW f, f = queue.last_requested_frame,
                      retained_confirmed_input(queue, f) # None
               PROVE  retained_confirmed_input(queue', f) # None
    BY <1>1
  <2>1. QueueInv(queue) /\ QueueInv(queue')
    BY <1>1 DEF IInv
  <2>2. f # NULL_FRAME
    BY <1>1, <2>1, NullNotHeld DEF HInv, Tracks
  <2>3. f \in Nat
    BY <2>1, <2>2 DEF QueueInv, Queue, FrameOrNull
  <2>4. Kept(queue, f)
    BY <2>1, <2>3, HeldIsKept
  <2>5. Kept(queue', f)
    BY <1>1, <2>3, <2>4, NextKeeps
  <2> QED BY <2>1, <2>3, <2>5, HeldIsKept
<1> QED BY <1>1, HInvAlways, PTL DEF Spec, RequestedStaysHeld
=============================================================================
