------------------------- MODULE InputQueueOpsProofs -------------------------
(***************************************************************************)
(* What the operators of the input queue preserve and compute, for every   *)
(* ring size and every set of inputs: the lemmas the proofs of the modules *)
(* that use a queue rest on.                                               *)
(*                                                                         *)
(* The invariant of a single queue is QueueInv, which every operator of    *)
(* InputQueueOps preserves.  One add is described field by field (Added),  *)
(* and a run of adds keeps whatever set of queues every single add keeps   *)
(* (RunStays).  The loops over add_input_by_frame are recursive functions; *)
(* what they preserve is shown by induction over the set of the indices at *)
(* which it holds (IndexInduction).                                        *)
(***************************************************************************)
EXTENDS InputQueueOps, TLAPS, WellFoundedInduction

-----------------------------------------------------------------------------
(* Induction and the arithmetic of slots.                                  *)

\* A set that holds 0 and is closed under successors up to N holds 0 .. N.
LEMMA IndexInduction ==
    ASSUME NEW N \in Nat, NEW G, 0 \in G, \A n \in 1 .. N : n - 1 \in G => n \in G
    PROVE  \A n \in 0 .. N : n \in G
<1> DEFINE R == OpToRel(<, Nat)
           T == (0 .. N) \ G
<1>1. SUFFICES ASSUME T # {} PROVE FALSE
  OBVIOUS
<1>2. IsWellFoundedOn(R, Nat)
  BY NatLessThanWellFounded, Zenon
<1>3. PICK m \in T : \A k \in T : <<k, m>> \notin R
  <2>1. T \subseteq Nat
    OBVIOUS
  <2> HIDE DEF R, T
  <2> QED BY <1>1, <1>2, <2>1, WFMin, Zenon
<1>4. \A k \in Nat : k < m => <<k, m>> \in R
  BY DEF OpToRel
<1>5. m \in 0 .. N /\ m # 0
  OBVIOUS
<1>6. m - 1 \in T /\ m - 1 \in Nat /\ m - 1 < m
  BY <1>5
<1> HIDE DEF R, T
<1> QED BY <1>3, <1>4, <1>6

\* A frame's slot is a slot of the ring.
LEMMA SlotOfType == \A f \in Int : SlotOf(f) \in Slot
  BY QueueLengthAssumption DEF SlotOf, Slot

\* A frame is a whole number of ring lengths and its slot.
LEMMA SlotOfQuotient == \A f \in Int : \E k \in Int : f = k * QueueLength + SlotOf(f)
<1> TAKE f \in Int
<1>1. f \div QueueLength \in Int /\ f = (f \div QueueLength) * QueueLength + (f % QueueLength)
  BY QueueLengthAssumption, SMTT(30)
<1> QED BY <1>1 DEF SlotOf

\* The quotient and the slot are unique.
LEMMA SlotOfUnique ==
    ASSUME NEW f \in Int, NEW k \in Int, NEW s \in Slot, f = k * QueueLength + s
    PROVE  SlotOf(f) = s
  BY QueueLengthAssumption, SMTT(60) DEF SlotOf, Slot

\* Only the slot of a frame matters to the slot of a frame k further on.
LEMMA SlotOfShift == \A f, k \in Int : SlotOf(SlotOf(f) + k) = SlotOf(f + k)
<1> TAKE f, k \in Int
<1>1. SlotOf(f) \in Slot /\ SlotOf(f) \in Int
  BY SlotOfType, QueueLengthAssumption DEF Slot
<1>2. PICK i \in Int : f = i * QueueLength + SlotOf(f)
  BY SlotOfQuotient
<1>3. PICK j \in Int : SlotOf(f) + k = j * QueueLength + SlotOf(SlotOf(f) + k)
  BY <1>1, SlotOfQuotient
<1>4. SlotOf(SlotOf(f) + k) \in Slot /\ SlotOf(SlotOf(f) + k) \in Int
  BY <1>1, SlotOfType, QueueLengthAssumption DEF Slot
<1>5. f + k = (i + j) * QueueLength + SlotOf(SlotOf(f) + k)
  <2> DEFINE s == SlotOf(f)
             t == SlotOf(SlotOf(f) + k)
  <2>1. s \in Int /\ t \in Int /\ QueueLength \in Int
    BY <1>1, <1>4, QueueLengthAssumption
  <2>2. f = i * QueueLength + s /\ s + k = j * QueueLength + t
    BY <1>2, <1>3
  <2> HIDE DEF s, t
  <2>3. f + k = (i + j) * QueueLength + t
    BY <2>1, <2>2
  <2> QED BY <2>3 DEF t
<1> QED BY <1>4, <1>5, SlotOfUnique

\* Stepping through the ring is stepping through the frames.
LEMMA SlotSteps ==
    ASSUME NEW f \in Int
    PROVE  /\ \A k \in Int : circular_index_add(SlotOf(f), k) = SlotOf(f + k)
           /\ previous_position(SlotOf(f)) = SlotOf(f - 1)
<1>1. ASSUME NEW k \in Int PROVE circular_index_add(SlotOf(f), k) = SlotOf(f + k)
  <2>1. circular_index_add(SlotOf(f), k) = SlotOf(SlotOf(f) + k)
    BY DEF circular_index_add, SlotOf
  <2> QED BY <2>1, SlotOfShift
<1>2. previous_position(SlotOf(f)) = SlotOf(f + (QueueLength - 1))
  <2>1. SlotOf(f) \in Int /\ QueueLength - 1 \in Int
    BY SlotOfType, QueueLengthAssumption DEF Slot
  <2>2. previous_position(SlotOf(f)) = (SlotOf(f) + QueueLength - 1) % QueueLength
    BY DEF previous_position
  <2>3. SlotOf(f) + QueueLength - 1 = SlotOf(f) + (QueueLength - 1)
    BY <2>1, QueueLengthAssumption
  <2>4. previous_position(SlotOf(f)) = SlotOf(SlotOf(f) + (QueueLength - 1))
    BY <2>2, <2>3 DEF SlotOf
  <2> QED BY <2>1, <2>4, SlotOfShift
<1>3. SlotOf(f + (QueueLength - 1)) = SlotOf(f - 1)
  <2>1. PICK i \in Int : f - 1 = i * QueueLength + SlotOf(f - 1)
    BY SlotOfQuotient
  <2>2. SlotOf(f - 1) \in Slot /\ SlotOf(f - 1) \in Int /\ QueueLength \in Int
    BY SlotOfType, QueueLengthAssumption DEF Slot
  <2>3. f + (QueueLength - 1) = (i + 1) * QueueLength + SlotOf(f - 1)
    BY <2>1, <2>2
  <2>4. f + (QueueLength - 1) \in Int /\ i + 1 \in Int
    BY <2>2
  <2> QED BY <2>2, <2>3, <2>4, SlotOfUnique
<1> QED BY <1>1, <1>2, <1>3

\* Frames less than a ring length apart share no slot.
LEMMA SlotsDiffer ==
    ASSUME NEW f \in Int, NEW g \in Int, f < g, g < f + QueueLength
    PROVE  SlotOf(f) # SlotOf(g)
<1> SUFFICES ASSUME SlotOf(f) = SlotOf(g) PROVE FALSE
  OBVIOUS
<1>1. PICK i \in Int : f = i * QueueLength + SlotOf(f)
  BY SlotOfQuotient
<1>2. PICK j \in Int : g = j * QueueLength + SlotOf(f)
  BY SlotOfQuotient
<1>3. SlotOf(f) \in Int /\ QueueLength \in Int /\ QueueLength >= 2
  BY SlotOfType, QueueLengthAssumption DEF Slot
<1> DEFINE s == SlotOf(f)
<1>4. s \in Int /\ f = i * QueueLength + s /\ g = j * QueueLength + s
  BY <1>1, <1>2, <1>3
<1> HIDE DEF s
<1>5. g - f = (j - i) * QueueLength
  BY <1>3, <1>4
<1>6. CASE j - i <= 0
  <2>1. (j - i) * QueueLength <= 0
    BY <1>3, <1>6, SMTT(30)
  <2> QED BY <1>5, <2>1
<1>7. CASE j - i >= 1
  <2>1. (j - i) * QueueLength >= QueueLength
    BY <1>3, <1>7, SMTT(30)
  <2> QED BY <1>3, <1>5, <2>1
<1> QED BY <1>6, <1>7

-----------------------------------------------------------------------------
(* The invariant of one queue, and the operators that keep it.             *)

QueueInv(q) == q \in Queue /\ Aligned(q) /\ AwaitsNextArrival(q)

\* The fields the alignment of a ring is about.
SameRing(q, r) ==
    /\ r.head = q.head
    /\ r.tail = q.tail
    /\ r.length = q.length
    /\ r.first_frame = q.first_frame
    /\ r.last_added_frame = q.last_added_frame
    /\ r.inputs = q.inputs

\* Alignment is a matter of the ring's fields only.
LEMMA AlignedSameRing ==
    ASSUME NEW q, NEW r, SameRing(q, r), Aligned(q)
    PROVE  Aligned(r)
  BY DEF SameRing, Aligned, HeldFrames

\* The queue InputQueue::with_queue_length builds satisfies the invariant.
LEMMA NewQueueInv == QueueInv(NewQueue)
<1>1. NewQueue \in Queue
  <2>1. 0 \in Slot
    BY QueueLengthAssumption DEF Slot
  <2> QED BY <2>1, QueueLengthAssumption, InputAssumption
          DEF NewQueue, Queue, blank_input, PlayerInput, FrameOrNull, NULL_FRAME, max_frame_delay
<1>2. SlotOf(0) = 0
  <2>1. 0 \in Slot /\ 0 = 0 * QueueLength + 0
    BY QueueLengthAssumption DEF Slot
  <2> QED BY <2>1, SlotOfUnique
<1>3. previous_position(0) \in Slot
  <2>1. previous_position(SlotOf(0)) = SlotOf(0 - 1)
    BY SlotSteps
  <2> QED BY <1>2, <2>1, SlotOfType
<1>4. Aligned(NewQueue)
  BY <1>2, <1>3 DEF Aligned, HeldFrames, NewQueue, blank_input, NULL_FRAME
<1> QED BY <1>1, <1>4 DEF QueueInv, AwaitsNextArrival, NewQueue, blank_input, NULL_FRAME

\* The comparison with the episode touches no field of the ring, and an episode
\* that awaited this arrival awaits the next one or is over.
LEMMA SettlePredictionInv ==
    ASSUME NEW q \in Queue, NEW frame \in Nat, NEW v \in Input,
           q.prediction.frame \in {NULL_FRAME, frame}
    PROVE  LET s == SettlePrediction(q, frame, v)
           IN  /\ s \in Queue
               /\ SameRing(q, s)
               /\ s.prediction.frame \in {NULL_FRAME, frame + 1}
               /\ s.frame_delay = q.frame_delay
               /\ s.frozen = q.frozen
<1>1. CASE q.prediction.frame = NULL_FRAME
  BY <1>1 DEF SettlePrediction, SameRing
<1>2. CASE q.prediction.frame # NULL_FRAME
  <2>1. q.prediction.frame = frame
    BY <1>2
  <2> DEFINE incorrect == IF q.first_incorrect_frame = NULL_FRAME /\ q.prediction.input # v
                          THEN frame ELSE q.first_incorrect_frame
             next == IF EpisodeDone(q, frame, incorrect) THEN NULL_FRAME ELSE frame + 1
             s == [q EXCEPT !.first_incorrect_frame = incorrect, !.prediction.frame = next]
  <2>2. SettlePrediction(q, frame, v) = s
    BY <1>2, <2>1 DEF SettlePrediction
  <2>3. incorrect \in FrameOrNull /\ next \in FrameOrNull /\ next \in {NULL_FRAME, frame + 1}
    BY DEF Queue, FrameOrNull, NULL_FRAME
  <2> HIDE DEF incorrect, next
  <2>4. s \in Queue /\ SameRing(q, s) /\ s.prediction.frame = next
           /\ s.frame_delay = q.frame_delay /\ s.frozen = q.frozen
    BY <2>3 DEF Queue, PlayerInput, SameRing
  <2> QED BY <2>2, <2>3, <2>4
<1> QED BY <1>1, <1>2

\* What may be added to an aligned ring is the next frame.
LEMMA CanAddNext ==
    ASSUME NEW q, QueueInv(q), NEW frame \in Int, NEW floor \in Int,
           CanAddByFrame(q, frame, floor)
    PROVE  frame = q.last_added_frame + 1 /\ frame \in Nat
<1>1. q.last_added_frame \in FrameOrNull
  BY DEF QueueInv, Queue
<1>2. CASE q.last_added_frame # NULL_FRAME
  BY <1>1, <1>2 DEF CanAddByFrame, FrameOrNull, NULL_FRAME
<1>3. CASE q.last_added_frame = NULL_FRAME
  <2>1. q.inputs[previous_position(q.head)].frame = NULL_FRAME
    BY <1>3 DEF QueueInv, Aligned
  <2>2. frame # 0 => frame - 1 = NULL_FRAME
    BY <2>1 DEF CanAddByFrame
  <2> QED BY <1>3, <2>2 DEF NULL_FRAME
<1> QED BY <1>2, <1>3

\* After the eviction there is room, and the tail is the slot of the oldest frame.
LEMMA ReclaimOldestInv ==
    ASSUME NEW q, QueueInv(q), NEW floor \in Int
    PROVE  LET r == ReclaimOldest(q, floor)
           IN  /\ r \in Queue
               /\ r.length < QueueLength
               /\ r.length <= q.length
               /\ r.tail = SlotOf(q.last_added_frame + 1 - r.length)
               /\ r.head = q.head
               /\ r.inputs = q.inputs
               /\ r.last_added_frame = q.last_added_frame
               /\ r.prediction = q.prediction
               /\ r.frame_delay = q.frame_delay
               /\ r.frozen = q.frozen
<1>1. q \in Queue /\ q.length \in 0 .. QueueLength /\ q.last_added_frame \in Int
  BY DEF QueueInv, Queue, FrameOrNull, NULL_FRAME
<1>2. CASE q.length < QueueLength
  BY <1>1, <1>2 DEF ReclaimOldest, QueueInv, Aligned
<1>3. CASE ~(q.length < QueueLength)
  <2> DEFINE side == IF q.inputs[q.tail].frame = floor THEN q.inputs[q.tail]
                     ELSE q.reclaimed_floor_input
             tail == circular_index_add(q.tail, 1)
             r == [q EXCEPT !.reclaimed_floor_input = side, !.tail = tail, !.length = @ - 1]
  <2>1. ReclaimOldest(q, floor) = r
    BY <1>3 DEF ReclaimOldest
  <2>2. tail = SlotOf(q.last_added_frame + 1 - (q.length - 1))
    <3>1. q.tail = SlotOf(q.last_added_frame + 1 - q.length)
      BY DEF QueueInv, Aligned
    <3>2. tail = SlotOf(q.last_added_frame + 1 - q.length + 1)
      <4> DEFINE oldest == q.last_added_frame + 1 - q.length
      <4>1. oldest \in Int
        BY <1>1, QueueLengthAssumption
      <4> HIDE DEF oldest
      <4>2. circular_index_add(SlotOf(oldest), 1) = SlotOf(oldest + 1)
        BY <4>1, SlotSteps
      <4> QED BY <3>1, <4>2 DEF oldest
    <3>3. q.last_added_frame + 1 - q.length + 1 = q.last_added_frame + 1 - (q.length - 1)
      BY <1>1, QueueLengthAssumption
    <3> QED BY <3>2, <3>3
  <2>3. tail \in Slot
    BY <1>1, <2>2, SlotOfType, QueueLengthAssumption
  <2>4. side \in PlayerInput \cup {None}
    BY <1>1 DEF Queue
  <2> HIDE DEF side, tail
  <2>5. q.length - 1 \in 0 .. QueueLength /\ q.length - 1 < QueueLength
    BY <1>1, <1>3, QueueLengthAssumption
  <2>6. r \in Queue
    BY <1>1, <2>3, <2>4, <2>5 DEF Queue
  <2>7. /\ r.length = q.length - 1 /\ r.tail = tail /\ r.head = q.head /\ r.inputs = q.inputs
        /\ r.last_added_frame = q.last_added_frame /\ r.prediction = q.prediction
        /\ r.frame_delay = q.frame_delay /\ r.frozen = q.frozen
    BY <1>1 DEF Queue
  <2> HIDE DEF r
  <2> QED BY <1>1, <2>1, <2>2, <2>5, <2>6, <2>7, QueueLengthAssumption
<1> QED BY <1>2, <1>3

\* What one add leaves of a queue.
AddStep(q, r) ==
    /\ QueueInv(r)
    /\ r.frame_delay = q.frame_delay
    /\ r.frozen = q.frozen

\* add_input_by_frame adds the next frame and keeps the invariant, or does nothing.
LEMMA AddByFrameInv ==
    ASSUME NEW q, QueueInv(q), NEW frame \in Int, NEW v \in Input, NEW floor \in Int
    PROVE  LET res == add_input_by_frame(q, frame, v, floor)
           IN  /\ res.ok \in BOOLEAN
               /\ AddStep(q, res.q)
               /\ res.ok => frame = q.last_added_frame + 1 /\ res.q.last_added_frame = frame
               /\ ~res.ok => res.q = q
<1>1. CASE ~CanAddByFrame(q, frame, floor)
  <2>1. add_input_by_frame(q, frame, v, floor) = [ok |-> FALSE, q |-> q]
    BY <1>1 DEF add_input_by_frame
  <2> QED BY <2>1 DEF AddStep
<1>2. CASE CanAddByFrame(q, frame, floor)
  <2>1. frame = q.last_added_frame + 1 /\ frame \in Nat
    BY <1>2, CanAddNext
  <2>a. q.last_added_frame \in Int /\ q.last_added_frame = frame - 1
    BY <2>1 DEF QueueInv, Queue, FrameOrNull, NULL_FRAME
  <2> DEFINE r == ReclaimOldest(q, floor)
             w == [r EXCEPT !.inputs[r.head]       = [frame |-> frame, input |-> v],
                            !.head                 = circular_index_add(@, 1),
                            !.length               = @ + 1,
                            !.first_frame          = FALSE,
                            !.last_added_frame     = frame,
                            !.last_confirmed_input = v]
  <2>2. add_input_by_frame(q, frame, v, floor) = [ok |-> TRUE, q |-> SettlePrediction(w, frame, v)]
    BY <1>2 DEF add_input_by_frame
  <2>3. /\ r \in Queue /\ r.length < QueueLength /\ r.length <= q.length
        /\ r.tail = SlotOf(frame - r.length)
        /\ r.head = SlotOf(frame) /\ r.inputs = q.inputs
        /\ r.prediction = q.prediction /\ r.frame_delay = q.frame_delay /\ r.frozen = q.frozen
    <3>1. q.head = SlotOf(frame)
      BY <2>1 DEF QueueInv, Aligned
    <3>2. /\ r \in Queue /\ r.length < QueueLength /\ r.length <= q.length
          /\ r.tail = SlotOf(q.last_added_frame + 1 - r.length)
          /\ r.head = q.head /\ r.inputs = q.inputs
          /\ r.prediction = q.prediction /\ r.frame_delay = q.frame_delay /\ r.frozen = q.frozen
      BY ReclaimOldestInv
    <3> HIDE DEF r
    <3>3. r.length \in Int
      BY <3>2, QueueLengthAssumption DEF Queue
    <3>4. q.last_added_frame + 1 - r.length = frame - r.length
      BY <2>1, <2>a, <3>3
    <3>5. r.tail = SlotOf(frame - r.length)
      BY <3>2, <3>4
    <3> QED BY <3>1, <3>2, <3>5
  <2> HIDE DEF r
  <2>4. circular_index_add(r.head, 1) = SlotOf(frame + 1)
    BY <2>1, <2>3, SlotSteps
  <2>5. SlotOf(frame + 1) \in Slot /\ SlotOf(frame) \in Slot
    BY <2>1, SlotOfType
  <2>6. r.length \in 0 .. QueueLength /\ r.length + 1 \in 0 .. QueueLength
    BY <2>3, QueueLengthAssumption DEF Queue
  <2>7. /\ w.inputs = [q.inputs EXCEPT ![SlotOf(frame)] = [frame |-> frame, input |-> v]]
        /\ w.head = SlotOf(frame + 1) /\ w.tail = SlotOf(frame - r.length)
        /\ w.length = r.length + 1 /\ w.first_frame = FALSE /\ w.last_added_frame = frame
        /\ w.prediction = q.prediction /\ w.frame_delay = q.frame_delay /\ w.frozen = q.frozen
    BY <2>3, <2>4 DEF Queue
  <2>8. w \in Queue
    <3>1. [frame |-> frame, input |-> v] \in PlayerInput
      BY <2>1 DEF PlayerInput, FrameOrNull
    <3>2. [r.inputs EXCEPT ![r.head] = [frame |-> frame, input |-> v]] \in [Slot -> PlayerInput]
      BY <2>3, <3>1 DEF Queue
    <3>3. frame \in FrameOrNull /\ v \in Input \cup {None}
      BY <2>1 DEF FrameOrNull
    <3>4. w = [r EXCEPT !.inputs = [r.inputs EXCEPT ![r.head] = [frame |-> frame, input |-> v]],
                        !.head = SlotOf(frame + 1), !.length = r.length + 1,
                        !.first_frame = FALSE, !.last_added_frame = frame,
                        !.last_confirmed_input = v]
      BY <2>3, <2>4 DEF Queue
    <3> QED BY <2>3, <2>5, <2>6, <3>2, <3>3, <3>4 DEF Queue
  <2> HIDE DEF w
  <2>9. Aligned(w)
    <3>1. q.inputs \in [Slot -> PlayerInput] /\ q.length \in Nat /\ q.length <= frame
      BY <2>1 DEF QueueInv, Aligned, Queue
    <3>2. w.tail = SlotOf(w.last_added_frame + 1 - w.length)
      <4>1. frame + 1 - (r.length + 1) = frame - r.length
        BY <2>1, <2>6, QueueLengthAssumption
      <4> QED BY <2>7, <4>1
    <3>3. w.length <= w.last_added_frame + 1
      BY <2>1, <2>3, <2>6, <2>7, <3>1, QueueLengthAssumption
    <3>4. ASSUME NEW f \in HeldFrames(w) PROVE w.inputs[SlotOf(f)].frame = f
      <4>1. f \in frame - r.length .. frame
        BY <2>1, <2>6, <2>7, QueueLengthAssumption DEF HeldFrames
      <4>2. CASE f = frame
        BY <2>5, <2>7, <3>1, <4>2
      <4>3. CASE f # frame
        <5>1. f \in Int /\ f < frame /\ frame < f + QueueLength
          BY <2>1, <2>3, <2>6, <4>1, <4>3, QueueLengthAssumption
        <5>2. SlotOf(f) # SlotOf(frame) /\ SlotOf(f) \in Slot
          BY <2>1, <5>1, SlotsDiffer, SlotOfType
        <5>3. f \in HeldFrames(q)
          <6>1. r.length \in Int /\ r.length <= q.length /\ q.length \in Int
            BY <2>3, <2>6, <3>1, QueueLengthAssumption
          <6>2. f \in q.last_added_frame - q.length + 1 .. q.last_added_frame
            BY <2>1, <2>a, <4>1, <4>3, <6>1
          <6> QED BY <6>2 DEF HeldFrames
        <5>4. q.inputs[SlotOf(f)].frame = f
          BY <5>3 DEF QueueInv, Aligned
        <5> QED BY <2>5, <2>7, <3>1, <5>2, <5>4
      <4> QED BY <4>2, <4>3
    <3>5. previous_position(w.head) = SlotOf(frame)
      <4>1. frame + 1 \in Int /\ frame + 1 - 1 = frame
        BY <2>1
      <4> QED BY <2>7, <4>1, SlotSteps
    <3>6. w.inputs[previous_position(w.head)].frame = w.last_added_frame
      BY <2>5, <2>7, <3>1, <3>5
    <3>7. w.first_frame <=> w.last_added_frame = NULL_FRAME
      BY <2>1, <2>7 DEF NULL_FRAME
    <3> QED BY <2>7, <3>2, <3>3, <3>4, <3>6, <3>7 DEF Aligned
  <2>10. w.prediction.frame \in {NULL_FRAME, frame}
    BY <2>1, <2>7 DEF QueueInv, AwaitsNextArrival
  <2> DEFINE s == SettlePrediction(w, frame, v)
  <2>11. /\ s \in Queue /\ SameRing(w, s) /\ s.prediction.frame \in {NULL_FRAME, frame + 1}
         /\ s.frame_delay = w.frame_delay /\ s.frozen = w.frozen
    BY <2>1, <2>8, <2>10, SettlePredictionInv
  <2> HIDE DEF s
  <2>12. Aligned(s)
    BY <2>9, <2>11, AlignedSameRing
  <2>13. s.last_added_frame = frame
    BY <2>7, <2>11 DEF SameRing
  <2>14. QueueInv(s)
    BY <2>11, <2>12, <2>13 DEF QueueInv, AwaitsNextArrival
  <2>15. AddStep(q, s)
    BY <2>7, <2>11, <2>14 DEF AddStep
  <2>16. add_input_by_frame(q, frame, v, floor) = [ok |-> TRUE, q |-> s]
    BY <2>2 DEF s
  <2> DEFINE res == add_input_by_frame(q, frame, v, floor)
  <2>17. res.ok = TRUE /\ res.q = s
    BY <2>16
  <2> HIDE DEF res
  <2>18. /\ res.ok \in BOOLEAN
         /\ AddStep(q, res.q)
         /\ res.ok => frame = q.last_added_frame + 1 /\ res.q.last_added_frame = frame
         /\ ~res.ok => res.q = q
    BY <2>1, <2>13, <2>15, <2>17, Zenon
  <2> QED BY <2>18 DEF res
<1> QED BY <1>1, <1>2

-----------------------------------------------------------------------------
(* The loops over add_input_by_frame.                                      *)

\* f is the function AddRun defines recursively, over the first N adds.
IsRun(f, N, q, from, inputs, floor) ==
    f = [n \in 0 .. N |->
            IF n = 0 THEN [ok |-> TRUE, q |-> q]
            ELSE IF ~f[n - 1].ok THEN f[n - 1]
            ELSE add_input_by_frame(f[n - 1].q, from + n - 1, inputs[n], floor)]

\* The recursion of AddRun defines a function.
LEMMA RunExists ==
    ASSUME NEW N \in Nat, NEW q, NEW from, NEW inputs, NEW floor
    PROVE  \E f : IsRun(f, N, q, from, inputs, floor)
<1> DEFINE G == {n \in 0 .. N : \E f : IsRun(f, n, q, from, inputs, floor)}
<1>1. 0 \in G
  <2> DEFINE f == [n \in 0 .. 0 |-> [ok |-> TRUE, q |-> q]]
  <2>1. IsRun(f, 0, q, from, inputs, floor)
    BY DEF IsRun
  <2> HIDE DEF f
  <2> QED BY <2>1
<1>2. ASSUME NEW n \in 1 .. N, n - 1 \in G PROVE n \in G
  <2>1. PICK f : IsRun(f, n - 1, q, from, inputs, floor)
    BY <1>2
  <2> DEFINE step(i, prev) == IF ~prev.ok THEN prev
                              ELSE add_input_by_frame(prev.q, from + i - 1, inputs[i], floor)
             g == [i \in 0 .. n |-> IF i = n THEN step(n, f[n - 1]) ELSE f[i]]
  <2>2. f = [i \in 0 .. n - 1 |-> IF i = 0 THEN [ok |-> TRUE, q |-> q] ELSE step(i, f[i - 1])]
    BY <2>1 DEF IsRun
  <2> HIDE DEF step
  <2>3. ASSUME NEW i \in 0 .. n
        PROVE  g[i] = IF i = 0 THEN [ok |-> TRUE, q |-> q] ELSE step(i, g[i - 1])
    <3>1. CASE i = n
      <4>1. g[i] = step(n, f[n - 1]) /\ g[n - 1] = f[n - 1] /\ i # 0
        BY <3>1
      <4> QED BY <3>1, <4>1
    <3>2. CASE i # n /\ i # 0
      <4>1. g[i] = f[i] /\ i \in 0 .. n - 1 /\ i - 1 \in 0 .. n /\ i - 1 # n
        BY <3>2
      <4>2. g[i - 1] = f[i - 1]
        BY <4>1
      <4>3. f[i] = step(i, f[i - 1])
        BY <2>2, <3>2, <4>1
      <4> QED BY <3>2, <4>1, <4>2, <4>3
    <3>3. CASE i # n /\ i = 0
      <4>1. g[i] = f[i] /\ i \in 0 .. n - 1
        BY <3>3
      <4> QED BY <2>2, <3>3, <4>1
    <3> QED BY <3>1, <3>2, <3>3
  <2>4. g = [i \in 0 .. n |-> g[i]]
    OBVIOUS
  <2> HIDE DEF g
  <2>5. g = [i \in 0 .. n |-> IF i = 0 THEN [ok |-> TRUE, q |-> q] ELSE step(i, g[i - 1])]
    BY <2>3, <2>4
  <2>6. IsRun(g, n, q, from, inputs, floor)
    BY <2>5 DEF IsRun, step
  <2> QED BY <2>6
<1>3. \A n \in 0 .. N : n \in G
  <2> HIDE DEF G
  <2> QED BY <1>1, <1>2, IndexInduction
<1> QED BY <1>3

\* AddRun is the last value of its run.
LEMMA AddRunValue ==
    ASSUME NEW q, NEW from, NEW inputs, Len(inputs) \in Nat, NEW floor
    PROVE  \E f : /\ IsRun(f, Len(inputs), q, from, inputs, floor)
                  /\ AddRun(q, from, inputs, floor) = f[Len(inputs)]
<1> DEFINE f == CHOOSE f : IsRun(f, Len(inputs), q, from, inputs, floor)
<1>1. IsRun(f, Len(inputs), q, from, inputs, floor)
  BY RunExists
<1>2. AddRun(q, from, inputs, floor) = f[Len(inputs)]
  BY Zenon DEF AddRun, IsRun
<1> QED BY <1>1, <1>2, Zenon

\* What the first n adds of a run leave of the queue.
RunInv(q, res, n) ==
    /\ res.ok \in BOOLEAN
    /\ AddStep(q, res.q)
    /\ q.last_added_frame <= res.q.last_added_frame
    /\ res.q.last_added_frame <= q.last_added_frame + n
    /\ res.ok => res.q.last_added_frame = q.last_added_frame + n

\* A run of adds keeps the invariant, wherever it stops.
LEMMA AddRunInv ==
    ASSUME NEW q, QueueInv(q), NEW from \in Int, NEW inputs \in Seq(Input), NEW floor \in Int
    PROVE  RunInv(q, AddRun(q, from, inputs, floor), Len(inputs))
<1> DEFINE N == Len(inputs)
<1>1. N \in Nat /\ \A n \in 1 .. N : inputs[n] \in Input
  OBVIOUS
<1>2. PICK f : IsRun(f, N, q, from, inputs, floor) /\ AddRun(q, from, inputs, floor) = f[N]
  BY <1>1, AddRunValue
<1>3. q.last_added_frame \in Int
  BY DEF QueueInv, Queue, FrameOrNull, NULL_FRAME
<1> HIDE DEF N
<1> DEFINE G == {n \in 0 .. N : RunInv(q, f[n], n)}
<1>4. 0 \in G
  <2>1. f[0] = [ok |-> TRUE, q |-> q]
    BY <1>1, <1>2 DEF IsRun
  <2>2. f[0].ok = TRUE /\ f[0].q = q
    BY <2>1
  <2>3. AddStep(q, q)
    BY DEF AddStep
  <2>4. /\ q.last_added_frame <= f[0].q.last_added_frame
        /\ f[0].q.last_added_frame <= q.last_added_frame + 0
        /\ f[0].q.last_added_frame = q.last_added_frame + 0
    BY <1>3, <2>2
  <2>5. f[0].ok \in BOOLEAN /\ AddStep(q, f[0].q)
    BY <2>2, <2>3, Zenon
  <2>6. RunInv(q, f[0], 0)
    BY <2>4, <2>5, Zenon DEF RunInv
  <2> QED BY <1>1, <2>6
<1>5. ASSUME NEW n \in 1 .. N, n - 1 \in G PROVE n \in G
  <2> DEFINE p == f[n - 1]
  <2>1. RunInv(q, p, n - 1)
    BY <1>5
  <2>2. f[n] = IF ~p.ok THEN p ELSE add_input_by_frame(p.q, from + n - 1, inputs[n], floor)
    BY <1>1, <1>2 DEF IsRun
  <2>3. /\ p.ok \in BOOLEAN /\ QueueInv(p.q)
        /\ p.q.frame_delay = q.frame_delay /\ p.q.frozen = q.frozen
        /\ q.last_added_frame <= p.q.last_added_frame
        /\ p.q.last_added_frame <= q.last_added_frame + (n - 1)
        /\ p.ok => p.q.last_added_frame = q.last_added_frame + (n - 1)
    BY <2>1 DEF RunInv, AddStep
  <2>4. p.q.last_added_frame \in Int
    BY <2>3 DEF QueueInv, Queue, FrameOrNull, NULL_FRAME
  <2> HIDE DEF p
  <2>5. CASE ~p.ok
    <3>1. f[n] = p
      BY <2>2, <2>5
    <3>2. RunInv(q, p, n)
      BY <1>1, <1>3, <2>3, <2>4, <2>5 DEF RunInv, AddStep
    <3> QED BY <3>1, <3>2
  <2>6. CASE p.ok
    <3> DEFINE r == add_input_by_frame(p.q, from + n - 1, inputs[n], floor)
    <3>1. f[n] = r
      BY <2>2, <2>6
    <3>2. from + n - 1 \in Int /\ inputs[n] \in Input
      BY <1>1
    <3>3. /\ r.ok \in BOOLEAN /\ AddStep(p.q, r.q)
          /\ r.ok => from + n - 1 = p.q.last_added_frame + 1
                        /\ r.q.last_added_frame = from + n - 1
          /\ ~r.ok => r.q = p.q
      BY <2>3, <3>2, AddByFrameInv
    <3> HIDE DEF r
    <3>4. AddStep(q, r.q)
      BY <2>3, <3>3 DEF AddStep
    <3>5. CASE r.ok
      <4>1. r.q.last_added_frame = q.last_added_frame + n
        BY <1>1, <1>3, <2>3, <2>4, <2>6, <3>3, <3>5
      <4>2. RunInv(q, r, n)
        BY <1>1, <1>3, <3>3, <3>4, <4>1 DEF RunInv
      <4> QED BY <3>1, <4>2
    <3>6. CASE ~r.ok
      <4>1. r.q.last_added_frame = q.last_added_frame + (n - 1)
        BY <2>3, <2>6, <3>3, <3>6
      <4>2. RunInv(q, r, n)
        BY <1>1, <1>3, <3>3, <3>4, <3>6, <4>1 DEF RunInv
      <4> QED BY <3>1, <4>2
    <3> QED BY <3>3, <3>5, <3>6
  <2> QED BY <2>3, <2>5, <2>6
<1>6. \A n \in 0 .. N : n \in G
  <2> HIDE DEF G
  <2> QED BY <1>1, <1>4, <1>5, IndexInduction
<1>7. RunInv(q, f[N], N)
  BY <1>1, <1>6
<1> QED BY <1>2, <1>7 DEF N

\* A replicated payload is a sequence of inputs.
LEMMA ReplicateType ==
    ASSUME NEW v \in Input, NEW count \in Int
    PROVE  /\ Replicate(v, count) \in Seq(Input)
           /\ Len(Replicate(v, count)) = IF count > 0 THEN count ELSE 0
<1>1. CASE count > 0
  BY <1>1 DEF Replicate
<1>2. CASE count <= 0
  <2>1. Replicate(v, count) = << >>
    BY <1>2 DEF Replicate
  <2> QED BY <1>2, <2>1
<1> QED BY <1>1, <1>2

-----------------------------------------------------------------------------
(* Adding inputs.                                                          *)

\* The slot behind the head holds the last added frame.
LEMMA PreviousSlot ==
    ASSUME NEW q, QueueInv(q)
    PROVE  /\ q.inputs[previous_position(q.head)].frame = q.last_added_frame
           /\ q.inputs[previous_position(q.head)].input \in Input
           /\ q.last_added_frame \in FrameOrNull
           /\ q.last_added_frame \in Int
           /\ q.last_added_frame >= -1
           /\ q.frame_delay \in Nat
           /\ q.frame_delay <= max_frame_delay
<1>1. q.inputs \in [Slot -> PlayerInput] /\ q.last_added_frame \in FrameOrNull
        /\ q.frame_delay \in 0 .. max_frame_delay
  BY DEF QueueInv, Queue
<1>2. q.last_added_frame \in Int /\ q.last_added_frame >= -1
  BY <1>1 DEF FrameOrNull, NULL_FRAME
<1>3. q.head = SlotOf(q.last_added_frame + 1)
  BY DEF QueueInv, Aligned
<1>4. previous_position(q.head) \in Slot
  <2> DEFINE next == q.last_added_frame + 1
  <2>1. next \in Int /\ next - 1 \in Int
    BY <1>2
  <2> HIDE DEF next
  <2>2. previous_position(SlotOf(next)) = SlotOf(next - 1)
    BY <2>1, SlotSteps
  <2> QED BY <1>3, <2>1, <2>2, SlotOfType DEF next
<1>5. q.inputs[previous_position(q.head)] \in PlayerInput
  BY <1>1, <1>4
<1>6. q.inputs[previous_position(q.head)].input \in Input
  BY <1>5 DEF PlayerInput
<1>7. q.frame_delay \in Nat /\ q.frame_delay <= max_frame_delay
  BY <1>1, QueueLengthAssumption DEF max_frame_delay
<1> QED BY <1>1, <1>2, <1>6, <1>7 DEF QueueInv, Aligned

\* The fill stops below the delayed frame.
LEMMA AdvanceQueueHeadInv ==
    ASSUME NEW q, QueueInv(q), NEW frame \in Nat, NEW floor \in Int
    PROVE  LET res == advance_queue_head(q, frame, floor)
           IN  /\ AddStep(q, res.q)
               /\ res.frame \in {NULL_FRAME, frame + q.frame_delay}
               /\ \/ res.q.last_added_frame = q.last_added_frame
                  \/ res.q.last_added_frame <= frame + q.frame_delay
<1> DEFINE previous == q.inputs[previous_position(q.head)]
           expected == IF q.first_frame THEN 0 ELSE previous.frame + 1
           delayed  == frame + q.frame_delay
           filled   == AddRun(q, expected, Replicate(previous.input, delayed - expected), floor)
           last     == filled.q.inputs[previous_position(filled.q.head)]
           to       == IF filled.ok /\ (delayed # 0 => delayed = last.frame + 1)
                       THEN delayed ELSE NULL_FRAME
           res      == advance_queue_head(q, frame, floor)
<1>1. /\ previous.frame = q.last_added_frame /\ previous.input \in Input
      /\ q.last_added_frame \in Int /\ q.frame_delay \in Nat
  BY PreviousSlot
<1>2. q.first_frame <=> q.last_added_frame = NULL_FRAME
  BY DEF QueueInv, Aligned
<1>3. expected = q.last_added_frame + 1
  BY <1>1, <1>2 DEF NULL_FRAME
<1>4. res = IF expected > delayed THEN [frame |-> NULL_FRAME, q |-> q]
            ELSE [frame |-> to, q |-> filled.q]
  BY DEF advance_queue_head
<1>5. delayed \in Int
  BY <1>1
<1>6. AddStep(q, q)
  BY DEF AddStep
<1>7. to \in {NULL_FRAME, delayed}
  OBVIOUS
<1> HIDE DEF to, res
<1>8. CASE expected > delayed
  <2>1. res = [frame |-> NULL_FRAME, q |-> q]
    BY <1>4, <1>8
  <2>2. res.frame = NULL_FRAME /\ res.q = q
    BY <2>1
  <2> QED BY <1>6, <2>2 DEF res
<1>9. CASE ~(expected > delayed)
  <2> DEFINE count == delayed - expected
             run   == Replicate(previous.input, count)
  <2>1. count \in Nat /\ count = delayed - (q.last_added_frame + 1) /\ expected \in Int
    BY <1>1, <1>3, <1>5, <1>9
  <2> HIDE DEF previous, expected, delayed, count
  <2>2. run \in Seq(Input) /\ Len(run) = count
    <3> DEFINE v == previous.input
    <3>1. v \in Input
      BY <1>1
    <3> HIDE DEF v
    <3>2. Replicate(v, count) \in Seq(Input)
             /\ Len(Replicate(v, count)) = IF count > 0 THEN count ELSE 0
      BY <2>1, <3>1, ReplicateType
    <3> QED BY <2>1, <3>2 DEF v
  <2> HIDE DEF run
  <2>3. RunInv(q, AddRun(q, expected, run, floor), Len(run))
    BY <2>1, <2>2, AddRunInv
  <2>4. filled = AddRun(q, expected, run, floor)
    BY DEF run, count
  <2> HIDE DEF filled
  <2>5. AddStep(q, filled.q) /\ filled.q.last_added_frame <= q.last_added_frame + count
    BY <2>2, <2>3, <2>4 DEF RunInv
  <2>6. filled.q.last_added_frame \in Int
    BY <2>5, PreviousSlot DEF AddStep
  <2>7. filled.q.last_added_frame <= delayed
    BY <1>1, <1>5, <2>1, <2>5, <2>6
  <2>8. res.frame = to /\ res.q = filled.q
    BY <1>4, <1>9
  <2> QED BY <1>7, <2>5, <2>7, <2>8 DEF res, delayed
<1> QED BY <1>8, <1>9

\* An input is stored at most at its delayed frame.
LEMMA AddInputInv ==
    ASSUME NEW q, QueueInv(q), NEW frame \in Nat, NEW v \in Input, NEW floor \in Int
    PROVE  LET res == add_input(q, frame, v, floor)
           IN  /\ AddStep(q, res.q)
               /\ \/ res.q.last_added_frame = q.last_added_frame
                  \/ res.q.last_added_frame <= frame + q.frame_delay
<1> DEFINE head  == advance_queue_head(q, frame, floor)
           added == add_input_by_frame(head.q, head.frame, v, floor)
           res   == add_input(q, frame, v, floor)
<1>1. AddStep(q, q)
  BY DEF AddStep
<1>2. /\ AddStep(q, head.q)
      /\ head.frame \in {NULL_FRAME, frame + q.frame_delay}
      /\ \/ head.q.last_added_frame = q.last_added_frame
         \/ head.q.last_added_frame <= frame + q.frame_delay
  BY AdvanceQueueHeadInv
<1>3. q.frame_delay \in Nat
  BY PreviousSlot
<1>4. res.q \in {q, head.q, added.q}
  BY DEF add_input
<1> HIDE DEF head, res
<1>5. head.frame \in Int /\ QueueInv(head.q)
  BY <1>2, <1>3 DEF AddStep, NULL_FRAME
<1>6. /\ added.ok \in BOOLEAN
      /\ AddStep(head.q, added.q)
      /\ added.ok => added.q.last_added_frame = head.frame
      /\ ~added.ok => added.q = head.q
  BY <1>5, AddByFrameInv
<1> HIDE DEF added
<1>7. AddStep(q, added.q)
  BY <1>2, <1>6, Zenon DEF AddStep
<1>8. \/ added.q.last_added_frame = q.last_added_frame
      \/ added.q.last_added_frame <= frame + q.frame_delay
  <2>1. CASE ~added.ok
    BY <1>2, <1>6, <2>1, Zenon
  <2>2. CASE added.ok
    <3>1. added.q.last_added_frame = head.frame
      BY <1>6, <2>2, Zenon
    <3> QED BY <1>2, <1>3, <3>1 DEF NULL_FRAME
  <2> QED BY <2>1, <2>2
<1>9. /\ AddStep(q, res.q)
      /\ \/ res.q.last_added_frame = q.last_added_frame
         \/ res.q.last_added_frame <= frame + q.frame_delay
  BY <1>1, <1>2, <1>4, <1>7, <1>8, Zenon
<1> QED BY <1>9 DEF res

\* The gap fill stores at most delay - frame_delay frames.
LEMMA SetFrameDelayInv ==
    ASSUME NEW q, QueueInv(q), NEW delay \in Nat, NEW floor \in Int
    PROVE  LET res == set_frame_delay(q, delay, floor)
           IN  /\ QueueInv(res.q)
               /\ \/ res.q.last_added_frame = q.last_added_frame
                  \/ /\ q.last_added_frame # NULL_FRAME
                     /\ res.q.last_added_frame <= q.last_added_frame + delay - q.frame_delay
<1> DEFINE newest == q.inputs[previous_position(q.head)]
           count  == delay - q.frame_delay
           run    == Replicate(newest.input, count)
           filled == AddRun(q, q.last_added_frame + 1, run, floor)
           res    == set_frame_delay(q, delay, floor)
<1>1. /\ newest.input \in Input /\ q.last_added_frame \in Int /\ q.frame_delay \in Nat
  BY PreviousSlot
<1>2. /\ count \in Int /\ q.last_added_frame + 1 \in Int
      /\ q.last_added_frame + delay - q.frame_delay = q.last_added_frame + count
  BY <1>1
<1>3. \/ res.q = q
      \/ delay <= max_frame_delay /\ res.q = [q EXCEPT !.frame_delay = delay]
      \/ /\ delay <= max_frame_delay /\ delay > q.frame_delay
         /\ q.last_added_frame # NULL_FRAME
         /\ res.q \in {q, [filled.q EXCEPT !.frame_delay = delay]}
  <2>1. q.frame_delay \in Int /\ max_frame_delay \in Int
    BY <1>1, QueueLengthAssumption DEF max_frame_delay
  <2>2. FillOrRestore(q, filled, delay).q \in {q, [filled.q EXCEPT !.frame_delay = delay]}
    BY DEF FillOrRestore
  <2> HIDE DEF filled
  <2>3. res = IF q.frozen THEN [res |-> "Ok", q |-> q]
              ELSE IF delay > max_frame_delay THEN [res |-> "FrameDelayTooLarge", q |-> q]
              ELSE IF delay = q.frame_delay \/ q.last_added_frame = NULL_FRAME
              THEN [res |-> "Ok", q |-> [q EXCEPT !.frame_delay = delay]]
              ELSE IF delay < q.frame_delay
              THEN [res |-> "InputDelayDecreaseUnsupported", q |-> q]
              ELSE FillOrRestore(q, filled, delay)
    BY DEF set_frame_delay, filled, newest
  <2> HIDE DEF res
  <2> QED BY <2>1, <2>2, <2>3
<1>4. ASSUME NEW r, QueueInv(r), delay <= max_frame_delay
      PROVE  LET d == [r EXCEPT !.frame_delay = delay]
             IN  QueueInv(d) /\ d.last_added_frame = r.last_added_frame
  <2> DEFINE d == [r EXCEPT !.frame_delay = delay]
  <2>1. delay \in 0 .. max_frame_delay
    BY <1>4, QueueLengthAssumption DEF max_frame_delay
  <2>2. r \in Queue /\ Aligned(r) /\ AwaitsNextArrival(r)
    BY <1>4 DEF QueueInv
  <2>3. d \in Queue /\ SameRing(r, d) /\ d.prediction = r.prediction
    BY <2>1, <2>2 DEF Queue, SameRing
  <2> HIDE DEF d
  <2>4. Aligned(d) /\ d.last_added_frame = r.last_added_frame
    BY <2>2, <2>3, AlignedSameRing DEF SameRing
  <2>5. QueueInv(d) /\ d.last_added_frame = r.last_added_frame
    BY <2>2, <2>3, <2>4 DEF QueueInv, AwaitsNextArrival
  <2> QED BY <2>5 DEF d
<1> HIDE DEF newest, res
<1>5. delay > q.frame_delay
        => QueueInv(filled.q) /\ filled.q.last_added_frame <= q.last_added_frame + count
  <2> SUFFICES ASSUME delay > q.frame_delay
               PROVE  QueueInv(filled.q) /\ filled.q.last_added_frame <= q.last_added_frame + count
    OBVIOUS
  <2>1. run \in Seq(Input) /\ Len(run) = count
    <3> DEFINE v == newest.input
    <3>1. v \in Input /\ count > 0
      BY <1>1
    <3> HIDE DEF v, count
    <3>2. Replicate(v, count) \in Seq(Input) /\ Len(Replicate(v, count)) = count
      BY <1>2, <3>1, ReplicateType
    <3> QED BY <3>2 DEF v
  <2> HIDE DEF run, count
  <2>2. RunInv(q, filled, Len(run))
    BY <1>2, <2>1, AddRunInv
  <2> QED BY <2>1, <2>2 DEF RunInv, AddStep
<1> HIDE DEF filled, count
<1>6. /\ QueueInv(res.q)
      /\ \/ res.q.last_added_frame = q.last_added_frame
         \/ /\ q.last_added_frame # NULL_FRAME
            /\ res.q.last_added_frame <= q.last_added_frame + count
  BY <1>3, <1>4, <1>5
<1> QED BY <1>2, <1>6 DEF res

-----------------------------------------------------------------------------
(* Reading, discarding and freezing.                                       *)

\* A queue that differs in neither the ring nor the prediction.
LEMMA SameRingInv ==
    ASSUME NEW q, QueueInv(q), NEW r \in Queue, SameRing(q, r),
           r.prediction.frame \in {NULL_FRAME, q.prediction.frame, q.last_added_frame + 1}
    PROVE  QueueInv(r) /\ r.last_added_frame = q.last_added_frame
<1>1. Aligned(r)
  BY AlignedSameRing DEF QueueInv
<1>2. r.last_added_frame = q.last_added_frame
  BY DEF SameRing
<1> QED BY <1>1, <1>2 DEF QueueInv, AwaitsNextArrival

\* A request changes the bookkeeping of the episode only, and a prediction it
\* hands out is an input.
LEMMA RequestInv ==
    ASSUME NEW q, QueueInv(q), NEW frame \in Nat
    PROVE  LET res == input(q, frame)
           IN  /\ QueueInv(res.q)
               /\ res.q.last_added_frame = q.last_added_frame
               /\ res.status = "Predicted" => res.input \in Input
<1> DEFINE asked == [q EXCEPT !.last_requested_frame = frame]
           begun == [asked EXCEPT !.prediction =
                        [frame |-> EpisodeStart(q, frame),
                         input |-> predict(q.last_confirmed_input)]]
           res   == input(q, frame)
<1>1. q \in Queue /\ frame \in FrameOrNull /\ q.prediction.input \in Input
  BY DEF QueueInv, Queue, FrameOrNull, PlayerInput
<1>2. predict(q.last_confirmed_input) \in Input
  BY <1>1, InputAssumption DEF predict, Queue
<1>3. EpisodeStart(q, frame) = q.last_added_frame + 1 /\ EpisodeStart(q, frame) \in FrameOrNull
  BY PreviousSlot DEF EpisodeStart, FrameOrNull
<1>4. asked \in Queue /\ SameRing(q, asked) /\ asked.prediction = q.prediction
  BY <1>1 DEF Queue, SameRing
<1>5. /\ begun \in Queue /\ SameRing(q, begun)
      /\ begun.prediction.frame = q.last_added_frame + 1
      /\ begun.prediction.input = predict(q.last_confirmed_input)
  <2>1. [frame |-> EpisodeStart(q, frame), input |-> predict(q.last_confirmed_input)] \in PlayerInput
    BY <1>2, <1>3 DEF PlayerInput
  <2> QED BY <1>1, <1>3, <2>1 DEF Queue, SameRing
<1>6. res.q \in {q, asked, begun}
  BY DEF input
<1>7. res.status = "Predicted"
        => res.input \in {q.prediction.input, begun.prediction.input}
  BY DEF input
<1> HIDE DEF asked, begun, res
<1>8. QueueInv(asked) /\ asked.last_added_frame = q.last_added_frame
  BY <1>4, SameRingInv
<1>9. QueueInv(begun) /\ begun.last_added_frame = q.last_added_frame
  BY <1>5, SameRingInv
<1>10. /\ QueueInv(res.q)
       /\ res.q.last_added_frame = q.last_added_frame
       /\ res.status = "Predicted" => res.input \in Input
  BY <1>1, <1>2, <1>5, <1>6, <1>7, <1>8, <1>9
<1> QED BY <1>10 DEF res

\* reset_prediction ends the episode and leaves the ring alone.
LEMMA ResetPredictionInv ==
    ASSUME NEW q, QueueInv(q)
    PROVE  LET r == reset_prediction(q)
           IN  QueueInv(r) /\ r.last_added_frame = q.last_added_frame
<1> DEFINE r == reset_prediction(q)
<1>1. q \in Queue
  BY DEF QueueInv
<1>2. r \in Queue /\ SameRing(q, r) /\ r.prediction.frame = NULL_FRAME
  BY <1>1 DEF reset_prediction, Queue, SameRing, PlayerInput, FrameOrNull, NULL_FRAME
<1> HIDE DEF r
<1>3. QueueInv(r) /\ r.last_added_frame = q.last_added_frame
  BY <1>2, SameRingInv
<1> QED BY <1>3 DEF r

\* A ring whose tail moves up over `gone` held frames stays aligned.
LEMMA MoveTailInv ==
    ASSUME NEW q, QueueInv(q), NEW side \in PlayerInput \cup {None},
           NEW gone \in Nat, gone <= q.length
    PROVE  LET r == [q EXCEPT !.reclaimed_floor_input = side,
                              !.tail   = SlotOf(q.last_added_frame + 1 - (q.length - gone)),
                              !.length = q.length - gone]
           IN  QueueInv(r) /\ r.last_added_frame = q.last_added_frame
<1> DEFINE left == q.length - gone
           tail == SlotOf(q.last_added_frame + 1 - left)
           r    == [q EXCEPT !.reclaimed_floor_input = side, !.tail = tail, !.length = left]
<1>1. q \in Queue /\ q.length \in 0 .. QueueLength /\ q.last_added_frame \in Int
  BY PreviousSlot DEF QueueInv, Queue
<1>2. left \in 0 .. QueueLength /\ left <= q.length /\ left \in Int
  BY <1>1, QueueLengthAssumption
<1>3. q.last_added_frame + 1 - left \in Int
  BY <1>1, <1>2
<1> HIDE DEF left
<1>4. tail \in Slot
  BY <1>3, SlotOfType
<1> HIDE DEF tail
<1>5. r \in Queue
  BY <1>1, <1>2, <1>4 DEF Queue
<1>6. /\ r.head = q.head /\ r.tail = tail /\ r.length = left
      /\ r.first_frame = q.first_frame /\ r.last_added_frame = q.last_added_frame
      /\ r.inputs = q.inputs /\ r.prediction = q.prediction
  BY <1>1 DEF Queue
<1> HIDE DEF r
<1>7. HeldFrames(r) \subseteq HeldFrames(q)
  BY <1>1, <1>2, <1>6, QueueLengthAssumption DEF HeldFrames
<1>8. r.length <= r.last_added_frame + 1
  BY <1>1, <1>2, <1>6, QueueLengthAssumption DEF QueueInv, Aligned
<1>9. Aligned(r)
  BY <1>6, <1>7, <1>8 DEF QueueInv, Aligned, tail
<1>10. QueueInv(r) /\ r.last_added_frame = q.last_added_frame
  BY <1>5, <1>6, <1>9 DEF QueueInv, AwaitsNextArrival
<1> QED BY <1>10 DEF r, tail, left

\* Every branch of discard_confirmed_frames moves the tail over held frames or not at all.
LEMMA DiscardInv ==
    ASSUME NEW q, QueueInv(q), NEW before \in Nat
    PROVE  LET r == discard_confirmed_frames(q, before)
           IN  QueueInv(r) /\ r.last_added_frame = q.last_added_frame
<1> DEFINE frame  == DiscardBound(q, before)
           side   == IF q.reclaimed_floor_input # None /\ q.reclaimed_floor_input.frame < frame
                     THEN None ELSE q.reclaimed_floor_input
           kept   == [q EXCEPT !.reclaimed_floor_input = side]
           offset == frame - q.inputs[q.tail].frame
           r      == discard_confirmed_frames(q, before)
<1>1. /\ q \in Queue /\ q.length \in 0 .. QueueLength /\ q.last_added_frame \in Int
      /\ q.length <= q.last_added_frame + 1
  BY PreviousSlot DEF QueueInv, Queue, Aligned
<1>2. side \in PlayerInput \cup {None}
  BY <1>1 DEF Queue
<1>3. frame \in Int
  BY <1>1 DEF DiscardBound, MinFrame, Queue, FrameOrNull, NULL_FRAME
<1>4. r = IF q.length = 0 THEN q
          ELSE IF frame >= q.last_added_frame
          THEN [kept EXCEPT !.tail = previous_position(q.head), !.length = 1]
          ELSE IF offset <= 0 \/ offset > q.length THEN kept
          ELSE [kept EXCEPT !.tail = circular_index_add(@, offset), !.length = @ - offset]
  BY DEF discard_confirmed_frames
<1> HIDE DEF r, side, frame
<1>5. CASE q.length = 0
  <2>1. r = q
    BY <1>4, <1>5
  <2> QED BY <2>1 DEF r
<1>6. CASE q.length # 0 /\ frame >= q.last_added_frame
  <2> DEFINE gone == q.length - 1
  <2>1. gone \in Nat /\ gone <= q.length /\ q.length - gone = 1
    BY <1>1, <1>6, QueueLengthAssumption
  <2>2. previous_position(q.head) = SlotOf(q.last_added_frame + 1 - 1)
    <3> DEFINE next == q.last_added_frame + 1
    <3>1. q.head = SlotOf(next) /\ next \in Int
      BY <1>1 DEF QueueInv, Aligned
    <3> HIDE DEF next
    <3>2. previous_position(SlotOf(next)) = SlotOf(next - 1)
      BY <3>1, SlotSteps
    <3>3. next - 1 = q.last_added_frame + 1 - 1
      BY <1>1 DEF next
    <3> QED BY <3>1, <3>2, <3>3
  <2>3. r = [q EXCEPT !.reclaimed_floor_input = side,
                      !.tail = SlotOf(q.last_added_frame + 1 - (q.length - gone)),
                      !.length = q.length - gone]
    BY <1>4, <1>6, <2>1, <2>2
  <2> HIDE DEF gone
  <2>4. QueueInv(r) /\ r.last_added_frame = q.last_added_frame
    BY <1>2, <2>1, <2>3, MoveTailInv
  <2> QED BY <2>4 DEF r
<1>7. CASE q.length # 0 /\ ~(frame >= q.last_added_frame) /\ (offset <= 0 \/ offset > q.length)
  <2>1. r = kept
    BY <1>4, <1>7
  <2>2. kept \in Queue /\ SameRing(q, kept) /\ kept.prediction = q.prediction
    BY <1>1, <1>2 DEF Queue, SameRing
  <2> HIDE DEF kept
  <2>3. QueueInv(kept) /\ kept.last_added_frame = q.last_added_frame
    BY <2>2, SameRingInv
  <2> QED BY <2>1, <2>3 DEF r
<1>8. CASE q.length # 0 /\ ~(frame >= q.last_added_frame) /\ ~(offset <= 0 \/ offset > q.length)
  <2>1. q.inputs[q.tail].frame \in Int
    BY <1>1 DEF Queue, PlayerInput, FrameOrNull, NULL_FRAME
  <2>2. offset \in Nat /\ offset <= q.length
    BY <1>1, <1>3, <1>8, <2>1, QueueLengthAssumption
  <2>3. circular_index_add(q.tail, offset) = SlotOf(q.last_added_frame + 1 - (q.length - offset))
    <3> DEFINE oldest == q.last_added_frame + 1 - q.length
    <3>1. q.tail = SlotOf(oldest) /\ oldest \in Int
      BY <1>1, QueueLengthAssumption DEF QueueInv, Aligned
    <3>2. oldest + offset = q.last_added_frame + 1 - (q.length - offset)
      BY <1>1, <2>2, QueueLengthAssumption
    <3> HIDE DEF oldest, offset
    <3>3. circular_index_add(SlotOf(oldest), offset) = SlotOf(oldest + offset)
      BY <2>2, <3>1, SlotSteps
    <3> QED BY <3>1, <3>2, <3>3
  <2> HIDE DEF offset
  <2>4. r = [q EXCEPT !.reclaimed_floor_input = side,
                      !.tail = SlotOf(q.last_added_frame + 1 - (q.length - offset)),
                      !.length = q.length - offset]
    <3>1. r = [kept EXCEPT !.tail = circular_index_add(q.tail, offset),
                           !.length = q.length - offset]
      BY <1>1, <1>4, <1>8 DEF Queue
    <3> QED BY <2>3, <3>1
  <2>5. QueueInv(r) /\ r.last_added_frame = q.last_added_frame
    BY <1>2, <2>2, <2>4, MoveTailInv
  <2> QED BY <2>5 DEF r
<1> QED BY <1>5, <1>6, <1>7, <1>8

\* A lookup of a confirmed input returns an input or None.
LEMMA ConfirmedInputType ==
    ASSUME NEW q \in Queue, NEW frame \in Int
    PROVE  /\ confirmed_input(q, frame) \in Input \cup {None}
           /\ retained_confirmed_input(q, frame) \in Input \cup {None}
<1>1. SlotOf(frame) \in Slot
  BY SlotOfType
<1>2. confirmed_input(q, frame) \in Input \cup {None}
  BY <1>1 DEF confirmed_input, Queue, PlayerInput
<1> QED BY <1>2 DEF retained_confirmed_input

\* Freezing and repeating another value touch neither the ring nor the episode.
LEMMA RepeatValueInv ==
    ASSUME NEW q, QueueInv(q), NEW value \in Input \cup {None}, NEW frozen \in BOOLEAN
    PROVE  LET r == [q EXCEPT !.last_confirmed_input = value, !.frozen = frozen]
           IN  QueueInv(r) /\ r.last_added_frame = q.last_added_frame
<1> DEFINE r == [q EXCEPT !.last_confirmed_input = value, !.frozen = frozen]
<1>1. q \in Queue
  BY DEF QueueInv
<1>2. r \in Queue /\ SameRing(q, r) /\ r.prediction = q.prediction
  BY <1>1 DEF Queue, SameRing
<1> HIDE DEF r
<1>3. QueueInv(r) /\ r.last_added_frame = q.last_added_frame
  BY <1>2, SameRingInv
<1> QED BY <1>3 DEF r

\* The four ways to freeze or re-roll a queue keep the invariant.
LEMMA FreezeInv ==
    ASSUME NEW q, QueueInv(q), NEW frame \in FrameOrNull, NEW value \in Input \cup {None}
    PROVE  /\ QueueInv(freeze_at(q, frame))
           /\ freeze_at(q, frame).last_added_frame = q.last_added_frame
           /\ QueueInv(set_frozen_value_at(q, frame))
           /\ set_frozen_value_at(q, frame).last_added_frame = q.last_added_frame
           /\ QueueInv(freeze_at_prevalidated_cut(q, frame))
           /\ freeze_at_prevalidated_cut(q, frame).last_added_frame = q.last_added_frame
           /\ QueueInv(refreeze_with_value(q, value))
           /\ refreeze_with_value(q, value).last_added_frame = q.last_added_frame
<1> DEFINE set(v, b) == [q EXCEPT !.last_confirmed_input = v, !.frozen = b]
           ok(r) == QueueInv(r) /\ r.last_added_frame = q.last_added_frame
           at == confirmed_input(q, frame)
           held == retained_confirmed_input(q, frame)
<1>1. q \in Queue /\ frame \in Int
  BY DEF QueueInv, FrameOrNull, NULL_FRAME
<1>2. q.frozen \in BOOLEAN /\ q.last_confirmed_input \in Input \cup {None}
  BY <1>1 DEF Queue
<1>3. at \in Input \cup {None} /\ held \in Input \cup {None}
  BY <1>1, ConfirmedInputType
<1>4. \A v \in Input \cup {None}, b \in BOOLEAN : ok(set(v, b))
  BY RepeatValueInv
<1>5. ok(q)
  OBVIOUS
<1>6. roll_confirmed_input_to(q, frame) \in {q, set(at, q.frozen)}
  BY <1>1 DEF roll_confirmed_input_to, Queue
<1>7. freeze_at(q, frame) \in {q, set(q.last_confirmed_input, TRUE), set(at, TRUE)}
  BY <1>1, <1>6 DEF freeze_at, Queue
<1>8. set_frozen_value_at(q, frame) \in {q, set(at, q.frozen)}
  BY <1>6 DEF set_frozen_value_at
<1>9. freeze_at_prevalidated_cut(q, frame) \in {q, set(held, TRUE)}
  BY DEF freeze_at_prevalidated_cut
<1>10. refreeze_with_value(q, value) = set(value, TRUE)
  BY DEF refreeze_with_value
<1> HIDE DEF set, at, held, ok
<1>11. /\ ok(freeze_at(q, frame)) /\ ok(set_frozen_value_at(q, frame))
       /\ ok(freeze_at_prevalidated_cut(q, frame)) /\ ok(refreeze_with_value(q, value))
  BY <1>2, <1>3, <1>4, <1>5, <1>7, <1>8, <1>9, <1>10
<1> QED BY <1>11 DEF ok

\* A reopened queue is an empty aligned ring in front of its activation frame.
LEMMA ReopenInv ==
    ASSUME NEW q, QueueInv(q), NEW frame \in Nat
    PROVE  QueueInv(reset_to_frame(q, frame))
<1> DEFINE delayed == frame + q.frame_delay
           next    == SlotOf(delayed)
           value   == predict(q.last_confirmed_input)
           phantom == [frame |-> delayed - 1, input |-> value]
           blank   == [s \in Slot |-> blank_input(NULL_FRAME)]
           ring    == IF delayed - 1 = NULL_FRAME THEN blank
                      ELSE [blank EXCEPT ![previous_position(next)] = phantom]
           first   == delayed - 1 = NULL_FRAME
           r       == [NewQueue EXCEPT
                          !.head                 = next,
                          !.tail                 = next,
                          !.first_frame          = first,
                          !.last_added_frame     = delayed - 1,
                          !.frame_delay          = q.frame_delay,
                          !.inputs               = ring,
                          !.last_confirmed_input = q.last_confirmed_input]
<1>1. /\ q.frame_delay \in Nat /\ q.frame_delay \in 0 .. max_frame_delay
      /\ q.last_confirmed_input \in Input \cup {None}
  BY PreviousSlot DEF QueueInv, Queue
<1>2. value \in Input
  BY <1>1, InputAssumption DEF predict
<1>3. delayed \in Nat /\ delayed \in Int /\ delayed - 1 \in FrameOrNull
  BY <1>1 DEF FrameOrNull, NULL_FRAME
<1>4. reset_to_frame(q, frame) = r
  BY DEF reset_to_frame, ReopenedSlot, ReopenedRing
<1> HIDE DEF delayed, value
<1>5. next \in Slot /\ previous_position(next) = SlotOf(delayed - 1) /\ SlotOf(delayed - 1) \in Slot
  <2>1. delayed - 1 \in Int
    BY <1>3
  <2> QED BY <1>3, <2>1, SlotSteps, SlotOfType
<1>6. phantom \in PlayerInput /\ blank_input(NULL_FRAME) \in PlayerInput
  BY <1>2, <1>3, InputAssumption DEF PlayerInput, blank_input, FrameOrNull
<1>7. /\ ring \in [Slot -> PlayerInput]
      /\ ring[previous_position(next)].frame = delayed - 1
  <2>1. CASE delayed - 1 = NULL_FRAME
    BY <1>5, <1>6, <2>1 DEF blank_input
  <2>2. CASE delayed - 1 # NULL_FRAME
    BY <1>5, <1>6, <2>2
  <2> QED BY <2>1, <2>2
<1>8. first \in BOOLEAN /\ (first <=> delayed - 1 = NULL_FRAME)
  OBVIOUS
<1>9. NewQueue \in Queue
  BY NewQueueInv DEF QueueInv
<1> HIDE DEF ring, next, first
<1>10. r \in Queue
  BY <1>1, <1>3, <1>5, <1>7, <1>8, <1>9 DEF Queue
<1>11. /\ r.head = next /\ r.tail = next /\ r.length = 0 /\ r.first_frame = first
       /\ r.last_added_frame = delayed - 1 /\ r.inputs = ring
       /\ r.prediction.frame = NULL_FRAME
  BY DEF NewQueue, blank_input
<1> HIDE DEF r
<1>12. delayed - 1 + 1 = delayed /\ delayed - 1 + 1 - 0 = delayed /\ 0 <= delayed - 1 + 1
  BY <1>3
<1>13. HeldFrames(r) = {}
  BY <1>3, <1>11 DEF HeldFrames
<1>14. Aligned(r)
  BY <1>7, <1>8, <1>11, <1>12, <1>13 DEF Aligned, next
<1>15. QueueInv(r)
  BY <1>10, <1>11, <1>14 DEF QueueInv, AwaitsNextArrival
<1> QED BY <1>4, <1>15

-----------------------------------------------------------------------------
(* Backfill.                                                               *)

\* Of consecutive frames, those past last_added_frame are a suffix.
LEMMA MissingFromType ==
    ASSUME NEW q, q.last_added_frame \in Int, NEW inputs, NEW n \in Nat, Len(inputs) = n,
           NEW from \in Int, \A i \in 1 .. n : inputs[i].frame = from + i - 1
    PROVE  /\ MissingFrom(q, inputs) \in 1 .. n + 1
           /\ MissingFrom(q, inputs) <= n
                => inputs[MissingFrom(q, inputs)].frame > q.last_added_frame
<1> DEFINE last == q.last_added_frame
           P(i) == /\ i <= Len(inputs) => inputs[i].frame > last
                   /\ \A j \in 1 .. i - 1 : inputs[j].frame <= last
           w    == IF from > last THEN 1
                   ELSE IF from + n - 1 <= last THEN n + 1 ELSE last - from + 2
<1>1. w \in 1 .. n + 1
  OBVIOUS
<1>2. P(w)
  OBVIOUS
<1>3. \E i \in 1 .. Len(inputs) + 1 : P(i)
  BY <1>1, <1>2
<1>4. MissingFrom(q, inputs) = CHOOSE i \in 1 .. Len(inputs) + 1 : P(i)
  BY DEF MissingFrom
<1> HIDE DEF P
<1>5. MissingFrom(q, inputs) \in 1 .. Len(inputs) + 1 /\ P(MissingFrom(q, inputs))
  BY <1>3, <1>4
<1> QED BY <1>5 DEF P

\* What the backfill of a run of values makes of a queue.
Backfilled(q, from, values, floor) ==
    install_missing_backfill(
        q, [i \in 1 .. Len(values) |-> [frame |-> from + i - 1, input |-> values[i]]], floor).q

\* The frames a backfill adds are frames it holds values for.
LEMMA BackfillInv ==
    ASSUME NEW q, QueueInv(q), NEW from \in Nat, NEW n \in Nat,
           NEW values \in [1 .. n -> Input], NEW floor \in Int
    PROVE  LET r == Backfilled(q, from, values, floor)
           IN  /\ QueueInv(r)
               /\ q.last_added_frame <= r.last_added_frame
               /\ \/ r.last_added_frame = q.last_added_frame
                  \/ from <= q.last_added_frame + 1 /\ r.last_added_frame <= from + n - 1
<1>1. Len(values) = n
  OBVIOUS
<1> DEFINE inputs == [i \in 1 .. Len(values) |-> [frame |-> from + i - 1, input |-> values[i]]]
           start  == MissingFrom(q, inputs)
           suffix == [i \in 1 .. Len(inputs) + 1 - start |-> inputs[start + i - 1].input]
           r      == Backfilled(q, from, values, floor)
           run    == AddRun(q, q.last_added_frame + 1, suffix, floor)
<1>2. q.last_added_frame \in Int /\ q.last_added_frame + 1 \in Int
  BY PreviousSlot
<1>3. /\ Len(inputs) = n
      /\ \A i \in 1 .. n : inputs[i].frame = from + i - 1 /\ inputs[i].input \in Input
  BY <1>1
<1>4. \/ r = q
      \/ BackfillValid(q, inputs, floor) /\ r = run.q
  BY DEF Backfilled, install_missing_backfill
<1> HIDE DEF inputs, r
<1>5. start \in 1 .. n + 1 /\ (start <= n => inputs[start].frame > q.last_added_frame)
  <2>1. \A i \in 1 .. n : inputs[i].frame = from + i - 1
    BY <1>3
  <2>2. from \in Int /\ Len(inputs) = n
    BY <1>3
  <2> QED BY <1>2, <2>1, <2>2, MissingFromType, Zenon
<1> HIDE DEF start
<1> DEFINE count == n + 1 - start
<1>6. count \in Nat /\ Len(inputs) + 1 - start = count
  BY <1>3, <1>5
<1>7. suffix \in Seq(Input) /\ Len(suffix) = count
  <2>1. suffix = [i \in 1 .. count |-> inputs[start + i - 1].input]
    BY <1>6
  <2>2. ASSUME NEW i \in 1 .. count PROVE inputs[start + i - 1].input \in Input
    <3>1. start + i - 1 \in 1 .. n
      BY <1>5, <1>6
    <3> QED BY <1>3, <3>1
  <2> HIDE DEF suffix, count
  <2> QED BY <1>6, <2>1, <2>2
<1> HIDE DEF suffix
<1>8. RunInv(q, run, count)
  BY <1>2, <1>7, AddRunInv
<1> HIDE DEF run
<1>9. CASE r = q
  BY <1>2, <1>9 DEF r
<1>10. CASE BackfillValid(q, inputs, floor) /\ r = run.q
  <2>1. /\ QueueInv(r) /\ q.last_added_frame <= r.last_added_frame
        /\ r.last_added_frame <= q.last_added_frame + count
    BY <1>8, <1>10 DEF RunInv, AddStep
  <2>2. r.last_added_frame \in Int
    BY <2>1, PreviousSlot
  <2>3. CASE start = n + 1
    <3>1. count = 0
      BY <1>5, <2>3
    <3>2. r.last_added_frame = q.last_added_frame
      BY <1>2, <2>1, <2>2, <3>1
    <3> QED BY <2>1, <3>2 DEF r
  <2>4. CASE start # n + 1
    <3>1. start \in 1 .. n
      BY <1>5, <2>4
    <3>2. inputs[start].frame = q.last_added_frame + 1
      BY <1>3, <1>10, <3>1 DEF BackfillValid, start
    <3>3. from + start - 1 = q.last_added_frame + 1
      BY <1>3, <3>1, <3>2
    <3>4. from <= q.last_added_frame + 1 /\ r.last_added_frame <= from + n - 1
      BY <1>2, <2>1, <2>2, <3>1, <3>3
    <3> QED BY <2>1, <3>4 DEF r
  <2> QED BY <2>3, <2>4
<1> QED BY <1>4, <1>9, <1>10

-----------------------------------------------------------------------------
(* One add, field by field.                                                *)

\* The comparison of an arrival with an episode that awaits it.
Settled(q, r, frame, v) ==
    /\ r.prediction.input = q.prediction.input
    /\ r.first_incorrect_frame =
           IF /\ q.prediction.frame # NULL_FRAME
              /\ q.first_incorrect_frame = NULL_FRAME
              /\ q.prediction.input # v
           THEN frame ELSE q.first_incorrect_frame
    /\ r.prediction.frame =
           IF q.prediction.frame = NULL_FRAME \/ EpisodeDone(q, frame, r.first_incorrect_frame)
           THEN NULL_FRAME ELSE frame + 1

\* What add_input_by_frame leaves when it accepts the frame.
Added(q, r, frame, v, floor) ==
    /\ r.inputs = [q.inputs EXCEPT ![SlotOf(frame)] = [frame |-> frame, input |-> v]]
    /\ r.last_added_frame = frame
    /\ r.last_requested_frame = q.last_requested_frame
    /\ r.length = IF q.length < QueueLength THEN q.length + 1 ELSE QueueLength
    /\ r.reclaimed_floor_input =
           IF q.length < QueueLength \/ q.inputs[q.tail].frame # floor
           THEN q.reclaimed_floor_input ELSE q.inputs[q.tail]
    /\ Settled(q, r, frame, v)

\* The fields SettlePrediction sets, and those it leaves.
LEMMA SettleFields ==
    ASSUME NEW q \in Queue, NEW frame \in Nat, NEW v \in Input,
           q.prediction.frame \in {NULL_FRAME, frame}
    PROVE  LET s == SettlePrediction(q, frame, v)
           IN  /\ Settled(q, s, frame, v)
               /\ s.last_requested_frame = q.last_requested_frame
               /\ s.reclaimed_floor_input = q.reclaimed_floor_input
<1>1. CASE q.prediction.frame = NULL_FRAME
  BY <1>1 DEF SettlePrediction, Settled
<1>2. CASE q.prediction.frame # NULL_FRAME
  <2>1. q.prediction.frame = frame
    BY <1>2
  <2> DEFINE incorrect == IF q.first_incorrect_frame = NULL_FRAME /\ q.prediction.input # v
                          THEN frame ELSE q.first_incorrect_frame
             next == IF EpisodeDone(q, frame, incorrect) THEN NULL_FRAME ELSE frame + 1
             s == [q EXCEPT !.first_incorrect_frame = incorrect, !.prediction.frame = next]
  <2>2. SettlePrediction(q, frame, v) = s
    BY <1>2, <2>1 DEF SettlePrediction
  <2>3. incorrect = IF /\ q.prediction.frame # NULL_FRAME
                       /\ q.first_incorrect_frame = NULL_FRAME
                       /\ q.prediction.input # v
                    THEN frame ELSE q.first_incorrect_frame
    BY <1>2
  <2>4. next = IF q.prediction.frame = NULL_FRAME \/ EpisodeDone(q, frame, incorrect)
               THEN NULL_FRAME ELSE frame + 1
    BY <1>2
  <2> HIDE DEF incorrect, next
  <2>5. /\ s.first_incorrect_frame = incorrect
        /\ s.prediction.frame = next /\ s.prediction.input = q.prediction.input
        /\ s.last_requested_frame = q.last_requested_frame
        /\ s.reclaimed_floor_input = q.reclaimed_floor_input
    BY DEF Queue, PlayerInput
  <2> HIDE DEF s
  <2> QED BY <2>2, <2>3, <2>4, <2>5 DEF Settled
<1> QED BY <1>1, <1>2

\* The fields ReclaimOldest sets, and those it leaves.
LEMMA ReclaimFields ==
    ASSUME NEW q \in Queue, NEW floor \in Int
    PROVE  LET r == ReclaimOldest(q, floor)
           IN  /\ r.length = IF q.length < QueueLength THEN q.length ELSE q.length - 1
               /\ r.reclaimed_floor_input =
                      IF q.length < QueueLength \/ q.inputs[q.tail].frame # floor
                      THEN q.reclaimed_floor_input ELSE q.inputs[q.tail]
               /\ r.prediction = q.prediction
               /\ r.first_incorrect_frame = q.first_incorrect_frame
               /\ r.last_requested_frame = q.last_requested_frame
BY DEF ReclaimOldest, Queue

\* What add_input_by_frame makes of a queue when it accepts a frame.
LEMMA AddFields ==
    ASSUME NEW q, QueueInv(q), NEW frame \in Int, NEW v \in Input, NEW floor \in Int,
           CanAddByFrame(q, frame, floor)
    PROVE  LET res == add_input_by_frame(q, frame, v, floor)
           IN  res.ok = TRUE /\ Added(q, res.q, frame, v, floor)
<1>1. frame = q.last_added_frame + 1 /\ frame \in Nat
  BY CanAddNext
<1> DEFINE r == ReclaimOldest(q, floor)
           w == [r EXCEPT !.inputs[r.head]       = [frame |-> frame, input |-> v],
                          !.head                 = circular_index_add(@, 1),
                          !.length               = @ + 1,
                          !.first_frame          = FALSE,
                          !.last_added_frame     = frame,
                          !.last_confirmed_input = v]
           s == SettlePrediction(w, frame, v)
<1>2. add_input_by_frame(q, frame, v, floor) = [ok |-> TRUE, q |-> s]
  BY DEF add_input_by_frame
<1>3. /\ r \in Queue /\ r.head = q.head /\ r.inputs = q.inputs /\ r.length < QueueLength
  BY ReclaimOldestInv
<1>4. /\ r.length = IF q.length < QueueLength THEN q.length ELSE q.length - 1
      /\ r.reclaimed_floor_input =
             IF q.length < QueueLength \/ q.inputs[q.tail].frame # floor
             THEN q.reclaimed_floor_input ELSE q.inputs[q.tail]
      /\ r.prediction = q.prediction
      /\ r.first_incorrect_frame = q.first_incorrect_frame
      /\ r.last_requested_frame = q.last_requested_frame
  BY ReclaimFields DEF QueueInv
<1>5. q.head = SlotOf(frame) /\ q.length \in 0 .. QueueLength
        /\ q.prediction.frame \in {NULL_FRAME, frame}
  BY <1>1 DEF QueueInv, Aligned, AwaitsNextArrival, Queue
<1> HIDE DEF r
<1>6. SlotOf(frame) \in Slot /\ SlotOf(frame + 1) \in Slot
        /\ circular_index_add(SlotOf(frame), 1) = SlotOf(frame + 1)
  <2>1. SlotOf(frame) \in Slot /\ SlotOf(frame + 1) \in Slot
    BY <1>1, SlotOfType
  <2>2. \A k \in Int : circular_index_add(SlotOf(frame), k) = SlotOf(frame + k)
    BY SlotSteps, Zenon
  <2>3. circular_index_add(SlotOf(frame), 1) = SlotOf(frame + 1)
    BY <2>2
  <2> QED BY <2>1, <2>3
<1>7. r.length + 1 \in 0 .. QueueLength
  BY <1>3, QueueLengthAssumption DEF Queue
<1>8. w \in Queue
  <2>1. [frame |-> frame, input |-> v] \in PlayerInput
    BY <1>1 DEF PlayerInput, FrameOrNull
  <2>2. [r.inputs EXCEPT ![r.head] = [frame |-> frame, input |-> v]] \in [Slot -> PlayerInput]
    BY <1>3, <2>1 DEF Queue
  <2>3. frame \in FrameOrNull /\ v \in Input \cup {None}
    BY <1>1 DEF FrameOrNull
  <2>4. w = [r EXCEPT !.inputs = [r.inputs EXCEPT ![r.head] = [frame |-> frame, input |-> v]],
                      !.head = SlotOf(frame + 1), !.length = r.length + 1,
                      !.first_frame = FALSE, !.last_added_frame = frame,
                      !.last_confirmed_input = v]
    BY <1>3, <1>5, <1>6 DEF Queue
  <2> QED BY <1>3, <1>6, <1>7, <2>2, <2>3, <2>4 DEF Queue
<1>9. /\ w.inputs = [q.inputs EXCEPT ![SlotOf(frame)] = [frame |-> frame, input |-> v]]
      /\ w.length = r.length + 1 /\ w.last_added_frame = frame
      /\ w.prediction = r.prediction /\ w.first_incorrect_frame = r.first_incorrect_frame
      /\ w.last_requested_frame = r.last_requested_frame
      /\ w.reclaimed_floor_input = r.reclaimed_floor_input
  BY <1>3, <1>5 DEF Queue
<1> HIDE DEF w
<1>10. /\ s \in Queue /\ SameRing(w, s) /\ Settled(w, s, frame, v)
       /\ s.last_requested_frame = w.last_requested_frame
       /\ s.reclaimed_floor_input = w.reclaimed_floor_input
  BY <1>1, <1>4, <1>5, <1>8, <1>9, SettlePredictionInv, SettleFields
<1> HIDE DEF s
<1>11. Settled(q, s, frame, v)
  BY <1>4, <1>9, <1>10 DEF Settled, EpisodeDone
<1>12. s.length = IF q.length < QueueLength THEN q.length + 1 ELSE QueueLength
  BY <1>4, <1>5, <1>9, <1>10, QueueLengthAssumption DEF SameRing
<1>13. Added(q, s, frame, v, floor)
  BY <1>4, <1>9, <1>10, <1>11, <1>12 DEF Added, SameRing
<1> QED BY <1>2, <1>13

-----------------------------------------------------------------------------
(* Runs of adds.                                                           *)

\* A run stays in every set of queues that each of its adds stays in.
LEMMA RunStays ==
    ASSUME NEW Q, NEW q \in Q, NEW from, NEW inputs, NEW N \in Nat, Len(inputs) = N, NEW floor,
           \A r \in Q, n \in 1 .. N :
               add_input_by_frame(r, from + n - 1, inputs[n], floor).q \in Q
    PROVE  AddRun(q, from, inputs, floor).q \in Q
<1>1. PICK f : IsRun(f, N, q, from, inputs, floor) /\ AddRun(q, from, inputs, floor) = f[N]
  BY AddRunValue
<1> DEFINE G == {n \in 0 .. N : f[n].q \in Q}
<1>2. 0 \in G
  <2>1. f[0] = [ok |-> TRUE, q |-> q]
    BY <1>1 DEF IsRun
  <2> QED BY <2>1
<1>3. ASSUME NEW n \in 1 .. N, n - 1 \in G PROVE n \in G
  <2>1. f[n] = IF ~f[n - 1].ok THEN f[n - 1]
               ELSE add_input_by_frame(f[n - 1].q, from + n - 1, inputs[n], floor)
    BY <1>1 DEF IsRun
  <2>2. f[n - 1].q \in Q
    BY <1>3
  <2> QED BY <2>1, <2>2
<1>4. \A n \in 0 .. N : n \in G
  <2> HIDE DEF G
  <2> QED BY <1>2, <1>3, IndexInduction
<1> QED BY <1>1, <1>4

\* The next frame is accepted while the ring has room.
LEMMA NextIsAccepted ==
    ASSUME NEW q, QueueInv(q), NEW floor \in Int, q.length < QueueLength
    PROVE  CanAddByFrame(q, q.last_added_frame + 1, floor)
<1>1. q.last_added_frame \in Int /\ q.inputs[previous_position(q.head)].frame = q.last_added_frame
  BY PreviousSlot
<1>2. q.length # QueueLength
  BY QueueLengthAssumption DEF QueueInv, Queue
<1> QED BY <1>1, <1>2 DEF CanAddByFrame

\* How far the first n adds of a run have got.
RunAdvanced(q, res, n) ==
    /\ res.ok = TRUE
    /\ QueueInv(res.q)
    /\ res.q.length = q.length + n
    /\ res.q.last_added_frame = q.last_added_frame + n

\* A run from the next frame on that fits into the ring succeeds.
LEMMA RunSucceeds ==
    ASSUME NEW q, QueueInv(q), NEW inputs \in Seq(Input), NEW floor \in Int,
           q.length + Len(inputs) <= QueueLength
    PROVE  RunAdvanced(q, AddRun(q, q.last_added_frame + 1, inputs, floor), Len(inputs))
<1> DEFINE N == Len(inputs)
           from == q.last_added_frame + 1
<1>1. N \in Nat /\ \A n \in 1 .. N : inputs[n] \in Input
  OBVIOUS
<1>2. q.last_added_frame \in Int /\ q.length \in Nat
  BY QueueLengthAssumption DEF QueueInv, Queue, FrameOrNull, NULL_FRAME
<1>3. PICK f : IsRun(f, N, q, from, inputs, floor) /\ AddRun(q, from, inputs, floor) = f[N]
  BY <1>1, AddRunValue
<1>4. q.length + N <= QueueLength /\ from \in Int /\ from = q.last_added_frame + 1
  BY <1>2
<1> HIDE DEF N, from
<1> DEFINE G == {n \in 0 .. N : RunAdvanced(q, f[n], n)}
<1>5. 0 \in G
  <2>1. f[0] = [ok |-> TRUE, q |-> q]
    BY <1>1, <1>3 DEF IsRun
  <2>2. RunAdvanced(q, f[0], 0)
    BY <1>2, <2>1 DEF RunAdvanced
  <2> QED BY <1>1, <2>2
<1>6. ASSUME NEW n \in 1 .. N, n - 1 \in G PROVE n \in G
  <2>1. PICK p : p = f[n - 1]
    OBVIOUS
  <2>2. RunAdvanced(q, p, n - 1)
    BY <1>6, <2>1
  <2>3. PICK frame \in Int, v \in Input : frame = from + n - 1 /\ v = inputs[n]
    BY <1>1, <1>4
  <2>3a. PICK r : r = add_input_by_frame(p.q, frame, v, floor)
    OBVIOUS
  <2>4. f[n] = r
    BY <1>1, <1>3, <2>1, <2>2, <2>3, <2>3a DEF IsRun, RunAdvanced
  <2>5. frame = p.q.last_added_frame + 1 /\ frame = q.last_added_frame + n
    BY <1>1, <1>2, <1>4, <2>2, <2>3 DEF RunAdvanced
  <2>6. p.q.length < QueueLength /\ p.q.length = q.length + (n - 1) /\ QueueInv(p.q)
    BY <1>1, <1>2, <1>4, <2>2, QueueLengthAssumption DEF RunAdvanced
  <2>7. CanAddByFrame(p.q, frame, floor)
    BY <2>5, <2>6, NextIsAccepted
  <2>8. r.ok = TRUE /\ Added(p.q, r.q, frame, v, floor)
    BY <2>3a, <2>6, <2>7, AddFields
  <2>9. QueueInv(r.q)
    BY <2>3a, <2>6, AddByFrameInv DEF AddStep
  <2>10. r.q.length = q.length + n
    BY <1>1, <1>2, <2>6, <2>8, QueueLengthAssumption DEF Added
  <2>11. r.q.last_added_frame = q.last_added_frame + n
    BY <2>5, <2>8 DEF Added
  <2>12. RunAdvanced(q, r, n)
    BY <2>8, <2>9, <2>10, <2>11 DEF RunAdvanced
  <2> QED BY <1>1, <2>4, <2>12
<1>7. \A n \in 0 .. N : n \in G
  <2> HIDE DEF G
  <2> QED BY <1>1, <1>5, <1>6, IndexInduction
<1>8. RunAdvanced(q, f[N], N)
  BY <1>1, <1>7
<1> QED BY <1>3, <1>8 DEF N, from

-----------------------------------------------------------------------------
(* What the ring holds is what was stored.                                 *)

\* A slot is blank, or holds the input W has for a frame that was added.
SlotHolds(c, q, W) ==
    IF c.frame = NULL_FRAME THEN c.input = DefaultInput
    ELSE c.frame <= q.last_added_frame /\ c.input = W[c.frame]

\* Every slot of the ring and the side slot, evicted and discarded ones included.
Content(q, W) ==
    /\ \A s \in Slot : SlotHolds(q.inputs[s], q, W)
    /\ q.reclaimed_floor_input # None
         => /\ q.reclaimed_floor_input.frame # NULL_FRAME
            /\ SlotHolds(q.reclaimed_floor_input, q, W)

\* A full ring's oldest slot has a frame.
LEMMA OldestSlot ==
    ASSUME NEW q, QueueInv(q), q.length > 0
    PROVE  /\ q.tail \in Slot
           /\ q.inputs[q.tail] \in PlayerInput
           /\ q.inputs[q.tail].frame = q.last_added_frame + 1 - q.length
           /\ q.inputs[q.tail].frame \in Nat
<1>1. /\ q.tail \in Slot /\ q.inputs \in [Slot -> PlayerInput]
      /\ q.length \in Int /\ q.last_added_frame \in Int
  BY QueueLengthAssumption DEF QueueInv, Queue, FrameOrNull, NULL_FRAME
<1>2. PICK oldest \in Int : oldest = q.last_added_frame + 1 - q.length
  BY <1>1
<1>3. q.tail = SlotOf(oldest) /\ q.length <= q.last_added_frame + 1
  BY <1>2 DEF QueueInv, Aligned
<1>4. oldest \in HeldFrames(q) /\ oldest \in Nat
  BY <1>1, <1>2, <1>3 DEF HeldFrames
<1>5. q.inputs[q.tail].frame = oldest
  BY <1>3, <1>4 DEF QueueInv, Aligned
<1> QED BY <1>1, <1>2, <1>4, <1>5

\* An add of the input W has for its frame keeps the content.
LEMMA AddContent ==
    ASSUME NEW q, QueueInv(q), NEW frame \in Int, NEW v \in Input, NEW floor \in Int,
           NEW W, Content(q, W), W[frame] = v
    PROVE  Content(add_input_by_frame(q, frame, v, floor).q, W)
<1>1. CASE ~CanAddByFrame(q, frame, floor)
  BY <1>1 DEF add_input_by_frame
<1>2. CASE CanAddByFrame(q, frame, floor)
  <2>1. frame = q.last_added_frame + 1 /\ frame \in Nat /\ q.last_added_frame \in Int
    BY <1>2, CanAddNext, PreviousSlot
  <2>2. PICK r : r = add_input_by_frame(q, frame, v, floor).q /\ Added(q, r, frame, v, floor)
    BY <1>2, AddFields
  <2>3. q.inputs \in [Slot -> PlayerInput] /\ q.length \in 0 .. QueueLength
    BY DEF QueueInv, Queue
  <2>4. ASSUME NEW c, c \in PlayerInput, SlotHolds(c, q, W)
        PROVE  SlotHolds(c, r, W)
    <3>1. c.frame \in Int
      BY <2>4 DEF PlayerInput, FrameOrNull, NULL_FRAME
    <3> QED BY <2>1, <2>2, <2>4, <3>1 DEF SlotHolds, Added
  <2>5. ASSUME NEW s \in Slot PROVE SlotHolds(r.inputs[s], r, W)
    <3>1. CASE s = SlotOf(frame)
      <4>1. r.inputs[s] = [frame |-> frame, input |-> v]
        BY <2>2, <2>3, <3>1 DEF Added
      <4> QED BY <2>1, <2>2, <4>1 DEF SlotHolds, Added, NULL_FRAME
    <3>2. CASE s # SlotOf(frame)
      <4>1. r.inputs[s] = q.inputs[s] /\ q.inputs[s] \in PlayerInput
        BY <2>2, <2>3, <3>2 DEF Added
      <4> QED BY <2>4, <4>1 DEF Content
    <3> QED BY <3>1, <3>2
  <2>6. ASSUME r.reclaimed_floor_input # None
        PROVE  /\ r.reclaimed_floor_input.frame # NULL_FRAME
               /\ SlotHolds(r.reclaimed_floor_input, r, W)
    <3>1. CASE r.reclaimed_floor_input = q.reclaimed_floor_input
      <4>1. q.reclaimed_floor_input \in PlayerInput
        BY <2>6, <3>1 DEF QueueInv, Queue
      <4> QED BY <2>4, <2>6, <3>1, <4>1 DEF Content
    <3>2. CASE r.reclaimed_floor_input = q.inputs[q.tail] /\ q.length = QueueLength
      <4>1. /\ q.tail \in Slot /\ q.inputs[q.tail] \in PlayerInput
            /\ q.inputs[q.tail].frame \in Nat
        BY <3>2, OldestSlot, QueueLengthAssumption
      <4> QED BY <2>4, <3>2, <4>1 DEF Content, NULL_FRAME
    <3> QED BY <2>2, <2>3, <3>1, <3>2, QueueLengthAssumption DEF Added
  <2> QED BY <2>2, <2>5, <2>6 DEF Content
<1> QED BY <1>1, <1>2

\* Content looks at the frames that were added only.
LEMMA ContentSame ==
    ASSUME NEW q, QueueInv(q), NEW V, NEW W, Content(q, V),
           \A f \in Nat : f <= q.last_added_frame => V[f] = W[f]
    PROVE  Content(q, W)
<1>1. ASSUME NEW c \in PlayerInput, SlotHolds(c, q, V)
      PROVE  SlotHolds(c, q, W)
  BY <1>1 DEF SlotHolds, PlayerInput, FrameOrNull
<1>2. /\ q.inputs \in [Slot -> PlayerInput]
      /\ q.reclaimed_floor_input # None => q.reclaimed_floor_input \in PlayerInput
  BY DEF QueueInv, Queue
<1> QED BY <1>1, <1>2 DEF Content

-----------------------------------------------------------------------------
(* What the adding operations come down to.                                *)

\* A queue that was added to is not empty.
LEMMA AddNonempty ==
    ASSUME NEW q, QueueInv(q), NEW frame \in Int, NEW v \in Input, NEW floor \in Int
    PROVE  LET res == add_input_by_frame(q, frame, v, floor)
           IN  res.q = q \/ res.q.length > 0
<1>1. CASE ~CanAddByFrame(q, frame, floor)
  BY <1>1 DEF add_input_by_frame
<1>2. CASE CanAddByFrame(q, frame, floor)
  <2>1. Added(q, add_input_by_frame(q, frame, v, floor).q, frame, v, floor)
    BY <1>2, AddFields
  <2>2. q.length \in Nat
    BY QueueLengthAssumption DEF QueueInv, Queue
  <2> QED BY <2>1, <2>2, QueueLengthAssumption DEF Added
<1> QED BY <1>1, <1>2

\* A run either adds nothing or leaves a queue that is not empty.
LEMMA RunNonempty ==
    ASSUME NEW q, QueueInv(q), NEW from \in Int, NEW inputs \in Seq(Input), NEW floor \in Int
    PROVE  LET r == AddRun(q, from, inputs, floor).q
           IN  r = q \/ r.length > 0
<1> DEFINE Q == {r \in Queue : QueueInv(r) /\ (r = q \/ r.length > 0)}
<1>1. PICK N \in Nat : N = Len(inputs)
  OBVIOUS
<1>2. ASSUME NEW r \in Q, NEW n \in 1 .. N
      PROVE  add_input_by_frame(r, from + n - 1, inputs[n], floor).q \in Q
  <2>1. PICK frame \in Int, v \in Input : frame = from + n - 1 /\ v = inputs[n]
    BY <1>1
  <2>2. PICK x : x = add_input_by_frame(r, frame, v, floor).q
    OBVIOUS
  <2>3. QueueInv(x) /\ (x = r \/ x.length > 0)
    BY <2>2, AddByFrameInv, AddNonempty DEF AddStep
  <2>4. x \in Queue
    BY <2>3 DEF QueueInv
  <2> QED BY <2>1, <2>2, <2>3, <2>4
<1>3. q \in Q
  BY DEF QueueInv
<1> HIDE DEF Q
<1>4. AddRun(q, from, inputs, floor).q \in Q
  BY <1>1, <1>2, <1>3, RunStays
<1> QED BY <1>4 DEF Q

\* A run of no inputs.
LEMMA EmptyRun ==
    ASSUME NEW q, NEW from, NEW inputs, Len(inputs) = 0, NEW floor
    PROVE  AddRun(q, from, inputs, floor) = [ok |-> TRUE, q |-> q]
<1>1. PICK f : IsRun(f, 0, q, from, inputs, floor) /\ AddRun(q, from, inputs, floor) = f[0]
  BY AddRunValue
<1> QED BY <1>1 DEF IsRun

\* The input behind the head, which the fills repeat.
Newest(q) == q.inputs[previous_position(q.head)].input

\* An input that was stored, after a fill of what a delay leaves open.
StoredAfter(q, res, fill, frame, v, floor) ==
    LET to    == frame + q.frame_delay
        count == to - (q.last_added_frame + 1)
    IN  /\ ~q.frozen
        /\ count \in Nat
        /\ count # 0 => q.last_added_frame = NULL_FRAME
        /\ fill = AddRun(q, q.last_added_frame + 1, Replicate(Newest(q), count), floor).q
        /\ QueueInv(fill)
        /\ res.q = add_input_by_frame(fill, to, v, floor).q
        /\ res.frame = to
        /\ res.q.last_added_frame = to
        /\ res.q # fill

\* The next frame of a live queue that is not full, or may evict its oldest slot.
Acceptable(q, frame, floor) ==
    /\ ~q.frozen
    /\ q.last_added_frame = NULL_FRAME \/ frame + q.frame_delay = q.last_added_frame + 1
    /\ q.length < QueueLength \/ q.inputs[q.tail].frame <= floor

\* add_input stores its input, or does nothing and says so.
LEMMA AddInputAt ==
    ASSUME NEW q, QueueInv(q), NEW frame \in Nat, NEW v \in Input, NEW floor \in Int,
           q.last_added_frame = NULL_FRAME => frame + q.frame_delay <= max_frame_delay
    PROVE  LET res == add_input(q, frame, v, floor)
           IN  \/ /\ res.q = q /\ (q.frozen \/ res.frame = NULL_FRAME)
                  /\ ~Acceptable(q, frame, floor)
               \/ \E fill : StoredAfter(q, res, fill, frame, v, floor)
<1> DEFINE res == add_input(q, frame, v, floor)
<1>1. CASE q.frozen \/ (/\ q.last_added_frame # NULL_FRAME
                        /\ frame + q.frame_delay # q.last_added_frame + 1)
  BY <1>1 DEF add_input, Acceptable
<1>2. CASE /\ ~q.frozen
           /\ q.last_added_frame = NULL_FRAME \/ frame + q.frame_delay = q.last_added_frame + 1
  <2>1. /\ q.inputs[previous_position(q.head)].frame = q.last_added_frame /\ Newest(q) \in Input
        /\ q.last_added_frame \in Int /\ q.frame_delay \in Nat /\ q.frame_delay <= max_frame_delay
    BY PreviousSlot DEF Newest
  <2>2. PICK to \in Nat : to = frame + q.frame_delay
    BY <2>1
  <2>3. PICK count \in Int : count = to - (q.last_added_frame + 1)
    BY <2>1, <2>2
  <2>4. /\ count \in Nat /\ (count # 0 => q.last_added_frame = NULL_FRAME /\ q.length = 0)
        /\ q.length + count <= QueueLength /\ count <= QueueLength - 1
    <3>1. q.length \in Nat /\ q.length <= QueueLength /\ q.length <= q.last_added_frame + 1
      BY QueueLengthAssumption DEF QueueInv, Queue, Aligned
    <3>2. CASE q.last_added_frame = NULL_FRAME
      BY <2>1, <2>2, <2>3, <3>1, <3>2, QueueLengthAssumption DEF max_frame_delay, NULL_FRAME
    <3>3. CASE q.last_added_frame # NULL_FRAME
      BY <1>2, <2>1, <2>2, <2>3, <3>1, <3>3, QueueLengthAssumption
    <3> QED BY <3>2, <3>3
  <2>5. PICK run : run = Replicate(Newest(q), count)
    OBVIOUS
  <2>6. run \in Seq(Input) /\ Len(run) = count
    <3>1. PICK w \in Input : w = Newest(q)
      BY <2>1
    <3> QED BY <2>4, <2>5, <3>1, ReplicateType
  <2>7. PICK filled : filled = AddRun(q, q.last_added_frame + 1, run, floor)
    OBVIOUS
  <2>8. RunAdvanced(q, filled, count)
    BY <2>4, <2>6, <2>7, RunSucceeds
  <2>9. filled.q.last_added_frame = to - 1 /\ filled.ok /\ QueueInv(filled.q)
    BY <2>1, <2>2, <2>3, <2>8 DEF RunAdvanced
  <2>10. advance_queue_head(q, frame, floor) = [frame |-> to, q |-> filled.q]
    <3>1. filled.q.inputs[previous_position(filled.q.head)].frame = to - 1
      BY <2>9, PreviousSlot
    <3>2. q.first_frame <=> q.last_added_frame = NULL_FRAME
      BY DEF QueueInv, Aligned
    <3> DEFINE expected == IF q.first_frame THEN 0
                           ELSE q.inputs[previous_position(q.head)].frame + 1
    <3>3. expected = q.last_added_frame + 1
      BY <2>1, <3>2 DEF NULL_FRAME
    <3>4. ~(expected > to) /\ to - expected = count
      BY <2>1, <2>2, <2>3, <2>4, <3>3
    <3>5. filled = AddRun(q, expected, Replicate(Newest(q), to - expected), floor)
      BY <2>5, <2>7, <3>3, <3>4
    <3>6. to # 0 => to = filled.q.inputs[previous_position(filled.q.head)].frame + 1
      BY <2>2, <3>1
    <3>7. advance_queue_head(q, frame, floor) =
            IF expected > to THEN [frame |-> NULL_FRAME, q |-> q]
            ELSE LET f == AddRun(q, expected, Replicate(Newest(q), to - expected), floor)
                 IN  [frame |-> IF f.ok /\ (to # 0 => to = f.q.inputs[previous_position(f.q.head)].frame + 1)
                                THEN to ELSE NULL_FRAME,
                      q     |-> f.q]
      BY <2>2 DEF advance_queue_head, Newest
    <3> HIDE DEF expected
    <3> QED BY <2>9, <3>4, <3>5, <3>6, <3>7
  <2>11. PICK added : added = add_input_by_frame(filled.q, to, v, floor)
    OBVIOUS
  <2>12. res = [frame |-> IF added.ok THEN to ELSE NULL_FRAME, q |-> added.q]
    BY <1>2, <2>2, <2>10, <2>11 DEF add_input, NULL_FRAME
  <2>13. /\ added.ok \in BOOLEAN /\ (added.ok => added.q.last_added_frame = to)
         /\ (~added.ok => added.q = filled.q)
    BY <2>2, <2>9, <2>11, AddByFrameInv
  <2>14. CASE added.ok
    <3>1. added.q # filled.q
      BY <2>2, <2>9, <2>13, <2>14
    <3>2. res.q = added.q /\ res.frame = to
      BY <2>12, <2>14
    <3> HIDE DEF res
    <3>3. StoredAfter(q, res, filled.q, frame, v, floor)
      BY <1>2, <2>2, <2>3, <2>4, <2>5, <2>7, <2>9, <2>11, <2>13, <2>14, <3>1, <3>2 DEF StoredAfter
    <3> QED BY <3>3 DEF res
  <2>15. CASE ~added.ok
    <3>1. count = 0
      <4>1. SUFFICES ASSUME count # 0 PROVE FALSE
        OBVIOUS
      <4>2. filled.q.length < QueueLength /\ to = filled.q.last_added_frame + 1
        BY <2>2, <2>4, <2>8, <2>9, <4>1, QueueLengthAssumption DEF RunAdvanced
      <4>3. CanAddByFrame(filled.q, to, floor)
        BY <2>9, <4>2, NextIsAccepted
      <4>4. to \in Int
        OBVIOUS
      <4>5. added.ok = TRUE /\ Added(filled.q, added.q, to, v, floor)
        BY <2>9, <2>11, <4>3, <4>4, AddFields
      <4> QED BY <2>15, <4>5
    <3>2. filled.q = q
      BY <2>6, <2>7, <3>1, EmptyRun
    <3>3. res.q = q /\ res.frame = NULL_FRAME
      BY <2>12, <2>13, <2>15, <3>2
    <3>4. ~CanAddByFrame(q, to, floor)
      <4>1. SUFFICES ASSUME CanAddByFrame(q, to, floor) PROVE FALSE
        OBVIOUS
      <4>2. to \in Int
        OBVIOUS
      <4>3. added.ok = TRUE
        BY <2>11, <3>2, <4>1, <4>2, AddFields
      <4> QED BY <2>15, <4>3
    <3>5. to = q.last_added_frame + 1
      BY <2>1, <2>2, <2>3, <3>1
    <3>6. ~(q.length < QueueLength) /\ ~(q.inputs[q.tail].frame <= floor)
      BY <2>1, <2>2, <3>4, <3>5, NextIsAccepted DEF CanAddByFrame
    <3> QED BY <3>3, <3>6 DEF Acceptable
  <2> QED BY <2>13, <2>14, <2>15
<1> QED BY <1>1, <1>2

\* The same for the session's own frames, where a fresh queue is asked at frame 0.
LEMMA AddInputCases ==
    ASSUME NEW q, QueueInv(q), NEW frame \in Nat, NEW v \in Input, NEW floor \in Int,
           q.last_added_frame = NULL_FRAME => frame = 0
    PROVE  LET res == add_input(q, frame, v, floor)
           IN  \/ res.q = q /\ (q.frozen \/ res.frame = NULL_FRAME)
               \/ \E fill : StoredAfter(q, res, fill, frame, v, floor)
<1>1. q.last_added_frame = NULL_FRAME => frame + q.frame_delay <= max_frame_delay
  BY PreviousSlot
<1> QED BY <1>1, AddInputAt

\* A delay that was raised by a fill.
FilledTo(q, r, fill, delay, floor) ==
    LET count == delay - q.frame_delay
    IN  /\ ~q.frozen
        /\ q.last_added_frame # NULL_FRAME
        /\ count \in Nat
        /\ fill = AddRun(q, q.last_added_frame + 1, Replicate(Newest(q), count), floor).q
        /\ QueueInv(fill)
        /\ fill.last_added_frame = q.last_added_frame + count
        /\ fill.frozen = q.frozen
        /\ fill.length > 0
        /\ r = [fill EXCEPT !.frame_delay = delay]

\* set_frame_delay raises the delay with a complete fill, sets it before the
\* first input, or does nothing.
LEMMA SetFrameDelayCases ==
    ASSUME NEW q, QueueInv(q), NEW delay \in Nat, NEW floor \in Int
    PROVE  LET res == set_frame_delay(q, delay, floor)
           IN  \/ res.q = q
               \/ q.last_added_frame = NULL_FRAME /\ res.q = [q EXCEPT !.frame_delay = delay]
               \/ \E fill : FilledTo(q, res.q, fill, delay, floor)
<1> DEFINE res == set_frame_delay(q, delay, floor)
<1>1. /\ Newest(q) \in Input /\ q.last_added_frame \in Int /\ q.frame_delay \in Nat
      /\ q.last_added_frame + 1 \in Int
  BY PreviousSlot DEF Newest
<1>2. CASE q.frozen \/ delay > max_frame_delay
  BY <1>2 DEF set_frame_delay
<1>3. CASE /\ ~q.frozen /\ ~(delay > max_frame_delay)
           /\ delay = q.frame_delay \/ q.last_added_frame = NULL_FRAME
  <2>1. res.q = [q EXCEPT !.frame_delay = delay]
    BY <1>3 DEF set_frame_delay
  <2>2. delay = q.frame_delay => [q EXCEPT !.frame_delay = delay] = q
    BY DEF QueueInv, Queue
  <2> QED BY <1>3, <2>1, <2>2
<1>4. CASE /\ ~q.frozen /\ ~(delay > max_frame_delay)
           /\ delay # q.frame_delay /\ q.last_added_frame # NULL_FRAME
  <2>1. CASE delay < q.frame_delay
    BY <1>4, <2>1 DEF set_frame_delay
  <2>2. CASE ~(delay < q.frame_delay)
    <3>1. PICK count \in Nat : count = delay - q.frame_delay /\ count > 0
      BY <1>1, <1>4, <2>2
    <3>2. PICK run : run = Replicate(Newest(q), count)
      OBVIOUS
    <3>3. run \in Seq(Input) /\ Len(run) = count
      <4>1. PICK w \in Input : w = Newest(q)
        BY <1>1
      <4> QED BY <3>1, <3>2, <4>1, ReplicateType
    <3>4. PICK filled : filled = AddRun(q, q.last_added_frame + 1, run, floor)
      OBVIOUS
    <3>5. res = FillOrRestore(q, filled, delay)
      BY <1>4, <2>2, <3>1, <3>2, <3>4 DEF set_frame_delay, Newest
    <3>6. RunInv(q, filled, count)
      BY <1>1, <3>3, <3>4, AddRunInv
    <3>7. filled.q = q \/ filled.q.length > 0
      BY <1>1, <3>3, <3>4, RunNonempty
    <3>8. CASE ~filled.ok
      BY <3>5, <3>8 DEF FillOrRestore
    <3>9. CASE filled.ok
      <4>1. res.q = [filled.q EXCEPT !.frame_delay = delay]
        BY <3>5, <3>9 DEF FillOrRestore
      <4>2. /\ QueueInv(filled.q) /\ filled.q.last_added_frame = q.last_added_frame + count
            /\ filled.q.frozen = q.frozen
        BY <3>6, <3>9 DEF RunInv, AddStep
      <4>3. filled.q # q
        BY <1>1, <3>1, <4>2
      <4>4. FilledTo(q, res.q, filled.q, delay, floor)
        BY <1>4, <3>1, <3>2, <3>4, <3>7, <4>1, <4>2, <4>3 DEF FilledTo
      <4> QED BY <4>4
    <3> QED BY <3>6, <3>8, <3>9 DEF RunInv
  <2> QED BY <2>1, <2>2
<1> QED BY <1>2, <1>3, <1>4

\* A run of the donor's values for the frames after the last one.
BackfilledRun(q, r, from, values, suffix, floor) ==
    /\ ~q.frozen
    /\ suffix \in Seq(Input)
    /\ r = AddRun(q, q.last_added_frame + 1, suffix, floor).q
    /\ \A i \in 1 .. Len(suffix) :
           suffix[i] = values[(q.last_added_frame + 1 + i - 1) - from + 1]

\* A backfill does nothing or is a run of the donor's values.
LEMMA BackfillCases ==
    ASSUME NEW q, QueueInv(q), NEW from \in Nat, NEW n \in Nat, n > 0,
           NEW values \in [1 .. n -> Input], NEW floor \in Int
    PROVE  LET r == Backfilled(q, from, values, floor)
           IN  r = q \/ \E suffix : BackfilledRun(q, r, from, values, suffix, floor)
<1>1. Len(values) = n
  OBVIOUS
<1> DEFINE r == Backfilled(q, from, values, floor)
<1>2. PICK inputs : inputs = [i \in 1 .. n |-> [frame |-> from + i - 1, input |-> values[i]]]
  OBVIOUS
<1>3. q.last_added_frame \in Int
  BY PreviousSlot
<1>4. /\ Len(inputs) = n
      /\ \A i \in 1 .. n : /\ inputs[i].frame = from + i - 1
                           /\ inputs[i].input = values[i] /\ inputs[i].input \in Input
  BY <1>2
<1>5. PICK start : start = MissingFrom(q, inputs)
  OBVIOUS
<1>6. start \in 1 .. n + 1
  <2>1. \A i \in 1 .. n : inputs[i].frame = from + i - 1
    BY <1>4
  <2>2. from \in Int /\ Len(inputs) = n
    BY <1>4
  <2> QED BY <1>3, <1>5, <2>1, <2>2, MissingFromType, Zenon
<1>7. PICK count \in Nat : count = n + 1 - start
  BY <1>6
<1>8. PICK suffix : suffix = [i \in 1 .. count |-> inputs[start + i - 1].input]
  OBVIOUS
<1>9. \/ r = q
      \/ /\ BackfillValid(q, inputs, floor)
         /\ r = AddRun(q, q.last_added_frame + 1, suffix, floor).q
  BY <1>1, <1>2, <1>4, <1>5, <1>7, <1>8 DEF Backfilled, install_missing_backfill
<1> HIDE DEF r
<1>10. CASE /\ BackfillValid(q, inputs, floor)
            /\ r = AddRun(q, q.last_added_frame + 1, suffix, floor).q
  <2>1. ~q.frozen
    BY <1>4, <1>10 DEF BackfillValid
  <2>2. ASSUME NEW i \in 1 .. count
        PROVE  suffix[i] = values[start + i - 1] /\ suffix[i] \in Input
    <3>1. start + i - 1 \in 1 .. n
      BY <1>6, <1>7
    <3> QED BY <1>4, <1>8, <3>1
  <2>3. suffix \in Seq(Input) /\ Len(suffix) = count
    BY <1>8, <2>2
  <2>4. ASSUME NEW i \in 1 .. count
        PROVE  suffix[i] = values[(q.last_added_frame + 1 + i - 1) - from + 1]
    <3>1. start \in 1 .. n
      BY <1>6, <1>7
    <3>2. inputs[start].frame = q.last_added_frame + 1
      BY <1>4, <1>5, <1>10, <3>1 DEF BackfillValid
    <3>3. from + start - 1 = q.last_added_frame + 1
      BY <1>4, <3>1, <3>2
    <3>4. (q.last_added_frame + 1 + i - 1) - from + 1 = start + i - 1
      BY <1>3, <3>1, <3>3
    <3> QED BY <2>2, <3>4
  <2>5. BackfilledRun(q, r, from, values, suffix, floor)
    BY <1>10, <2>1, <2>3, <2>4 DEF BackfilledRun
  <2> QED BY <2>5 DEF r
<1> QED BY <1>9, <1>10 DEF r

\* The fields the content and the episode are about.
SameEntries(q, r) ==
    /\ r.inputs = q.inputs
    /\ r.reclaimed_floor_input = q.reclaimed_floor_input
    /\ r.last_added_frame = q.last_added_frame
    /\ r.length = q.length
SameEpisode(q, r) ==
    /\ r.first_incorrect_frame = q.first_incorrect_frame
    /\ r.prediction = q.prediction
    /\ r.last_requested_frame = q.last_requested_frame

\* Content and episode of a queue that agrees in those fields.
LEMMA EntriesKept ==
    ASSUME NEW q, NEW r, SameEntries(q, r), NEW W, Content(q, W)
    PROVE  Content(r, W)
  BY DEF SameEntries, Content, SlotHolds

\* Another delay changes nothing of it.
LEMMA DelayKeeps ==
    ASSUME NEW q, QueueInv(q), NEW delay
    PROVE  LET r == [q EXCEPT !.frame_delay = delay]
           IN  /\ SameEntries(q, r) /\ SameEpisode(q, r) /\ r.frozen = q.frozen
               /\ r.last_confirmed_input = q.last_confirmed_input
               /\ r.frame_delay = delay
  BY DEF QueueInv, Queue, SameEntries, SameEpisode

\* The slot behind the head, which the fills repeat, holds the last input, or the
\* default before there is one.
LEMMA NewestContent ==
    ASSUME NEW q, QueueInv(q), NEW W, Content(q, W)
    PROVE  /\ q.last_added_frame = NULL_FRAME => Newest(q) = DefaultInput
           /\ q.last_added_frame # NULL_FRAME => Newest(q) = W[q.last_added_frame]
<1>1. q.head = SlotOf(q.last_added_frame + 1) /\ q.last_added_frame \in Int
  BY PreviousSlot DEF QueueInv, Aligned
<1>2. PICK next \in Int : next = q.last_added_frame + 1
  BY <1>1
<1>3. previous_position(SlotOf(next)) = SlotOf(next - 1)
  BY SlotSteps
<1>4. previous_position(q.head) \in Slot
  BY <1>1, <1>2, <1>3, SlotOfType
<1>5. PICK c : c = q.inputs[previous_position(q.head)]
  OBVIOUS
<1>6. SlotHolds(c, q, W) /\ c.frame = q.last_added_frame
  BY <1>4, <1>5, PreviousSlot DEF Content
<1> QED BY <1>5, <1>6 DEF SlotHolds, Newest

-----------------------------------------------------------------------------
(* The operations that add nothing.                                        *)

\* A request as the episode sees it: refused after a misprediction, answered
\* without a prediction, answered by the running episode, or by a new one.
RequestAs(q, res, frame) ==
    /\ SameEntries(q, res.q)
    /\ res.q.first_incorrect_frame = q.first_incorrect_frame
    /\ res.q.frozen = q.frozen
    /\ res.q.frame_delay = q.frame_delay
    /\ res.q.last_confirmed_input = q.last_confirmed_input
    /\ \/ /\ res.status # "Predicted" /\ res.q.prediction = q.prediction
          /\ res.q.last_requested_frame = frame
       \/ res.status # "Predicted" /\ SameEpisode(q, res.q)
       \/ /\ res.status = "Predicted" /\ res.q.prediction = q.prediction
          /\ res.q.last_requested_frame = frame
          /\ q.first_incorrect_frame = NULL_FRAME /\ q.prediction.frame # NULL_FRAME
          /\ res.input = q.prediction.input
       \/ /\ res.status = "Predicted" /\ res.q.last_requested_frame = frame
          /\ q.first_incorrect_frame = NULL_FRAME /\ q.prediction.frame = NULL_FRAME
          /\ res.q.prediction.frame = q.last_added_frame + 1
          /\ res.q.prediction.input = res.input
          /\ res.input = predict(q.last_confirmed_input)
          /\ frame - q.inputs[q.tail].frame >= q.length

\* Every branch of input is one of those.
LEMMA RequestCases ==
    ASSUME NEW q, QueueInv(q), NEW frame \in Nat
    PROVE  RequestAs(q, input(q, frame), frame)
<1> DEFINE begun == [frame |-> q.last_added_frame + 1, input |-> predict(q.last_confirmed_input)]
           asked == [q EXCEPT !.last_requested_frame = frame]
           start == [asked EXCEPT !.prediction = begun]
           offset == frame - q.inputs[q.tail].frame
           slot == q.inputs[circular_index_add(q.tail, offset)]
           res == input(q, frame)
<1>1. q \in Queue
  BY DEF QueueInv
<1>2. /\ SameEntries(q, asked) /\ asked.first_incorrect_frame = q.first_incorrect_frame
      /\ asked.frozen = q.frozen /\ asked.last_confirmed_input = q.last_confirmed_input
      /\ asked.prediction = q.prediction /\ asked.last_requested_frame = frame
      /\ asked.frame_delay = q.frame_delay
  BY <1>1 DEF Queue, SameEntries
<1>3. /\ SameEntries(q, start) /\ start.first_incorrect_frame = q.first_incorrect_frame
      /\ start.frozen = q.frozen /\ start.last_confirmed_input = q.last_confirmed_input
      /\ start.prediction = begun /\ start.last_requested_frame = frame
      /\ start.frame_delay = q.frame_delay
  BY <1>1 DEF Queue, SameEntries
<1>4. begun.frame = q.last_added_frame + 1 /\ begun.input = predict(q.last_confirmed_input)
  OBVIOUS
<1>5. SameEntries(q, q) /\ SameEpisode(q, q)
  BY DEF SameEntries, SameEpisode
<1>6. res = IF q.first_incorrect_frame # NULL_FRAME
            THEN [status |-> "None", input |-> None, q |-> q]
            ELSE IF q.reclaimed_floor_input # None /\ q.reclaimed_floor_input.frame = frame
            THEN [status |-> "Confirmed", input |-> q.reclaimed_floor_input.input, q |-> asked]
            ELSE IF frame < q.inputs[q.tail].frame
            THEN [status |-> "None", input |-> None, q |-> asked]
            ELSE IF q.prediction.frame # NULL_FRAME
            THEN [status |-> "Predicted", input |-> q.prediction.input, q |-> asked]
            ELSE IF offset >= q.length
            THEN [status |-> "Predicted", input |-> start.prediction.input, q |-> start]
            ELSE IF slot.frame # frame
            THEN [status |-> "None", input |-> None, q |-> asked]
            ELSE [status |-> "Confirmed", input |-> slot.input, q |-> asked]
  BY DEF input, EpisodeStart
<1> HIDE DEF begun, asked, start, slot, res
<1>7. \/ res.status # "Predicted" /\ res.q = q
      \/ res.status # "Predicted" /\ res.q = asked
      \/ /\ res.status = "Predicted" /\ res.q = asked /\ res.input = q.prediction.input
         /\ q.first_incorrect_frame = NULL_FRAME /\ q.prediction.frame # NULL_FRAME
      \/ /\ res.status = "Predicted" /\ res.q = start /\ res.input = start.prediction.input
         /\ q.first_incorrect_frame = NULL_FRAME /\ q.prediction.frame = NULL_FRAME
         /\ offset >= q.length
  BY <1>6
<1>8. RequestAs(q, res, frame)
  BY <1>2, <1>3, <1>4, <1>5, <1>7 DEF RequestAs
<1> QED BY <1>8 DEF res

\* What a discard leaves: the entries, fewer of them counted as held, and a side
\* slot that is dropped only below the bound.
Discarded(q, r, bound) ==
    /\ q.length > 0
    /\ r.inputs = q.inputs /\ r.last_added_frame = q.last_added_frame
    /\ SameEpisode(q, r)
    /\ r.frozen = q.frozen /\ r.last_confirmed_input = q.last_confirmed_input
    /\ r.frame_delay = q.frame_delay
    /\ r.reclaimed_floor_input =
           IF q.reclaimed_floor_input # None /\ q.reclaimed_floor_input.frame < bound
           THEN None ELSE q.reclaimed_floor_input
    /\ r.length \in 1 .. q.length
    /\ r.length = q.length \/ q.last_added_frame + 1 - r.length <= bound

LEMMA DiscardCases ==
    ASSUME NEW q, QueueInv(q), NEW before \in Nat
    PROVE  LET r == discard_confirmed_frames(q, before)
           IN  \/ r = q
               \/ Discarded(q, r, DiscardBound(q, before))
<1> DEFINE frame  == DiscardBound(q, before)
           side   == IF q.reclaimed_floor_input # None /\ q.reclaimed_floor_input.frame < frame
                     THEN None ELSE q.reclaimed_floor_input
           kept   == [q EXCEPT !.reclaimed_floor_input = side]
           offset == frame - q.inputs[q.tail].frame
           r      == discard_confirmed_frames(q, before)
<1>1. q \in Queue /\ q.length \in Nat /\ q.last_added_frame \in Int
  BY PreviousSlot, QueueLengthAssumption DEF QueueInv, Queue
<1>2. frame \in Int
  BY <1>1 DEF DiscardBound, MinFrame, Queue, FrameOrNull, NULL_FRAME
<1>3. r = IF q.length = 0 THEN q
          ELSE IF frame >= q.last_added_frame
          THEN [kept EXCEPT !.tail = previous_position(q.head), !.length = 1]
          ELSE IF offset <= 0 \/ offset > q.length THEN kept
          ELSE [kept EXCEPT !.tail = circular_index_add(@, offset), !.length = @ - offset]
  BY DEF discard_confirmed_frames
<1>4. ASSUME NEW tail, NEW length, q.length > 0, length \in 1 .. q.length,
             length = q.length \/ q.last_added_frame + 1 - length <= frame,
             r = [kept EXCEPT !.tail = tail, !.length = length]
      PROVE  Discarded(q, r, frame)
  <2> HIDE DEF side, frame, r
  <2>1. /\ r.inputs = q.inputs /\ r.last_added_frame = q.last_added_frame /\ SameEpisode(q, r)
        /\ r.frozen = q.frozen /\ r.last_confirmed_input = q.last_confirmed_input
        /\ r.reclaimed_floor_input = side /\ r.length = length /\ r.frame_delay = q.frame_delay
    BY <1>1, <1>4 DEF Queue, SameEpisode
  <2> QED BY <1>4, <2>1 DEF Discarded, side
<1> HIDE DEF r, side, frame
<1>5. CASE q.length = 0
  <2>1. r = q
    BY <1>3, <1>5
  <2> QED BY <2>1 DEF r
<1>6. CASE q.length > 0
  <2>1. PICK oldest \in Int : oldest = q.inputs[q.tail].frame
                                 /\ oldest = q.last_added_frame + 1 - q.length
    BY <1>6, OldestSlot
  <2>2. CASE frame >= q.last_added_frame
    <3>1. r = [kept EXCEPT !.tail = previous_position(q.head), !.length = 1]
      BY <1>3, <1>6, <2>2
    <3>2. 1 \in 1 .. q.length /\ q.last_added_frame + 1 - 1 <= frame
      BY <1>1, <1>2, <1>6, <2>2
    <3> QED BY <1>4, <1>6, <3>1, <3>2 DEF r, frame
  <2>3. CASE ~(frame >= q.last_added_frame) /\ (offset <= 0 \/ offset > q.length)
    <3>1. r = kept
      BY <1>1, <1>3, <1>6, <2>3
    <3>2. kept = [kept EXCEPT !.tail = q.tail, !.length = q.length]
      BY <1>1 DEF Queue
    <3>3. q.length \in 1 .. q.length
      BY <1>1, <1>6
    <3>4. r = [kept EXCEPT !.tail = q.tail, !.length = q.length]
      BY <3>1, <3>2, Zenon
    <3> HIDE DEF kept
    <3> QED BY <1>4, <1>6, <3>3, <3>4 DEF r, frame
  <2>4. CASE ~(frame >= q.last_added_frame) /\ ~(offset <= 0 \/ offset > q.length)
    <3>1. PICK o \in Int : o = offset
      BY <1>2, <2>1
    <3>2. r = [kept EXCEPT !.tail = circular_index_add(q.tail, o), !.length = q.length - o]
      BY <1>1, <1>3, <1>6, <2>4, <3>1 DEF Queue
    <3>3. o = frame - oldest
      BY <2>1, <3>1
    <3>4. q.length - o \in 1 .. q.length
      <4>1. o > 0
        BY <2>4, <3>1
      <4>2. PICK last \in Int, len \in Int, bound \in Int :
                   last = q.last_added_frame /\ len = q.length /\ bound = frame
        BY <1>1, <1>2
      <4>3. bound < last /\ oldest = last + 1 - len /\ o = bound - oldest
        BY <2>1, <2>4, <3>3, <4>2
      <4>4. len - o >= 1 /\ len - o <= len
        BY <4>1, <4>2, <4>3
      <4> QED BY <4>2, <4>4
    <3>5. q.last_added_frame + 1 - (q.length - o) <= frame
      BY <1>1, <1>2, <2>1, <3>3
    <3> HIDE DEF kept
    <3> QED BY <1>4, <1>6, <3>2, <3>4, <3>5 DEF r, frame
  <2> QED BY <2>2, <2>3, <2>4
<1> QED BY <1>1, <1>5, <1>6

\* An answer to a lookup is what was stored for that frame.
LEMMA ConfirmedIsStored ==
    ASSUME NEW q, QueueInv(q), NEW W, Content(q, W), NEW frame \in Nat,
           confirmed_input(q, frame) # None
    PROVE  confirmed_input(q, frame) = W[frame] /\ confirmed_input(q, frame) \in Input
<1>1. PICK slot : slot = q.inputs[SlotOf(frame)]
  OBVIOUS
<1>2. SlotHolds(slot, q, W)
  BY <1>1, SlotOfType DEF Content
<1>3. frame # NULL_FRAME
  BY DEF NULL_FRAME
<1>4. confirmed_input(q, frame) = W[frame]
  BY <1>1, <1>2, <1>3 DEF confirmed_input, Content, SlotHolds
<1> QED BY <1>4, ConfirmedInputType DEF QueueInv

-----------------------------------------------------------------------------
(* What was asked for last stays held.                                     *)

\* A frame is held in the ring, or in the side slot right before it.
Kept(q, f) ==
    /\ q.length > 0
    /\ f <= q.last_added_frame
    /\ \/ f >= q.last_added_frame + 1 - q.length
       \/ /\ q.reclaimed_floor_input # None
          /\ q.reclaimed_floor_input.frame = f
          /\ f = q.last_added_frame - q.length

\* retained_confirmed_input answers for exactly those frames.
LEMMA HeldIsKept ==
    ASSUME NEW q, QueueInv(q), NEW f \in Nat
    PROVE  retained_confirmed_input(q, f) # None <=> Kept(q, f)
<1>1. /\ q \in Queue /\ q.length \in Nat /\ q.last_added_frame \in Int
      /\ q.reclaimed_floor_input \in PlayerInput \cup {None}
      /\ q.inputs \in [Slot -> PlayerInput]
  BY PreviousSlot, QueueLengthAssumption DEF QueueInv, Queue
<1>2. CASE q.length = 0
  <2>1. retained_input_range(q) = None
    BY <1>2 DEF retained_input_range
  <2> QED BY <1>2, <2>1 DEF retained_confirmed_input, Kept
<1>3. CASE q.length > 0
  <2>1. PICK first \in Nat, last \in Int, n \in Nat :
          /\ first = q.inputs[q.tail].frame /\ last = q.last_added_frame /\ n = q.length
          /\ first = last + 1 - n
    BY <1>1, <1>3, OldestSlot
  <2> DEFINE side == q.reclaimed_floor_input
             from == IF side # None /\ side.frame + 1 = first THEN first - 1 ELSE first
             range == [first |-> from, last |-> last]
  <2>2. first # NULL_FRAME /\ last # NULL_FRAME /\ last - first + 1 = n /\ n > 0
    BY <1>3, <2>1 DEF NULL_FRAME
  <2>3. retained_input_range(q) = range
    BY <2>1, <2>2 DEF retained_input_range
  <2>4. range # None
    <3>1. from \in Int
      BY <1>1, <2>1 DEF PlayerInput, FrameOrNull, NULL_FRAME
    <3> HIDE DEF from
    <3>2. range \in [first : Int, last : Int]
      BY <3>1
    <3> QED BY <3>2, NoneAssumption
  <2>5. retained_confirmed_input(q, f) =
          IF f < from \/ f > last THEN None ELSE confirmed_input(q, f)
    BY <2>3, <2>4 DEF retained_confirmed_input
  <2>6. side # None => side.input \in Input /\ side.frame \in Int
    BY <1>1 DEF PlayerInput, FrameOrNull, NULL_FRAME
  <2>7. ASSUME first <= f, f <= last PROVE confirmed_input(q, f) # None
    <3>1. f \in HeldFrames(q)
      BY <2>1, <2>7 DEF HeldFrames
    <3>2. q.inputs[SlotOf(f)].frame = f
      BY <3>1 DEF QueueInv, Aligned
    <3>3. q.inputs[SlotOf(f)].input \in Input
      BY <1>1, SlotOfType DEF PlayerInput
    <3> QED BY <2>6, <3>2, <3>3, InputAssumption DEF confirmed_input
  <2>8. ASSUME side # None, side.frame = f PROVE confirmed_input(q, f) # None
    BY <2>6, <2>8, InputAssumption DEF confirmed_input
  <2>9. Kept(q, f) <=> /\ f <= last
                       /\ \/ f >= first
                          \/ side # None /\ side.frame = f /\ f = first - 1
    BY <2>1, <2>2 DEF Kept
  <2>10. ~(f < from \/ f > last) <=> /\ f <= last
                                     /\ \/ f >= first
                                        \/ side # None /\ side.frame = f /\ f = first - 1
    <3>1. CASE side # None /\ side.frame + 1 = first
      <4>1. from = first - 1 /\ side.frame = first - 1
        BY <2>1, <2>6, <3>1
      <4> HIDE DEF from, side
      <4> QED BY <2>1, <3>1, <4>1
    <3>2. CASE ~(side # None /\ side.frame + 1 = first)
      <4>1. from = first /\ ~(side # None /\ side.frame = first - 1)
        BY <2>1, <2>6, <3>2
      <4> HIDE DEF from, side
      <4> QED BY <2>1, <3>2, <4>1
    <3> QED BY <3>1, <3>2
  <2> HIDE DEF from, side
  <2> QED BY <2>5, <2>7, <2>8, <2>9, <2>10
<1> QED BY <1>1, <1>2, <1>3

\* Nothing is held for Frame::NULL.
LEMMA NullNotHeld ==
    ASSUME NEW q, QueueInv(q), NEW W, Content(q, W)
    PROVE  retained_confirmed_input(q, NULL_FRAME) = None
<1>1. CASE retained_input_range(q) = None
  BY <1>1 DEF retained_confirmed_input
<1>2. CASE retained_input_range(q) # None
  <2>1. q.length \in Nat /\ q.length > 0
    BY <1>2, QueueLengthAssumption DEF retained_input_range, QueueInv, Queue
  <2>2. q.inputs[q.tail].frame \in Nat
    BY <2>1, OldestSlot
  <2>3. q.reclaimed_floor_input # None => q.reclaimed_floor_input.frame \in Nat
    BY DEF QueueInv, Queue, PlayerInput, FrameOrNull, Content
  <2>4. NULL_FRAME < retained_input_range(q).first
    BY <1>2, <2>2, <2>3 DEF retained_input_range, NULL_FRAME
  <2> QED BY <2>4 DEF retained_confirmed_input
<1> QED BY <1>1, <1>2

\* An add whose floor is at or below a held frame keeps it: the frame evicted at
\* the floor itself moves to the side slot.
LEMMA AddKeeps ==
    ASSUME NEW q, QueueInv(q), NEW frame \in Int, NEW v \in Input, NEW floor \in Int,
           NEW f \in Nat, floor <= f, Kept(q, f)
    PROVE  Kept(add_input_by_frame(q, frame, v, floor).q, f)
<1>1. CASE ~CanAddByFrame(q, frame, floor)
  BY <1>1 DEF add_input_by_frame
<1>2. CASE CanAddByFrame(q, frame, floor)
  <2>1. frame = q.last_added_frame + 1 /\ q.last_added_frame \in Int
    BY <1>2, CanAddNext, PreviousSlot
  <2>2. PICK r : r = add_input_by_frame(q, frame, v, floor).q /\ Added(q, r, frame, v, floor)
    BY <1>2, AddFields
  <2>3. q.length \in 0 .. QueueLength /\ q.length > 0
    BY DEF QueueInv, Queue, Kept
  <2>4. CASE q.length < QueueLength
    <3>1. /\ r.length = q.length + 1 /\ r.last_added_frame = q.last_added_frame + 1
          /\ r.reclaimed_floor_input = q.reclaimed_floor_input
      BY <2>1, <2>2, <2>4 DEF Added
    <3>2. Kept(r, f)
      BY <2>1, <2>3, <3>1, QueueLengthAssumption DEF Kept
    <3> QED BY <2>2, <3>2
  <2>5. CASE q.length = QueueLength
    <3>1. PICK t \in Nat : t = q.inputs[q.tail].frame /\ t = q.last_added_frame + 1 - QueueLength
      BY <2>3, <2>5, OldestSlot
    <3>2. q.inputs[q.tail] \in PlayerInput
      BY <2>3, OldestSlot
    <3>3. t <= floor
      BY <1>2, <2>5, <3>1 DEF CanAddByFrame
    <3>4. /\ r.length = QueueLength /\ r.last_added_frame = q.last_added_frame + 1
          /\ t = floor => r.reclaimed_floor_input = q.inputs[q.tail]
      BY <2>1, <2>2, <2>5, <3>1, QueueLengthAssumption DEF Added
    <3>5. f <= q.last_added_frame
      BY DEF Kept
    <3>6. CASE f = t
      <4>1. floor = t
        BY <3>3, <3>6
      <4>2. r.reclaimed_floor_input # None /\ r.reclaimed_floor_input.frame = f
        BY <3>1, <3>2, <3>4, <3>6, <4>1, NoneAssumption
      <4>3. Kept(r, f)
        BY <2>1, <2>3, <2>5, <3>1, <3>4, <3>5, <3>6, <4>2, QueueLengthAssumption DEF Kept
      <4> QED BY <2>2, <4>3
    <3>7. CASE f > t
      <4>1. Kept(r, f)
        BY <2>1, <2>3, <2>5, <3>1, <3>4, <3>5, <3>7, QueueLengthAssumption DEF Kept
      <4> QED BY <2>2, <4>1
    <3> QED BY <3>3, <3>6, <3>7
  <2> QED BY <2>3, <2>4, <2>5, QueueLengthAssumption
<1> QED BY <1>1, <1>2

\* So does a run of adds.
LEMMA RunKeeps ==
    ASSUME NEW q, QueueInv(q), NEW from \in Int, NEW inputs \in Seq(Input), NEW floor \in Int,
           NEW f \in Nat, floor <= f, Kept(q, f)
    PROVE  Kept(AddRun(q, from, inputs, floor).q, f)
<1> DEFINE Q == {r \in Queue : QueueInv(r) /\ Kept(r, f)}
<1>1. PICK N \in Nat : N = Len(inputs)
  OBVIOUS
<1>2. ASSUME NEW r \in Q, NEW n \in 1 .. N
      PROVE  add_input_by_frame(r, from + n - 1, inputs[n], floor).q \in Q
  <2>1. PICK frame \in Int, v \in Input : frame = from + n - 1 /\ v = inputs[n]
    BY <1>1
  <2>2. PICK x : x = add_input_by_frame(r, frame, v, floor).q
    OBVIOUS
  <2>3. QueueInv(x) /\ Kept(x, f)
    BY <2>2, AddByFrameInv, AddKeeps DEF AddStep
  <2>4. x \in Queue
    BY <2>3 DEF QueueInv
  <2> QED BY <2>1, <2>2, <2>3, <2>4
<1>3. q \in Q
  BY DEF QueueInv
<1> HIDE DEF Q
<1>4. AddRun(q, from, inputs, floor).q \in Q
  BY <1>1, <1>2, <1>3, RunStays
<1> QED BY <1>4 DEF Q

\* Kept looks at the entries only.
LEMMA EntriesKeep ==
    ASSUME NEW q, NEW r, SameEntries(q, r), NEW f, Kept(q, f)
    PROVE  Kept(r, f)
  BY DEF SameEntries, Kept

\* The three operations that add inputs, with a floor at or below the frame.
LEMMA AddInputKeeps ==
    ASSUME NEW q, QueueInv(q), NEW frame \in Nat, NEW v \in Input, NEW floor \in Int,
           q.last_added_frame = NULL_FRAME => frame = 0,
           NEW f \in Nat, floor <= f, Kept(q, f)
    PROVE  Kept(add_input(q, frame, v, floor).q, f)
<1>1. PICK res : res = add_input(q, frame, v, floor)
  OBVIOUS
<1>2. ASSUME NEW fill, StoredAfter(q, res, fill, frame, v, floor) PROVE Kept(res.q, f)
  <2>1. PICK to \in Int, count \in Nat :
          to = frame + q.frame_delay /\ count = to - (q.last_added_frame + 1)
    BY <1>2, PreviousSlot DEF StoredAfter
  <2>2. PICK run : run = Replicate(Newest(q), count)
    OBVIOUS
  <2>3. PICK w \in Input : w = Newest(q)
    BY PreviousSlot DEF Newest
  <2>4. run \in Seq(Input)
    BY <2>2, <2>3, ReplicateType
  <2>5. /\ fill = AddRun(q, q.last_added_frame + 1, run, floor).q /\ QueueInv(fill)
        /\ res.q = add_input_by_frame(fill, to, v, floor).q
    BY <1>2, <2>1, <2>2 DEF StoredAfter
  <2>6. q.last_added_frame + 1 \in Int
    BY PreviousSlot
  <2>7. Kept(fill, f)
    BY <2>4, <2>5, <2>6, RunKeeps
  <2> QED BY <2>5, <2>7, AddKeeps
<1> QED BY <1>1, <1>2, AddInputCases

LEMMA SetFrameDelayKeeps ==
    ASSUME NEW q, QueueInv(q), NEW delay \in Nat, NEW floor \in Int,
           NEW f \in Nat, floor <= f, Kept(q, f)
    PROVE  Kept(set_frame_delay(q, delay, floor).q, f)
<1>1. PICK r : r = set_frame_delay(q, delay, floor).q
  OBVIOUS
<1>2. CASE r = [q EXCEPT !.frame_delay = delay]
  <2>1. SameEntries(q, r)
    BY <1>2, DelayKeeps
  <2> QED BY <1>1, <2>1, EntriesKeep
<1>3. ASSUME NEW fill, FilledTo(q, r, fill, delay, floor) PROVE Kept(r, f)
  <2>1. PICK count \in Nat : count = delay - q.frame_delay
    BY <1>3 DEF FilledTo
  <2>2. PICK run : run = Replicate(Newest(q), count)
    OBVIOUS
  <2>3. PICK w \in Input : w = Newest(q)
    BY PreviousSlot DEF Newest
  <2>4. run \in Seq(Input) /\ q.last_added_frame + 1 \in Int
    <3>1. run \in Seq(Input)
      BY <2>2, <2>3, ReplicateType
    <3> QED BY <3>1, PreviousSlot
  <2>5. /\ fill = AddRun(q, q.last_added_frame + 1, run, floor).q /\ QueueInv(fill)
        /\ r = [fill EXCEPT !.frame_delay = delay]
    BY <1>3, <2>1, <2>2 DEF FilledTo
  <2>6. Kept(fill, f)
    BY <2>4, <2>5, RunKeeps
  <2>7. SameEntries(fill, r)
    BY <2>5, DelayKeeps
  <2> QED BY <2>6, <2>7, EntriesKeep
<1>4. \/ r = q \/ r = [q EXCEPT !.frame_delay = delay]
      \/ \E fill : FilledTo(q, r, fill, delay, floor)
  BY <1>1, SetFrameDelayCases
<1> QED BY <1>1, <1>2, <1>3, <1>4

LEMMA BackfillKeeps ==
    ASSUME NEW q, QueueInv(q), NEW from \in Nat, NEW n \in Nat, n > 0,
           NEW values \in [1 .. n -> Input], NEW floor \in Int,
           NEW f \in Nat, floor <= f, Kept(q, f)
    PROVE  Kept(Backfilled(q, from, values, floor), f)
<1>1. PICK r : r = Backfilled(q, from, values, floor)
  OBVIOUS
<1>2. ASSUME NEW suffix, BackfilledRun(q, r, from, values, suffix, floor) PROVE Kept(r, f)
  <2>1. suffix \in Seq(Input) /\ r = AddRun(q, q.last_added_frame + 1, suffix, floor).q
    BY <1>2 DEF BackfilledRun
  <2>2. q.last_added_frame + 1 \in Int
    BY PreviousSlot
  <2> QED BY <2>1, <2>2, RunKeeps
<1> QED BY <1>1, <1>2, BackfillCases

\* A discard stops at the frame asked for last.
LEMMA DiscardKeeps ==
    ASSUME NEW q, QueueInv(q), NEW before \in Nat, NEW f \in Nat, f = q.last_requested_frame,
           Kept(q, f)
    PROVE  Kept(discard_confirmed_frames(q, before), f)
<1>1. PICK r, bound : r = discard_confirmed_frames(q, before) /\ bound = DiscardBound(q, before)
  OBVIOUS
<1>2. bound \in Int /\ bound <= f
  BY <1>1 DEF DiscardBound, MinFrame, NULL_FRAME
<1>3. CASE Discarded(q, r, bound)
  <2>1. /\ q.last_added_frame \in Int /\ q.length \in Nat
        /\ r.length \in Nat /\ r.length > 0 /\ r.length <= q.length
        /\ r.last_added_frame = q.last_added_frame
        /\ r.length = q.length \/ q.last_added_frame + 1 - r.length <= bound
    BY <1>3, PreviousSlot, QueueLengthAssumption DEF Discarded, QueueInv, Queue
  <2>2. f <= q.last_added_frame
    BY DEF Kept
  <2>3. CASE f >= r.last_added_frame + 1 - r.length
    BY <1>1, <2>1, <2>2, <2>3 DEF Kept
  <2>4. CASE ~(f >= r.last_added_frame + 1 - r.length)
    <3>1. r.length = q.length
      BY <1>2, <2>1, <2>4
    <3>2. /\ q.reclaimed_floor_input # None /\ q.reclaimed_floor_input.frame = f
          /\ f = q.last_added_frame - q.length
      BY <2>1, <2>4, <3>1 DEF Kept
    <3>3. r.reclaimed_floor_input = q.reclaimed_floor_input
      BY <1>2, <1>3, <3>2 DEF Discarded
    <3> QED BY <1>1, <2>1, <2>2, <3>1, <3>2, <3>3 DEF Kept
  <2> QED BY <2>3, <2>4
<1> QED BY <1>1, <1>3, DiscardCases
=============================================================================
