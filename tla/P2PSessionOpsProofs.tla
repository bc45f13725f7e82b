------------------------ MODULE P2PSessionOpsProofs ------------------------
(***************************************************************************)
(* Lemmas about the operations of a P2P session: what a read, a reset or a *)
(* discard leaves of the queues, what each stage of advance_frame makes of *)
(* its work record, what the game makes of the requests, and what a queue  *)
(* holds of the inputs a player really gave.                               *)
(***************************************************************************)
EXTENDS P2PSession, InputQueueOpsProofs, FiniteSetTheorems

-----------------------------------------------------------------------------
(* Smallest and largest frames.                                            *)

\* A nonempty set of frames has a smallest one.
LEMMA MinOfFrames ==
    ASSUME NEW S, S \subseteq FrameOrNull, S # {}
    PROVE  /\ MinOf(S) \in S
           /\ \A y \in S : MinOf(S) <= y
           /\ MinOf(S) \in FrameOrNull
<1> DEFINE T == {n \in Nat : n - 1 \in S}
           R == OpToRel(<, Nat)
<1>1. T # {} /\ T \subseteq Nat
  <2>1. PICK x \in S : TRUE
    OBVIOUS
  <2>2. PICK n \in Nat : n - 1 = x
    <3>1. x + 1 \in Nat /\ (x + 1) - 1 = x
      BY DEF FrameOrNull, NULL_FRAME
    <3> QED BY <3>1
  <2>3. n \in T
    BY <2>2
  <2> QED BY <2>3
<1>2. PICK m \in T : \A k \in T : <<k, m>> \notin R
  <2>1. IsWellFoundedOn(R, Nat)
    BY NatLessThanWellFounded, Zenon
  <2> HIDE DEF R, T
  <2> QED BY <1>1, <2>1, WFMin, Zenon
<1>3. \A k \in Nat : k < m => <<k, m>> \in R
  BY DEF OpToRel
<1>4. ASSUME NEW y \in S PROVE m - 1 <= y
  <2>1. y + 1 \in T
    BY DEF FrameOrNull, NULL_FRAME
  <2>2. ~(y + 1 < m)
    BY <1>2, <1>3, <2>1
  <2> QED BY <2>2 DEF FrameOrNull, NULL_FRAME
<1>5. \E x \in S : \A y \in S : x <= y
  BY <1>4
<1>6. MinOf(S) \in S /\ \A y \in S : MinOf(S) <= y
  BY <1>5 DEF MinOf
<1> QED BY <1>6

\* A nonempty set of frames that stay below some bound has a largest one.
LEMMA MaxExists ==
    ASSUME NEW S, S \subseteq Nat, S # {}, NEW bound \in Nat, \A x \in S : x <= bound
    PROVE  \E x \in S : \A y \in S : y <= x
<1> DEFINE T == {n \in Nat : bound - n \in S}
<1>1. T \subseteq FrameOrNull /\ T # {}
  <2>1. PICK x \in S : TRUE
    OBVIOUS
  <2>2. bound - x \in T
    BY DEF FrameOrNull
  <2> QED BY <2>2 DEF FrameOrNull
<1>2. MinOf(T) \in T /\ \A y \in T : MinOf(T) <= y
  BY <1>1, MinOfFrames
<1>3. PICK m \in T : \A y \in T : m <= y
  BY <1>2
<1>4. ASSUME NEW y \in S PROVE y <= bound - m
  <2>1. bound - y \in T
    OBVIOUS
  <2> QED BY <1>3, <2>1
<1> QED BY <1>3, <1>4

\* Finitely many frames stay below some bound.
LEMMA FramesBounded ==
    ASSUME NEW F \in [Players -> FrameOrNull]
    PROVE  \E bound \in Nat : \A p \in Players : F[p] <= bound
<1> DEFINE G == {n \in 0 .. NumPlayers : \E bound \in Nat : \A p \in 0 .. n - 1 : F[p] <= bound}
<1>1. NumPlayers \in Nat
  BY NumPlayersAssumption
<1>2. 0 \in G
  BY <1>1
<1>3. ASSUME NEW n \in 1 .. NumPlayers, n - 1 \in G PROVE n \in G
  <2>1. PICK bound \in Nat : \A p \in 0 .. n - 1 - 1 : F[p] <= bound
    BY <1>3
  <2>2. F[n - 1] \in FrameOrNull
    BY <1>1 DEF Players
  <2>3. PICK top \in Nat : top >= bound /\ top >= F[n - 1]
    <3>1. CASE F[n - 1] <= bound
      BY <3>1
    <3>2. CASE ~(F[n - 1] <= bound)
      BY <2>2, <3>2 DEF FrameOrNull, NULL_FRAME
    <3> QED BY <3>1, <3>2
  <2>4. ASSUME NEW p \in 0 .. n - 1 PROVE F[p] <= top
    <3>1. CASE p = n - 1
      BY <2>3, <3>1
    <3>2. CASE p # n - 1
      <4>1. p \in 0 .. n - 1 - 1 /\ p \in Players
        BY <1>1, <3>2 DEF Players
      <4>2. F[p] \in Int
        BY <4>1 DEF FrameOrNull, NULL_FRAME
      <4> QED BY <2>1, <2>3, <4>1, <4>2
    <3> QED BY <3>1, <3>2
  <2> QED BY <1>1, <2>4
<1>4. \A n \in 0 .. NumPlayers : n \in G
  <2> HIDE DEF G
  <2> QED BY <1>1, <1>2, <1>3, IndexInduction
<1>5. NumPlayers \in G
  <2> HIDE DEF G
  <2> QED BY <1>1, <1>4
<1> QED BY <1>5 DEF Players

\* The larger of two frames.
LEMMA MaxFrameType ==
    ASSUME NEW a \in Int, NEW b \in Int
    PROVE  /\ MaxFrameOf(a, b) \in {a, b}
           /\ MaxFrameOf(a, b) >= a /\ MaxFrameOf(a, b) >= b
  BY DEF MaxFrameOf

-----------------------------------------------------------------------------
(* A queue that was read, reset or discarded from.                         *)

\* r holds the inputs of q; only its episode and how much of them counts as held
\* may differ.
SameInputs(q, r) ==
    /\ QueueInv(r)
    /\ r.inputs = q.inputs
    /\ r.last_added_frame = q.last_added_frame
    /\ r.frame_delay = q.frame_delay
    /\ r.frozen = q.frozen
    /\ r.last_confirmed_input = q.last_confirmed_input
    /\ r.reclaimed_floor_input \in {q.reclaimed_floor_input, None}
    /\ r.length = 0 <=> q.length = 0

LEMMA SameInputsRefl == ASSUME NEW q, QueueInv(q) PROVE SameInputs(q, q)
  BY DEF SameInputs

LEMMA SameInputsTrans ==
    ASSUME NEW q, NEW r, NEW s, SameInputs(q, r), SameInputs(r, s)
    PROVE  SameInputs(q, s)
  BY DEF SameInputs

\* A request.
LEMMA SameAfterRequest ==
    ASSUME NEW q, QueueInv(q), NEW frame \in Nat
    PROVE  SameInputs(q, input(q, frame).q)
<1>1. QueueInv(input(q, frame).q)
  BY RequestInv
<1>2. PICK res : res = input(q, frame)
  OBVIOUS
<1>3. RequestAs(q, res, frame)
  BY <1>2, RequestCases
<1> QED BY <1>1, <1>2, <1>3 DEF RequestAs, SameEntries, SameInputs

\* The end of an episode.
LEMMA SameAfterReset ==
    ASSUME NEW q, QueueInv(q)
    PROVE  SameInputs(q, reset_prediction(q))
<1>1. QueueInv(reset_prediction(q))
  BY ResetPredictionInv
<1> QED BY <1>1 DEF reset_prediction, SameInputs, QueueInv, Queue

\* A discard.
LEMMA SameAfterDiscard ==
    ASSUME NEW q, QueueInv(q), NEW before \in Nat
    PROVE  SameInputs(q, discard_confirmed_frames(q, before))
<1>1. PICK r, bound : r = discard_confirmed_frames(q, before) /\ bound = DiscardBound(q, before)
  OBVIOUS
<1>2. QueueInv(r)
  BY <1>1, DiscardInv
<1>3. CASE r = q
  BY <1>1, <1>3, SameInputsRefl
<1>4. CASE Discarded(q, r, bound)
  <2>1. r.length # 0 /\ q.length # 0
    BY <1>4, QueueLengthAssumption DEF Discarded, QueueInv, Queue
  <2> QED BY <1>1, <1>2, <1>4, <2>1 DEF Discarded, SameInputs
<1> QED BY <1>1, <1>3, <1>4, DiscardCases

\* The stored inputs are still the same.
LEMMA SameInputsContent ==
    ASSUME NEW q, NEW r, SameInputs(q, r), NEW W, Content(q, W)
    PROVE  Content(r, W)
  BY DEF SameInputs, Content, SlotHolds

\* An answer that is not an error is an input.
LEMMA RequestType ==
    ASSUME NEW q, QueueInv(q), NEW frame \in Nat
    PROVE  input(q, frame).status # "None" => input(q, frame).input \in Input
<1>1. q \in Queue
  BY DEF QueueInv
<1>2. /\ q.inputs \in [Slot -> PlayerInput] /\ q.tail \in Int
      /\ q.tail \in Slot
      /\ q.prediction.input \in Input /\ predict(q.last_confirmed_input) \in Input
      /\ q.reclaimed_floor_input # None => q.reclaimed_floor_input.input \in Input
  BY <1>1, QueueLengthAssumption, InputAssumption DEF Queue, PlayerInput, predict, Slot
<1>3. q.inputs[q.tail].frame \in Int
  BY <1>2 DEF PlayerInput, FrameOrNull, NULL_FRAME
<1>4. PICK index : index = circular_index_add(q.tail, frame - q.inputs[q.tail].frame)
  OBVIOUS
<1>5. index \in Slot
  <2>1. PICK k \in Int : k = q.tail + (frame - q.inputs[q.tail].frame)
    BY <1>2, <1>3
  <2>2. index = SlotOf(k)
    BY <1>4, <2>1 DEF circular_index_add, SlotOf
  <2> QED BY <2>2, SlotOfType
<1>6. q.inputs[index].input \in Input
  BY <1>2, <1>5 DEF PlayerInput
<1> QED BY <1>2, <1>4, <1>6 DEF input

-----------------------------------------------------------------------------
(* The sync layer.                                                         *)

\* t is s after reads, resets and discards: the cells are the old ones.
Derived(s, t) ==
    /\ t \in SyncLayer
    /\ t.saved_states = s.saved_states
    /\ \A p \in Players : SameInputs(s.input_queues[p], t.input_queues[p])

LEMMA DerivedTrans ==
    ASSUME NEW s, NEW t, NEW u, Derived(s, t), Derived(t, u)
    PROVE  Derived(s, u)
<1>1. ASSUME NEW p \in Players PROVE SameInputs(s.input_queues[p], u.input_queues[p])
  BY SameInputsTrans DEF Derived
<1> QED BY <1>1 DEF Derived

\* The sync layers a session works on: the queues are aligned rings.
SyncInv(s) == s \in SyncLayer /\ \A p \in Players : QueueInv(s.input_queues[p])

LEMMA DerivedInv ==
    ASSUME NEW s, NEW t, Derived(s, t)
    PROVE  SyncInv(t)
  BY DEF Derived, SyncInv, SameInputs

LEMMA DerivedRefl ==
    ASSUME NEW s, SyncInv(s)
    PROVE  Derived(s, s)
  BY SameInputsRefl DEF SyncInv, Derived

\* Asking every queue for the current frame.
LEMMA SynchronizedInputs ==
    ASSUME NEW s, SyncInv(s), NEW status
    PROVE  LET got == synchronized_inputs(s, status)
           IN  /\ Derived(s, got.sl)
               /\ got.sl.current_frame = s.current_frame
               /\ got.sl.last_confirmed_frame = s.last_confirmed_frame
               /\ got.sl.last_saved_frame = s.last_saved_frame
               /\ got.ok \in BOOLEAN
               /\ got.ok => got.inputs \in [Players -> Input]
<1> DEFINE got == synchronized_inputs(s, status)
           ask == [p \in Players |-> input(s.input_queues[p], s.current_frame)]
           asked == {p \in Players : ~IsDropped(status, p, s.current_frame)}
           failed == {p \in asked : ask[p].status = "None"}
           queues == [p \in Players |-> IF p \in asked /\ \A f \in failed : p <= f
                                        THEN ask[p].q ELSE s.input_queues[p]]
<1>1. s \in SyncLayer /\ \A p \in Players : QueueInv(s.input_queues[p])
  BY DEF SyncInv
<1>2. /\ s.current_frame \in Nat /\ s.last_confirmed_frame \in FrameOrNull
      /\ s.last_saved_frame \in FrameOrNull
  BY <1>1 DEF SyncLayer
<1>3. /\ got.sl = [s EXCEPT !.input_queues = queues]
      /\ got.ok = (failed = {})
      /\ got.inputs = [p \in Players |-> IF p \in asked THEN ask[p].input ELSE DroppedInput(s, p)]
  BY DEF synchronized_inputs
<1>5. \A p \in Players : SameInputs(s.input_queues[p], queues[p])
  BY <1>1, <1>2, SameAfterRequest, SameInputsRefl
<1>6. got.ok => got.inputs \in [Players -> Input]
  <2>1. ASSUME NEW p \in Players, ask[p].status # "None" PROVE ask[p].input \in Input
    BY <1>1, <1>2, <2>1, RequestType
  <2>2. ASSUME NEW p \in Players PROVE DroppedInput(s, p) \in Input
    <3>1. s.input_queues[p] \in Queue
      BY <1>1 DEF QueueInv
    <3> QED BY <3>1, InputAssumption DEF DroppedInput, predict, Queue
  <2>3. ASSUME failed = {}, NEW p \in asked PROVE ask[p].input \in Input
    <3>1. ask[p].status # "None" /\ p \in Players
      BY <2>3
    <3> QED BY <2>1, <3>1
  <2> HIDE DEF ask, asked, failed, got
  <2>4. ASSUME failed = {} PROVE got.inputs \in [Players -> Input]
    BY <1>3, <2>2, <2>3, <2>4
  <2> QED BY <1>3, <2>4, Zenon
<1>7. queues \in [Players -> Queue]
  <2>1. \A p \in Players : queues[p] \in Queue
    BY <1>5 DEF SameInputs, QueueInv
  <2> QED BY <2>1
<1> HIDE DEF queues, got
<1>8. /\ Derived(s, got.sl)
      /\ got.sl.current_frame = s.current_frame
      /\ got.sl.last_confirmed_frame = s.last_confirmed_frame
      /\ got.sl.last_saved_frame = s.last_saved_frame
  BY <1>1, <1>3, <1>5, <1>7 DEF Derived, SyncLayer
<1>9. got.ok \in BOOLEAN
  BY <1>3
<1> QED BY <1>6, <1>8, <1>9 DEF got

\* The counters.
LEMMA CountersDerived ==
    ASSUME NEW s, SyncInv(s), NEW t \in SyncLayer,
           t.saved_states = s.saved_states, t.input_queues = s.input_queues
    PROVE  Derived(s, t)
<1>1. \A p \in Players : SameInputs(s.input_queues[p], t.input_queues[p])
  BY SameInputsRefl DEF SyncInv
<1> QED BY <1>1 DEF Derived

\* reset_prediction of every queue.
LEMMA ResetDerived ==
    ASSUME NEW s, SyncInv(s)
    PROVE  LET t == SyncLayer_reset_prediction(s)
           IN  /\ Derived(s, t)
               /\ t.current_frame = s.current_frame
               /\ t.last_saved_frame = s.last_saved_frame
               /\ t.last_confirmed_frame = s.last_confirmed_frame
<1> DEFINE queues == [p \in Players |-> reset_prediction(s.input_queues[p])]
<1>1. /\ s \in SyncLayer /\ \A p \in Players : QueueInv(s.input_queues[p])
      /\ s.current_frame \in Nat /\ s.last_confirmed_frame \in FrameOrNull
      /\ s.last_saved_frame \in FrameOrNull
  BY DEF SyncInv, SyncLayer
<1>2. PICK t : t = SyncLayer_reset_prediction(s)
  OBVIOUS
<1>3. \A p \in Players : SameInputs(s.input_queues[p], queues[p])
  BY <1>1, SameAfterReset
<1>4. queues \in [Players -> Queue]
  <2>1. \A p \in Players : queues[p] \in Queue
    BY <1>3 DEF SameInputs, QueueInv
  <2> QED BY <2>1
<1>5. t = [s EXCEPT !.input_queues = queues]
  BY <1>2 DEF SyncLayer_reset_prediction
<1> HIDE DEF queues
<1>6. /\ t \in SyncLayer /\ t.saved_states = s.saved_states /\ t.input_queues = queues
      /\ t.current_frame = s.current_frame /\ t.last_saved_frame = s.last_saved_frame
      /\ t.last_confirmed_frame = s.last_confirmed_frame
  BY <1>1, <1>4, <1>5 DEF SyncLayer
<1>7. Derived(s, t)
  BY <1>3, <1>6 DEF Derived
<1> QED BY <1>2, <1>6, <1>7

\* The confirmed frame is a frame, and what is discarded lies below it.
LEMMA ConfirmDerived ==
    ASSUME NEW s, SyncInv(s), NEW frame \in FrameOrNull, NEW save_mode
    PROVE  LET t == set_last_confirmed_frame(s, frame, save_mode)
           IN  /\ Derived(s, t)
               /\ t.current_frame = s.current_frame
               /\ t.last_saved_frame = s.last_saved_frame
<1> DEFINE bound     == ConfirmedBound(s, frame, save_mode)
           wrong     == FirstIncorrects(s)
           incorrect == IF wrong = {} THEN NULL_FRAME
                        ELSE CHOOSE f \in wrong : \A g \in wrong : g <= f
           confirmed == IF incorrect # NULL_FRAME /\ incorrect < bound THEN incorrect ELSE bound
           queues    == IF confirmed > 0
                        THEN [p \in Players |-> discard_confirmed_frames(s.input_queues[p], confirmed - 1)]
                        ELSE s.input_queues
<1>1. /\ s \in SyncLayer /\ \A p \in Players : QueueInv(s.input_queues[p])
      /\ s.current_frame \in Nat /\ s.last_confirmed_frame \in FrameOrNull
      /\ s.last_saved_frame \in FrameOrNull /\ s.input_queues \in [Players -> Queue]
  BY DEF SyncInv, SyncLayer
<1>2. bound \in FrameOrNull
  BY <1>1 DEF ConfirmedBound, MinFrame, FrameOrNull
<1>3. incorrect \in FrameOrNull
  <2> DEFINE F == [p \in Players |-> s.input_queues[p].first_incorrect_frame]
  <2>1. F \in [Players -> FrameOrNull]
    BY <1>1 DEF Queue
  <2>2. PICK top \in Nat : \A p \in Players : F[p] <= top
    <3> HIDE DEF F
    <3> QED BY <2>1, FramesBounded
  <2>3. ASSUME NEW x \in wrong PROVE x \in Nat /\ x <= top
    BY <2>1, <2>2 DEF FirstIncorrects, FrameOrNull
  <2>4. ASSUME wrong # {} PROVE \E x \in wrong : \A y \in wrong : y <= x
    <3> HIDE DEF wrong
    <3> QED BY <2>3, <2>4, MaxExists
  <2> HIDE DEF wrong
  <2> QED BY <2>3, <2>4 DEF FrameOrNull
<1> HIDE DEF incorrect
<1>4. confirmed \in FrameOrNull
  BY <1>2, <1>3
<1>5. PICK t : t = set_last_confirmed_frame(s, frame, save_mode)
  OBVIOUS
<1>6. t = [s EXCEPT !.last_confirmed_frame = confirmed, !.input_queues = queues]
  BY <1>5 DEF set_last_confirmed_frame, incorrect
<1> HIDE DEF bound, confirmed
<1>7. \A p \in Players : SameInputs(s.input_queues[p], queues[p])
  <2>1. ASSUME confirmed > 0, NEW p \in Players
        PROVE  SameInputs(s.input_queues[p], discard_confirmed_frames(s.input_queues[p], confirmed - 1))
    <3>1. PICK before \in Nat : before = confirmed - 1
      BY <1>4, <2>1 DEF FrameOrNull, NULL_FRAME
    <3> QED BY <1>1, <3>1, SameAfterDiscard
  <2>2. ASSUME NEW p \in Players PROVE SameInputs(s.input_queues[p], s.input_queues[p])
    BY <1>1, SameInputsRefl
  <2> QED BY <2>1, <2>2
<1>8. queues \in [Players -> Queue]
  <2>1. \A p \in Players : queues[p] \in Queue
    BY <1>7 DEF SameInputs, QueueInv
  <2>2. queues = [p \in Players |-> queues[p]]
    <3>1. CASE confirmed > 0
      BY <3>1
    <3>2. CASE ~(confirmed > 0)
      BY <1>1, <3>2
    <3> QED BY <3>1, <3>2
  <2> HIDE DEF queues
  <2> QED BY <2>1, <2>2
<1> HIDE DEF queues
<1>9. /\ t \in SyncLayer /\ t.saved_states = s.saved_states /\ t.input_queues = queues
      /\ t.current_frame = s.current_frame /\ t.last_saved_frame = s.last_saved_frame
  BY <1>1, <1>4, <1>6, <1>8 DEF SyncLayer
<1>10. Derived(s, t)
  BY <1>7, <1>9 DEF Derived
<1> QED BY <1>5, <1>9, <1>10

-----------------------------------------------------------------------------
(* The stages of advance_frame on its work record.                         *)

SaveOrLoad == [type : {"Save", "Load"}, frame : Nat]
Advance == [type : {"Advance"}, inputs : [Players -> Input]]

\* The fields of a work record; which statuses, inputs and broadcast they hold is
\* for each stage to say.
Shaped(w) ==
    w \in [sl : SyncLayer, status : {w.status}, local_inputs : {w.local_inputs},
           disconnect_frame : FrameOrNull, broadcast : {w.broadcast},
           requests : Seq(SaveOrLoad \cup Advance), ok : BOOLEAN]

\* w is v after stages that simulate, save, load and discard.
Worked(v, w) ==
    /\ Shaped(w)
    /\ Derived(v.sl, w.sl)
    /\ w.sl.last_confirmed_frame = v.sl.last_confirmed_frame
    /\ w.status = v.status
    /\ w.local_inputs = v.local_inputs
    /\ w.broadcast = v.broadcast

LEMMA WorkedTrans ==
    ASSUME NEW u, NEW v, NEW w, Worked(u, v), Worked(v, w)
    PROVE  Worked(u, w)
<1>1. Derived(u.sl, w.sl)
  BY DerivedTrans DEF Worked
<1> QED BY <1>1 DEF Worked

LEMMA WorkedRefl ==
    ASSUME NEW w, Shaped(w), SyncInv(w.sl)
    PROVE  Worked(w, w)
  BY DerivedRefl DEF Worked

LEMMA WorkedInv ==
    ASSUME NEW v, NEW w, Worked(v, w)
    PROVE  Shaped(w) /\ SyncInv(w.sl)
  BY DerivedInv DEF Worked

\* One step of a replay.
ReplayStep(i, prev, min_confirmed) ==
    Simulate(prev, SaveWhileReplaying(prev.sl.current_frame, i, min_confirmed))

\* f is the function Replay defines recursively, over its first N steps.
IsReplay(f, N, loaded, min_confirmed) ==
    f = [n \in 0 .. N |-> IF n = 0 THEN loaded ELSE ReplayStep(n, f[n - 1], min_confirmed)]

\* The recursion of Replay defines a function.
LEMMA ReplayExists ==
    ASSUME NEW N \in Nat, NEW loaded, NEW min_confirmed
    PROVE  \E f : IsReplay(f, N, loaded, min_confirmed)
<1> DEFINE G == {n \in 0 .. N : \E f : IsReplay(f, n, loaded, min_confirmed)}
           step(i, prev) == ReplayStep(i, prev, min_confirmed)
<1>1. 0 \in G
  <2> DEFINE f == [n \in 0 .. 0 |-> loaded]
  <2>1. IsReplay(f, 0, loaded, min_confirmed)
    BY DEF IsReplay
  <2> HIDE DEF f
  <2> QED BY <2>1
<1>2. ASSUME NEW n \in 1 .. N, n - 1 \in G PROVE n \in G
  <2>1. PICK f : IsReplay(f, n - 1, loaded, min_confirmed)
    BY <1>2
  <2> DEFINE g == [i \in 0 .. n |-> IF i = n THEN step(n, f[n - 1]) ELSE f[i]]
  <2>2. f = [i \in 0 .. n - 1 |-> IF i = 0 THEN loaded ELSE step(i, f[i - 1])]
    BY <2>1 DEF IsReplay
  <2> HIDE DEF step
  <2>3. ASSUME NEW i \in 0 .. n
        PROVE  g[i] = IF i = 0 THEN loaded ELSE step(i, g[i - 1])
    <3>1. CASE i = n
      <4>1. g[i] = step(n, f[n - 1]) /\ g[n - 1] = f[n - 1] /\ i # 0
        BY <3>1
      <4> QED BY <3>1, <4>1
    <3>2. CASE i # n /\ i # 0
      <4>1. g[i] = f[i] /\ i \in 0 .. n - 1 /\ i - 1 \in 0 .. n /\ i - 1 # n
        BY <3>2
      <4>2. g[i - 1] = f[i - 1]
        BY <4>1
      <4>3. f[i] = step(i, f[i - 1])
        BY <2>2, <3>2, <4>1
      <4> QED BY <3>2, <4>1, <4>2, <4>3
    <3>3. CASE i # n /\ i = 0
      <4>1. g[i] = f[i] /\ i \in 0 .. n - 1
        BY <3>3
      <4> QED BY <2>2, <3>3, <4>1
    <3> QED BY <3>1, <3>2, <3>3
  <2>4. g = [i \in 0 .. n |-> g[i]]
    OBVIOUS
  <2> HIDE DEF g
  <2>5. g = [i \in 0 .. n |-> IF i = 0 THEN loaded ELSE step(i, g[i - 1])]
    BY <2>3, <2>4
  <2>6. IsReplay(g, n, loaded, min_confirmed)
    BY <2>5 DEF IsReplay, step
  <2> QED BY <2>6
<1>3. \A n \in 0 .. N : n \in G
  <2> HIDE DEF G
  <2> QED BY <1>1, <1>2, IndexInduction
<1> QED BY <1>3

\* Replay is the last value of that function.
LEMMA ReplayValue ==
    ASSUME NEW N \in Nat, NEW loaded, NEW min_confirmed
    PROVE  \E f : IsReplay(f, N, loaded, min_confirmed) /\ Replay(loaded, N, min_confirmed) = f[N]
<1> DEFINE f == CHOOSE f : IsReplay(f, N, loaded, min_confirmed)
<1>1. IsReplay(f, N, loaded, min_confirmed)
  BY ReplayExists
<1>2. Replay(loaded, N, min_confirmed) = f[N]
  BY Zenon DEF Replay, IsReplay, ReplayStep
<1> QED BY <1>1, <1>2, Zenon

\* One request as the game handles it.
FulfilStep(i, g, cells, requests) ==
    LET r == requests[i]
    IN  CASE r.type = "Save" ->
                 [g EXCEPT !.cells[get_cell(cells, r.frame)] = [frame |-> r.frame, state |-> g.game]]
          [] r.type = "Load" -> [g EXCEPT !.game = g.cells[get_cell(cells, r.frame)].state]
          [] r.type = "Advance" -> [g EXCEPT !.game = Append(@, r.inputs)]

\* f is the function Fulfil defines recursively, over its first N steps.
IsFulfil(f, N, cells, requests) ==
    f = [n \in 0 .. N |-> IF n = 0 THEN [cells |-> cells, game |-> game] ELSE FulfilStep(n, f[n - 1], cells, requests)]

\* The recursion of Fulfil defines a function.
LEMMA FulfilExists ==
    ASSUME NEW N \in Nat, NEW cells, NEW requests
    PROVE  \E f : IsFulfil(f, N, cells, requests)
<1> DEFINE G == {n \in 0 .. N : \E f : IsFulfil(f, n, cells, requests)}
           step(i, prev) == FulfilStep(i, prev, cells, requests)
<1>1. 0 \in G
  <2> DEFINE f == [n \in 0 .. 0 |-> [cells |-> cells, game |-> game]]
  <2>1. IsFulfil(f, 0, cells, requests)
    BY DEF IsFulfil
  <2> HIDE DEF f
  <2> QED BY <2>1
<1>2. ASSUME NEW n \in 1 .. N, n - 1 \in G PROVE n \in G
  <2>1. PICK f : IsFulfil(f, n - 1, cells, requests)
    BY <1>2
  <2> DEFINE g == [i \in 0 .. n |-> IF i = n THEN step(n, f[n - 1]) ELSE f[i]]
  <2>2. f = [i \in 0 .. n - 1 |-> IF i = 0 THEN [cells |-> cells, game |-> game] ELSE step(i, f[i - 1])]
    BY <2>1 DEF IsFulfil
  <2> HIDE DEF step
  <2>3. ASSUME NEW i \in 0 .. n
        PROVE  g[i] = IF i = 0 THEN [cells |-> cells, game |-> game] ELSE step(i, g[i - 1])
    <3>1. CASE i = n
      <4>1. g[i] = step(n, f[n - 1]) /\ g[n - 1] = f[n - 1] /\ i # 0
        BY <3>1
      <4> QED BY <3>1, <4>1
    <3>2. CASE i # n /\ i # 0
      <4>1. g[i] = f[i] /\ i \in 0 .. n - 1 /\ i - 1 \in 0 .. n /\ i - 1 # n
        BY <3>2
      <4>2. g[i - 1] = f[i - 1]
        BY <4>1
      <4>3. f[i] = step(i, f[i - 1])
        BY <2>2, <3>2, <4>1
      <4> QED BY <3>2, <4>1, <4>2, <4>3
    <3>3. CASE i # n /\ i = 0
      <4>1. g[i] = f[i] /\ i \in 0 .. n - 1
        BY <3>3
      <4> QED BY <2>2, <3>3, <4>1
    <3> QED BY <3>1, <3>2, <3>3
  <2>4. g = [i \in 0 .. n |-> g[i]]
    OBVIOUS
  <2> HIDE DEF g
  <2>5. g = [i \in 0 .. n |-> IF i = 0 THEN [cells |-> cells, game |-> game] ELSE step(i, g[i - 1])]
    BY <2>3, <2>4
  <2>6. IsFulfil(g, n, cells, requests)
    BY <2>5 DEF IsFulfil, step
  <2> QED BY <2>6
<1>3. \A n \in 0 .. N : n \in G
  <2> HIDE DEF G
  <2> QED BY <1>1, <1>2, IndexInduction
<1> QED BY <1>3

\* Fulfil is the last value of that function.
LEMMA FulfilValue ==
    ASSUME NEW cells, NEW requests, Len(requests) \in Nat
    PROVE  \E f : IsFulfil(f, Len(requests), cells, requests)
                    /\ Fulfil(cells, requests) = f[Len(requests)]
<1> DEFINE f == CHOOSE f : IsFulfil(f, Len(requests), cells, requests)
<1>1. IsFulfil(f, Len(requests), cells, requests)
  BY FulfilExists
<1>2. Fulfil(cells, requests) = f[Len(requests)]
  BY Zenon DEF Fulfil, IsFulfil, FulfilStep
<1> QED BY <1>1, <1>2, Zenon

\* A stage that replaces the sync layer by one derived from it, and may fail.
Replaced(w, x, t, ok) ==
    \/ x = [w EXCEPT !.sl = t, !.ok = ok]
    \/ x = [w EXCEPT !.sl = t] /\ ok = w.ok

LEMMA WorkedWith ==
    ASSUME NEW w, Shaped(w), NEW t, Derived(w.sl, t),
           t.last_confirmed_frame = w.sl.last_confirmed_frame, NEW ok \in BOOLEAN,
           NEW x, Replaced(w, x, t, ok)
    PROVE  Worked(w, x) /\ x.sl = t /\ x.ok = ok
<1>1. t \in SyncLayer
  BY DEF Derived
<1>2. /\ x \in [sl : SyncLayer, status : {w.status}, local_inputs : {w.local_inputs},
                disconnect_frame : FrameOrNull, broadcast : {w.broadcast},
                requests : Seq(SaveOrLoad \cup Advance), ok : BOOLEAN]
      /\ x.sl = t /\ x.ok = ok /\ x.status = w.status /\ x.local_inputs = w.local_inputs
      /\ x.broadcast = w.broadcast
  BY <1>1 DEF Shaped, Replaced
<1>3. Shaped(x)
  BY <1>2 DEF Shaped
<1> QED BY <1>2, <1>3 DEF Worked

\* One more request.
LEMMA WorkedRequest ==
    ASSUME NEW w, Shaped(w), SyncInv(w.sl), NEW r \in SaveOrLoad \cup Advance
    PROVE  Worked(w, Request(w, r)) /\ Request(w, r).sl = w.sl /\ Request(w, r).ok = w.ok
<1> DEFINE x == Request(w, r)
<1>1. w.requests \in Seq(SaveOrLoad \cup Advance)
  BY DEF Shaped
<1>2. Append(w.requests, r) \in Seq(SaveOrLoad \cup Advance)
  BY <1>1
<1>3. x = [w EXCEPT !.requests = Append(w.requests, r)]
  BY DEF Request
<1>4. PICK more : more = Append(w.requests, r)
  OBVIOUS
<1>5. /\ x \in [sl : SyncLayer, status : {w.status}, local_inputs : {w.local_inputs},
                disconnect_frame : FrameOrNull, broadcast : {w.broadcast},
                requests : Seq(SaveOrLoad \cup Advance), ok : BOOLEAN]
      /\ x.sl = w.sl /\ x.ok = w.ok /\ x.status = w.status /\ x.local_inputs = w.local_inputs
      /\ x.broadcast = w.broadcast
  <2>1. x = [w EXCEPT !.requests = more] /\ more \in Seq(SaveOrLoad \cup Advance)
    BY <1>2, <1>3, <1>4
  <2> HIDE DEF x
  <2> QED BY <2>1 DEF Shaped
<1> HIDE DEF x
<1>6. Shaped(x)
  BY <1>5 DEF Shaped
<1>7. Worked(w, x)
  BY <1>5, <1>6, DerivedRefl DEF Worked
<1> QED BY <1>5, <1>7 DEF x

\* A save of the current state.
LEMMA SaveStage ==
    ASSUME NEW w, Shaped(w), SyncInv(w.sl)
    PROVE  LET x == RequestSave(w)
           IN  Worked(w, x) /\ x.ok = w.ok /\ x.sl.current_frame = w.sl.current_frame
<1> DEFINE y == [w EXCEPT !.sl = save_current_state(@)]
           r == [type |-> "Save", frame |-> w.sl.current_frame]
<1>1. w.sl \in SyncLayer /\ w.sl.current_frame \in Nat /\ w.ok \in BOOLEAN
  BY DEF SyncInv, SyncLayer, Shaped
<1>2. PICK t : t = save_current_state(w.sl)
  OBVIOUS
<1>3. /\ t \in SyncLayer /\ t.saved_states = w.sl.saved_states
      /\ t.input_queues = w.sl.input_queues /\ t.current_frame = w.sl.current_frame
      /\ t.last_confirmed_frame = w.sl.last_confirmed_frame
  BY <1>1, <1>2 DEF save_current_state, SyncLayer, FrameOrNull
<1>4. Derived(w.sl, t)
  BY <1>3, CountersDerived
<1>5. Replaced(w, y, t, w.ok)
  BY <1>2 DEF Replaced
<1>6. Worked(w, y) /\ y.sl = t /\ y.ok = w.ok
  <2> HIDE DEF y
  <2> QED BY <1>1, <1>3, <1>4, <1>5, WorkedWith
<1>7. r \in SaveOrLoad
  BY <1>1 DEF SaveOrLoad
<1>8. RequestSave(w) = Request(y, r)
  BY DEF RequestSave
<1> HIDE DEF r, y
<1>9. Worked(y, Request(y, r)) /\ Request(y, r).sl = y.sl /\ Request(y, r).ok = y.ok
  BY <1>6, <1>7, WorkedInv, WorkedRequest
<1> QED BY <1>3, <1>6, <1>8, <1>9, WorkedTrans

LEMMA SaveIfStage ==
    ASSUME NEW w, Shaped(w), SyncInv(w.sl), NEW save
    PROVE  LET x == RequestSaveIf(w, save)
           IN  Worked(w, x) /\ x.ok = w.ok /\ x.sl.current_frame = w.sl.current_frame
  BY SaveStage, WorkedRefl DEF RequestSaveIf

\* One simulated frame, or a failure that leaves the frame counter alone.
Stepped(w, x) ==
    /\ Worked(w, x)
    /\ x.ok => w.ok /\ x.sl.current_frame = w.sl.current_frame + 1
    /\ ~x.ok => x.sl.current_frame = w.sl.current_frame

LEMMA SimulateStage ==
    ASSUME NEW w, Shaped(w), SyncInv(w.sl), NEW save
    PROVE  Stepped(w, Simulate(w, save))
<1>1. w.sl \in SyncLayer /\ w.sl.current_frame \in Nat /\ w.ok \in BOOLEAN
  BY DEF SyncInv, SyncLayer, Shaped
<1>2. PICK got : got = synchronized_inputs(w.sl, w.status)
  OBVIOUS
<1>3. /\ Derived(w.sl, got.sl)
      /\ got.sl.current_frame = w.sl.current_frame
      /\ got.sl.last_confirmed_frame = w.sl.last_confirmed_frame
      /\ got.ok \in BOOLEAN
      /\ got.ok => got.inputs \in [Players -> Input]
  BY <1>2, SynchronizedInputs
<1>4. CASE ~w.ok
  <2>1. Simulate(w, save) = w
    BY <1>4 DEF Simulate
  <2> QED BY <1>4, <2>1, WorkedRefl DEF Stepped
<1>5. CASE w.ok /\ ~got.ok
  <2> DEFINE x == [w EXCEPT !.sl = got.sl, !.ok = FALSE]
  <2>1. Simulate(w, save) = x
    BY <1>2, <1>5 DEF Simulate, SimulateWith
  <2>2. PICK t, ok : t = got.sl /\ ok = FALSE
    OBVIOUS
  <2>3. Replaced(w, x, t, ok) /\ ok \in BOOLEAN
    BY <2>2 DEF Replaced
  <2> HIDE DEF x
  <2>4. Worked(w, x) /\ x.sl = got.sl /\ x.ok = FALSE
    BY <1>3, <2>2, <2>3, WorkedWith
  <2> QED BY <1>3, <2>1, <2>4 DEF Stepped
<1>6. CASE w.ok /\ got.ok
  <2> DEFINE y == [w EXCEPT !.sl = got.sl]
             z == RequestSaveIf(y, save)
             u == [z EXCEPT !.sl = advance_frame(@)]
             r == [type |-> "Advance", inputs |-> got.inputs]
  <2>1. Simulate(w, save) = Request(u, r)
    BY <1>2, <1>6 DEF Simulate, SimulateWith
  <2>2. PICK next : next = got.sl
    OBVIOUS
  <2>3. Worked(w, y) /\ y.sl = got.sl /\ y.ok = w.ok
    <3>1. Replaced(w, y, next, w.ok)
      BY <2>2 DEF Replaced
    <3> HIDE DEF y
    <3> QED BY <1>1, <1>3, <2>2, <3>1, WorkedWith
  <2> HIDE DEF y
  <2>4. Worked(y, z) /\ z.ok = w.ok /\ z.sl.current_frame = w.sl.current_frame
    BY <1>3, <2>3, WorkedInv, SaveIfStage
  <2> HIDE DEF z
  <2>5. Shaped(z) /\ SyncInv(z.sl) /\ z.sl \in SyncLayer /\ z.sl.last_saved_frame \in FrameOrNull
    BY <2>4, WorkedInv DEF SyncInv, SyncLayer
  <2>6. PICK t : t = advance_frame(z.sl)
    OBVIOUS
  <2>7. PICK n \in Nat : n = w.sl.current_frame + 1
    BY <1>1
  <2>8. /\ t \in SyncLayer /\ t.saved_states = z.sl.saved_states
        /\ t.input_queues = z.sl.input_queues /\ t.current_frame = n
        /\ t.last_confirmed_frame = z.sl.last_confirmed_frame
    BY <1>1, <2>4, <2>5, <2>6, <2>7 DEF advance_frame, SyncLayer
  <2>9. Derived(z.sl, t)
    BY <2>5, <2>8, CountersDerived
  <2>10. Replaced(z, u, t, z.ok)
    BY <2>6 DEF Replaced
  <2>11. z.ok \in BOOLEAN
    BY <1>1, <2>4
  <2> HIDE DEF u
  <2>12. Worked(z, u) /\ u.sl = t /\ u.ok = z.ok
    BY <2>5, <2>8, <2>9, <2>10, <2>11, WorkedWith
  <2>13. r \in Advance
    BY <1>3, <1>6 DEF Advance
  <2> HIDE DEF r
  <2>14. Worked(u, Request(u, r)) /\ Request(u, r).sl = u.sl /\ Request(u, r).ok = u.ok
    BY <2>12, <2>13, WorkedInv, WorkedRequest
  <2>15. Worked(w, Request(u, r))
    BY <2>3, <2>4, <2>12, <2>14, WorkedTrans
  <2> QED BY <1>6, <2>1, <2>4, <2>7, <2>8, <2>12, <2>14, <2>15 DEF Stepped
<1> QED BY <1>1, <1>3, <1>4, <1>5, <1>6

\* A replay of n frames.
Replayed(w, x, n) ==
    /\ Worked(w, x)
    /\ x.ok => w.ok /\ x.sl.current_frame = w.sl.current_frame + n
    /\ x.sl.current_frame <= w.sl.current_frame + n

LEMMA ReplayStage ==
    ASSUME NEW w, Shaped(w), SyncInv(w.sl), NEW N \in Nat, NEW min_confirmed
    PROVE  Replayed(w, Replay(w, N, min_confirmed), N)
<1>1. PICK f : IsReplay(f, N, w, min_confirmed) /\ Replay(w, N, min_confirmed) = f[N]
  BY ReplayValue
<1> DEFINE G == {n \in 0 .. N : Replayed(w, f[n], n)}
<1>2. w.sl.current_frame \in Nat
  BY DEF SyncInv, SyncLayer
<1>3. 0 \in G
  <2>1. f[0] = w
    BY <1>1 DEF IsReplay
  <2> QED BY <1>2, <2>1, WorkedRefl DEF Replayed
<1>4. ASSUME NEW n \in 1 .. N, n - 1 \in G PROVE n \in G
  <2>1. f[n] = ReplayStep(n, f[n - 1], min_confirmed)
    BY <1>1 DEF IsReplay
  <2>2. PICK prev, save : /\ prev = f[n - 1]
                          /\ save = SaveWhileReplaying(prev.sl.current_frame, n, min_confirmed)
    OBVIOUS
  <2>3. f[n] = Simulate(prev, save)
    BY <2>1, <2>2 DEF ReplayStep
  <2>4. Replayed(w, prev, n - 1)
    BY <1>4, <2>2
  <2>5. Worked(w, prev) /\ Shaped(prev) /\ SyncInv(prev.sl) /\ prev.sl.current_frame \in Nat
    BY <2>4, WorkedInv DEF Replayed, SyncInv, SyncLayer
  <2>6. PICK x : x = Simulate(prev, save)
    OBVIOUS
  <2>7. Stepped(prev, x)
    BY <2>5, <2>6, SimulateStage
  <2>8. Worked(w, x)
    BY <2>5, <2>7, WorkedTrans DEF Stepped
  <2>9. Replayed(w, x, n)
    BY <1>2, <2>4, <2>5, <2>7, <2>8 DEF Replayed, Stepped
  <2> QED BY <2>3, <2>6, <2>9
<1>5. \A n \in 0 .. N : n \in G
  <2> HIDE DEF G
  <2> QED BY <1>3, <1>4, IndexInduction
<1> QED BY <1>1, <1>5

\* The state a rollback loads is that of a frame.
LEMMA FrameToLoadType ==
    ASSUME NEW s, SyncInv(s), NEW first_incorrect \in FrameOrNull
    PROVE  FrameToLoad(s, first_incorrect) \in FrameOrNull
<1> DEFINE lower == rollback_window_floor(s)
           held == {f \in {s.saved_states[c].frame : c \in DOMAIN s.saved_states} :
                        f # NULL_FRAME /\ lower <= f /\ f <= first_incorrect /\ f < s.current_frame}
           earlier == newest_saved_frame_in_range(s, lower, first_incorrect)
<1>1. /\ s.saved_states \in [0 .. MaxPrediction -> Cell] /\ s.current_frame \in Nat
      /\ s.last_saved_frame \in FrameOrNull
  BY DEF SyncInv, SyncLayer
<1>2. ASSUME NEW f \in held PROVE f \in Nat /\ f <= s.current_frame
  <2>1. PICK c \in 0 .. MaxPrediction : f = s.saved_states[c].frame
    BY <1>1
  <2>2. f \in FrameOrNull /\ f # NULL_FRAME /\ f < s.current_frame
    BY <1>1, <2>1 DEF Cell
  <2> QED BY <1>1, <2>2 DEF FrameOrNull
<1>3. earlier = IF held = {} THEN NULL_FRAME ELSE CHOOSE f \in held : \A g \in held : g <= f
  BY DEF newest_saved_frame_in_range
<1> HIDE DEF held, earlier
<1>4. ASSUME held # {} PROVE \E f \in held : \A g \in held : g <= f
  BY <1>1, <1>2, <1>4, MaxExists
<1>5. earlier \in FrameOrNull
  BY <1>2, <1>3, <1>4 DEF FrameOrNull
<1> QED BY <1>1, <1>5 DEF FrameToLoad, earlier

\* A stage that ends, unless it fails, at the frame it started from.
Moved(w, x) ==
    /\ Worked(w, x)
    /\ x.ok => w.ok /\ x.sl.current_frame = w.sl.current_frame
    /\ x.sl.current_frame <= w.sl.current_frame

LEMMA MovedTrans ==
    ASSUME NEW u, NEW v, NEW w, Moved(u, v), Moved(v, w), u.sl.current_frame \in Nat
    PROVE  Moved(u, w)
<1>1. Worked(u, w)
  BY WorkedTrans DEF Moved
<1>2. v.sl.current_frame \in Nat /\ w.sl.current_frame \in Nat
  BY WorkedInv DEF Moved, SyncInv, SyncLayer
<1> QED BY <1>1, <1>2 DEF Moved

LEMMA LoadStage ==
    ASSUME NEW w, Shaped(w), SyncInv(w.sl), NEW target \in Nat, NEW min_confirmed
    PROVE  Moved(w, LoadAndReplay(w, target, min_confirmed))
<1>1. w.sl \in SyncLayer /\ w.sl.current_frame \in Nat /\ w.ok \in BOOLEAN
  BY DEF SyncInv, SyncLayer, Shaped
<1>2. CASE target >= w.sl.current_frame
  <2>1. PICK x, t : x = LoadAndReplay(w, target, min_confirmed) /\ t = SyncLayer_reset_prediction(w.sl)
    OBVIOUS
  <2>2. Replaced(w, x, t, w.ok)
    BY <1>2, <2>1 DEF LoadAndReplay, Replaced
  <2>3. /\ Derived(w.sl, t) /\ t.current_frame = w.sl.current_frame
        /\ t.last_confirmed_frame = w.sl.last_confirmed_frame
    BY <2>1, ResetDerived
  <2>4. Worked(w, x) /\ x.sl = t /\ x.ok = w.ok
    BY <1>1, <2>2, <2>3, WorkedWith
  <2> QED BY <1>1, <2>1, <2>3, <2>4 DEF Moved
<1>3. CASE ~(target >= w.sl.current_frame) /\ ~CanLoadFrame(w.sl, target)
  <2>1. PICK x, t, ok : /\ x = LoadAndReplay(w, target, min_confirmed) /\ t = w.sl /\ ok = FALSE
    OBVIOUS
  <2>2. x = [w EXCEPT !.ok = FALSE]
    BY <1>3, <2>1 DEF LoadAndReplay
  <2>3. Replaced(w, x, t, ok)
    BY <2>1, <2>2 DEF Replaced, Shaped
  <2>4. Derived(w.sl, t)
    BY <2>1, DerivedRefl
  <2>5. Worked(w, x) /\ x.sl = t /\ x.ok = FALSE
    BY <2>1, <2>3, <2>4, WorkedWith
  <2> QED BY <1>1, <2>1, <2>5 DEF Moved
<1>4. CASE ~(target >= w.sl.current_frame) /\ CanLoadFrame(w.sl, target)
  <2> DEFINE r == [type |-> "Load", frame |-> target]
             y == [w EXCEPT !.sl = SyncLayer_reset_prediction(load_frame(@, target))]
  <2>1. PICK n \in Nat : n = w.sl.current_frame - target
    BY <1>1, <1>4
  <2>2. LoadAndReplay(w, target, min_confirmed) = Replay(Request(y, r), n, min_confirmed)
    BY <1>4, <2>1 DEF LoadAndReplay
  <2>3. PICK s, t : s = load_frame(w.sl, target) /\ t = SyncLayer_reset_prediction(s)
    OBVIOUS
  <2>4. /\ s \in SyncLayer /\ s.saved_states = w.sl.saved_states
        /\ s.input_queues = w.sl.input_queues /\ s.current_frame = target
        /\ s.last_confirmed_frame = w.sl.last_confirmed_frame
    BY <1>1, <2>3 DEF load_frame, SyncLayer, FrameOrNull
  <2>5. Derived(w.sl, s)
    BY <2>4, CountersDerived
  <2>6. /\ Derived(s, t) /\ t.current_frame = target
        /\ t.last_confirmed_frame = w.sl.last_confirmed_frame
    BY <2>3, <2>4, <2>5, DerivedInv, ResetDerived
  <2>7. Derived(w.sl, t)
    BY <2>5, <2>6, DerivedTrans
  <2>8. Worked(w, y) /\ y.sl = t /\ y.ok = w.ok
    <3>1. Replaced(w, y, t, w.ok)
      BY <2>3 DEF Replaced
    <3> HIDE DEF y
    <3> QED BY <1>1, <2>6, <2>7, <3>1, WorkedWith
  <2>9. r \in SaveOrLoad
    BY DEF SaveOrLoad
  <2> HIDE DEF r, y
  <2>10. PICK z : z = Request(y, r)
    OBVIOUS
  <2>11. Worked(y, z) /\ z.sl = t /\ z.ok = w.ok
    BY <2>8, <2>9, <2>10, WorkedInv, WorkedRequest
  <2>12. PICK x : x = Replay(z, n, min_confirmed)
    OBVIOUS
  <2>13. Replayed(z, x, n)
    BY <2>11, <2>12, WorkedInv, ReplayStage
  <2>14. Worked(w, x)
    BY <2>8, <2>11, <2>13, WorkedTrans DEF Replayed
  <2>15. z.sl.current_frame = target /\ target + n = w.sl.current_frame
    BY <1>1, <2>1, <2>6, <2>11
  <2>16. Moved(w, x)
    BY <1>1, <2>11, <2>13, <2>14, <2>15 DEF Moved, Replayed
  <2> QED BY <2>2, <2>10, <2>12, <2>16
<1> QED BY <1>2, <1>3, <1>4

LEMMA AdjustStage ==
    ASSUME NEW w, Shaped(w), SyncInv(w.sl), MaxPrediction \in Nat,
           NEW first_incorrect \in FrameOrNull, NEW min_confirmed
    PROVE  Moved(w, adjust_gamestate(w, first_incorrect, min_confirmed))
<1>1. w.sl.current_frame \in Nat /\ w.sl.max_prediction = MaxPrediction
  BY DEF SyncInv, SyncLayer
<1>2. PICK frame \in FrameOrNull : frame = FrameToLoad(w.sl, first_incorrect)
  BY FrameToLoadType
<1>3. PICK floor \in Nat : floor = rollback_window_floor(w.sl)
  BY <1>1 DEF rollback_window_floor, MaxFrameOf
<1>4. PICK target \in Nat : target = MaxFrameOf(frame, floor)
  BY DEF MaxFrameOf, FrameOrNull, NULL_FRAME
<1>5. adjust_gamestate(w, first_incorrect, min_confirmed) = LoadAndReplay(w, target, min_confirmed)
  BY <1>2, <1>3, <1>4 DEF adjust_gamestate
<1> QED BY <1>5, LoadStage

LEMMA MovedRefl ==
    ASSUME NEW w, Shaped(w), SyncInv(w.sl)
    PROVE  Moved(w, w)
<1>1. w.sl.current_frame \in Nat
  BY DEF SyncInv, SyncLayer
<1> QED BY <1>1, WorkedRefl DEF Moved

LEMMA SaveMoved ==
    ASSUME NEW w, Shaped(w), SyncInv(w.sl)
    PROVE  Moved(w, RequestSave(w))
<1>1. w.sl.current_frame \in Nat
  BY DEF SyncInv, SyncLayer
<1> QED BY <1>1, SaveStage DEF Moved

\* The first frame a session knows to be wrong is a frame.
LEMMA ConsistencyType ==
    ASSUME SyncInv(sl), disconnect_frame \in FrameOrNull
    PROVE  check_simulation_consistency(sl, disconnect_frame) \in FrameOrNull
<1> DEFINE wrong == FirstIncorrects(sl) \cup ({disconnect_frame} \ {NULL_FRAME})
<1>1. wrong \subseteq FrameOrNull
  BY DEF FirstIncorrects, SyncInv, SyncLayer, Queue
<1>2. check_simulation_consistency(sl, disconnect_frame) = IF wrong = {} THEN NULL_FRAME ELSE MinOf(wrong)
  BY DEF check_simulation_consistency, MinOf
<1> HIDE DEF wrong
<1> QED BY <1>1, <1>2, MinOfFrames DEF FrameOrNull

\* The rollback.
LEMMA RollbackStage ==
    ASSUME NEW w, Shaped(w), SyncInv(w.sl), MaxPrediction \in Nat, SyncInv(sl),
           disconnect_frame \in FrameOrNull, NEW confirmed
    PROVE  Moved(w, Rollback(w, confirmed))
<1> DEFINE wrong == check_simulation_consistency(sl, disconnect_frame)
           first == RequestSaveIf(w, sl.current_frame = 0 /\ ~lockstep)
           moved == adjust_gamestate(first, wrong, confirmed)
<1>1. wrong \in FrameOrNull
  BY ConsistencyType
<1>2. Moved(w, first)
  BY SaveMoved, MovedRefl DEF RequestSaveIf
<1> HIDE DEF wrong, first
<1>3. Moved(first, moved)
  BY <1>1, <1>2, WorkedInv, AdjustStage DEF Moved
<1>4. Moved(w, moved)
  <2>1. w.sl.current_frame \in Nat
    BY DEF SyncInv, SyncLayer
  <2> HIDE DEF moved
  <2> QED BY <1>2, <1>3, <2>1, MovedTrans
<1> HIDE DEF moved
<1>5. PICK x : x = DisconnectHandled(moved)
  OBVIOUS
<1>6. Moved(w, x)
  <2>1. CASE ~moved.ok
    BY <1>4, <1>5, <2>1 DEF DisconnectHandled
  <2>2. CASE moved.ok
    <3>1. x = [moved EXCEPT !.disconnect_frame = NULL_FRAME]
      BY <1>5, <2>2 DEF DisconnectHandled
    <3>2. Shaped(moved)
      BY <1>4 DEF Moved, Worked
    <3>3. /\ x \in [sl : SyncLayer, status : {moved.status}, local_inputs : {moved.local_inputs},
                    disconnect_frame : FrameOrNull, broadcast : {moved.broadcast},
                    requests : Seq(SaveOrLoad \cup Advance), ok : BOOLEAN]
          /\ x.sl = moved.sl /\ x.ok = moved.ok /\ x.status = moved.status
          /\ x.local_inputs = moved.local_inputs /\ x.broadcast = moved.broadcast
      BY <3>1, <3>2 DEF Shaped, FrameOrNull
    <3>4. Shaped(x)
      BY <3>3 DEF Shaped
    <3> QED BY <1>4, <3>3, <3>4 DEF Moved, Worked
  <2> QED BY <2>1, <2>2
<1>7. Rollback(w, confirmed) = IF lockstep \/ wrong = NULL_FRAME THEN first ELSE x
  BY <1>5 DEF Rollback, wrong, first, moved
<1> QED BY <1>2, <1>6, <1>7

\* The save after it.
LEMMA SaveAfterStage ==
    ASSUME NEW w, Shaped(w), SyncInv(w.sl), MaxPrediction \in Nat, NEW confirmed
    PROVE  Moved(w, SaveAfterRollback(w, confirmed))
<1>1. Moved(w, w) /\ Moved(w, RequestSave(w))
  BY MovedRefl, SaveMoved
<1>2. Moved(w, adjust_gamestate(w, w.sl.last_saved_frame, confirmed))
  <2>1. w.sl.last_saved_frame \in FrameOrNull
    BY DEF SyncInv, SyncLayer
  <2> QED BY <2>1, AdjustStage
<1> QED BY <1>1, <1>2 DEF SaveAfterRollback, check_last_saved_state

-----------------------------------------------------------------------------
(* The inputs a player really gave, and what its queue holds of them.      *)

ByFrame(t) == [f \in Nat |-> t[f + 1]]

\* The queue was given the inputs t, one for each frame from 0 on.
Holds(q, t) ==
    /\ QueueInv(q)
    /\ t \in Seq(Input)
    /\ Len(t) = q.last_added_frame + 1
    /\ q.length = 0 => q.last_added_frame = NULL_FRAME
    /\ Content(q, ByFrame(t))

LEMMA HoldsSame ==
    ASSUME NEW q, NEW r, NEW t, Holds(q, t), SameInputs(q, r)
    PROVE  Holds(r, t)
<1>1. Content(r, ByFrame(t))
  BY SameInputsContent DEF Holds
<1> QED BY <1>1 DEF Holds, SameInputs

\* A queue with the same entries, whatever it predicts or repeats.
LEMMA HoldsEntries ==
    ASSUME NEW q, NEW r, NEW t, Holds(q, t), SameEntries(q, r), QueueInv(r)
    PROVE  Holds(r, t)
<1>1. Content(r, ByFrame(t))
  BY EntriesKept DEF Holds
<1> QED BY <1>1 DEF Holds, SameEntries

\* What is behind a sequence.
IsJoin(u, t, v, S) ==
    /\ u \in Seq(S) /\ Len(u) = Len(t) + Len(v)
    /\ \A i \in 1 .. Len(t) : u[i] = t[i]
    /\ \A i \in 1 .. Len(v) : u[Len(t) + i] = v[i]

LEMMA Joined ==
    ASSUME NEW S, NEW t \in Seq(S), NEW v \in Seq(S)
    PROVE  IsJoin(t \o v, t, v, S)
<1> DEFINE u == t \o v
<1>1. u \in Seq(S) /\ Len(u) = Len(t) + Len(v)
  OBVIOUS
<1>2. \A i \in 1 .. Len(t) : u[i] = t[i]
  OBVIOUS
<1>3. ASSUME NEW i \in 1 .. Len(v) PROVE u[Len(t) + i] = v[i]
  <2>1. Len(t) \in Nat /\ Len(v) \in Nat /\ i \in Nat /\ i >= 1
    OBVIOUS
  <2>2. PICK k \in Nat : k = Len(t) + i
    BY <2>1
  <2>3. k \in 1 .. Len(t) + Len(v) /\ ~(k <= Len(t)) /\ k - Len(t) = i
    BY <2>1, <2>2
  <2>4. u[k] = v[k - Len(t)]
    BY <2>3
  <2> QED BY <2>2, <2>3, <2>4
<1> QED BY <1>1, <1>2, <1>3 DEF IsJoin

\* A longer sequence of inputs agrees with what is held.
LEMMA ContentExtends ==
    ASSUME NEW q, NEW t, Holds(q, t), NEW u \in Seq(Input),
           \A i \in 1 .. Len(t) : u[i] = t[i]
    PROVE  Content(q, ByFrame(u))
<1>1. PICK V, W : V = ByFrame(t) /\ W = ByFrame(u)
  OBVIOUS
<1>2. QueueInv(q) /\ Content(q, V) /\ Len(t) = q.last_added_frame + 1 /\ q.last_added_frame \in Int
  BY <1>1, PreviousSlot DEF Holds
<1>3. \A f \in Nat : f <= q.last_added_frame => V[f] = W[f]
  <2>1. SUFFICES ASSUME NEW f \in Nat, f <= q.last_added_frame PROVE V[f] = W[f]
    OBVIOUS
  <2>2. V[f] = t[f + 1] /\ W[f] = u[f + 1]
    BY <1>1 DEF ByFrame
  <2>3. f + 1 \in 1 .. Len(t)
    BY <1>2, <2>1
  <2> QED BY <2>2, <2>3
<1>4. QueueInv(q) /\ Content(q, V)
  BY <1>2
<1>5. Content(q, W)
  <2> HIDE <1>2
  <2> QED BY <1>3, <1>4, ContentSame
<1> QED BY <1>1, <1>5

\* A run of the inputs W has for its frames keeps the content.
LEMMA RunContent ==
    ASSUME NEW q, QueueInv(q), NEW W, Content(q, W), NEW from \in Int, NEW inputs \in Seq(Input),
           NEW floor \in Int, \A n \in 1 .. Len(inputs) : W[from + n - 1] = inputs[n]
    PROVE  Content(AddRun(q, from, inputs, floor).q, W)
<1> DEFINE K == {r \in Queue : QueueInv(r) /\ Content(r, W)}
<1>1. PICK N \in Nat : N = Len(inputs)
  OBVIOUS
<1>2. ASSUME NEW r \in K, NEW n \in 1 .. N
      PROVE  add_input_by_frame(r, from + n - 1, inputs[n], floor).q \in K
  <2>1. PICK frame \in Int, v \in Input : frame = from + n - 1 /\ v = inputs[n] /\ W[frame] = v
    BY <1>1
  <2>2. PICK x : x = add_input_by_frame(r, frame, v, floor).q
    OBVIOUS
  <2>3. QueueInv(r) /\ Content(r, W)
    OBVIOUS
  <2>4. QueueInv(x)
    BY <2>2, <2>3, AddByFrameInv DEF AddStep
  <2>5. Content(x, W)
    BY <2>1, <2>2, <2>3, AddContent
  <2>6. x \in Queue
    BY <2>4 DEF QueueInv
  <2> QED BY <2>1, <2>2, <2>4, <2>5, <2>6
<1>3. q \in K
  BY DEF QueueInv
<1> HIDE DEF K
<1>4. AddRun(q, from, inputs, floor).q \in K
  BY <1>1, <1>2, <1>3, RunStays
<1> QED BY <1>4 DEF K

\* A complete run of further inputs.
LEMMA HoldsRun ==
    ASSUME NEW q, NEW t, Holds(q, t), NEW values \in Seq(Input), NEW floor \in Int,
           AddRun(q, q.last_added_frame + 1, values, floor).ok
    PROVE  LET r == AddRun(q, q.last_added_frame + 1, values, floor).q
           IN  /\ Holds(r, t \o values)
               /\ r.frozen = q.frozen /\ r.frame_delay = q.frame_delay
               /\ r.last_added_frame = q.last_added_frame + Len(values)
<1>1. /\ QueueInv(q) /\ t \in Seq(Input) /\ Len(t) = q.last_added_frame + 1
      /\ q.last_added_frame \in Int /\ Len(t) \in Nat
  BY PreviousSlot DEF Holds
<1>2. PICK from \in Int : from = q.last_added_frame + 1
  BY <1>1
<1>3. PICK n \in Nat : n = Len(values)
  OBVIOUS
<1>4. PICK u : u = t \o values
  OBVIOUS
<1>5. /\ u \in Seq(Input) /\ Len(u) = Len(t) + n
      /\ \A i \in 1 .. Len(t) : u[i] = t[i]
      /\ \A i \in 1 .. n : u[Len(t) + i] = values[i]
  <2>1. /\ u \in Seq(Input) /\ Len(u) = Len(t) + Len(values)
        /\ \A i \in 1 .. Len(t) : u[i] = t[i]
        /\ \A i \in 1 .. Len(values) : u[Len(t) + i] = values[i]
    <3>1. IsJoin(u, t, values, Input)
      BY <1>1, <1>4, Joined
    <3> QED BY <3>1 DEF IsJoin
  <2> QED BY <1>3, <2>1
<1>6. PICK W : W = ByFrame(u)
  OBVIOUS
<1>7. Content(q, W)
  BY <1>5, <1>6, ContentExtends
<1>8. ASSUME NEW i \in 1 .. n PROVE W[from + i - 1] = values[i]
  <2>1. PICK f \in Nat : f = from + i - 1
    BY <1>1, <1>2
  <2>2. W[f] = u[f + 1]
    BY <1>6 DEF ByFrame
  <2>3. f + 1 = Len(t) + i
    BY <1>1, <1>2, <2>1
  <2> QED BY <1>5, <2>1, <2>2, <2>3
<1>9. PICK res : res = AddRun(q, from, values, floor)
  OBVIOUS
<1>10. Content(res.q, W)
  <2>1. \A i \in 1 .. Len(values) : W[from + i - 1] = values[i]
    BY <1>3, <1>8
  <2>2. QueueInv(q) /\ values \in Seq(Input)
    BY <1>1
  <2>3. Content(AddRun(q, from, values, floor).q, W)
    BY <1>7, <2>1, <2>2, RunContent
  <2> QED BY <1>9, <2>3
<1>11. RunInv(q, res, n)
  BY <1>1, <1>3, <1>9, AddRunInv
<1>12. res.q = q \/ res.q.length > 0
  BY <1>1, <1>9, RunNonempty
<1>13. res.ok
  BY <1>2, <1>9
<1>14. /\ QueueInv(res.q) /\ res.q.last_added_frame = q.last_added_frame + n
       /\ res.q.frozen = q.frozen /\ res.q.frame_delay = q.frame_delay
  BY <1>11, <1>13 DEF RunInv, AddStep
<1>15. res.q.length = 0 => res.q.last_added_frame = NULL_FRAME
  BY <1>12 DEF Holds
<1>16. Holds(res.q, u)
  BY <1>1, <1>5, <1>6, <1>10, <1>14, <1>15 DEF Holds
<1> QED BY <1>2, <1>3, <1>4, <1>9, <1>14, <1>16

\* The entries of a submission.
Submitted(t, u, frame, v) ==
    /\ u \in Seq(Input) /\ Len(u) = frame + 1
    /\ \A i \in 1 .. Len(t) : u[i] = t[i]
    /\ \A i \in Len(t) + 1 .. frame : u[i] = DefaultInput
    /\ u[frame + 1] = v

LEMMA SubmitType ==
    ASSUME NEW t \in Seq(Input), NEW frame \in Nat, NEW v \in Input, Len(t) <= frame
    PROVE  Submitted(t, Submit(t, frame, v), frame, v)
<1>1. PICK count \in Nat, n \in Nat : n = Len(t) /\ count = frame - n
  OBVIOUS
<1>2. PICK gap : gap = Replicate(DefaultInput, count)
  OBVIOUS
<1>3. gap \in Seq(Input) /\ Len(gap) = count /\ \A i \in 1 .. count : gap[i] = DefaultInput
  BY <1>2, InputAssumption, ReplicateType DEF Replicate
<1>4. PICK u : u = t \o gap
  OBVIOUS
<1>5. /\ u \in Seq(Input) /\ Len(u) = frame
      /\ \A i \in 1 .. n : u[i] = t[i]
      /\ \A i \in n + 1 .. frame : u[i] = DefaultInput
  <2>1. u \in Seq(Input) /\ Len(u) = n + count /\ n + count = frame
    BY <1>1, <1>3, <1>4
  <2>2. \A i \in 1 .. n : u[i] = t[i]
    BY <1>1, <1>3, <1>4
  <2>3. ASSUME NEW i \in n + 1 .. frame PROVE u[i] = DefaultInput
    <3>1. i - n \in 1 .. count /\ i \in 1 .. n + count /\ ~(i <= n)
      BY <1>1
    <3>2. u[i] = gap[i - n]
      BY <1>1, <1>3, <1>4, <3>1
    <3> QED BY <1>3, <3>1, <3>2
  <2> QED BY <2>1, <2>2, <2>3
<1>6. Submit(t, frame, v) = u \o <<v>>
  BY <1>1, <1>2, <1>4 DEF Submit
<1>7. PICK s : s = u \o <<v>>
  OBVIOUS
<1>8. s \in Seq(Input) /\ Len(s) = frame + 1 /\ s[frame + 1] = v /\ \A i \in 1 .. frame : s[i] = u[i]
  <2>1. PICK one : one = <<v>>
    OBVIOUS
  <2>2. one \in Seq(Input) /\ Len(one) = 1 /\ one[1] = v
    BY <2>1
  <2>3. /\ s \in Seq(Input) /\ Len(s) = frame + 1
        /\ \A i \in 1 .. frame : s[i] = u[i]
        /\ \A i \in 1 .. 1 : s[frame + i] = one[i]
    <3>1. IsJoin(s, u, one, Input)
      BY <1>5, <1>7, <2>1, <2>2, Joined
    <3> QED BY <1>5, <2>2, <3>1 DEF IsJoin
  <2>4. s[frame + 1] = one[1]
    BY <2>3
  <2> QED BY <2>2, <2>3, <2>4
<1> QED BY <1>1, <1>5, <1>6, <1>7, <1>8 DEF Submitted

\* An input that was stored at the frame its submission is for.
LEMMA HoldsStored ==
    ASSUME NEW q, NEW t, Holds(q, t), NEW frame \in Nat, NEW v \in Input, NEW floor \in Int,
           NEW res, NEW fill, res = add_input(q, frame, v, floor),
           StoredAfter(q, res, fill, frame, v, floor)
    PROVE  /\ res.frame \in Nat /\ Len(t) <= res.frame
           /\ Holds(res.q, Submit(t, res.frame, v))
           /\ res.q.frozen = q.frozen /\ res.q.frame_delay = q.frame_delay
           /\ res.q.last_added_frame = res.frame
<1>1. /\ QueueInv(q) /\ t \in Seq(Input) /\ Len(t) = q.last_added_frame + 1
      /\ q.last_added_frame \in Int /\ q.last_added_frame >= -1 /\ Len(t) \in Nat
      /\ q.frame_delay \in Nat /\ Newest(q) \in Input /\ Content(q, ByFrame(t))
  BY PreviousSlot DEF Holds, Newest
<1>2. PICK to \in Nat : to = frame + q.frame_delay
  BY <1>1
<1>3. PICK count \in Nat : count = to - (q.last_added_frame + 1)
  BY <1>2 DEF StoredAfter
<1>4. /\ count # 0 => q.last_added_frame = NULL_FRAME
      /\ fill = AddRun(q, q.last_added_frame + 1, Replicate(Newest(q), count), floor).q
      /\ QueueInv(fill) /\ res.q = add_input_by_frame(fill, to, v, floor).q
      /\ res.frame = to /\ res.q.last_added_frame = to /\ res.q # fill
  BY <1>2, <1>3 DEF StoredAfter
<1>5. PICK u : u = Submit(t, to, v)
  OBVIOUS
<1>6. Len(t) <= to
  BY <1>1, <1>2, <1>3
<1>7. /\ u \in Seq(Input) /\ Len(u) = to + 1
      /\ \A i \in 1 .. Len(t) : u[i] = t[i]
      /\ \A i \in Len(t) + 1 .. to : u[i] = DefaultInput
      /\ u[to + 1] = v
  <2>1. Submitted(t, u, to, v)
    BY <1>1, <1>5, <1>6, SubmitType, Zenon
  <2> QED BY <2>1 DEF Submitted
<1>8. PICK W : W = ByFrame(u)
  OBVIOUS
<1>9. Content(q, W)
  BY <1>7, <1>8, ContentExtends
<1>10. PICK run : run = Replicate(Newest(q), count)
  OBVIOUS
<1>11. run \in Seq(Input) /\ Len(run) = count /\ \A n \in 1 .. count : run[n] = Newest(q)
  <2>1. PICK w \in Input : w = Newest(q)
    BY <1>1
  <2>2. run \in Seq(Input) /\ Len(run) = count
    BY <1>10, <2>1, ReplicateType
  <2>3. \A n \in 1 .. count : run[n] = w
    BY <1>10, <2>1 DEF Replicate
  <2> QED BY <2>1, <2>2, <2>3
<1>12. PICK from \in Int : from = q.last_added_frame + 1
  BY <1>1
<1>13. ASSUME NEW n \in 1 .. count PROVE W[from + n - 1] = run[n]
  <2>1. count # 0 /\ q.last_added_frame = -1
    BY <1>4 DEF NULL_FRAME
  <2>2. Newest(q) = DefaultInput
    BY <1>1, <2>1, NewestContent DEF NULL_FRAME
  <2>3. PICK f \in Nat : f = from + n - 1
    BY <1>12, <2>1
  <2>4. W[f] = u[f + 1]
    BY <1>8 DEF ByFrame
  <2>5. f + 1 \in Len(t) + 1 .. to
    BY <1>1, <1>3, <1>12, <2>1, <2>3
  <2> QED BY <1>7, <1>11, <2>2, <2>3, <2>4, <2>5
<1>14. Content(fill, W)
  <2>1. \A n \in 1 .. Len(run) : W[from + n - 1] = run[n]
    BY <1>11, <1>13
  <2>2. fill = AddRun(q, from, run, floor).q
    BY <1>4, <1>10, <1>12
  <2>3. run \in Seq(Input) /\ QueueInv(q)
    BY <1>1, <1>11
  <2>4. Content(AddRun(q, from, run, floor).q, W)
    BY <1>9, <2>1, <2>3, RunContent
  <2> QED BY <2>2, <2>4
<1>15. W[to] = v /\ to \in Int
  BY <1>7, <1>8 DEF ByFrame
<1>16. Content(res.q, W)
  BY <1>4, <1>14, <1>15, AddContent
<1>17. AddStep(q, res.q)
  BY <1>1, AddInputInv
<1>18. res.q.length > 0
  BY <1>4, <1>15, AddNonempty
<1>19. Holds(res.q, u)
  BY <1>4, <1>7, <1>8, <1>16, <1>17, <1>18 DEF Holds, AddStep
<1> QED BY <1>4, <1>5, <1>6, <1>17, <1>19 DEF AddStep

-----------------------------------------------------------------------------
(* The later stages of advance_frame.                                      *)

\* What a lookup for the spectators returns.
LEMMA ConfirmedInputsType ==
    ASSUME NEW s, SyncInv(s), NEW frame \in Nat, NEW status
    PROVE  confirmed_inputs(s, frame, status) \in [Players -> Input \cup {None}]
<1>1. ASSUME NEW p \in Players
      PROVE  /\ DroppedInput(s, p) \in Input
             /\ confirmed_input(s.input_queues[p], frame) \in Input \cup {None}
  <2>1. PICK q \in Queue : q = s.input_queues[p]
    BY DEF SyncInv, SyncLayer
  <2>2. confirmed_input(q, frame) \in Input \cup {None}
    BY ConfirmedInputType
  <2>3. DroppedInput(s, p) \in Input
    BY <2>1, InputAssumption DEF DroppedInput, predict, Queue
  <2> QED BY <2>1, <2>2, <2>3
<1> QED BY <1>1 DEF confirmed_inputs

\* x is w after the vectors of the frames up to top that it still holds were sent.
Announced(w, x, top, more) ==
    /\ more \in GameState
    /\ x.broadcast = w.broadcast \o more
    /\ Len(more) <= MaxFrameOf(top + 1 - Len(w.broadcast), 0)
    /\ \A i \in 1 .. Len(more) :
           more[i] = confirmed_inputs(w.sl, Len(w.broadcast) + i - 1, w.status)
    /\ Shaped(x)
    /\ x.sl = w.sl
    /\ x.status = w.status
    /\ x.local_inputs = w.local_inputs
    /\ x.ok => w.ok

\* A stage that replaces what was broadcast, and may fail.
Extended(w, x, sequence, ok) == x = [w EXCEPT !.ok = ok, !.broadcast = sequence]

LEMMA ExtendedShape ==
    ASSUME NEW w, Shaped(w), NEW sequence, NEW ok \in BOOLEAN, NEW x, Extended(w, x, sequence, ok)
    PROVE  /\ Shaped(x) /\ x.sl = w.sl /\ x.status = w.status /\ x.local_inputs = w.local_inputs
           /\ x.ok = ok /\ x.broadcast = sequence
<1>1. /\ x \in [sl : SyncLayer, status : {w.status}, local_inputs : {w.local_inputs},
                disconnect_frame : FrameOrNull, broadcast : {sequence},
                requests : Seq(SaveOrLoad \cup Advance), ok : BOOLEAN]
      /\ x.sl = w.sl /\ x.ok = ok /\ x.status = w.status /\ x.local_inputs = w.local_inputs
      /\ x.broadcast = sequence
  BY DEF Shaped, Extended
<1> QED BY <1>1 DEF Shaped

\* The stage that sends them: none from the first one on that is lost.
LEMMA SendStage ==
    ASSUME NEW w, Shaped(w), SyncInv(w.sl), w.broadcast = broadcast, broadcast \in GameState,
           NEW top \in FrameOrNull
    PROVE  \E more : Announced(w, SendToSpectators(w, top), top, more)
<1>1. PICK sofar \in Nat : sofar = Len(broadcast)
  BY DEF GameState
<1>2. top \in Int
  BY DEF FrameOrNull, NULL_FRAME
<1>3. PICK N \in Nat : N = MaxFrameOf(top + 1 - sofar, 0)
  <2>1. PICK k \in Int : k = top + 1 - sofar
    BY <1>2
  <2>2. MaxFrameOf(k, 0) \in Nat
    BY DEF MaxFrameOf
  <2> QED BY <2>1, <2>2
<1>4. PICK x : x = SendToSpectators(w, top)
  OBVIOUS
<1>5. CASE ~w.ok
  <2>1. x = w
    BY <1>4, <1>5 DEF SendToSpectators
  <2>2. PICK more : more = <<>>
    OBVIOUS
  <2>3. more \in GameState /\ Len(more) = 0 /\ w.broadcast = w.broadcast \o more
    BY <2>2 DEF GameState
  <2>4. Announced(w, x, top, more)
    BY <1>1, <1>3, <2>1, <2>3 DEF Announced
  <2> QED BY <1>4, <2>4
<1>6. CASE w.ok
  <2> DEFINE vectors == [i \in 1 .. N |-> confirmed_inputs(w.sl, sofar + i - 1, w.status)]
             lost == {i \in DOMAIN vectors : \E p \in Players : vectors[i][p] = None}
             m == IF lost = {} THEN Len(vectors) ELSE MinOf(lost) - 1
             more == SubSeq(vectors, 1, m)
  <2>1. x = [w EXCEPT !.ok = lost = {}, !.broadcast = @ \o more]
    BY <1>1, <1>3, <1>4, <1>6 DEF SendToSpectators, SendVectors
  <2>2. ASSUME NEW i \in 1 .. N PROVE vectors[i] \in [Players -> Input \cup {None}]
    <3>1. sofar + i - 1 \in Nat
      OBVIOUS
    <3> QED BY <3>1, ConfirmedInputsType
  <2>3. DOMAIN vectors = 1 .. N /\ Len(vectors) = N /\ vectors \in Seq([Players -> Input \cup {None}])
    BY <2>2
  <2>4. lost \subseteq 1 .. N /\ lost \subseteq FrameOrNull
    BY <2>3 DEF FrameOrNull
  <2>5. \A i \in 1 .. N : i \notin lost => vectors[i] \in [Players -> Input]
    BY <2>2, <2>3
  <2>6. \A i \in 1 .. N : vectors[i] = confirmed_inputs(w.sl, sofar + i - 1, w.status)
    OBVIOUS
  <2> HIDE DEF vectors, lost
  <2>7. m \in 0 .. N /\ \A i \in 1 .. m : i \notin lost
    <3>1. CASE lost = {}
      BY <2>3, <3>1
    <3>2. CASE lost # {}
      <4>1. MinOf(lost) \in lost /\ \A y \in lost : MinOf(lost) <= y
        BY <2>4, <3>2, MinOfFrames
      <4>2. PICK least \in 1 .. N : least = MinOf(lost) /\ \A y \in lost : least <= y
        BY <2>4, <4>1
      <4>3. m = least - 1
        BY <3>2, <4>2
      <4> QED BY <4>2, <4>3
    <3> QED BY <3>1, <3>2
  <2> HIDE DEF m
  <2>8. Len(more) = m /\ \A i \in 1 .. m : more[i] = vectors[i]
    BY <2>3, <2>7
  <2>9. \A i \in 1 .. m : more[i] \in [Players -> Input]
    BY <2>5, <2>7, <2>8
  <2>10. more \in GameState
    <3>1. more = [i \in 1 .. m |-> more[i]]
      BY <2>3, <2>7
    <3> HIDE DEF more
    <3> QED BY <2>7, <2>9, <3>1 DEF GameState
  <2>11. \A i \in 1 .. Len(more) : more[i] = confirmed_inputs(w.sl, sofar + i - 1, w.status)
    BY <2>6, <2>7, <2>8
  <2> HIDE DEF more
  <2>12. PICK sequence, ok : sequence = w.broadcast \o more /\ ok = (lost = {})
    OBVIOUS
  <2>13. Extended(w, x, sequence, ok) /\ ok \in BOOLEAN
    BY <2>1, <2>12 DEF Extended
  <2>14. /\ Shaped(x) /\ x.sl = w.sl /\ x.status = w.status /\ x.local_inputs = w.local_inputs
         /\ x.broadcast = sequence
    BY <2>13, ExtendedShape
  <2>15. Len(more) <= N
    BY <2>7, <2>8
  <2>16. Announced(w, x, top, more)
    BY <1>1, <1>3, <1>6, <2>10, <2>11, <2>12, <2>14, <2>15 DEF Announced
  <2> QED BY <1>4, <2>16
<1>7. w.ok \in BOOLEAN
  BY DEF Shaped
<1> QED BY <1>5, <1>6

\* r is q after the input v was stored for frame; t was given before it.
Given(q, r, t, frame, v) ==
    /\ frame \in Nat
    /\ Len(t) <= frame
    /\ Holds(r, Submit(t, frame, v))
    /\ r.frozen = q.frozen
    /\ r.frame_delay = q.frame_delay
    /\ r.last_added_frame = frame

\* The queue of a local player whose next input is for game frame n.
Awaits(q, n) ==
    /\ ~q.frozen
    /\ MaxPrediction + q.frame_delay <= QueueLength - 1
    /\ IF q.last_added_frame = NULL_FRAME THEN n = 0
       ELSE n + q.frame_delay = q.last_added_frame + 1

\* A full ring may give up its oldest slot for the current frame.
LEMMA NextFits ==
    ASSUME NEW q, QueueInv(q), MaxPrediction \in Nat, NEW n \in Nat, Awaits(q, n),
           NEW floor \in Int, floor >= n - MaxPrediction
    PROVE  /\ Acceptable(q, n, floor)
           /\ q.last_added_frame = NULL_FRAME => n + q.frame_delay <= max_frame_delay
<1>1. /\ q.last_added_frame \in Int /\ q.frame_delay \in Nat /\ q.frame_delay <= max_frame_delay
      /\ q.length \in Nat /\ q.length <= QueueLength /\ QueueLength \in Nat
  BY PreviousSlot, QueueLengthAssumption DEF QueueInv, Queue
<1>2. q.last_added_frame = NULL_FRAME => n + q.frame_delay <= max_frame_delay
  BY <1>1 DEF Awaits
<1>3. ASSUME ~(q.length < QueueLength) PROVE q.inputs[q.tail].frame <= floor
  <2>1. q.length = QueueLength /\ q.length > 0
    BY <1>1, <1>3, QueueLengthAssumption
  <2>2. PICK oldest \in Nat : oldest = q.inputs[q.tail].frame /\ oldest = q.last_added_frame + 1 - q.length
    BY <2>1, OldestSlot
  <2>3. q.last_added_frame # NULL_FRAME
    BY <1>1, <2>1, <2>2 DEF NULL_FRAME
  <2>4. n + q.frame_delay = q.last_added_frame + 1
    BY <2>3 DEF Awaits
  <2>5. MaxPrediction + q.frame_delay <= QueueLength - 1
    BY DEF Awaits
  <2>6. oldest <= floor
    BY <1>1, <2>1, <2>2, <2>4, <2>5
  <2> QED BY <2>2, <2>6
<1> QED BY <1>2, <1>3 DEF Acceptable, Awaits

\* The input of the awaited frame is stored, and no other is.
LEMMA LocalAdd ==
    ASSUME NEW s, SyncInv(s), MaxPrediction \in Nat, NEW p \in Players, NEW t,
           Holds(s.input_queues[p], t), NEW n \in Nat, n >= s.current_frame,
           Awaits(s.input_queues[p], n), NEW frame, NEW v \in Input,
           n = s.current_frame => frame = n
    PROVE  LET res == SyncLayer_add_local_input(s, p, frame, v)
               q == s.input_queues[p]
               r == res.sl.input_queues[p]
           IN  IF n = s.current_frame
               THEN res.frame = n + q.frame_delay /\ Given(q, r, t, res.frame, v)
               ELSE res.frame = NULL_FRAME /\ r = q
<1>1. /\ s.current_frame \in Nat /\ s.max_prediction = MaxPrediction
      /\ s.input_queues \in [Players -> Queue] /\ s \in SyncLayer
  BY DEF SyncInv, SyncLayer
<1>2. PICK q : q = s.input_queues[p]
  OBVIOUS
<1>3. PICK floor \in Int : floor = rollback_window_floor(s) /\ floor >= s.current_frame - MaxPrediction
  BY <1>1 DEF rollback_window_floor, MaxFrameOf
<1>4. PICK res : res = SyncLayer_add_local_input(s, p, frame, v)
  OBVIOUS
<1>5. QueueInv(q) /\ Holds(q, t) /\ Awaits(q, n) /\ q.last_added_frame \in Int /\ q.frame_delay \in Nat
  BY <1>2, PreviousSlot DEF SyncInv
<1>6. PICK add : add = add_input(q, frame, v, floor)
  OBVIOUS
<1>7. CASE frame # s.current_frame
  BY <1>2, <1>4, <1>7 DEF SyncLayer_add_local_input
<1>8. CASE frame = s.current_frame
  <2>1. res.frame = add.frame /\ res.sl = [s EXCEPT !.input_queues[p] = add.q]
    BY <1>2, <1>3, <1>4, <1>6, <1>8 DEF SyncLayer_add_local_input
  <2>2. res.sl.input_queues[p] = add.q
    BY <1>1, <2>1 DEF SyncLayer
  <2>3. CASE n # s.current_frame
    <3>1. /\ q.last_added_frame # NULL_FRAME /\ frame + q.frame_delay # q.last_added_frame + 1
          /\ ~q.frozen
      BY <1>1, <1>5, <1>8, <2>3 DEF Awaits
    <3>2. add.frame = NULL_FRAME /\ add.q = q
      BY <1>6, <3>1 DEF add_input
    <3> QED BY <1>2, <1>4, <2>1, <2>2, <2>3, <3>2
  <2>4. CASE n = s.current_frame
    <3>1. Acceptable(q, frame, floor) /\ frame \in Nat
          /\ (q.last_added_frame = NULL_FRAME => frame + q.frame_delay <= max_frame_delay)
      BY <1>3, <1>5, <1>8, <2>4, NextFits
    <3>2. \E fill : StoredAfter(q, add, fill, frame, v, floor)
      BY <1>5, <1>6, <3>1, AddInputAt
    <3>3. PICK fill : StoredAfter(q, add, fill, frame, v, floor)
      BY <3>2
    <3>4. /\ add.frame \in Nat /\ Len(t) <= add.frame
          /\ Holds(add.q, Submit(t, add.frame, v))
          /\ add.q.frozen = q.frozen /\ add.q.frame_delay = q.frame_delay
          /\ add.q.last_added_frame = add.frame
      BY <1>5, <1>6, <3>1, <3>3, HoldsStored
    <3>5. add.frame = frame + q.frame_delay
      BY <3>3 DEF StoredAfter
    <3>6. Given(q, add.q, t, add.frame, v)
      BY <3>4 DEF Given
    <3> QED BY <1>2, <1>4, <1>8, <2>1, <2>2, <2>4, <3>5, <3>6
  <2> QED BY <2>3, <2>4
<1> QED BY <1>7, <1>8

LEMMA AwaitsSame ==
    ASSUME NEW q, NEW r, SameInputs(q, r), NEW n, Awaits(q, n)
    PROVE  Awaits(r, n)
  BY DEF SameInputs, Awaits

LEMMA GivenSame ==
    ASSUME NEW p, NEW q, NEW r, NEW t, NEW frame, NEW v, SameInputs(p, q), Given(q, r, t, frame, v)
    PROVE  Given(p, r, t, frame, v)
  BY DEF SameInputs, Given

\* What becomes of one player's queue and status when the inputs of frame n are due:
\* every local player's input is stored, or none is.
PlayerStored(w, x, n, t, p) ==
    LET q == w.sl.input_queues[p]
        r == x.sl.input_queues[p]
    IN  IF p \in LocalPlayers /\ n = w.sl.current_frame
        THEN /\ Given(q, r, t, n + q.frame_delay, w.local_inputs[p].input)
             /\ x.status[p] = [disconnected |-> w.status[p].disconnected,
                               last_frame   |-> n + q.frame_delay]
        ELSE SameInputs(q, r) /\ x.status[p] = w.status[p]

\* x is w after the stage that confirms, discards and stores.
Stored(w, x, n, T) ==
    /\ Shaped(x)
    /\ x.ok = w.ok
    /\ x.broadcast = w.broadcast
    /\ x.sl.saved_states = w.sl.saved_states
    /\ x.sl.current_frame = w.sl.current_frame
    /\ x.status \in [Players -> Status]
    /\ x.local_inputs \in [LocalPlayers -> PlayerInput]
    /\ \A p \in Players : PlayerStored(w, x, n, T[p], p)

\* A work record that is ready for it.
Ready(w, n, T) ==
    /\ Shaped(w)
    /\ SyncInv(w.sl)
    /\ w.status \in [Players -> Status]
    /\ w.local_inputs \in [LocalPlayers -> PlayerInput]
    /\ n >= w.sl.current_frame
    /\ \A p \in Players : Holds(w.sl.input_queues[p], T[p])
    /\ \A p \in LocalPlayers : /\ Awaits(w.sl.input_queues[p], n)
                               /\ n = w.sl.current_frame => w.local_inputs[p].frame = n

\* A record whose sync layer, statuses and local inputs are replaced.
StoredWith(w, x, queues, inputs, status) ==
    x = [w EXCEPT !.sl.input_queues = queues, !.local_inputs = inputs, !.status = status]

LEMMA StoredShape ==
    ASSUME NEW w, Shaped(w), NEW queues \in [Players -> Queue], NEW inputs, NEW status,
           NEW x, StoredWith(w, x, queues, inputs, status)
    PROVE  /\ Shaped(x) /\ x.ok = w.ok /\ x.broadcast = w.broadcast
           /\ x.sl.saved_states = w.sl.saved_states /\ x.sl.current_frame = w.sl.current_frame
           /\ x.sl.input_queues = queues /\ x.local_inputs = inputs /\ x.status = status
<1>1. PICK s : s = [w.sl EXCEPT !.input_queues = queues]
  OBVIOUS
<1>2. w.sl \in SyncLayer
  BY DEF Shaped
<1>3. /\ s \in SyncLayer /\ s.saved_states = w.sl.saved_states /\ s.current_frame = w.sl.current_frame
      /\ s.input_queues = queues
  BY <1>1, <1>2 DEF SyncLayer
<1>4. x = [w EXCEPT !.sl = s, !.local_inputs = inputs, !.status = status]
  BY <1>1 DEF StoredWith, Shaped
<1>5. /\ x \in [sl : SyncLayer, status : {status}, local_inputs : {inputs},
                disconnect_frame : FrameOrNull, broadcast : {w.broadcast},
                requests : Seq(SaveOrLoad \cup Advance), ok : BOOLEAN]
      /\ x.sl = s /\ x.ok = w.ok /\ x.status = status /\ x.local_inputs = inputs
      /\ x.broadcast = w.broadcast
  BY <1>3, <1>4 DEF Shaped
<1> QED BY <1>3, <1>5 DEF Shaped

LEMMA StoreStage ==
    ASSUME NEW w, NEW n \in Nat, NEW T, Ready(w, n, T), MaxPrediction \in Nat, w.ok,
           NEW top \in FrameOrNull
    PROVE  Stored(w, StoreLocalInputs(w, top), n, T)
<1>1. PICK s : s = set_last_confirmed_frame(w.sl, top, SaveMode)
  OBVIOUS
<1>2. Derived(w.sl, s) /\ s.current_frame = w.sl.current_frame
  BY <1>1, ConfirmDerived DEF Ready
<1>3. PICK u : u = [w EXCEPT !.sl = s]
  OBVIOUS
<1>4. PICK x : x = StoreLocalInputs(w, top)
  OBVIOUS
<1>5. x = StoreLocal(u)
  BY <1>1, <1>3, <1>4 DEF StoreLocalInputs
<1>6. /\ u.sl = s /\ u.status = w.status /\ u.local_inputs = w.local_inputs /\ u.ok = w.ok
      /\ u.broadcast = w.broadcast /\ Shaped(u) /\ s \in SyncLayer /\ SyncInv(s)
      /\ s.saved_states = w.sl.saved_states
  <2>1. s \in SyncLayer /\ SyncInv(s) /\ s.saved_states = w.sl.saved_states
    BY <1>2, DerivedInv DEF Derived
  <2>2. /\ u \in [sl : SyncLayer, status : {w.status}, local_inputs : {w.local_inputs},
                  disconnect_frame : FrameOrNull, broadcast : {w.broadcast},
                  requests : Seq(SaveOrLoad \cup Advance), ok : BOOLEAN]
        /\ u.sl = s /\ u.ok = w.ok /\ u.status = w.status /\ u.local_inputs = w.local_inputs
        /\ u.broadcast = w.broadcast
    BY <1>3, <2>1 DEF Ready, Shaped
  <2> QED BY <2>1, <2>2 DEF Shaped
<1> DEFINE add(p) == SyncLayer_add_local_input(s, p, w.local_inputs[p].frame, w.local_inputs[p].input)
           queues == [p \in Players |-> IF p \in LocalPlayers THEN add(p).sl.input_queues[p]
                                        ELSE s.input_queues[p]]
           inputs == [p \in LocalPlayers |-> [w.local_inputs[p] EXCEPT !.frame = add(p).frame]]
           status == [p \in Players |-> IF p \in LocalPlayers /\ add(p).frame # NULL_FRAME
                                        THEN [w.status[p] EXCEPT !.last_frame = add(p).frame]
                                        ELSE w.status[p]]
<1>7. StoredWith(u, x, queues, inputs, status)
  <2>1. LocalPlayers \subseteq Players
    BY LocalPlayersAssumption
  <2> QED BY <1>5, <1>6, <2>1 DEF StoreLocal, StoreWith, StoredWith
<1>8. \A p \in Players : SameInputs(w.sl.input_queues[p], s.input_queues[p])
  BY <1>2 DEF Derived
<1>9. ASSUME NEW p \in LocalPlayers
      PROVE  LET q == w.sl.input_queues[p]
                 r == add(p).sl.input_queues[p]
             IN  IF n = w.sl.current_frame
                 THEN /\ add(p).frame = n + q.frame_delay
                      /\ Given(q, r, T[p], add(p).frame, w.local_inputs[p].input)
                 ELSE add(p).frame = NULL_FRAME /\ r = s.input_queues[p]
  <2>1. p \in Players
    BY LocalPlayersAssumption
  <2>2. PICK q, r, t, frame, v : /\ q = w.sl.input_queues[p] /\ r = s.input_queues[p] /\ t = T[p]
                                 /\ frame = w.local_inputs[p].frame /\ v = w.local_inputs[p].input
    OBVIOUS
  <2>3. SameInputs(q, r) /\ Holds(q, t) /\ Awaits(q, n)
    BY <1>8, <2>1, <2>2 DEF Ready
  <2>4. Holds(r, t) /\ Awaits(r, n) /\ r.frame_delay = q.frame_delay
    BY <2>3, HoldsSame, AwaitsSame DEF SameInputs
  <2>5. v \in Input /\ n >= s.current_frame /\ (n = s.current_frame => frame = n)
    BY <1>2, <2>2 DEF Ready, PlayerInput
  <2>6. PICK res : res = SyncLayer_add_local_input(s, p, frame, v)
    OBVIOUS
  <2>7. IF n = s.current_frame
        THEN res.frame = n + r.frame_delay /\ Given(r, res.sl.input_queues[p], t, res.frame, v)
        ELSE res.frame = NULL_FRAME /\ res.sl.input_queues[p] = r
    BY <1>6, <2>1, <2>2, <2>4, <2>5, <2>6, LocalAdd
  <2>8. Given(r, res.sl.input_queues[p], t, res.frame, v)
          => Given(q, res.sl.input_queues[p], t, res.frame, v)
    BY <2>3, GivenSame
  <2> QED BY <1>2, <2>2, <2>4, <2>6, <2>7, <2>8
<1> HIDE DEF add
<1>10. ASSUME NEW p \in LocalPlayers
       PROVE  add(p).frame \in FrameOrNull /\ add(p).sl.input_queues[p] \in Queue
  <2>1. s.input_queues[p] \in Queue
    BY <1>6, LocalPlayersAssumption DEF SyncLayer
  <2> QED BY <1>9, <2>1 DEF Given, Holds, QueueInv, FrameOrNull
<1>11. queues \in [Players -> Queue]
  <2>1. s.input_queues \in [Players -> Queue]
    BY <1>6 DEF SyncLayer
  <2> QED BY <1>10, <2>1
<1>12. inputs \in [LocalPlayers -> PlayerInput]
  <2>1. ASSUME NEW p \in LocalPlayers
        PROVE  [w.local_inputs[p] EXCEPT !.frame = add(p).frame] \in PlayerInput
    <3>1. w.local_inputs[p] \in PlayerInput
      BY DEF Ready
    <3> QED BY <1>10, <3>1 DEF PlayerInput
  <2> QED BY <2>1
<1>13. ASSUME NEW p \in Players
       PROVE  /\ status[p] \in Status
              /\ p \in LocalPlayers /\ add(p).frame # NULL_FRAME
                   => status[p] = [disconnected |-> w.status[p].disconnected, last_frame |-> add(p).frame]
              /\ ~(p \in LocalPlayers /\ add(p).frame # NULL_FRAME) => status[p] = w.status[p]
  <2>1. PICK old \in Status : old = w.status[p]
    BY DEF Ready
  <2>2. ASSUME p \in LocalPlayers, add(p).frame # NULL_FRAME
        PROVE  /\ status[p] = [disconnected |-> old.disconnected, last_frame |-> add(p).frame]
               /\ status[p] \in Status
    <3>1. status[p] = [old EXCEPT !.last_frame = add(p).frame]
      BY <2>1, <2>2
    <3>2. add(p).frame \in FrameOrNull
      BY <1>10, <2>2
    <3> HIDE DEF status
    <3> QED BY <3>1, <3>2 DEF Status
  <2> QED BY <2>1, <2>2
<1>14. status \in [Players -> Status]
  BY <1>13
<1>15. /\ \A p \in Players : queues[p] = IF p \in LocalPlayers THEN add(p).sl.input_queues[p]
                                         ELSE s.input_queues[p]
  OBVIOUS
<1> HIDE DEF queues, inputs, status
<1>16. /\ Shaped(x) /\ x.ok = u.ok /\ x.broadcast = u.broadcast
       /\ x.sl.saved_states = u.sl.saved_states /\ x.sl.current_frame = u.sl.current_frame
       /\ x.sl.input_queues = queues /\ x.local_inputs = inputs /\ x.status = status
  <2>1. PICK Q, I, C : Q = queues /\ I = inputs /\ C = status
    OBVIOUS
  <2>2. Q \in [Players -> Queue] /\ StoredWith(u, x, Q, I, C) /\ Shaped(u)
    BY <1>6, <1>7, <1>11, <2>1, Zenon
  <2>3. /\ Shaped(x) /\ x.ok = u.ok /\ x.broadcast = u.broadcast
        /\ x.sl.saved_states = u.sl.saved_states /\ x.sl.current_frame = u.sl.current_frame
        /\ x.sl.input_queues = Q /\ x.local_inputs = I /\ x.status = C
    BY <2>2, StoredShape
  <2> QED BY <2>1, <2>3
<1>17. ASSUME NEW p \in Players PROVE PlayerStored(w, x, n, T[p], p)
  <2>1. CASE p \in LocalPlayers /\ n = w.sl.current_frame
    <3>1. PICK frame, q, r, v : /\ frame = add(p).frame /\ q = w.sl.input_queues[p]
                                /\ r = add(p).sl.input_queues[p] /\ v = w.local_inputs[p].input
      OBVIOUS
    <3>2. frame = n + q.frame_delay /\ Given(q, r, T[p], frame, v)
      BY <1>9, <2>1, <3>1
    <3>3. frame # NULL_FRAME
      BY <3>2 DEF Given, NULL_FRAME
    <3>4. x.sl.input_queues[p] = r
      BY <1>15, <1>16, <2>1, <3>1
    <3>5. x.status[p] = [disconnected |-> w.status[p].disconnected, last_frame |-> frame]
      BY <1>13, <1>16, <2>1, <3>1, <3>3
    <3> QED BY <2>1, <3>1, <3>2, <3>4, <3>5 DEF PlayerStored
  <2>2. CASE p \in LocalPlayers /\ n # w.sl.current_frame
    <3>1. add(p).frame = NULL_FRAME /\ add(p).sl.input_queues[p] = s.input_queues[p]
      BY <1>9, <2>2
    <3>2. x.sl.input_queues[p] = s.input_queues[p]
      BY <1>15, <1>16, <2>2, <3>1
    <3>3. x.status[p] = w.status[p]
      BY <1>13, <1>16, <3>1
    <3> QED BY <1>8, <2>2, <3>2, <3>3 DEF PlayerStored
  <2>3. CASE p \notin LocalPlayers
    <3>1. x.sl.input_queues[p] = s.input_queues[p]
      BY <1>15, <1>16, <2>3
    <3>2. x.status[p] = w.status[p]
      BY <1>13, <1>16, <2>3
    <3> QED BY <1>8, <2>3, <3>1, <3>2 DEF PlayerStored
  <2> QED BY <2>1, <2>2, <2>3
<1>18. Stored(w, x, n, T)
  BY <1>2, <1>6, <1>12, <1>14, <1>16, <1>17 DEF Stored
<1> QED BY <1>4, <1>18

\* The last stage: the new frame, or nothing when it stalls.
NewFrame(w, x) ==
    \/ /\ Worked(w, x)
       /\ x.sl.current_frame = w.sl.current_frame
    \/ /\ Shaped(x)
       /\ Derived(w.sl, x.sl)
       /\ x.status = w.status
       /\ x.broadcast = w.broadcast
       /\ x.sl.current_frame = w.sl.current_frame + 1
       /\ x.local_inputs = [p \in LocalPlayers |-> None]

LEMMA AdvanceStage ==
    ASSUME NEW w, Shaped(w), SyncInv(w.sl)
    PROVE  NewFrame(w, AdvanceLocal(w))
<1>1. PICK y : y = Simulate(w, FALSE)
  OBVIOUS
<1>2. Stepped(w, y)
  BY <1>1, SimulateStage
<1>3. PICK x : x = AdvanceLocal(w)
  OBVIOUS
<1>4. CASE ~(w.ok /\ CanAdvance(w.sl))
  BY <1>3, <1>4, WorkedRefl DEF AdvanceLocal, NewFrame
<1>5. CASE w.ok /\ CanAdvance(w.sl) /\ ~y.ok
  BY <1>1, <1>2, <1>3, <1>5 DEF AdvanceLocal, ClearLocalInputs, NewFrame, Stepped
<1>6. CASE w.ok /\ CanAdvance(w.sl) /\ y.ok
  <2>1. PICK none : none = [p \in LocalPlayers |-> None]
    OBVIOUS
  <2>2. x = [y EXCEPT !.local_inputs = none]
    BY <1>1, <1>3, <1>6, <2>1 DEF AdvanceLocal, ClearLocalInputs
  <2>3. Shaped(y) /\ Derived(w.sl, y.sl) /\ y.status = w.status /\ y.broadcast = w.broadcast
        /\ y.sl.current_frame = w.sl.current_frame + 1
    BY <1>2, <1>6 DEF Stepped, Worked
  <2>4. /\ x \in [sl : SyncLayer, status : {y.status}, local_inputs : {none},
                  disconnect_frame : FrameOrNull, broadcast : {y.broadcast},
                  requests : Seq(SaveOrLoad \cup Advance), ok : BOOLEAN]
        /\ x.sl = y.sl /\ x.ok = y.ok /\ x.status = y.status /\ x.local_inputs = none
        /\ x.broadcast = y.broadcast
    BY <2>2, <2>3 DEF Shaped
  <2>5. Shaped(x)
    BY <2>4 DEF Shaped
  <2> QED BY <1>3, <2>1, <2>3, <2>4, <2>5 DEF NewFrame
<1> QED BY <1>4, <1>5, <1>6

\* The frame's cell lies in the ring of cells.
LEMMA CellInRing ==
    ASSUME NEW N \in Nat, NEW cells, DOMAIN cells = 0 .. N, NEW frame \in Nat
    PROVE  get_cell(cells, frame) \in 0 .. N
<1>1. Cardinality(0 .. N) = N + 1
  <2>1. 0 \in Int /\ N \in Int
    OBVIOUS
  <2>2. Cardinality(0 .. N) = IF 0 > N THEN 0 ELSE N - 0 + 1
    BY <2>1, FS_Interval
  <2> QED BY <2>2
<1>2. PICK k \in Nat : k = N + 1 /\ k > 0
  OBVIOUS
<1>3. frame % k \in 0 .. (k - 1)
  BY <1>2
<1> QED BY <1>1, <1>2, <1>3 DEF get_cell

\* What the game makes of the requests: a state in every cell, and a state of its own.
LEMMA FulfilType ==
    ASSUME MaxPrediction \in Nat, NEW cells \in [0 .. MaxPrediction -> Cell],
           game \in GameState, NEW requests \in Seq(SaveOrLoad \cup Advance)
    PROVE  Fulfil(cells, requests) \in [cells : [0 .. MaxPrediction -> Cell], game : GameState]
<1> DEFINE Done == [cells : [0 .. MaxPrediction -> Cell], game : GameState]
<1>1. PICK N \in Nat : N = Len(requests)
  OBVIOUS
<1>2. PICK f : IsFulfil(f, N, cells, requests) /\ Fulfil(cells, requests) = f[N]
  BY <1>1, FulfilValue
<1>3. f[0] \in Done
  BY <1>2 DEF IsFulfil
<1>4. ASSUME NEW i \in 1 .. N, f[i - 1] \in Done PROVE f[i] \in Done
  <2>1. PICK g \in Done : g = f[i - 1]
    BY <1>4
  <2>2. f[i] = FulfilStep(i, g, cells, requests)
    BY <1>2, <2>1 DEF IsFulfil
  <2>3. PICK r \in SaveOrLoad \cup Advance : r = requests[i]
    BY <1>1
  <2>4. g.game \in GameState /\ g.cells \in [0 .. MaxPrediction -> Cell]
    OBVIOUS
  <2>5. CASE r \in SaveOrLoad
    <3>1. r.type \in {"Save", "Load"} /\ r.frame \in Nat
      BY <2>5 DEF SaveOrLoad
    <3>2. PICK c \in 0 .. MaxPrediction : c = get_cell(cells, r.frame)
      BY <3>1, CellInRing
    <3>3. CASE r.type = "Save"
      <4>1. f[i] = [g EXCEPT !.cells[c] = [frame |-> r.frame, state |-> g.game]]
        BY <2>2, <2>3, <3>2, <3>3 DEF FulfilStep
      <4>2. PICK cell : cell = [frame |-> r.frame, state |-> g.game]
        OBVIOUS
      <4>3. cell \in Cell
        BY <2>4, <3>1, <4>2 DEF Cell, FrameOrNull
      <4>4. PICK ring : ring = [g.cells EXCEPT ![c] = cell]
        OBVIOUS
      <4>5. ring \in [0 .. MaxPrediction -> Cell]
        BY <2>4, <4>3, <4>4
      <4>6. f[i] = [g EXCEPT !.cells = ring]
        BY <4>1, <4>2, <4>4
      <4> QED BY <4>5, <4>6
    <3>4. CASE r.type = "Load"
      <4>1. f[i] = [g EXCEPT !.game = g.cells[c].state]
        BY <2>2, <2>3, <3>2, <3>4 DEF FulfilStep
      <4>2. PICK st : st = g.cells[c].state
        OBVIOUS
      <4>3. st \in GameState
        BY <2>4, <4>2 DEF Cell
      <4> QED BY <4>1, <4>2, <4>3
    <3> QED BY <3>1, <3>3, <3>4
  <2>6. CASE r \in Advance
    <3>1. r.type = "Advance" /\ r.inputs \in [Players -> Input]
      BY <2>6 DEF Advance
    <3>2. f[i] = [g EXCEPT !.game = Append(@, r.inputs)]
      BY <2>2, <2>3, <3>1 DEF FulfilStep
    <3>3. PICK st : st = Append(g.game, r.inputs)
      OBVIOUS
    <3>4. st \in GameState
      BY <2>4, <3>1, <3>3 DEF GameState
    <3>5. f[i] = [g EXCEPT !.game = st]
      BY <3>2, <3>3
    <3> QED BY <3>4, <3>5
  <2> QED BY <2>5, <2>6
<1> HIDE DEF Done
<1>5. \A i \in 0 .. N : f[i] \in Done
  <2> DEFINE G == {i \in 0 .. N : f[i] \in Done}
  <2>1. 0 \in G
    BY <1>3
  <2>2. ASSUME NEW i \in 1 .. N, i - 1 \in G PROVE i \in G
    BY <1>4, <2>2
  <2>3. \A i \in 0 .. N : i \in G
    <3> HIDE DEF G
    <3> QED BY <2>1, <2>2, IndexInduction
  <2> QED BY <2>3
<1>6. f[N] \in Done
  BY <1>5
<1> QED BY <1>2, <1>6 DEF Done

-----------------------------------------------------------------------------
(* The whole call of advance_frame.                                        *)

\* Every queue was given the player's real inputs.
QueuesHold == \A p \in Players : Holds(sl.input_queues[p], truth[p])

\* The local players' next inputs are for one game frame n: the current one, for
\* which they are submitted, or a later one when the call has stored them already.
LocalsAt(n) ==
    /\ n >= sl.current_frame
    /\ \A p \in LocalPlayers :
           /\ Awaits(sl.input_queues[p], n)
           /\ ~local_connect_status[p].disconnected
           /\ local_connect_status[p].last_frame = sl.input_queues[p].last_added_frame
           /\ n = sl.current_frame /\ local_inputs[p] # None => local_inputs[p].frame = n

\* What a call makes of one player: its input is stored, or only what a queue knows
\* of its own episode changes.
PlayerCalled(y, stored, n, p) ==
    LET q == sl.input_queues[p]
        r == y.sl.input_queues[p]
    IN  IF p \in LocalPlayers /\ stored
        THEN /\ Given(q, r, truth[p], n + q.frame_delay, local_inputs[p].input)
             /\ y.status[p] = [disconnected |-> local_connect_status[p].disconnected,
                               last_frame   |-> n + q.frame_delay]
        ELSE SameInputs(q, r) /\ y.status[p] = local_connect_status[p]

\* What a call sends to the spectators, from queues that hold what ours do.
CallSent(y, top, s, more) ==
    /\ Derived(sl, s)
    /\ more \in GameState
    /\ y.broadcast = broadcast \o more
    /\ Len(more) <= MaxFrameOf(top + 1 - Len(broadcast), 0)
    /\ \A i \in 1 .. Len(more) :
           more[i] = confirmed_inputs(s, Len(broadcast) + i - 1, local_connect_status)

\* What a call makes of the local players: their next inputs are for frame m.
CallStored(y, stored, n) ==
    LET m == IF stored THEN n + 1 ELSE n
    IN  /\ m >= y.sl.current_frame
        /\ \A p \in LocalPlayers :
               m = y.sl.current_frame /\ y.local_inputs[p] # None => y.local_inputs[p].frame = m
        /\ \A p \in Players : PlayerCalled(y, stored, n, p)

CallTyped(y) ==
    /\ Shaped(y)
    /\ y.sl.saved_states = sl.saved_states
    /\ y.status \in [Players -> Status]
    /\ y.local_inputs \in [LocalPlayers -> PlayerInput \cup {None}]

LEMMA StartShape ==
    ASSUME TypeOK
    PROVE  /\ Shaped(Start) /\ Start.sl = sl /\ Start.status = local_connect_status
           /\ Start.local_inputs = local_inputs /\ Start.broadcast = broadcast /\ Start.ok = TRUE
  BY DEF TypeOK, Start, Shaped

LEMMA CallOutcome ==
    ASSUME TypeOK, QueuesHold, MaxPrediction \in Nat, NEW n \in Nat, LocalsAt(n),
           \A p \in LocalPlayers : local_inputs[p] # None, NEW top \in FrameOrNull
    PROVE  LET y == Advanced(top)
           IN  /\ CallTyped(y)
               /\ \E s, more : CallSent(y, top, s, more)
               /\ \E stored \in BOOLEAN : CallStored(y, stored, n)
<1>1. /\ Shaped(Start) /\ Start.sl = sl /\ Start.status = local_connect_status
      /\ Start.local_inputs = local_inputs /\ Start.broadcast = broadcast /\ Start.ok = TRUE
  BY StartShape
<1>2. SyncInv(sl) /\ sl \in SyncLayer /\ disconnect_frame \in FrameOrNull /\ broadcast \in GameState
      /\ sl.current_frame \in Nat
  BY DEF TypeOK, QueuesHold, Holds, SyncInv, SyncLayer
<1>3. PICK v : v = Rollback(Start, top)
  OBVIOUS
<1>4. Moved(Start, v)
  BY <1>1, <1>2, <1>3, RollbackStage
<1>5. PICK w : w = SaveAfterRollback(v, top)
  OBVIOUS
<1>6. Moved(v, w)
  BY <1>4, <1>5, WorkedInv, SaveAfterStage DEF Moved
<1>7. Moved(Start, w)
  BY <1>1, <1>2, <1>4, <1>6, MovedTrans
<1>8. /\ Worked(Start, w) /\ Shaped(w) /\ SyncInv(w.sl) /\ Derived(sl, w.sl)
      /\ w.status = local_connect_status /\ w.local_inputs = local_inputs /\ w.broadcast = broadcast
      /\ w.sl.current_frame <= sl.current_frame
      /\ w.ok => w.sl.current_frame = sl.current_frame
  BY <1>1, <1>7, WorkedInv DEF Moved, Worked
<1>9. PICK x : x = SendToSpectators(w, top)
  OBVIOUS
<1>10. PICK more : Announced(w, x, top, more)
  BY <1>2, <1>8, <1>9, SendStage
<1>11. /\ Shaped(x) /\ x.sl = w.sl /\ x.status = local_connect_status /\ x.local_inputs = local_inputs
       /\ x.ok => w.ok
  BY <1>8, <1>10 DEF Announced
<1>12. PICK u : u = StoreLocalInputs(x, top)
  OBVIOUS
<1>13. PICK y : y = AdvanceLocal(u)
  OBVIOUS
<1>14. Advanced(top) = y
  BY <1>3, <1>5, <1>9, <1>12, <1>13 DEF Advanced
<1>15. \A p \in Players : SameInputs(sl.input_queues[p], x.sl.input_queues[p])
  BY <1>8, <1>11 DEF Derived
<1>16. local_inputs \in [LocalPlayers -> PlayerInput]
  BY DEF TypeOK
<1>17. ASSUME y.broadcast = x.broadcast PROVE CallSent(y, top, w.sl, more)
  BY <1>8, <1>10, <1>17 DEF Announced, CallSent
<1>18. CASE ~x.ok
  <2>1. u = x /\ y = x
    BY <1>12, <1>13, <1>18 DEF StoreLocalInputs, AdvanceLocal
  <2>2. CallTyped(y)
    BY <1>8, <1>11, <1>16, <2>1 DEF CallTyped, Derived, TypeOK
  <2>3. CallStored(y, FALSE, n)
    <3>1. x.sl.current_frame \in Nat /\ x.sl.current_frame <= sl.current_frame
      BY <1>8, <1>11 DEF SyncInv, SyncLayer
    <3> QED BY <1>2, <1>11, <1>15, <2>1, <3>1 DEF CallStored, PlayerCalled, LocalsAt
  <2>4. CallSent(y, top, w.sl, more)
    BY <1>17, <2>1
  <2> QED BY <1>14, <2>2, <2>3, <2>4
<1>19. CASE x.ok
  <2>1. x.sl.current_frame = sl.current_frame
    BY <1>8, <1>11, <1>19
  <2>2. ASSUME NEW p \in Players PROVE Holds(x.sl.input_queues[p], truth[p])
    BY <1>15, HoldsSame DEF QueuesHold
  <2>3. ASSUME NEW p \in LocalPlayers
        PROVE  /\ Awaits(x.sl.input_queues[p], n)
               /\ n = x.sl.current_frame => x.local_inputs[p].frame = n
    <3>1. Awaits(sl.input_queues[p], n)
      BY DEF LocalsAt
    <3>2. p \in Players
      BY LocalPlayersAssumption
    <3>3. Awaits(x.sl.input_queues[p], n)
      BY <1>15, <3>1, <3>2, AwaitsSame
    <3> QED BY <1>11, <2>1, <3>3 DEF LocalsAt
  <2>4. Ready(x, n, truth)
    BY <1>8, <1>11, <1>16, <2>1, <2>2, <2>3 DEF Ready, LocalsAt, TypeOK
  <2>5. Stored(x, u, n, truth)
    BY <1>12, <1>19, <2>4, StoreStage
  <2>6. PICK stored \in BOOLEAN : stored = (n = sl.current_frame)
    OBVIOUS
  <2>7. ASSUME NEW p \in Players PROVE PlayerCalled(u, stored, n, p)
    <3>1. PICK q, r, s : q = sl.input_queues[p] /\ r = x.sl.input_queues[p] /\ s = u.sl.input_queues[p]
      OBVIOUS
    <3>2. SameInputs(q, r) /\ r.frame_delay = q.frame_delay
      BY <1>15, <3>1 DEF SameInputs
    <3>3. PlayerStored(x, u, n, truth[p], p)
      BY <2>5 DEF Stored
    <3>4. CASE p \in LocalPlayers /\ stored
      <4>1. PICK frame, v1, t : frame = n + r.frame_delay /\ v1 = local_inputs[p].input /\ t = truth[p]
        OBVIOUS
      <4>2. /\ Given(r, s, t, frame, v1)
            /\ u.status[p] = [disconnected |-> local_connect_status[p].disconnected, last_frame |-> frame]
        BY <1>11, <2>1, <2>6, <3>1, <3>3, <3>4, <4>1 DEF PlayerStored
      <4>3. Given(q, s, t, frame, v1)
        BY <3>2, <4>2, GivenSame
      <4> QED BY <3>1, <3>2, <3>4, <4>1, <4>2, <4>3 DEF PlayerCalled
    <3>5. CASE ~(p \in LocalPlayers /\ stored)
      <4>1. SameInputs(r, s) /\ u.status[p] = local_connect_status[p]
        BY <1>11, <2>1, <2>6, <3>1, <3>3, <3>5 DEF PlayerStored
      <4>2. SameInputs(q, s)
        BY <3>2, <4>1, SameInputsTrans
      <4> QED BY <3>1, <3>5, <4>1, <4>2 DEF PlayerCalled
    <3> QED BY <3>4, <3>5
  <2>8. SyncInv(u.sl)
    <3>1. ASSUME NEW p \in Players PROVE QueueInv(u.sl.input_queues[p])
      BY <2>7 DEF PlayerCalled, Given, Holds, SameInputs
    <3> QED BY <2>5, <3>1 DEF Stored, Shaped, SyncInv
  <2>9. NewFrame(u, y)
    BY <1>13, <2>5, <2>8, AdvanceStage DEF Stored
  <2>10. Shaped(y) /\ Derived(u.sl, y.sl) /\ y.status = u.status /\ y.broadcast = u.broadcast
    BY <2>9 DEF NewFrame, Worked
  <2>11. CallTyped(y)
    <3>1. y.sl.saved_states = sl.saved_states
      BY <1>8, <1>11, <2>5, <2>10 DEF Stored, Derived
    <3>2. y.local_inputs \in [LocalPlayers -> PlayerInput \cup {None}]
      BY <2>5, <2>9 DEF NewFrame, Worked, Stored
    <3> QED BY <2>5, <2>10, <3>1, <3>2 DEF CallTyped, Stored
  <2>12. CallSent(y, top, w.sl, more)
    BY <1>17, <2>5, <2>10 DEF Stored
  <2>13. ASSUME NEW p \in Players PROVE PlayerCalled(y, stored, n, p)
    <3>1. PICK q, r, s : q = sl.input_queues[p] /\ r = u.sl.input_queues[p] /\ s = y.sl.input_queues[p]
      OBVIOUS
    <3>2. SameInputs(r, s)
      BY <2>10, <3>1 DEF Derived
    <3>3. CASE p \in LocalPlayers /\ stored
      <4>1. PICK frame, v1, t : frame = n + q.frame_delay /\ v1 = local_inputs[p].input /\ t = truth[p]
        OBVIOUS
      <4>2. /\ Given(q, r, t, frame, v1)
            /\ u.status[p] = [disconnected |-> local_connect_status[p].disconnected, last_frame |-> frame]
        BY <2>7, <3>1, <3>3, <4>1 DEF PlayerCalled
      <4>3. PICK given : given = Submit(t, frame, v1)
        OBVIOUS
      <4>4. Holds(s, given)
        BY <3>2, <4>2, <4>3, HoldsSame DEF Given
      <4>5. Given(q, s, t, frame, v1)
        BY <3>2, <4>2, <4>3, <4>4 DEF Given, SameInputs
      <4> QED BY <2>10, <3>1, <3>3, <4>1, <4>2, <4>5 DEF PlayerCalled
    <3>4. CASE ~(p \in LocalPlayers /\ stored)
      <4>1. SameInputs(q, r) /\ u.status[p] = local_connect_status[p]
        BY <2>7, <3>1, <3>4 DEF PlayerCalled
      <4>2. SameInputs(q, s)
        BY <3>2, <4>1, SameInputsTrans
      <4> QED BY <2>10, <3>1, <3>4, <4>1, <4>2 DEF PlayerCalled
    <3> QED BY <3>3, <3>4
  <2>14. CallStored(y, stored, n)
    <3>1. u.sl.current_frame = sl.current_frame
      BY <2>1, <2>5 DEF Stored
    <3>2. n >= sl.current_frame /\ y.sl.current_frame \in Nat
      BY <2>10 DEF LocalsAt, Derived, SyncLayer
    <3>3. \/ y.sl.current_frame = sl.current_frame
          \/ /\ y.sl.current_frame = sl.current_frame + 1
             /\ \A p \in LocalPlayers : y.local_inputs[p] = None
      BY <2>9, <3>1 DEF NewFrame
    <3>4. PICK m \in Nat : m = IF stored THEN n + 1 ELSE n
      OBVIOUS
    <3>5. /\ m >= y.sl.current_frame
          /\ m = y.sl.current_frame => \A p \in LocalPlayers : y.local_inputs[p] = None
      <4>1. (n = sl.current_frame /\ m = n + 1) \/ (n # sl.current_frame /\ m = n)
        BY <2>6, <3>4
      <4>2. m >= y.sl.current_frame /\ (m = y.sl.current_frame => y.sl.current_frame # sl.current_frame)
        BY <1>2, <3>2, <3>3, <4>1
      <4> QED BY <3>3, <4>2
    <3> QED BY <2>13, <3>4, <3>5 DEF CallStored
  <2> QED BY <1>14, <2>11, <2>12, <2>14
<1>20. x.ok \in BOOLEAN
  BY <1>11 DEF Shaped
<1> QED BY <1>18, <1>19

-----------------------------------------------------------------------------
(* The operations on one player's queue.                                   *)

\* The sync layer with another queue for p.
WithQueue(s, u, p, r) == u = [s EXCEPT !.input_queues[p] = r]

LEMMA WithQueueType ==
    ASSUME NEW s \in SyncLayer, NEW p \in Players, NEW r \in Queue, NEW u, WithQueue(s, u, p, r)
    PROVE  /\ u \in SyncLayer
           /\ u.input_queues[p] = r
           /\ \A i \in Players \ {p} : u.input_queues[i] = s.input_queues[i]
           /\ u.current_frame = s.current_frame
           /\ u.last_confirmed_frame = s.last_confirmed_frame
<1>1. PICK queues : queues = [s.input_queues EXCEPT ![p] = r]
  OBVIOUS
<1>2. s.input_queues \in [Players -> Queue]
  BY DEF SyncLayer
<1>3. queues \in [Players -> Queue] /\ queues[p] = r /\ \A i \in Players \ {p} : queues[i] = s.input_queues[i]
  BY <1>1, <1>2
<1>4. u = [s EXCEPT !.input_queues = queues]
  BY <1>1 DEF WithQueue
<1>5. u \in SyncLayer /\ u.input_queues = queues /\ u.current_frame = s.current_frame
      /\ u.last_confirmed_frame = s.last_confirmed_frame
  BY <1>3, <1>4 DEF SyncLayer
<1> QED BY <1>3, <1>5

\* A queue that takes a remote input for frame.
Takes(q, frame) ==
    /\ ~q.frozen
    /\ q.frame_delay = 0
    /\ q.last_added_frame = NULL_FRAME => frame <= max_frame_delay

\* A remote input is stored for its frame, or refused and leaves the queue alone.
Received(s, p, t, frame, v, res) ==
    \E r \in Queue :
        /\ WithQueue(s, res.sl, p, r)
        /\ IF res.ok THEN Given(s.input_queues[p], r, t, frame, v) ELSE r = s.input_queues[p]

LEMMA RemoteAdd ==
    ASSUME NEW s, s \in SyncLayer, NEW p \in Players, NEW t, Holds(s.input_queues[p], t),
           NEW frame \in Nat, Takes(s.input_queues[p], frame), NEW v \in Input, MaxPrediction \in Nat
    PROVE  Received(s, p, t, frame, v, SyncLayer_add_remote_input(s, p, frame, v))
<1>1. PICK q : q = s.input_queues[p]
  OBVIOUS
<1>2. /\ Holds(q, t) /\ ~q.frozen /\ q.frame_delay = 0
      /\ q.last_added_frame = NULL_FRAME => frame <= max_frame_delay
  BY <1>1 DEF Takes
<1>3. s.current_frame \in Nat /\ s.max_prediction = MaxPrediction /\ s.input_queues \in [Players -> Queue]
  BY DEF SyncLayer
<1>4. PICK floor \in Int : floor = rollback_window_floor(s)
  BY <1>3 DEF rollback_window_floor, MaxFrameOf
<1>5. PICK add : add = add_input(q, frame, v, floor)
  OBVIOUS
<1>6. PICK res : res = SyncLayer_add_remote_input(s, p, frame, v)
  OBVIOUS
<1>7. WithQueue(s, res.sl, p, add.q) /\ res.ok = (add.frame = frame)
  BY <1>1, <1>4, <1>5, <1>6 DEF SyncLayer_add_remote_input, WithQueue
<1>8. QueueInv(q) /\ q \in Queue
  BY <1>2 DEF Holds, QueueInv
<1>9. \/ add.q = q /\ (q.frozen \/ add.frame = NULL_FRAME)
      \/ \E fill : StoredAfter(q, add, fill, frame, v, floor)
  <2>1. q.last_added_frame = NULL_FRAME => frame + q.frame_delay <= max_frame_delay
    BY <1>2
  <2> QED BY <1>5, <1>8, <2>1, AddInputAt
<1>10. CASE add.q = q /\ (q.frozen \/ add.frame = NULL_FRAME)
  <2>1. add.frame = NULL_FRAME /\ frame # NULL_FRAME
    BY <1>2, <1>10 DEF NULL_FRAME
  <2>2. ~res.ok
    BY <1>7, <2>1, Zenon
  <2> QED BY <1>1, <1>6, <1>7, <1>8, <1>10, <2>2 DEF Received
<1>11. CASE \E fill : StoredAfter(q, add, fill, frame, v, floor)
  <2>1. PICK fill : StoredAfter(q, add, fill, frame, v, floor)
    BY <1>11
  <2>2. /\ add.frame \in Nat /\ Len(t) <= add.frame
        /\ Holds(add.q, Submit(t, add.frame, v))
        /\ add.q.frozen = q.frozen /\ add.q.frame_delay = q.frame_delay
        /\ add.q.last_added_frame = add.frame
    BY <1>2, <1>5, <2>1, HoldsStored
  <2>3. add.frame = frame
    <3>1. add.frame = frame + q.frame_delay
      BY <2>1 DEF StoredAfter
    <3> QED BY <1>2, <3>1
  <2>4. Given(q, add.q, t, frame, v) /\ add.q \in Queue
    BY <2>2, <2>3 DEF Given, Holds, QueueInv
  <2>5. res.ok
    BY <1>7, <2>3
  <2> QED BY <1>1, <1>6, <1>7, <2>4, <2>5 DEF Received
<1> QED BY <1>9, <1>10, <1>11

LEMMA SameSequence ==
    ASSUME NEW S, NEW t \in Seq(S), NEW u \in Seq(S), Len(t) = Len(u),
           \A i \in 1 .. Len(t) : t[i] = u[i]
    PROVE  t = u
  OBVIOUS

\* The inputs t up to frame new, the last one repeated.
Prolonged(t, new) == [f \in 1 .. new + 1 |-> IF f <= Len(t) THEN t[f] ELSE t[Len(t)]]

WithDelay(q, r, delay) == r = [q EXCEPT !.frame_delay = delay]

LEMMA DelayHolds ==
    ASSUME NEW q, NEW t, Holds(q, t), NEW delay \in 0 .. max_frame_delay, NEW r, WithDelay(q, r, delay)
    PROVE  /\ Holds(r, t) /\ r.last_added_frame = q.last_added_frame /\ r.frame_delay = delay
           /\ r.frozen = q.frozen
<1>1. QueueInv(q) /\ q \in Queue
  BY DEF Holds, QueueInv
<1>2. SameEntries(q, r) /\ r.frozen = q.frozen /\ r.frame_delay = delay
  BY <1>1, DelayKeeps DEF WithDelay
<1>3. QueueInv(r)
  <2>1. r \in Queue /\ SameRing(q, r) /\ r.prediction = q.prediction
    BY <1>1 DEF Queue, SameRing, WithDelay
  <2> QED BY <1>1, <2>1, SameRingInv
<1>4. Holds(r, t)
  BY <1>2, <1>3, HoldsEntries
<1> QED BY <1>2, <1>4 DEF SameEntries

\* A longer delay repeats the last input over the gap, or leaves the queue as it is.
LEMMA DelayStep ==
    ASSUME NEW q, NEW t, Holds(q, t), NEW n \in Nat, Awaits(q, n), MaxPrediction \in Nat,
           NEW delay \in Nat, MaxPrediction + delay <= QueueLength - 1, NEW floor \in Int
    PROVE  LET res == set_frame_delay(q, delay, floor)
               r == res.q
               gap == q.last_added_frame # NULL_FRAME /\ delay > q.frame_delay
           IN  /\ Awaits(r, n)
               /\ IF gap /\ res.res = "Ok"
                  THEN /\ Holds(r, Prolonged(t, r.last_added_frame))
                       /\ r.last_added_frame \in Nat
                       /\ q.last_added_frame <= r.last_added_frame
                       /\ Len(t) > 0
                  ELSE Holds(r, t) /\ r.last_added_frame = q.last_added_frame
<1>1. /\ QueueInv(q) /\ q \in Queue /\ q.last_added_frame \in Int /\ q.frame_delay \in Nat
      /\ t \in Seq(Input) /\ Len(t) = q.last_added_frame + 1 /\ ~q.frozen /\ Newest(q) \in Input
      /\ Content(q, ByFrame(t)) /\ q.last_added_frame >= -1
  BY PreviousSlot DEF Holds, QueueInv, Awaits, Newest
<1>2. ~(delay > max_frame_delay) /\ delay \in 0 .. max_frame_delay
  BY QueueLengthAssumption DEF max_frame_delay
<1>3. PICK res : res = set_frame_delay(q, delay, floor)
  OBVIOUS
<1>5. CASE delay = q.frame_delay \/ q.last_added_frame = NULL_FRAME
  <2>1. PICK r : r = [q EXCEPT !.frame_delay = delay]
    OBVIOUS
  <2>2. res.q = r
    BY <1>1, <1>2, <1>3, <1>5, <2>1 DEF set_frame_delay
  <2>3. Holds(r, t) /\ r.last_added_frame = q.last_added_frame /\ r.frame_delay = delay /\ ~r.frozen
    BY <1>1, <1>2, <2>1, DelayHolds DEF WithDelay
  <2>4. Awaits(r, n)
    BY <1>5, <2>3 DEF Awaits
  <2>5. ~(q.last_added_frame # NULL_FRAME /\ delay > q.frame_delay)
    BY <1>1, <1>5
  <2> QED BY <1>3, <2>2, <2>3, <2>4, <2>5
<1>6. CASE delay < q.frame_delay /\ q.last_added_frame # NULL_FRAME
  <2>1. res.q = q
    BY <1>1, <1>2, <1>3, <1>6 DEF set_frame_delay
  <2>2. ~(delay > q.frame_delay)
    BY <1>1, <1>6
  <2> QED BY <1>3, <2>1, <2>2
<1>7. CASE delay > q.frame_delay /\ q.last_added_frame # NULL_FRAME
  <2>1. PICK count \in Nat : count = delay - q.frame_delay
    BY <1>1, <1>7
  <2>2. PICK run : run = Replicate(Newest(q), count)
    OBVIOUS
  <2>3. run \in Seq(Input) /\ Len(run) = count /\ \A i \in 1 .. count : run[i] = Newest(q)
    <3>1. PICK w \in Input : w = Newest(q)
      BY <1>1
    <3>2. run \in Seq(Input) /\ Len(run) = count
      BY <2>2, <3>1, ReplicateType
    <3>3. \A i \in 1 .. count : run[i] = w
      BY <2>2, <3>1 DEF Replicate
    <3> QED BY <3>1, <3>2, <3>3
  <2>4. PICK filled : filled = AddRun(q, q.last_added_frame + 1, run, floor)
    OBVIOUS
  <2>5. res = FillOrRestore(q, filled, delay)
    <3>1. ~(delay = q.frame_delay) /\ ~(delay < q.frame_delay)
      BY <1>1, <1>7
    <3> QED BY <1>1, <1>2, <1>3, <1>7, <2>1, <2>2, <2>4, <3>1 DEF set_frame_delay, Newest
  <2>6. CASE ~filled.ok
    <3>1. res.q = q /\ res.res # "Ok"
      BY <2>5, <2>6 DEF FillOrRestore
    <3> QED BY <1>3, <3>1
  <2>7. CASE filled.ok
    <3>1. PICK r, fill, u : fill = filled.q /\ r = [fill EXCEPT !.frame_delay = delay] /\ u = t \o run
      OBVIOUS
    <3>2. res.q = r /\ res.res = "Ok"
      BY <2>5, <2>7, <3>1 DEF FillOrRestore
    <3>3. /\ Holds(fill, u) /\ fill.frozen = q.frozen /\ fill.frame_delay = q.frame_delay
          /\ fill.last_added_frame = q.last_added_frame + count
      BY <2>3, <2>4, <2>7, <3>1, HoldsRun
    <3>4. WithDelay(fill, r, delay)
      BY <3>1 DEF WithDelay
    <3>5. /\ Holds(r, u) /\ r.last_added_frame = fill.last_added_frame /\ r.frame_delay = delay
          /\ r.frozen = fill.frozen
      BY <1>2, <3>3, <3>4, DelayHolds
    <3>6. r.last_added_frame = q.last_added_frame + count
      BY <3>3, <3>5
    <3>7. Holds(r, u) /\ r.last_added_frame = q.last_added_frame + count
      BY <3>5, <3>6
    <3>8. Awaits(r, n)
      <4>1. n + q.frame_delay = q.last_added_frame + 1
        BY <1>7 DEF Awaits
      <4>2. n + delay = r.last_added_frame + 1 /\ r.last_added_frame # NULL_FRAME
        <5>1. PICK old \in Int, b \in Nat : old = q.last_added_frame /\ b = q.frame_delay
          BY <1>1
        <5>2. old >= -1 /\ old # -1 /\ n + b = old + 1 /\ count = delay - b
          BY <1>1, <1>7, <2>1, <4>1, <5>1 DEF NULL_FRAME
        <5>3. r.last_added_frame = old + count
          BY <3>6, <5>1
        <5> QED BY <5>2, <5>3 DEF NULL_FRAME
      <4> QED BY <1>1, <3>3, <3>5, <4>2 DEF Awaits
    <3>9. PICK L \in Nat : L = Len(t) /\ L = q.last_added_frame + 1 /\ L > 0
      BY <1>1, <1>7 DEF NULL_FRAME
    <3>10. Newest(q) = t[L]
      <4>1. PICK W : W = ByFrame(t)
        OBVIOUS
      <4>2. Newest(q) = W[q.last_added_frame]
        BY <1>1, <1>7, <4>1, NewestContent
      <4>3. PICK f \in Nat : f = q.last_added_frame /\ f + 1 = L
        BY <1>1, <3>9
      <4>4. W[f] = t[f + 1]
        BY <4>1 DEF ByFrame
      <4> QED BY <4>2, <4>3, <4>4
    <3>11. IsJoin(u, t, run, Input)
      BY <1>1, <2>3, <3>1, Joined
    <3>12. PICK v : v = Prolonged(t, r.last_added_frame)
      OBVIOUS
    <3>13. v = [f \in 1 .. L + count |-> IF f <= L THEN t[f] ELSE t[L]]
      <4>1. r.last_added_frame + 1 = L + count
        BY <3>7, <3>9, <1>1
      <4> QED BY <3>9, <3>12, <4>1 DEF Prolonged
    <3>14. ASSUME NEW i \in 1 .. L + count PROVE u[i] = v[i]
      <4>1. CASE i <= L
        BY <3>9, <3>11, <3>13, <4>1 DEF IsJoin
      <4>2. CASE i > L
        <5>1. PICK k \in 1 .. count : i = L + k
          BY <4>2
        <5>2. u[L + k] = run[k]
          BY <2>3, <3>9, <3>11 DEF IsJoin
        <5>3. v[i] = t[L]
          BY <3>13, <4>2
        <5> QED BY <2>3, <3>10, <5>1, <5>2, <5>3
      <4> QED BY <4>1, <4>2
    <3>15. u \in Seq(Input) /\ Len(u) = L + count
      BY <2>3, <3>9, <3>11 DEF IsJoin
    <3>16. v \in Seq(Input) /\ Len(v) = L + count
      <4>1. \A i \in 1 .. L + count : v[i] \in Input
        BY <3>14, <3>15
      <4> QED BY <3>13, <4>1
    <3>17. u = v
      BY <3>14, <3>15, <3>16, SameSequence
    <3>18. r.last_added_frame \in Nat /\ q.last_added_frame <= r.last_added_frame
      BY <1>1, <3>6, <3>9
    <3> QED BY <1>3, <1>7, <3>2, <3>7, <3>8, <3>9, <3>12, <3>17, <3>18
  <2>8. filled.ok \in BOOLEAN
    <3>1. PICK from \in Int : from = q.last_added_frame + 1
      BY <1>1
    <3>2. RunInv(q, filled, Len(run))
      BY <1>1, <2>3, <2>4, <3>1, AddRunInv
    <3> QED BY <3>2 DEF RunInv
  <2> QED BY <2>6, <2>7
<1> QED BY <1>1, <1>5, <1>6, <1>7

\* A donor's inputs for the frames after the last one are all missing.
LEMMA AllMissing ==
    ASSUME NEW q, q.last_added_frame \in Int, NEW n \in Nat, NEW inputs, Len(inputs) = n,
           \A i \in 1 .. n : inputs[i].frame = q.last_added_frame + i
    PROVE  MissingFrom(q, inputs) = 1
<1> DEFINE last == q.last_added_frame
           P(i) == /\ i <= Len(inputs) => inputs[i].frame > last
                   /\ \A j \in 1 .. i - 1 : inputs[j].frame <= last
<1>1. P(1) /\ 1 \in 1 .. Len(inputs) + 1
  OBVIOUS
<1>2. ASSUME NEW i \in 1 .. Len(inputs) + 1, P(i) PROVE i = 1
  <2>1. SUFFICES ASSUME i # 1 PROVE FALSE
    OBVIOUS
  <2>2. n >= 1 /\ 1 \in 1 .. i - 1
    BY <2>1
  <2>3. inputs[1].frame <= last /\ inputs[1].frame = last + 1
    BY <1>2, <2>2
  <2> QED BY <2>3
<1>3. MissingFrom(q, inputs) = CHOOSE i \in 1 .. Len(inputs) + 1 : P(i)
  BY DEF MissingFrom
<1> HIDE DEF P
<1>4. MissingFrom(q, inputs) \in 1 .. Len(inputs) + 1 /\ P(MissingFrom(q, inputs))
  BY <1>1, <1>3
<1> QED BY <1>2, <1>4

\* What a backfill of the frames after the last one does.
FromNext(q, inputs, values) ==
    inputs = [i \in 1 .. Len(values) |-> [frame |-> q.last_added_frame + i, input |-> values[i]]]

LEMMA BackfillNext ==
    ASSUME NEW q, QueueInv(q), NEW values \in Seq(Input), NEW floor \in Int,
           NEW inputs, FromNext(q, inputs, values)
    PROVE  install_missing_backfill(q, inputs, floor) =
               IF BackfillValid(q, inputs, floor)
               THEN AddRun(q, q.last_added_frame + 1, values, floor) ELSE [ok |-> FALSE, q |-> q]
<1>1. PICK n \in Nat : n = Len(values)
  OBVIOUS
<1>2. q.last_added_frame \in Int
  BY PreviousSlot
<1>3. /\ Len(inputs) = n
      /\ \A i \in 1 .. n : inputs[i].frame = q.last_added_frame + i /\ inputs[i].input = values[i]
  BY <1>1 DEF FromNext
<1>4. MissingFrom(q, inputs) = 1
  BY <1>2, <1>3, AllMissing
<1>5. [i \in 1 .. Len(inputs) + 1 - MissingFrom(q, inputs) |->
          inputs[MissingFrom(q, inputs) + i - 1].input] = values
  <2>1. Len(inputs) + 1 - MissingFrom(q, inputs) = n
    BY <1>3, <1>4
  <2>2. \A i \in 1 .. n : MissingFrom(q, inputs) + i - 1 = i
    BY <1>4
  <2>3. [i \in 1 .. n |-> inputs[MissingFrom(q, inputs) + i - 1].input] = [i \in 1 .. n |-> values[i]]
    BY <1>3, <2>2
  <2>4. values = [i \in 1 .. n |-> values[i]]
    BY <1>1
  <2> QED BY <2>1, <2>3, <2>4
<1> QED BY <1>5 DEF install_missing_backfill

LEMMA HoldsBackfill ==
    ASSUME NEW q, NEW t, Holds(q, t), NEW values \in Seq(Input), NEW floor \in Int,
           NEW inputs, FromNext(q, inputs, values), install_missing_backfill(q, inputs, floor).ok
    PROVE  LET r == install_missing_backfill(q, inputs, floor).q
           IN  /\ Holds(r, t \o values)
               /\ r.frozen = q.frozen /\ r.frame_delay = q.frame_delay
               /\ r.last_added_frame = q.last_added_frame + Len(values)
               /\ r = q \/ ~q.frozen
<1>1. QueueInv(q)
  BY DEF Holds
<1>2. PICK res : res = AddRun(q, q.last_added_frame + 1, values, floor)
  OBVIOUS
<1>3. install_missing_backfill(q, inputs, floor) = res /\ BackfillValid(q, inputs, floor)
  BY <1>1, <1>2, BackfillNext
<1>4. /\ Holds(res.q, t \o values) /\ res.q.frozen = q.frozen /\ res.q.frame_delay = q.frame_delay
      /\ res.q.last_added_frame = q.last_added_frame + Len(values)
  BY <1>2, <1>3, HoldsRun
<1>5. res.q = q \/ ~q.frozen
  <2>1. SUFFICES ASSUME q.frozen PROVE res.q = q
    OBVIOUS
  <2>2. Len(inputs) = Len(values)
    BY DEF FromNext
  <2>3. Len(values) = 0
    BY <1>3, <2>1, <2>2 DEF BackfillValid
  <2> QED BY <1>1, <1>2, <2>3, EmptyRun
<1> QED BY <1>3, <1>4, <1>5

\* A queue without a retained interval was never given an input.
LEMMA NothingRetained ==
    ASSUME NEW q, NEW t, Holds(q, t), retained_input_range(q) = None
    PROVE  q.length = 0 /\ q.last_added_frame = NULL_FRAME /\ t = <<>>
<1>1. /\ QueueInv(q) /\ q.length \in Nat /\ q.last_added_frame \in Int /\ q.length <= q.last_added_frame + 1
  BY PreviousSlot DEF Holds, QueueInv, Queue, Aligned
<1>2. ASSUME q.length # 0 PROVE FALSE
  <2>1. q.length > 0
    BY <1>1, <1>2
  <2>2. PICK first \in Nat : first = q.inputs[q.tail].frame /\ first = q.last_added_frame + 1 - q.length
    BY <1>1, <2>1, OldestSlot
  <2>3. /\ first # NULL_FRAME /\ q.last_added_frame # NULL_FRAME
        /\ q.last_added_frame - first + 1 = q.length
    BY <1>1, <2>1, <2>2 DEF NULL_FRAME
  <2>4. PICK low \in Int : low = IF /\ q.reclaimed_floor_input # None
                                    /\ q.reclaimed_floor_input.frame + 1 = first
                                 THEN first - 1 ELSE first
    OBVIOUS
  <2>5. retained_input_range(q) = [first |-> low, last |-> q.last_added_frame]
    BY <1>2, <2>2, <2>3, <2>4 DEF retained_input_range
  <2>6. [first |-> low, last |-> q.last_added_frame] # None
    BY <1>1, NoneAssumption
  <2> QED BY <2>5, <2>6
<1>3. q.length = 0 /\ q.last_added_frame = NULL_FRAME
  BY <1>2 DEF Holds
<1>4. t \in Seq(Input) /\ Len(t) = 0
  BY <1>3 DEF Holds, NULL_FRAME
<1> QED BY <1>3, <1>4

\* The default for frame 0 that such a queue is given.
LEMMA HoldsBlank ==
    ASSUME NEW q, NEW t, Holds(q, t), ~q.frozen, retained_input_range(q) = None, NEW floor \in Nat
    PROVE  LET r == install_missing_backfill(q, <<blank_input(0)>>, floor).q
           IN  /\ Holds(r, <<DefaultInput>>)
               /\ r.frozen = q.frozen /\ r.frame_delay = q.frame_delay
               /\ r.last_added_frame = 0
<1>1. QueueInv(q) /\ q.length = 0 /\ q.last_added_frame = NULL_FRAME /\ t = <<>> /\ t \in Seq(Input)
  BY NothingRetained DEF Holds
<1>2. PICK values, inputs : values = <<DefaultInput>> /\ inputs = <<blank_input(0)>>
  OBVIOUS
<1>3. values \in Seq(Input) /\ Len(values) = 1 /\ values[1] = DefaultInput
  BY <1>2, InputAssumption
<1>4. Len(inputs) = 1 /\ inputs[1] = [frame |-> 0, input |-> DefaultInput]
  BY <1>2 DEF blank_input
<1>5. FromNext(q, inputs, values)
  <2>1. q.last_added_frame + 1 = 0
    BY <1>1 DEF NULL_FRAME
  <2>2. inputs = [i \in 1 .. 1 |-> [frame |-> 0, input |-> DefaultInput]]
    BY <1>2 DEF blank_input
  <2>3. \A i \in 1 .. 1 : [frame |-> q.last_added_frame + i, input |-> values[i]]
                            = [frame |-> 0, input |-> DefaultInput]
    BY <1>3, <2>1
  <2>4. [i \in 1 .. 1 |-> [frame |-> q.last_added_frame + i, input |-> values[i]]]
          = [i \in 1 .. 1 |-> [frame |-> 0, input |-> DefaultInput]]
    BY <2>3
  <2> QED BY <1>3, <2>2, <2>4 DEF FromNext
<1>6. MissingFrom(q, inputs) = 1
  <2>1. PICK n \in Nat : n = 1
    OBVIOUS
  <2>2. \A i \in 1 .. n : inputs[i].frame = q.last_added_frame + i
    BY <1>1, <1>4, <2>1 DEF NULL_FRAME
  <2>3. q.last_added_frame \in Int /\ Len(inputs) = n
    BY <1>1, <1>4, <2>1 DEF NULL_FRAME
  <2> QED BY <2>2, <2>3, AllMissing
<1>7. BackfillValid(q, inputs, floor)
  BY <1>1, <1>4, <1>6, QueueLengthAssumption DEF BackfillValid, NULL_FRAME
<1>8. PICK res : res = AddRun(q, q.last_added_frame + 1, values, floor)
  OBVIOUS
<1>9. install_missing_backfill(q, inputs, floor) = res
  BY <1>1, <1>3, <1>5, <1>7, <1>8, BackfillNext
<1>10. res.ok = TRUE
  <2>1. q.length + Len(values) <= QueueLength
    BY <1>1, <1>3, QueueLengthAssumption
  <2>2. floor \in Int
    OBVIOUS
  <2>3. RunAdvanced(q, res, Len(values))
    BY <1>1, <1>3, <1>8, <2>1, <2>2, RunSucceeds
  <2> QED BY <2>3 DEF RunAdvanced
<1>11. /\ Holds(res.q, t \o values) /\ res.q.frozen = q.frozen /\ res.q.frame_delay = q.frame_delay
       /\ res.q.last_added_frame = q.last_added_frame + Len(values)
  <2>1. floor \in Int /\ values \in Seq(Input) /\ res.ok
    BY <1>3, <1>10
  <2> QED BY <1>8, <2>1, HoldsRun
<1>12. t \o values = values
  BY <1>1, <1>3
<1>13. res.q.last_added_frame = 0
  BY <1>1, <1>3, <1>11 DEF NULL_FRAME
<1> QED BY <1>2, <1>9, <1>11, <1>12, <1>13

\* The queue of a dropped player repeats the input at the cut.
LEMMA CutStep ==
    ASSUME NEW q, NEW t, Holds(q, t), NEW cut \in Int, CutValid(q, cut)
    PROVE  LET r == set_frozen_value_at(freeze_at_prevalidated_cut(q, cut), cut)
           IN  /\ Holds(r, t) /\ r.frozen
               /\ cut \in Nat /\ cut < Len(t)
               /\ r.last_confirmed_input = t[cut + 1]
               /\ r.frame_delay = q.frame_delay /\ r.last_added_frame = q.last_added_frame
<1>1. QueueInv(q) /\ q \in Queue /\ q.last_added_frame \in Int /\ Len(t) = q.last_added_frame + 1
      /\ Content(q, ByFrame(t))
  BY PreviousSlot DEF Holds, QueueInv
<1>2. cut \in Nat /\ retained_confirmed_input(q, cut) # None
  BY DEF CutValid
<1>3. PICK value : value = confirmed_input(q, cut)
  OBVIOUS
<1>4. retained_confirmed_input(q, cut) = value /\ value # None
  BY <1>2, <1>3 DEF retained_confirmed_input
<1>5. cut <= q.last_added_frame
  BY <1>1, <1>2, HeldIsKept DEF Kept
<1>6. value = t[cut + 1] /\ value \in Input
  <2>1. PICK W : W = ByFrame(t)
    OBVIOUS
  <2>2. value = W[cut] /\ value \in Input
    BY <1>1, <1>2, <1>3, <1>4, <2>1, ConfirmedIsStored
  <2>3. W[cut] = t[cut + 1]
    BY <1>2, <2>1 DEF ByFrame
  <2> QED BY <2>2, <2>3
<1>7. PICK r : r = [q EXCEPT !.last_confirmed_input = value, !.frozen = TRUE]
  OBVIOUS
<1>8. freeze_at_prevalidated_cut(q, cut) = r
  BY <1>2, <1>4, <1>7 DEF freeze_at_prevalidated_cut
<1>9. /\ r \in Queue /\ SameRing(q, r) /\ r.prediction = q.prediction /\ SameEntries(q, r)
      /\ r.frozen = TRUE /\ r.last_confirmed_input = value /\ r.frame_delay = q.frame_delay
      /\ r.inputs = q.inputs /\ r.reclaimed_floor_input = q.reclaimed_floor_input
  BY <1>1, <1>6, <1>7 DEF Queue, SameRing, SameEntries
<1>10. QueueInv(r)
  BY <1>1, <1>9, SameRingInv
<1>11. Holds(r, t)
  BY <1>9, <1>10, HoldsEntries
<1>12. confirmed_input(r, cut) = value
  BY <1>3, <1>9 DEF confirmed_input
<1>13. [r EXCEPT !.last_confirmed_input = value] = r
  BY <1>9 DEF Queue
<1>14. set_frozen_value_at(r, cut) = r
  BY <1>9, <1>12, <1>13 DEF set_frozen_value_at, roll_confirmed_input_to
<1>15. cut < Len(t)
  BY <1>1, <1>5
<1> QED BY <1>2, <1>6, <1>8, <1>9, <1>11, <1>14, <1>15 DEF SameEntries

=============================================================================
