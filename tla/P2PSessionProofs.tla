-------------------------- MODULE P2PSessionProofs --------------------------
(***************************************************************************)
(* What a P2P session guarantees, for every number of players, prediction  *)
(* window, ring size, delay and mode.                                      *)
(***************************************************************************)
EXTENDS P2PSessionOpsProofs

-----------------------------------------------------------------------------
(* The inductive invariant.                                                *)

\* The statuses never run ahead of the remote queues, which are fed without a delay
\* and frozen by a committed drop only.
RemotesBehind ==
    \A p \in Remotes :
        /\ sl.input_queues[p].frame_delay = 0
        /\ local_connect_status[p].last_frame <= sl.input_queues[p].last_added_frame
        /\ sl.input_queues[p].frozen => committed[p] # NULL_FRAME

\* A dropped player's slot ends at the cut and repeats the input it really gave
\* there; a player lost otherwise has halted the session below its last input.
LossKnown(p) ==
    IF committed[p] # NULL_FRAME
    THEN /\ p \in Remotes
         /\ local_connect_status[p] = [disconnected |-> TRUE, last_frame |-> committed[p]]
         /\ sl.input_queues[p].frozen
         /\ committed[p] < Len(truth[p])
         /\ sl.input_queues[p].last_confirmed_input = truth[p][committed[p] + 1]
    ELSE local_connect_status[p].disconnected
           => /\ state = "Synchronizing"
              /\ halt_confirmed_ceiling # None
              /\ halt_confirmed_ceiling < Len(truth[p])

\* A drop holds confirmation where it was exposed, its inventory is not below that,
\* and nothing was broadcast that was not exposed.
ExposureHeld ==
    /\ drop # None => exposed <= drop.held_at /\ drop.held_at <= drop.high
    /\ Len(broadcast) <= exposed + 1

SessionInv ==
    /\ TypeOK
    /\ QueuesHold
    /\ \E n \in Nat : LocalsAt(n)
    /\ RemotesBehind
    /\ \A p \in Players : LossKnown(p)
    /\ ExposureHeld
    /\ ExposedFramesAreKnown
    /\ SpectatorsSeeFinalInputs
    /\ StoredIsSent

-----------------------------------------------------------------------------
(* Consequences of the invariant.                                          *)

\* Who may be lost is remote, and what a player submits are inputs.
LEMMA PlayersOfMode ==
    ASSUME TypeOK
    PROVE  /\ Removable \subseteq Remotes /\ Removable \subseteq Players
           /\ Disconnectable \subseteq Remotes /\ Disconnectable \subseteq Players
           /\ Payload \in [Players -> SUBSET Input]
  BY LossAssumption, PayloadAssumption
     DEF TypeOK, Remotes, Removable, Disconnectable, Payload

\* The window of the mode.
LEMMA PredictionType ==
    ASSUME TypeOK
    PROVE  MaxPrediction \in Nat /\ RemoteDelay \in 0 .. max_frame_delay
  BY ModeAssumption DEF TypeOK, MaxPrediction, RemoteDelay

\* How many inputs a player has given.
LEMMA TruthLength ==
    ASSUME SessionInv, NEW p \in Players
    PROVE  /\ truth[p] \in Seq(Input)
           /\ Len(truth[p]) = sl.input_queues[p].last_added_frame + 1
           /\ sl.input_queues[p].last_added_frame \in Int
           /\ Len(truth[p]) \in Nat
<1>1. Holds(sl.input_queues[p], truth[p])
  BY DEF SessionInv, QueuesHold
<1> QED BY <1>1, PreviousSlot DEF Holds

\* A connected player has given an input for every frame up to its status.
LEMMA StatusBelow ==
    ASSUME SessionInv, NEW p \in Players
    PROVE  /\ local_connect_status[p] \in Status
           /\ ~local_connect_status[p].disconnected => local_connect_status[p].last_frame < Len(truth[p])
           /\ p \in LocalPlayers => ~local_connect_status[p].disconnected
<1>1. local_connect_status[p] \in Status
  BY DEF SessionInv, TypeOK
<1>2. local_connect_status[p].last_frame \in Int
  BY <1>1 DEF Status, FrameOrNull, NULL_FRAME
<1>3. PICK n \in Nat : LocalsAt(n)
  BY DEF SessionInv
<1>4. CASE p \in LocalPlayers
  <2>1. /\ local_connect_status[p].last_frame = sl.input_queues[p].last_added_frame
        /\ ~local_connect_status[p].disconnected
    BY <1>3, <1>4 DEF LocalsAt
  <2> QED BY <1>1, <1>2, <2>1, TruthLength
<1>5. CASE p \notin LocalPlayers
  <2>1. local_connect_status[p].last_frame <= sl.input_queues[p].last_added_frame
    BY <1>5 DEF SessionInv, RemotesBehind, Remotes
  <2> QED BY <1>1, <1>2, <1>5, <2>1, TruthLength
<1> QED BY <1>4, <1>5

\* What the reports of the other endpoints amount to.
LEMMA ReportsType ==
    ASSUME TypeOK, NEW p \in Remotes
    PROVE  Reports(p) \subseteq Status /\ {r.last_frame : r \in Reports(p)} \subseteq FrameOrNull
<1>1. Reports(p) \subseteq Status
  BY DEF TypeOK, Reports, Remotes
<1> QED BY <1>1 DEF Status

LEMMA SlotBound ==
    ASSUME SessionInv, NEW p \in Remotes
    PROVE  /\ remote_slot_confirmed_bound(p) \subseteq FrameOrNull
           /\ ~local_connect_status[p].disconnected
                => \E f \in remote_slot_confirmed_bound(p) : f <= local_connect_status[p].last_frame
<1> DEFINE frames == {r.last_frame : r \in Reports(p)}
<1>1. p \in Players /\ TypeOK
  BY DEF Remotes, SessionInv
<1>2. PICK last \in FrameOrNull : last = local_connect_status[p].last_frame
  BY <1>1, StatusBelow DEF Status
<1>3. frames \subseteq FrameOrNull
  BY <1>1, ReportsType
<1>4. PICK S : S = frames \cup {last}
  OBVIOUS
<1>5. MinOf(S) \in FrameOrNull /\ MinOf(S) <= last
  BY <1>3, <1>4, MinOfFrames
<1>6. (\E r \in Reports(p) : ~r.disconnected) => MinOf(frames) \in FrameOrNull
  <2>1. SUFFICES ASSUME frames # {} PROVE MinOf(frames) \in FrameOrNull
    OBVIOUS
  <2> HIDE DEF frames
  <2> QED BY <1>3, <2>1, MinOfFrames
<1>7. remote_slot_confirmed_bound(p) =
          IF ~local_connect_status[p].disconnected THEN {MinOf(S)}
          ELSE IF \E r \in Reports(p) : ~r.disconnected THEN {MinOf(frames)} ELSE {}
  BY <1>2, <1>4 DEF remote_slot_confirmed_bound
<1> HIDE DEF frames
<1> QED BY <1>2, <1>5, <1>6, <1>7

\* The confirmed frame: every player that is not dropped has given its input for it,
\* and neither an active drop nor a halted session lets it rise.
LEMMA ConfirmedBounds ==
    ASSUME SessionInv
    PROVE  /\ confirmed_frame \in FrameOrNull
           /\ \A p \in Players : committed[p] = NULL_FRAME => confirmed_frame < Len(truth[p])
           /\ drop # None => confirmed_frame <= drop.held_at
           /\ halt_confirmed_ceiling # None => confirmed_frame <= halt_confirmed_ceiling
<1> DEFINE bounds == {local_connect_status[p].last_frame : p \in LocalPlayers}
                         \cup UNION {remote_slot_confirmed_bound(p) : p \in Remotes}
           all == HeldBack \cup {IF bounds = {} THEN 0 ELSE MinOf(bounds)}
<1>1. bounds \subseteq FrameOrNull
  <2>1. ASSUME NEW p \in LocalPlayers PROVE local_connect_status[p].last_frame \in FrameOrNull
    BY StatusBelow, LocalPlayersAssumption DEF Status
  <2> QED BY <2>1, SlotBound
<1>2. bounds # {}
  BY LocalPlayersAssumption
<1>3. \A p \in LocalPlayers : local_connect_status[p].last_frame \in bounds
  OBVIOUS
<1>4. \A p \in Remotes : remote_slot_confirmed_bound(p) \subseteq bounds
  OBVIOUS
<1>5. PICK m : m = MinOf(bounds)
  OBVIOUS
<1>6. confirmed_frame = MinOf(all)
  BY DEF confirmed_frame
<1> HIDE DEF bounds
<1>7. m \in FrameOrNull /\ \A y \in bounds : m <= y
  BY <1>1, <1>2, <1>5, MinOfFrames
<1>8. all = HeldBack \cup {m}
  BY <1>2, <1>5
<1>9. HeldBack \subseteq FrameOrNull
  BY DEF SessionInv, TypeOK, HeldBack, FrameOrNull
<1>10. PICK c : c = confirmed_frame
  OBVIOUS
<1> HIDE DEF all
<1>11. c \in FrameOrNull /\ \A y \in all : c <= y
  BY <1>6, <1>7, <1>8, <1>9, <1>10, MinOfFrames
<1>12. c <= m
  BY <1>8, <1>11
<1>13. drop # None => c <= drop.held_at
  BY <1>8, <1>11 DEF HeldBack
<1>14. halt_confirmed_ceiling # None => c <= halt_confirmed_ceiling
  BY <1>8, <1>11 DEF HeldBack
<1>15. c \in Int /\ m \in Int
  BY <1>7, <1>11 DEF FrameOrNull, NULL_FRAME
<1>16. ASSUME NEW p \in Players, committed[p] = NULL_FRAME PROVE c < Len(truth[p])
  <2>1. Len(truth[p]) \in Nat
    BY TruthLength
  <2>2. PICK last \in Int : last = local_connect_status[p].last_frame
    BY StatusBelow DEF Status, FrameOrNull, NULL_FRAME
  <2>3. CASE local_connect_status[p].disconnected
    <3>1. halt_confirmed_ceiling # None /\ halt_confirmed_ceiling < Len(truth[p])
      BY <1>16, <2>3 DEF SessionInv, LossKnown
    <3>2. PICK ceiling \in Int : ceiling = halt_confirmed_ceiling
      BY <3>1 DEF SessionInv, TypeOK, FrameOrNull, NULL_FRAME
    <3> QED BY <1>14, <1>15, <2>1, <3>1, <3>2
  <2>4. CASE ~local_connect_status[p].disconnected
    <3>1. last < Len(truth[p])
      BY <2>2, <2>4, StatusBelow
    <3>2. \E f \in bounds : f <= last
      <4>1. CASE p \in LocalPlayers
        BY <1>3, <2>2, <4>1
      <4>2. CASE p \notin LocalPlayers
        <5>1. p \in Remotes
          BY <4>2 DEF Remotes
        <5> QED BY <1>4, <2>2, <2>4, <5>1, SlotBound
      <4> QED BY <4>1, <4>2
    <3>3. PICK f \in bounds : f <= last
      BY <3>2
    <3>4. f \in Int /\ m <= f
      BY <1>1, <1>7 DEF FrameOrNull, NULL_FRAME
    <3> QED BY <1>12, <1>15, <2>1, <3>1, <3>3, <3>4
  <2> QED BY <2>3, <2>4
<1> QED BY <1>10, <1>11, <1>13, <1>14, <1>16

-----------------------------------------------------------------------------
(* What a step may do to what is exposed and sent.                         *)

\* Inputs that were given stay as they are.
Extends(t, u) ==
    /\ u \in Seq(Input)
    /\ Len(t) <= Len(u)
    /\ \A i \in 1 .. Len(t) : u[i] = t[i]

LEMMA ExtendsRefl == ASSUME NEW t \in Seq(Input) PROVE Extends(t, t)
  BY DEF Extends

\* A step only adds inputs, and commits a drop nowhere below what was exposed.
Grows ==
    \A p \in Players :
        /\ Extends(truth[p], truth'[p])
        /\ \/ committed'[p] = committed[p]
           \/ committed[p] = NULL_FRAME /\ committed'[p] \in Nat /\ committed'[p] >= exposed

LEMMA Unmoved ==
    ASSUME SessionInv, UNCHANGED <<truth, committed>>
    PROVE  Grows
  BY ExtendsRefl, TruthLength DEF Grows

\* The final input of an exposed frame stays what it is.
LEMMA FinalStays ==
    ASSUME SessionInv, Grows, NEW p \in Players, NEW f \in Nat, f <= exposed
    PROVE  FinalInput(p, f)' = FinalInput(p, f)
<1>1. PICK t, u, c, d : t = truth[p] /\ u = truth'[p] /\ c = committed[p] /\ d = committed'[p]
  OBVIOUS
<1>2. /\ Extends(t, u) /\ t \in Seq(Input) /\ Len(t) \in Nat
      /\ d = c \/ (c = NULL_FRAME /\ d \in Nat /\ d >= exposed)
  BY <1>1, TruthLength DEF Grows
<1>3. exposed \in Int /\ c \in Int
  BY <1>1 DEF SessionInv, TypeOK, FrameOrNull, NULL_FRAME
<1>4. FinalInput(p, f) = IF c # NULL_FRAME /\ f > c THEN t[c + 1] ELSE t[f + 1]
  BY <1>1 DEF FinalInput
<1>5. FinalInput(p, f)' = IF d # NULL_FRAME /\ f > d THEN u[d + 1] ELSE u[f + 1]
  BY <1>1 DEF FinalInput
<1>6. CASE c = NULL_FRAME
  <2>1. exposed < Len(t)
    BY <1>1, <1>6 DEF SessionInv, ExposedFramesAreKnown
  <2>2. f + 1 \in 1 .. Len(t)
    BY <1>2, <1>3, <2>1
  <2>3. u[f + 1] = t[f + 1]
    BY <1>2, <2>2 DEF Extends
  <2>4. d = NULL_FRAME \/ ~(f > d)
    BY <1>2, <1>3, <1>6
  <2> QED BY <1>4, <1>5, <1>6, <2>3, <2>4
<1>7. CASE c # NULL_FRAME
  <2>1. d = c /\ c < Len(t) /\ c \in Nat
    BY <1>1, <1>2, <1>7 DEF SessionInv, LossKnown, TypeOK, FrameOrNull
  <2>2. \A k \in Nat : k <= c => u[k + 1] = t[k + 1]
    <3>1. \A k \in Nat : k <= c => k + 1 \in 1 .. Len(t)
      BY <1>2, <2>1
    <3> QED BY <1>2, <3>1 DEF Extends
  <2>3. CASE f > c
    BY <1>4, <1>5, <1>7, <2>1, <2>2, <2>3
  <2>4. CASE ~(f > c)
    BY <1>4, <1>5, <2>1, <2>2, <2>4
  <2> QED BY <2>3, <2>4
<1> QED BY <1>6, <1>7

\* What was sent to the spectators stays final.
LEMMA SpectatorsKept ==
    ASSUME SessionInv, Grows, broadcast' = broadcast
    PROVE  SpectatorsSeeFinalInputs'
<1>1. ASSUME NEW i \in DOMAIN broadcast PROVE broadcast[i] = FinalInputs(i - 1)'
  <2>1. i \in Nat /\ i >= 1 /\ i <= Len(broadcast) /\ Len(broadcast) \in Nat
    BY DEF SessionInv, TypeOK, GameState
  <2>2. PICK f \in Nat : f = i - 1
    BY <2>1
  <2>3. f <= exposed
    <3>1. Len(broadcast) <= exposed + 1 /\ exposed \in Int
      BY DEF SessionInv, ExposureHeld, TypeOK, FrameOrNull, NULL_FRAME
    <3> QED BY <2>1, <2>2, <3>1
  <2>4. \A p \in Players : FinalInput(p, f)' = FinalInput(p, f)
    BY <2>3, FinalStays
  <2>5. FinalInputs(f)' = FinalInputs(f)
    BY <2>4 DEF FinalInputs
  <2>6. broadcast[i] = FinalInputs(i - 1)
    BY DEF SessionInv, SpectatorsSeeFinalInputs
  <2> QED BY <2>2, <2>5, <2>6
<1> QED BY <1>1 DEF SpectatorsSeeFinalInputs

\* The high-water mark stays, or takes in the confirmed frame.
Exposes == exposed' \in {exposed, MaxFrameOf(exposed, confirmed_frame)}

LEMMA ExposedType ==
    ASSUME SessionInv, Exposes
    PROVE  /\ exposed' \in FrameOrNull /\ exposed' >= exposed /\ exposed \in FrameOrNull
           /\ exposed' = exposed \/ exposed' = confirmed_frame
           /\ exposed' \in Int /\ exposed \in Int
<1>1. exposed \in FrameOrNull /\ exposed \in Int
  BY DEF SessionInv, TypeOK, FrameOrNull, NULL_FRAME
<1>2. PICK c \in Int : c = confirmed_frame /\ c \in FrameOrNull
  <2>1. confirmed_frame \in FrameOrNull
    BY ConfirmedBounds
  <2> QED BY <2>1 DEF FrameOrNull, NULL_FRAME
<1> QED BY <1>1, <1>2 DEF Exposes, MaxFrameOf

LEMMA ExposedKept ==
    ASSUME SessionInv, Grows, Exposes
    PROVE  ExposedFramesAreKnown'
<1>1. ASSUME NEW p \in Players, committed'[p] = NULL_FRAME PROVE exposed' < Len(truth'[p])
  <2>1. committed[p] = NULL_FRAME
    BY <1>1 DEF Grows, NULL_FRAME
  <2>2. exposed < Len(truth[p]) /\ confirmed_frame < Len(truth[p])
    BY <2>1, ConfirmedBounds DEF SessionInv, ExposedFramesAreKnown
  <2>3. Len(truth[p]) <= Len(truth'[p]) /\ Len(truth[p]) \in Nat /\ Len(truth'[p]) \in Nat
    BY TruthLength DEF Grows, Extends
  <2>4. exposed' < Len(truth[p])
    BY <2>2, ExposedType
  <2> QED BY <2>3, <2>4, ExposedType
<1> QED BY <1>1 DEF ExposedFramesAreKnown

\* An active drop still holds it.
LEMMA HeldKept ==
    ASSUME SessionInv, Exposes, drop' = drop \/ drop' = None, broadcast' = broadcast
    PROVE  ExposureHeld'
<1>1. /\ exposed \in Int /\ exposed' \in Int /\ exposed' >= exposed
      /\ exposed' = exposed \/ exposed' = confirmed_frame
  BY ExposedType
<1>2. Len(broadcast) <= exposed + 1 /\ Len(broadcast) \in Nat
  BY DEF SessionInv, ExposureHeld, TypeOK, GameState
<1>3. ASSUME drop # None
      PROVE  exposed' <= drop.held_at /\ drop.held_at <= drop.high
  BY <1>1, <1>3, ConfirmedBounds DEF SessionInv, ExposureHeld
<1>4. Len(broadcast) <= exposed' + 1
  BY <1>1, <1>2
<1>5. (drop # None)' => (exposed <= drop.held_at /\ drop.held_at <= drop.high)'
  BY <1>3
<1> QED BY <1>4, <1>5 DEF ExposureHeld

-----------------------------------------------------------------------------
(* A new session.                                                          *)

\* The queue of a new player, with its delay.
LEMMA NewPlayer ==
    ASSUME NEW prediction \in Nat, prediction + InputDelay <= QueueLength - 1
    PROVE  LET r == set_frame_delay(NewQueue, InputDelay, NoFloor).q
           IN  /\ Holds(r, <<>>) /\ Holds(NewQueue, <<>>)
               /\ r.last_added_frame = NULL_FRAME /\ ~r.frozen /\ r.frame_delay = InputDelay
<1>1. Holds(NewQueue, <<>>)
  <2>1. Content(NewQueue, ByFrame(<<>>))
    BY NoneAssumption DEF Content, SlotHolds, NewQueue, blank_input
  <2> QED BY <2>1, NewQueueInv DEF Holds, NewQueue, NULL_FRAME
<1>2. InputDelay \in 0 .. max_frame_delay
  BY BoundsAssumption, QueueLengthAssumption DEF max_frame_delay
<1>3. PICK q : q = NewQueue
  OBVIOUS
<1>4. PICK r : r = [q EXCEPT !.frame_delay = InputDelay]
  OBVIOUS
<1>5. q.last_added_frame = NULL_FRAME /\ ~q.frozen
  BY <1>3 DEF NewQueue
<1>6. set_frame_delay(q, InputDelay, NoFloor).q = r
  <2>1. ~(InputDelay > max_frame_delay)
    BY BoundsAssumption, QueueLengthAssumption DEF max_frame_delay
  <2>2. set_frame_delay(q, InputDelay, NoFloor) = [res |-> "Ok", q |-> r]
    BY <1>4, <1>5, <2>1 DEF set_frame_delay
  <2> QED BY <2>2
<1>7. Holds(q, <<>>)
  BY <1>1, <1>3
<1>8. WithDelay(q, r, InputDelay)
  BY <1>4 DEF WithDelay
<1>9. Holds(r, <<>>) /\ r.last_added_frame = q.last_added_frame /\ r.frame_delay = InputDelay
      /\ r.frozen = q.frozen
  BY <1>2, <1>7, <1>8, DelayHolds
<1> QED BY <1>1, <1>3, <1>5, <1>6, <1>9

LEMMA InitInv == ASSUME Init PROVE SessionInv
<1>1. /\ mode \in Modes /\ mode.prediction \in Nat /\ mode.prediction = MaxPrediction
      /\ mode.prediction + InputDelay <= QueueLength - 1
  BY ModeAssumption DEF Init, MaxPrediction
<1> DEFINE new == set_frame_delay(NewQueue, InputDelay, NoFloor).q
           queues == [p \in Players |-> IF p \in LocalPlayers THEN new ELSE NewQueue]
           layer == NewSyncLayer(mode.prediction)
<1>2. sl = [layer EXCEPT !.input_queues = queues]
  BY DEF Init
<1>3. /\ Holds(new, <<>>) /\ Holds(NewQueue, <<>>)
      /\ new.last_added_frame = NULL_FRAME /\ ~new.frozen /\ new.frame_delay = InputDelay
  BY <1>1, NewPlayer
<1> HIDE DEF new
<1>4. queues \in [Players -> Queue]
  BY <1>3 DEF Holds, QueueInv
<1>5. NULL_FRAME \in FrameOrNull /\ <<>> \in GameState /\ <<>> \in Seq(Input)
  BY DEF FrameOrNull, GameState
<1>6. sl \in SyncLayer /\ sl.current_frame = 0 /\ sl.input_queues = queues
  BY <1>1, <1>2, <1>4, <1>5 DEF SyncLayer, NewSyncLayer, Cell
<1>7. TypeOK
  <2>1. local_connect_status \in [Players -> Status]
    BY <1>5 DEF Init, Status
  <2>2. peer_connect_status \in [Remotes -> [Players -> Status]]
    BY <2>1 DEF Init
  <2>3. local_inputs \in [LocalPlayers -> PlayerInput \cup {None}]
    BY DEF Init
  <2>4. DOMAIN local_checksum_history \subseteq Nat
    <3>1. DOMAIN local_checksum_history = 1 .. 0
      BY DEF Init
    <3> QED BY <3>1
  <2> QED BY <1>5, <1>6, <2>1, <2>2, <2>3, <2>4 DEF TypeOK, Init
<1>8. QueuesHold
  BY <1>3, <1>6 DEF QueuesHold, Init
<1>9. LocalsAt(0)
  <2>1. ASSUME NEW p \in LocalPlayers
        PROVE  /\ Awaits(sl.input_queues[p], 0)
               /\ ~local_connect_status[p].disconnected
               /\ local_connect_status[p].last_frame = sl.input_queues[p].last_added_frame
               /\ local_inputs[p] = None
    <3>1. p \in Players /\ sl.input_queues[p] = new
      BY <1>6, LocalPlayersAssumption
    <3>2. Awaits(new, 0)
      BY <1>1, <1>3 DEF Awaits
    <3> QED BY <1>3, <3>1, <3>2 DEF Init
  <2> QED BY <1>6, <2>1 DEF LocalsAt
<1>10. RemotesBehind
  <2>1. ASSUME NEW p \in Remotes
        PROVE  /\ sl.input_queues[p] = NewQueue
               /\ local_connect_status[p].last_frame = NULL_FRAME
    BY <1>6 DEF Init, Remotes
  <2> QED BY <2>1 DEF RemotesBehind, NewQueue, NULL_FRAME
<1>11. \A p \in Players : LossKnown(p)
  BY DEF LossKnown, Init
<1>12. ExposureHeld /\ ExposedFramesAreKnown /\ SpectatorsSeeFinalInputs
  BY DEF ExposureHeld, ExposedFramesAreKnown, SpectatorsSeeFinalInputs, Init, NULL_FRAME
<1>13. StoredIsSent
  BY LocalPlayersAssumption DEF StoredIsSent, Init
<1> QED BY <1>7, <1>8, <1>9, <1>10, <1>11, <1>12, <1>13 DEF SessionInv

-----------------------------------------------------------------------------
(* Steps that leave the queues alone.                                      *)

\* A halted session stays below the frame it halted at, and below an earlier one.
LEMMA HaltBounds ==
    ASSUME TypeOK, NEW ceiling \in FrameOrNull, Halt(ceiling)
    PROVE  /\ state' = "Synchronizing"
           /\ halt_confirmed_ceiling' \in FrameOrNull
           /\ halt_confirmed_ceiling' # None
           /\ halt_confirmed_ceiling' <= ceiling
           /\ halt_confirmed_ceiling # None => halt_confirmed_ceiling' <= halt_confirmed_ceiling
<1>1. state' = "Synchronizing"
  BY DEF Halt
<1>2. \A f \in FrameOrNull : f \in Int /\ f # None
  BY OptionAssumption DEF FrameOrNull, NULL_FRAME
<1>3. CASE halt_confirmed_ceiling = None
  <2>1. halt_confirmed_ceiling' = ceiling
    BY <1>3 DEF Halt
  <2> QED BY <1>1, <1>2, <1>3, <2>1
<1>4. CASE halt_confirmed_ceiling # None
  <2>1. PICK old \in FrameOrNull : old = halt_confirmed_ceiling
    BY <1>4 DEF TypeOK
  <2>2. halt_confirmed_ceiling' = MinFrame(old, ceiling)
    BY <1>4, <2>1 DEF Halt
  <2>3. old \in Int /\ ceiling \in Int
    BY <1>2
  <2>4. MinFrame(old, ceiling) \in {old, ceiling} /\ MinFrame(old, ceiling) <= old
        /\ MinFrame(old, ceiling) <= ceiling
    BY <2>3 DEF MinFrame
  <2> QED BY <1>1, <1>2, <2>1, <2>2, <2>4
<1> QED BY <1>3, <1>4

\* The session runs on as it was, or halts.
MayHalt ==
    \/ UNCHANGED <<state, halt_confirmed_ceiling>>
    \/ /\ state' = "Synchronizing"
       /\ halt_confirmed_ceiling' \in FrameOrNull
       /\ halt_confirmed_ceiling' # None
       /\ halt_confirmed_ceiling # None => halt_confirmed_ceiling' <= halt_confirmed_ceiling

\* The player is as connected, or as lost, as before.
SlotKept(p) ==
    /\ committed'[p] = committed[p]
    /\ local_connect_status'[p] = local_connect_status[p]
    /\ committed[p] # NULL_FRAME
         => /\ sl'.input_queues[p].frozen = sl.input_queues[p].frozen
            /\ sl'.input_queues[p].last_confirmed_input = sl.input_queues[p].last_confirmed_input
    /\ Extends(truth[p], truth'[p])

LEMMA LossKept ==
    ASSUME SessionInv, NEW p \in Players, SlotKept(p), MayHalt
    PROVE  LossKnown(p)'
<1>1. PICK t, u, c : t = truth[p] /\ u = truth'[p] /\ c = committed[p]
  OBVIOUS
<1>2. /\ u \in Seq(Input) /\ Len(t) <= Len(u) /\ Len(t) \in Nat /\ Len(u) \in Nat
      /\ \A i \in 1 .. Len(t) : u[i] = t[i]
  BY <1>1, TruthLength DEF SlotKept, Extends
<1>3. CASE c # NULL_FRAME
  <2>1. c \in Nat
    BY <1>1, <1>3 DEF SessionInv, TypeOK, FrameOrNull
  <2>2. /\ p \in Remotes
        /\ local_connect_status[p] = [disconnected |-> TRUE, last_frame |-> c]
        /\ sl.input_queues[p].frozen
        /\ c < Len(t)
        /\ sl.input_queues[p].last_confirmed_input = t[c + 1]
    BY <1>1, <1>3 DEF SessionInv, LossKnown
  <2>3. c < Len(u) /\ u[c + 1] = t[c + 1]
    BY <1>2, <2>1, <2>2
  <2> QED BY <1>1, <1>3, <2>2, <2>3 DEF LossKnown, SlotKept
<1>4. CASE c = NULL_FRAME
  <2>1. SUFFICES ASSUME local_connect_status[p].disconnected
                 PROVE  /\ state' = "Synchronizing"
                        /\ halt_confirmed_ceiling' # None
                        /\ halt_confirmed_ceiling' < Len(u)
    BY <1>1, <1>4 DEF LossKnown, SlotKept
  <2>2. /\ state = "Synchronizing"
        /\ halt_confirmed_ceiling # None
        /\ halt_confirmed_ceiling < Len(t)
    BY <1>1, <1>4, <2>1 DEF SessionInv, LossKnown
  <2>3. PICK old \in Int : old = halt_confirmed_ceiling
    BY <2>2 DEF SessionInv, TypeOK, FrameOrNull, NULL_FRAME
  <2>4. CASE UNCHANGED <<state, halt_confirmed_ceiling>>
    BY <1>2, <2>2, <2>3, <2>4
  <2>5. CASE ~UNCHANGED <<state, halt_confirmed_ceiling>>
    <3>1. /\ state' = "Synchronizing" /\ halt_confirmed_ceiling' # None
          /\ halt_confirmed_ceiling' \in FrameOrNull /\ halt_confirmed_ceiling' <= old
      BY <2>2, <2>3, <2>5 DEF MayHalt
    <3>2. PICK new \in Int : new = halt_confirmed_ceiling'
      BY <3>1 DEF FrameOrNull, NULL_FRAME
    <3> QED BY <1>2, <2>2, <2>3, <3>1, <3>2
  <2> QED BY <2>4, <2>5
<1> QED BY <1>3, <1>4

\* A player that stays connected is not lost.
LEMMA ConnectedKnown ==
    ASSUME SessionInv, NEW p \in Players, committed'[p] = committed[p],
           ~local_connect_status[p].disconnected, ~local_connect_status'[p].disconnected
    PROVE  LossKnown(p)' /\ committed[p] = NULL_FRAME
<1>1. committed[p] = NULL_FRAME
  <2>1. SUFFICES ASSUME committed[p] # NULL_FRAME PROVE local_connect_status[p].disconnected
    OBVIOUS
  <2>2. local_connect_status[p] = [disconnected |-> TRUE, last_frame |-> committed[p]]
    BY <2>1 DEF SessionInv, LossKnown
  <2>3. local_connect_status[p].disconnected = TRUE
    BY <2>2
  <2> QED BY <2>3
<1> QED BY <1>1 DEF LossKnown

\* What the queues hold is a matter of the queues, the inputs and the local statuses.
LEMMA QueuesKept ==
    ASSUME SessionInv, UNCHANGED <<mode, sl, truth, sent, local_inputs>>,
           \A p \in LocalPlayers : local_connect_status'[p] = local_connect_status[p]
    PROVE  QueuesHold' /\ (\E n \in Nat : LocalsAt(n))' /\ StoredIsSent'
<1>1. QueuesHold' /\ StoredIsSent'
  BY DEF SessionInv, QueuesHold, StoredIsSent
<1>2. PICK n \in Nat : LocalsAt(n)
  BY DEF SessionInv
<1>3. \A p \in LocalPlayers : Awaits(sl.input_queues[p], n)'
                                = Awaits(sl.input_queues[p], n)
  BY DEF Awaits, MaxPrediction
<1>4. LocalsAt(n)'
  BY <1>2, <1>3 DEF LocalsAt
<1> QED BY <1>1, <1>4

\* A step that changes nothing the invariant relates but what is exposed.
LEMMA QuietStep ==
    ASSUME SessionInv, Exposes,
           UNCHANGED <<mode, sl, truth, sent, local_inputs, local_connect_status, committed, broadcast>>,
           drop' = drop \/ drop' = None, MayHalt, TypeOK'
    PROVE  SessionInv'
<1>1. QueuesHold' /\ (\E n \in Nat : LocalsAt(n))' /\ StoredIsSent'
  BY QueuesKept
<1>2. RemotesBehind'
  BY DEF SessionInv, RemotesBehind
<1>3. \A p \in Players : LossKnown(p)'
  <2>1. ASSUME NEW p \in Players PROVE LossKnown(p)'
    <3>1. SlotKept(p)
      BY TruthLength, ExtendsRefl DEF SlotKept
    <3> QED BY <3>1, LossKept
  <2> QED BY <2>1
<1>4. Grows
  BY Unmoved
<1>5. ExposureHeld'
  BY HeldKept
<1>6. ExposedFramesAreKnown' /\ SpectatorsSeeFinalInputs'
  BY <1>4, ExposedKept, SpectatorsKept
<1> QED BY <1>1, <1>2, <1>3, <1>5, <1>6 DEF SessionInv

-----------------------------------------------------------------------------
(* The steps.                                                              *)

LEMMA AddLocalInputKeeps ==
    ASSUME SessionInv, NEW p \in LocalPlayers, NEW value \in Payload[p], AddLocalInput(p, value)
    PROVE  SessionInv'
<1>1. value \in Input
  BY PlayersOfMode, LocalPlayersAssumption DEF SessionInv
<1>2. sl.current_frame \in Nat
  BY DEF SessionInv, TypeOK, SyncLayer
<1>3. PICK new \in PlayerInput : /\ new = [frame |-> sl.current_frame, input |-> value]
                                 /\ new.frame = sl.current_frame
  <2>1. PICK frame \in FrameOrNull : frame = sl.current_frame
    BY <1>2 DEF FrameOrNull
  <2>2. [frame |-> frame, input |-> value] \in PlayerInput
    BY <1>1 DEF PlayerInput
  <2> QED BY <2>1, <2>2
<1>4. local_inputs' = [local_inputs EXCEPT ![p] = new]
  BY <1>3 DEF AddLocalInput
<1>5. UNCHANGED <<mode, checksum_vars, sl, game, local_connect_status, peer_connect_status, running, state,
                  disconnect_frame, halt_confirmed_ceiling, exposed, drop, committed,
                  broadcast, result, sent, truth>>
  BY DEF AddLocalInput
<1>6. local_inputs \in [LocalPlayers -> PlayerInput \cup {None}]
  BY DEF SessionInv, TypeOK
<1>7. TypeOK'
  <2>1. local_inputs' \in [LocalPlayers -> PlayerInput \cup {None}]
    BY <1>4, <1>6
  <2>2. SyncLayer' = SyncLayer
    BY <1>5 DEF SyncLayer, MaxPrediction
  <2> QED BY <1>5, <2>1, <2>2 DEF SessionInv, TypeOK, checksum_vars
<1>8. (\E n \in Nat : LocalsAt(n))'
  <2>1. PICK n \in Nat : LocalsAt(n)
    BY DEF SessionInv
  <2>2. \A i \in LocalPlayers : Awaits(sl.input_queues[i], n)' = Awaits(sl.input_queues[i], n)
    BY <1>5 DEF Awaits, MaxPrediction
  <2>3. ASSUME NEW i \in LocalPlayers, n = sl.current_frame, local_inputs'[i] # None
        PROVE  local_inputs'[i].frame = n
    <3>1. CASE i = p
      BY <1>3, <1>4, <1>6, <2>3, <3>1
    <3>2. CASE i # p
      BY <1>4, <1>6, <2>1, <2>3, <3>2 DEF LocalsAt
    <3> QED BY <3>1, <3>2
  <2>4. LocalsAt(n)'
    BY <1>5, <2>1, <2>2, <2>3 DEF LocalsAt
  <2> QED BY <2>4
<1>9. QueuesHold' /\ StoredIsSent' /\ RemotesBehind'
  BY <1>5 DEF SessionInv, QueuesHold, StoredIsSent, RemotesBehind
<1>10. \A i \in Players : LossKnown(i)'
  BY <1>5 DEF SessionInv, LossKnown
<1>11. ExposureHeld' /\ ExposedFramesAreKnown'
  BY <1>5 DEF SessionInv, ExposureHeld, ExposedFramesAreKnown
<1>12. SpectatorsSeeFinalInputs'
  BY <1>5 DEF SessionInv, SpectatorsSeeFinalInputs, FinalInputs, FinalInput
<1> QED BY <1>7, <1>8, <1>9, <1>10, <1>11, <1>12 DEF SessionInv

\* Reports of the other peers.
LEMMA PeerReportKeeps ==
    ASSUME SessionInv, peer_connect_status' \in [Remotes -> [Players -> Status]],
           UNCHANGED <<mode, checksum_vars, sl, game, local_inputs, local_connect_status, running, state,
                       disconnect_frame, halt_confirmed_ceiling, exposed, drop, committed, broadcast,
                       result, sent, truth>>
    PROVE  SessionInv'
<1>1. TypeOK'
  <2>1. SyncLayer' = SyncLayer
    BY DEF SyncLayer, MaxPrediction
  <2> QED BY <2>1 DEF SessionInv, TypeOK, checksum_vars
<1>2. Exposes /\ MayHalt
  BY DEF Exposes, MayHalt
<1> QED BY <1>1, <1>2, QuietStep

LEMMA GossipKeeps ==
    ASSUME SessionInv, NEW e \in Remotes, NEW p \in Remotes, NEW frame \in RemoteFrames,
           Gossip(e, p, frame)
    PROVE  SessionInv'
<1>1. frame \in FrameOrNull /\ p \in Players
  BY BoundsAssumption DEF RemoteFrames, FrameOrNull, Remotes
<1>2. peer_connect_status \in [Remotes -> [Players -> Status]]
  BY DEF SessionInv, TypeOK
<1>3. PICK old \in Status : old = peer_connect_status[e][p]
  BY <1>1, <1>2
<1>4. PICK new : new = [old EXCEPT !.last_frame = frame]
  OBVIOUS
<1>5. new \in Status
  BY <1>1, <1>3, <1>4 DEF Status
<1>6. peer_connect_status' = [peer_connect_status EXCEPT ![e][p] = new]
  BY <1>1, <1>2, <1>3, <1>4 DEF Gossip
<1>7. peer_connect_status' \in [Remotes -> [Players -> Status]]
  BY <1>1, <1>2, <1>5, <1>6
<1> QED BY <1>7, PeerReportKeeps DEF Gossip

LEMMA GossipDisconnectKeeps ==
    ASSUME SessionInv, NEW e \in Remotes, NEW p \in Players, NEW frame \in RemoteFrames,
           GossipDisconnect(e, p, frame)
    PROVE  SessionInv'
<1>1. [disconnected |-> TRUE, last_frame |-> frame] \in Status
  BY BoundsAssumption DEF RemoteFrames, FrameOrNull, Status
<1>2. peer_connect_status \in [Remotes -> [Players -> Status]]
  BY DEF SessionInv, TypeOK
<1>3. peer_connect_status' = [peer_connect_status EXCEPT
                                 ![e][p] = [disconnected |-> TRUE, last_frame |-> frame]]
  BY DEF GossipDisconnect
<1>4. peer_connect_status' \in [Remotes -> [Players -> Status]]
  BY <1>1, <1>2, <1>3
<1> QED BY <1>4, PeerReportKeeps DEF GossipDisconnect

LEMMA ConfirmedFrameKeeps ==
    ASSUME SessionInv, ConfirmedFrame
    PROVE  SessionInv'
<1>1. Exposes /\ MayHalt
  BY DEF Exposes, MayHalt, ConfirmedFrame, Expose
<1>2. TypeOK'
  <2>1. SyncLayer' = SyncLayer
    BY DEF SyncLayer, MaxPrediction, ConfirmedFrame
  <2>2. exposed' \in FrameOrNull
    BY <1>1, ExposedType
  <2> QED BY <2>1, <2>2 DEF SessionInv, TypeOK, checksum_vars, ConfirmedFrame
<1> QED BY <1>1, <1>2, QuietStep DEF ConfirmedFrame

LEMMA FailDropKeeps ==
    ASSUME SessionInv, FailDrop
    PROVE  SessionInv'
<1>1. drop.held_at \in FrameOrNull
  BY DEF SessionInv, TypeOK, FailDrop, FrameOrNull
<1>2. /\ state' = "Synchronizing"
      /\ halt_confirmed_ceiling' \in FrameOrNull
      /\ halt_confirmed_ceiling' # None
      /\ halt_confirmed_ceiling # None => halt_confirmed_ceiling' <= halt_confirmed_ceiling
  <2>1. TypeOK /\ Halt(drop.held_at)
    BY DEF SessionInv, FailDrop
  <2> QED BY <1>1, <2>1, HaltBounds
<1>3. Exposes /\ MayHalt
  BY <1>2 DEF Exposes, MayHalt, FailDrop
<1>4. TypeOK'
  <2>1. SyncLayer' = SyncLayer
    BY DEF SyncLayer, MaxPrediction, FailDrop
  <2> QED BY <1>2, <2>1 DEF SessionInv, TypeOK, checksum_vars, FailDrop
<1> QED BY <1>3, <1>4, QuietStep DEF FailDrop

\* What is to be simulated again starts at a frame, and the checksums kept are some of
\* those there were.
LEMMA ResimulateType ==
    ASSUME TypeOK, NEW frame \in FrameOrNull
    PROVE  ResimulateFrom(frame) \in FrameOrNull
<1>1. frame + 1 \in FrameOrNull /\ disconnect_frame \in FrameOrNull
  BY DEF TypeOK, FrameOrNull, NULL_FRAME
<1> QED BY <1>1 DEF ResimulateFrom, MinFrame

LEMMA ForgetType ==
    ASSUME TypeOK, NEW frame, ForgetChecksumsAfter(frame)
    PROVE  DOMAIN local_checksum_history' \subseteq Nat /\ last_sent_checksum_frame' \in FrameOrNull
<1>1. DOMAIN local_checksum_history \subseteq Nat /\ last_sent_checksum_frame \in FrameOrNull
  BY DEF TypeOK
<1> QED BY <1>1 DEF ForgetChecksumsAfter

\* A slot that is lost where it stood, or below.
SlotLost(p) ==
    /\ p \in Remotes
    /\ committed[p] = NULL_FRAME
    /\ local_connect_status'[p].last_frame <= local_connect_status[p].last_frame

\* A session that loses players without a drop halts where it had confirmed.
LEMMA LossStep ==
    ASSUME SessionInv, Halt(confirmed_frame), Expose(confirmed_frame),
           UNCHANGED <<mode, sl, game, local_inputs, peer_connect_status, drop, committed, broadcast,
                       result, sent, truth>>,
           local_connect_status' \in [Players -> Status], running' \in [Remotes -> BOOLEAN],
           \A p \in Players : local_connect_status'[p] = local_connect_status[p] \/ SlotLost(p),
           NEW frame \in FrameOrNull, disconnect_frame' = ResimulateFrom(frame),
           ForgetChecksumsAfter(frame)
    PROVE  SessionInv'
<1>1. TypeOK /\ confirmed_frame \in FrameOrNull
  BY ConfirmedBounds DEF SessionInv
<1>2. Exposes
  BY DEF Exposes, Expose
<1>3. /\ state' = "Synchronizing"
      /\ halt_confirmed_ceiling' \in FrameOrNull
      /\ halt_confirmed_ceiling' # None
      /\ halt_confirmed_ceiling' <= confirmed_frame
      /\ halt_confirmed_ceiling # None => halt_confirmed_ceiling' <= halt_confirmed_ceiling
  BY <1>1, HaltBounds
<1>4. MayHalt
  BY <1>3 DEF MayHalt
<1>5. TypeOK'
  <2>1. SyncLayer' = SyncLayer
    BY DEF SyncLayer, MaxPrediction
  <2>2. exposed' \in FrameOrNull /\ disconnect_frame' \in FrameOrNull
    BY <1>1, <1>2, ExposedType, ResimulateType
  <2>3. DOMAIN local_checksum_history' \subseteq Nat /\ last_sent_checksum_frame' \in FrameOrNull
    BY <1>1, ForgetType
  <2> QED BY <1>1, <1>3, <2>1, <2>2, <2>3 DEF TypeOK
<1>6. \A p \in LocalPlayers : local_connect_status'[p] = local_connect_status[p]
  BY LocalPlayersAssumption DEF SlotLost, Remotes
<1>7. QueuesHold' /\ (\E n \in Nat : LocalsAt(n))' /\ StoredIsSent'
  BY <1>6, QueuesKept
<1>8. RemotesBehind'
  <2>1. ASSUME NEW p \in Remotes
        PROVE  local_connect_status'[p].last_frame <= sl.input_queues[p].last_added_frame
    <3>1. p \in Players /\ local_connect_status[p].last_frame <= sl.input_queues[p].last_added_frame
      BY DEF SessionInv, RemotesBehind, Remotes
    <3>2. PICK a, b, c : /\ a = local_connect_status'[p].last_frame
                         /\ b = local_connect_status[p].last_frame
                         /\ c = sl.input_queues[p].last_added_frame
      OBVIOUS
    <3>3. a \in Int /\ b \in Int
      BY <1>1, <3>1, <3>2 DEF TypeOK, Status, FrameOrNull, NULL_FRAME
    <3>4. c \in Int
      BY <3>1, <3>2, TruthLength
    <3>5. a = b \/ a <= b
      BY <3>1, <3>2 DEF SlotLost
    <3> QED BY <3>1, <3>2, <3>3, <3>4, <3>5
  <2> QED BY <2>1 DEF SessionInv, RemotesBehind
<1>9. ASSUME NEW p \in Players PROVE LossKnown(p)'
  <2>1. CASE local_connect_status'[p] = local_connect_status[p]
    <3>1. SlotKept(p)
      BY <2>1, TruthLength, ExtendsRefl DEF SlotKept
    <3> QED BY <1>4, <3>1, LossKept
  <2>2. CASE SlotLost(p)
    <3>1. confirmed_frame < Len(truth[p]) /\ Len(truth[p]) \in Nat
      BY <2>2, ConfirmedBounds, TruthLength DEF SlotLost
    <3>2. PICK a \in Int, b \in Int : a = halt_confirmed_ceiling' /\ b = confirmed_frame
      BY <1>1, <1>3 DEF FrameOrNull, NULL_FRAME
    <3>3. halt_confirmed_ceiling' < Len(truth[p])
      BY <1>3, <3>1, <3>2
    <3>4. committed'[p] = NULL_FRAME
      BY <2>2 DEF SlotLost
    <3> QED BY <1>3, <3>3, <3>4 DEF LossKnown
  <2> QED BY <2>1, <2>2
<1>10. Grows
  BY Unmoved
<1>11. ExposureHeld' /\ ExposedFramesAreKnown' /\ SpectatorsSeeFinalInputs'
  BY <1>2, <1>10, HeldKept, ExposedKept, SpectatorsKept
<1> QED BY <1>5, <1>7, <1>8, <1>9, <1>11 DEF SessionInv

LEMMA DisconnectPlayerKeeps ==
    ASSUME SessionInv, NEW p \in Disconnectable, DisconnectPlayer(p)
    PROVE  SessionInv'
<1>1. p \in Remotes /\ p \in Players
  BY PlayersOfMode DEF SessionInv
<1>2. local_connect_status \in [Players -> Status] /\ running \in [Remotes -> BOOLEAN]
  BY DEF SessionInv, TypeOK
<1>3. PICK frame \in FrameOrNull : frame = local_connect_status[p].last_frame
  BY <1>1, <1>2 DEF Status
<1>4. /\ local_connect_status' = [local_connect_status EXCEPT ![p] =
                                     [disconnected |-> TRUE, last_frame |-> frame]]
      /\ ~local_connect_status[p].disconnected
  BY <1>1, <1>2, <1>3 DEF DisconnectPlayer, DisconnectedAt
<1>5. /\ local_connect_status' \in [Players -> Status]
      /\ local_connect_status'[p].last_frame = frame
      /\ \A i \in Players \ {p} : local_connect_status'[i] = local_connect_status[i]
  <2>1. [disconnected |-> TRUE, last_frame |-> frame] \in Status
    BY DEF Status
  <2> QED BY <1>1, <1>2, <1>4, <2>1
<1>6. committed[p] = NULL_FRAME
  <2>1. SUFFICES ASSUME committed[p] # NULL_FRAME PROVE local_connect_status[p].disconnected
    BY <1>4
  <2>2. local_connect_status[p] = [disconnected |-> TRUE, last_frame |-> committed[p]]
    BY <1>1, <2>1 DEF SessionInv, LossKnown
  <2>3. local_connect_status[p].disconnected = TRUE
    BY <2>2
  <2> QED BY <2>3
<1>7. SlotLost(p)
  BY <1>1, <1>3, <1>5, <1>6 DEF SlotLost, FrameOrNull, NULL_FRAME
<1>8. running' \in [Remotes -> BOOLEAN]
  BY <1>2 DEF DisconnectPlayer
<1>9. \A i \in Players : local_connect_status'[i] = local_connect_status[i] \/ SlotLost(i)
  BY <1>5, <1>7
<1>10. disconnect_frame' = ResimulateFrom(frame) /\ ForgetChecksumsAfter(frame)
  BY <1>3 DEF DisconnectPlayer
<1>11. Halt(confirmed_frame) /\ Expose(confirmed_frame)
  BY DEF DisconnectPlayer
<1> QED BY <1>5, <1>8, <1>9, <1>10, <1>11, LossStep DEF DisconnectPlayer

\* A set of slots taken over.
LEMMA AdvanceFrameHaltsKeeps ==
    ASSUME SessionInv, AdvanceFrameHalts
    PROVE  SessionInv'
<1> DEFINE frames(p) == {r.last_frame : r \in Reports(p)} \cup
                           IF local_connect_status[p].disconnected THEN {}
                           ELSE {local_connect_status[p].last_frame}
           lowest(p) == MinOf(frames(p))
<1>1. PICK taken : taken = PropagatedDisconnects
  OBVIOUS
<1>2. PICK frame : frame = MinOf({lowest(p) : p \in taken})
  OBVIOUS
<1>3. /\ taken # {}
      /\ local_connect_status' = [p \in Players |->
             IF p \in taken THEN DisconnectedAt(local_connect_status, p, lowest(p))[p]
             ELSE local_connect_status[p]]
      /\ running' = [e \in Remotes |-> running[e] /\ e \notin taken]
      /\ disconnect_frame' = ResimulateFrom(frame)
      /\ ForgetChecksumsAfter(frame)
  BY <1>1, <1>2 DEF AdvanceFrameHalts
<1>4. TypeOK /\ local_connect_status \in [Players -> Status] /\ running \in [Remotes -> BOOLEAN]
  BY DEF SessionInv, TypeOK
<1>5. ASSUME NEW p \in taken
      PROVE  /\ p \in Remotes /\ p \in Players /\ committed[p] = NULL_FRAME
             /\ lowest(p) \in FrameOrNull
             /\ ~local_connect_status[p].disconnected => lowest(p) <= local_connect_status[p].last_frame
  <2>1. p \in Remotes /\ p \in Players /\ committed[p] = NULL_FRAME /\ Reports(p) # {}
    BY <1>1 DEF PropagatedDisconnects, Remotes
  <2>2. {r.last_frame : r \in Reports(p)} \subseteq FrameOrNull
    BY <1>4, <2>1, ReportsType
  <2>3. local_connect_status[p].last_frame \in FrameOrNull
    BY <1>4, <2>1 DEF Status
  <2>4. PICK S : S = frames(p)
    OBVIOUS
  <2>5. S \subseteq FrameOrNull /\ S # {}
    BY <2>1, <2>2, <2>3, <2>4
  <2>6. ~local_connect_status[p].disconnected => local_connect_status[p].last_frame \in S
    BY <2>4
  <2>7. MinOf(S) \in FrameOrNull /\ \A y \in S : MinOf(S) <= y
    BY <2>5, MinOfFrames
  <2> QED BY <2>1, <2>4, <2>6, <2>7
<1> HIDE DEF lowest
<1>6. frame \in FrameOrNull
  <2>1. PICK S : S = {lowest(p) : p \in taken}
    OBVIOUS
  <2>2. S \subseteq FrameOrNull /\ S # {}
    BY <1>3, <1>5, <2>1
  <2> QED BY <1>2, <2>1, <2>2, MinOfFrames
<1>7. ASSUME NEW p \in Players
      PROVE  /\ local_connect_status'[p] \in Status
             /\ local_connect_status'[p] = local_connect_status[p] \/ SlotLost(p)
  <2>1. CASE p \in taken
    <3>1. PICK old \in Status, low \in FrameOrNull : old = local_connect_status[p] /\ low = lowest(p)
      BY <1>4, <1>5, <2>1
    <3>2. PICK last : last = IF old.disconnected THEN MinFrame(old.last_frame, low) ELSE low
      OBVIOUS
    <3>3. local_connect_status'[p] = [disconnected |-> TRUE, last_frame |-> last]
      BY <1>3, <1>4, <2>1, <3>1, <3>2 DEF DisconnectedAt
    <3>4. last \in FrameOrNull /\ last <= old.last_frame
      <4>1. PICK a \in Int : a = old.last_frame /\ a \in FrameOrNull
        BY <3>1 DEF Status, FrameOrNull, NULL_FRAME
      <4>2. low \in Int /\ (~old.disconnected => low <= a)
        BY <1>5, <2>1, <3>1, <4>1 DEF FrameOrNull, NULL_FRAME
      <4> QED BY <3>1, <3>2, <4>1, <4>2 DEF MinFrame
    <3>5. SlotLost(p)
      BY <1>5, <2>1, <3>1, <3>3, <3>4 DEF SlotLost
    <3>6. local_connect_status'[p] \in Status
      BY <3>3, <3>4 DEF Status
    <3> QED BY <3>5, <3>6
  <2>2. CASE p \notin taken
    BY <1>3, <1>4, <2>2
  <2> QED BY <2>1, <2>2
<1>8. local_connect_status' \in [Players -> Status]
  BY <1>3, <1>7
<1>9. running' \in [Remotes -> BOOLEAN]
  BY <1>3, <1>4
<1>10. Halt(confirmed_frame) /\ Expose(confirmed_frame)
  BY DEF AdvanceFrameHalts
<1>11. UNCHANGED <<mode, sl, game, local_inputs, peer_connect_status, drop, committed, broadcast,
                   result, sent, truth>>
  BY DEF AdvanceFrameHalts
<1> QED BY <1>3, <1>6, <1>7, <1>8, <1>9, <1>10, <1>11, LossStep

-----------------------------------------------------------------------------
(* Steps on the queue of one remote player.                                *)

\* The queue of p becomes r, which was given the inputs u.
Fed(p, r, u) ==
    /\ WithQueue(sl, sl', p, r)
    /\ Holds(r, u)
    /\ Extends(truth[p], u)
    /\ r.frame_delay = 0
    /\ r.frozen => committed'[p] # NULL_FRAME
    /\ local_connect_status'[p].last_frame <= r.last_added_frame
    /\ truth' = [i \in Players |-> truth'[i]]
    /\ truth'[p] = u
    /\ \A i \in Players \ {p} : truth'[i] = truth[i]
    /\ \A i \in Players \ {p} : local_connect_status'[i] = local_connect_status[i]
    /\ \A i \in Players \ {p} : committed'[i] = committed[i]
    /\ UNCHANGED <<mode, sent, local_inputs>>

LEMMA FedKeeps ==
    ASSUME SessionInv, NEW p \in Remotes, NEW r, NEW u, Fed(p, r, u)
    PROVE  /\ QueuesHold' /\ (\E n \in Nat : LocalsAt(n))' /\ StoredIsSent' /\ RemotesBehind'
           /\ sl' \in SyncLayer' /\ truth' \in [Players -> Seq(Input)]
           /\ sl'.input_queues[p] = r
           /\ \A i \in Players \ {p} : SlotKept(i)
           /\ \A i \in Players : Extends(truth[i], truth'[i])
<1>1. p \in Players /\ p \notin LocalPlayers
  BY DEF Remotes
<1>2. sl \in SyncLayer /\ r \in Queue /\ SyncLayer' = SyncLayer
  BY DEF SessionInv, TypeOK, Fed, Holds, QueueInv, SyncLayer, MaxPrediction
<1>3. /\ sl' \in SyncLayer
      /\ sl'.input_queues[p] = r
      /\ \A i \in Players \ {p} : sl'.input_queues[i] = sl.input_queues[i]
      /\ sl'.current_frame = sl.current_frame
  <2>1. PICK next : next = sl'
    OBVIOUS
  <2>2. WithQueue(sl, next, p, r)
    BY <2>1 DEF Fed
  <2> QED BY <1>1, <1>2, <2>1, <2>2, WithQueueType
<1>4. QueuesHold'
  <2>1. ASSUME NEW i \in Players PROVE Holds(sl'.input_queues[i], truth'[i])
    <3>1. CASE i = p
      BY <1>3, <3>1 DEF Fed
    <3>2. CASE i # p
      BY <1>3, <3>2 DEF SessionInv, QueuesHold, Fed
    <3> QED BY <3>1, <3>2
  <2> QED BY <2>1 DEF QueuesHold
<1>5. \A i \in LocalPlayers : i \in Players \ {p}
  BY <1>1, LocalPlayersAssumption
<1>6. (\E n \in Nat : LocalsAt(n))'
  <2>1. PICK n \in Nat : LocalsAt(n)
    BY DEF SessionInv
  <2>2. ASSUME NEW i \in LocalPlayers
        PROVE  /\ Awaits(sl.input_queues[i], n)'
               /\ local_connect_status'[i] = local_connect_status[i]
               /\ sl'.input_queues[i] = sl.input_queues[i]
    <3>1. /\ local_connect_status'[i] = local_connect_status[i]
          /\ sl'.input_queues[i] = sl.input_queues[i]
      BY <1>3, <1>5 DEF Fed
    <3>2. Awaits(sl.input_queues[i], n) /\ mode' = mode
      BY <2>1 DEF LocalsAt, Fed
    <3> QED BY <3>1, <3>2 DEF Awaits, MaxPrediction
  <2>3. local_inputs' = local_inputs
    BY DEF Fed
  <2>4. LocalsAt(n)'
    BY <1>3, <2>1, <2>2, <2>3 DEF LocalsAt
  <2> QED BY <2>4
<1>7. StoredIsSent'
  BY <1>5 DEF SessionInv, StoredIsSent, Fed
<1>8. ASSUME NEW i \in Players \ {p} PROVE SlotKept(i)
  <2>1. Extends(truth[i], truth'[i])
    BY TruthLength, ExtendsRefl DEF Fed
  <2> QED BY <1>3, <2>1 DEF SlotKept, Fed
<1>9. RemotesBehind'
  <2>1. ASSUME NEW i \in Remotes
        PROVE  /\ sl'.input_queues[i].frame_delay = 0
               /\ local_connect_status'[i].last_frame <= sl'.input_queues[i].last_added_frame
               /\ sl'.input_queues[i].frozen => committed'[i] # NULL_FRAME
    <3>1. CASE i = p
      BY <1>3, <3>1 DEF Fed
    <3>2. CASE i # p
      <4>1. /\ i \in Players \ {p}
            /\ sl.input_queues[i].frame_delay = 0
            /\ local_connect_status[i].last_frame <= sl.input_queues[i].last_added_frame
            /\ sl.input_queues[i].frozen => committed[i] # NULL_FRAME
        BY <3>2 DEF SessionInv, RemotesBehind, Remotes
      <4>2. /\ local_connect_status'[i] = local_connect_status[i]
            /\ committed'[i] = committed[i]
        BY <4>1 DEF Fed
      <4> QED BY <1>3, <4>1, <4>2
    <3> QED BY <3>1, <3>2
  <2> QED BY <2>1 DEF RemotesBehind, Remotes
<1>10. \A i \in Players : Extends(truth[i], truth'[i])
  BY <1>8 DEF Fed, SlotKept
<1>11. truth' \in [Players -> Seq(Input)]
  <2>1. \A i \in Players : truth'[i] \in Seq(Input)
    BY <1>10 DEF Extends
  <2>2. truth' = [i \in Players |-> truth'[i]]
    BY DEF Fed
  <2> QED BY <2>1, <2>2
<1> QED BY <1>2, <1>3, <1>4, <1>6, <1>7, <1>8, <1>9, <1>10, <1>11

\* What u holds after a submission.
LEMMA SubmitExtends ==
    ASSUME NEW t \in Seq(Input), NEW frame \in Nat, NEW v \in Input, Len(t) <= frame
    PROVE  Extends(t, Submit(t, frame, v))
<1>1. PICK u : u = Submit(t, frame, v)
  OBVIOUS
<1>2. Submitted(t, u, frame, v)
  BY <1>1, SubmitType
<1> QED BY <1>1, <1>2 DEF Extends, Submitted

\* A queue replaced by itself.
LEMMA WithItself ==
    ASSUME NEW s \in SyncLayer, NEW p \in Players, NEW u, WithQueue(s, u, p, s.input_queues[p])
    PROVE  u = s
<1>1. PICK queues : queues = s.input_queues /\ queues \in [Players -> Queue]
  BY DEF SyncLayer
<1>2. [queues EXCEPT ![p] = queues[p]] = queues
  BY <1>1
<1>3. u = [s EXCEPT !.input_queues = queues]
  BY <1>1, <1>2 DEF WithQueue
<1> QED BY <1>1, <1>3 DEF SyncLayer

LEMMA RemoteInputKeeps ==
    ASSUME SessionInv, NEW p \in Remotes, NEW value \in Payload[p], RemoteInput(p, value)
    PROVE  SessionInv'
<1>1. p \in Players /\ value \in Input
  BY PlayersOfMode DEF SessionInv, Remotes
<1>2. PICK q, t, frame, res : /\ q = sl.input_queues[p] /\ t = truth[p] /\ frame = NextFrame(p)
                              /\ res = SyncLayer_add_remote_input(sl, p, frame, value)
  OBVIOUS
<1>3. ~local_connect_status[p].disconnected
  BY DEF RemoteInput, CanReceive
<1>4. TypeOK /\ sl \in SyncLayer /\ MaxPrediction \in Nat
  BY PredictionType DEF SessionInv, TypeOK
<1>5. Holds(q, t) /\ t \in Seq(Input)
  BY <1>1, <1>2, TruthLength DEF SessionInv, QueuesHold
<1>6. committed[p] = NULL_FRAME
  <2>1. SUFFICES ASSUME committed[p] # NULL_FRAME PROVE local_connect_status[p].disconnected
    BY <1>3
  <2>2. local_connect_status[p] = [disconnected |-> TRUE, last_frame |-> committed[p]]
    BY <1>1, <2>1 DEF SessionInv, LossKnown
  <2>3. local_connect_status[p].disconnected = TRUE
    BY <2>2
  <2> QED BY <2>3
<1>7. /\ ~q.frozen /\ q.frame_delay = 0
      /\ local_connect_status[p].last_frame <= q.last_added_frame
  BY <1>2, <1>6 DEF SessionInv, RemotesBehind
<1>8. frame \in Nat /\ (q.last_added_frame = NULL_FRAME => frame <= max_frame_delay)
  <2>1. PICK last : last = local_connect_status[p].last_frame
    OBVIOUS
  <2>2. last \in FrameOrNull
    BY <1>1, <2>1, StatusBelow DEF Status
  <2>3. frame = IF last = NULL_FRAME THEN RemoteDelay ELSE last + 1
    BY <1>2, <2>1 DEF NextFrame
  <2>4. RemoteDelay \in 0 .. max_frame_delay /\ max_frame_delay \in Int
    BY <1>4, PredictionType, QueueLengthAssumption DEF max_frame_delay
  <2>5. q.last_added_frame = NULL_FRAME => last = NULL_FRAME
    BY <1>7, <2>1, <2>2 DEF FrameOrNull, NULL_FRAME
  <2> QED BY <2>2, <2>3, <2>4, <2>5 DEF FrameOrNull
<1>9. PICK r \in Queue : /\ WithQueue(sl, res.sl, p, r)
                         /\ IF res.ok THEN Given(q, r, t, frame, value) ELSE r = q
  <2>1. frame \in Nat /\ value \in Input /\ p \in Players
    BY <1>1, <1>8
  <2>2. Takes(sl.input_queues[p], frame)
    BY <1>2, <1>7, <1>8 DEF Takes
  <2>3. Holds(sl.input_queues[p], t)
    BY <1>2, <1>5
  <2>4. Received(sl, p, t, frame, value, res)
    BY <1>2, <1>4, <2>1, <2>2, <2>3, RemoteAdd
  <2> QED BY <1>2, <2>4 DEF Received
<1>10. sl' = res.sl
  BY <1>2 DEF RemoteInput
<1>11. UNCHANGED <<mode, checksum_vars, game, local_inputs, peer_connect_status, running,
                   disconnect_frame, drop, committed, broadcast, result, sent>>
  BY DEF RemoteInput
<1>12. IF res.ok
       THEN /\ local_connect_status' = [local_connect_status EXCEPT ![p].last_frame = frame]
            /\ truth' = [truth EXCEPT ![p] = Submit(t, frame, value)]
            /\ UNCHANGED <<state, halt_confirmed_ceiling, exposed>>
       ELSE /\ Halt(confirmed_frame)
            /\ Expose(confirmed_frame)
            /\ UNCHANGED <<local_connect_status, truth>>
  BY <1>2 DEF RemoteInput
<1>13. CASE res.ok
  <2>1. Given(q, r, t, frame, value)
    BY <1>9, <1>13
  <2>2. PICK u : u = Submit(t, frame, value)
    OBVIOUS
  <2>3. /\ Holds(r, u) /\ r.frame_delay = 0 /\ ~r.frozen /\ r.last_added_frame = frame
        /\ Len(t) <= frame
    BY <1>7, <2>1, <2>2 DEF Given
  <2>4. Extends(t, u)
    BY <1>1, <1>5, <1>8, <2>2, <2>3, SubmitExtends
  <2>5. local_connect_status \in [Players -> Status] /\ truth \in [Players -> Seq(Input)]
    BY <1>4 DEF TypeOK
  <2>6. /\ local_connect_status' \in [Players -> Status]
        /\ local_connect_status'[p].last_frame = frame
        /\ ~local_connect_status'[p].disconnected
        /\ \A i \in Players \ {p} : local_connect_status'[i] = local_connect_status[i]
    <3>1. PICK old \in Status : old = local_connect_status[p]
      BY <1>1, <2>5
    <3>2. PICK new : new = [old EXCEPT !.last_frame = frame]
      OBVIOUS
    <3>3. frame \in FrameOrNull
      BY <1>8 DEF FrameOrNull
    <3>4. new \in Status /\ new.last_frame = frame /\ new.disconnected = old.disconnected
      BY <3>1, <3>2, <3>3 DEF Status
    <3>5. local_connect_status' = [local_connect_status EXCEPT ![p] = new]
      BY <1>12, <1>13, <3>1, <3>2
    <3> QED BY <1>1, <1>3, <2>5, <3>1, <3>4, <3>5
  <2>7. truth' = [truth EXCEPT ![p] = u]
    BY <1>12, <1>13, <2>2
  <2>8. /\ truth' = [i \in Players |-> truth'[i]]
        /\ truth'[p] = u
        /\ \A i \in Players \ {p} : truth'[i] = truth[i]
    BY <1>1, <2>5, <2>7
  <2>9. Fed(p, r, u)
    <3>1. local_connect_status'[p].last_frame <= r.last_added_frame
      BY <1>8, <2>3, <2>6
    <3>2. Extends(truth[p], u) /\ WithQueue(sl, sl', p, r)
      BY <1>2, <1>9, <1>10, <2>4
    <3>3. \A i \in Players \ {p} : committed'[i] = committed[i]
      BY <1>11
    <3> QED BY <1>11, <2>3, <2>6, <2>8, <3>1, <3>2, <3>3 DEF Fed
  <2>10. /\ QueuesHold' /\ (\E n \in Nat : LocalsAt(n))' /\ StoredIsSent' /\ RemotesBehind'
         /\ sl' \in SyncLayer' /\ truth' \in [Players -> Seq(Input)]
         /\ \A i \in Players \ {p} : SlotKept(i)
         /\ \A i \in Players : Extends(truth[i], truth'[i])
    BY <2>9, FedKeeps
  <2>11. TypeOK'
    BY <1>4, <1>11, <1>12, <1>13, <2>6, <2>10 DEF TypeOK, checksum_vars
  <2>12. MayHalt /\ Exposes /\ Grows
    BY <1>11, <1>12, <1>13, <2>10 DEF MayHalt, Exposes, Grows
  <2>13. \A i \in Players : LossKnown(i)'
    <3>1. LossKnown(p)'
      BY <1>1, <1>3, <1>11, <2>6, ConnectedKnown
    <3> QED BY <2>10, <2>12, <3>1, LossKept
  <2>14. ExposureHeld' /\ ExposedFramesAreKnown' /\ SpectatorsSeeFinalInputs'
    BY <1>11, <2>12, HeldKept, ExposedKept, SpectatorsKept
  <2> QED BY <2>10, <2>11, <2>13, <2>14 DEF SessionInv
<1>14. CASE ~res.ok
  <2>1. sl' = sl
    <3>1. PICK next : next = res.sl
      OBVIOUS
    <3>2. WithQueue(sl, next, p, sl.input_queues[p])
      BY <1>2, <1>9, <1>14, <3>1
    <3> QED BY <1>1, <1>4, <1>10, <3>1, <3>2, WithItself
  <2>2. Halt(confirmed_frame) /\ Exposes /\ UNCHANGED <<local_connect_status, truth>>
    BY <1>12, <1>14 DEF Expose, Exposes
  <2>3. confirmed_frame \in FrameOrNull
    BY ConfirmedBounds
  <2>4. /\ state' = "Synchronizing"
        /\ halt_confirmed_ceiling' \in FrameOrNull
        /\ halt_confirmed_ceiling' # None
        /\ halt_confirmed_ceiling # None => halt_confirmed_ceiling' <= halt_confirmed_ceiling
    BY <1>4, <2>2, <2>3, HaltBounds
  <2>5. MayHalt
    BY <2>4 DEF MayHalt
  <2>6. TypeOK'
    <3>1. SyncLayer' = SyncLayer
      BY <1>11 DEF SyncLayer, MaxPrediction
    <3>2. exposed' \in FrameOrNull
      BY <2>2, ExposedType
    <3> QED BY <1>4, <1>11, <2>1, <2>2, <2>4, <3>1, <3>2 DEF TypeOK, checksum_vars
  <2> QED BY <1>11, <2>1, <2>2, <2>5, <2>6, QuietStep
<1> QED BY <1>13, <1>14

-----------------------------------------------------------------------------
(* The delay of a local player.                                            *)

\* What a longer delay repeats comes after what was given.
LEMMA ProlongedExtends ==
    ASSUME NEW t \in Seq(Input), NEW new \in Nat, Len(t) <= new + 1, Prolonged(t, new) \in Seq(Input)
    PROVE  Extends(t, Prolonged(t, new))
<1>1. PICK u : u = Prolonged(t, new)
  OBVIOUS
<1>2. DOMAIN u = 1 .. new + 1 /\ u \in Seq(Input)
  BY <1>1 DEF Prolonged
<1>3. Len(u) = new + 1
  BY <1>2
<1>4. \A i \in 1 .. Len(t) : u[i] = t[i]
  BY <1>1 DEF Prolonged
<1> QED BY <1>1, <1>2, <1>3, <1>4 DEF Extends

\* The queue of the local player p becomes r, given u, and its next input is still
\* for frame n.
Delayed(p, r, u, n) ==
    /\ WithQueue(sl, sl', p, r)
    /\ Holds(r, u)
    /\ Extends(truth[p], u)
    /\ Awaits(r, n)
    /\ local_connect_status' \in [Players -> Status]
    /\ local_connect_status'[p].last_frame = r.last_added_frame
    /\ ~local_connect_status'[p].disconnected
    /\ truth' = [truth EXCEPT ![p] = u]
    /\ sent' = [sent EXCEPT ![p] = u]
    /\ \A i \in Players \ {p} : local_connect_status'[i] = local_connect_status[i]
    /\ UNCHANGED <<mode, checksum_vars, game, local_inputs, peer_connect_status, running, state,
                   disconnect_frame, halt_confirmed_ceiling, exposed, drop, committed, broadcast, result>>

LEMMA DelayedKeeps ==
    ASSUME SessionInv, NEW p \in LocalPlayers, NEW r, NEW u, NEW n \in Nat, LocalsAt(n),
           Delayed(p, r, u, n)
    PROVE  SessionInv'
<1>1. p \in Players /\ p \notin Remotes
  BY LocalPlayersAssumption DEF Remotes
<1>2. TypeOK /\ sl \in SyncLayer /\ r \in Queue /\ SyncLayer' = SyncLayer
  BY DEF SessionInv, TypeOK, Delayed, Holds, QueueInv, SyncLayer, MaxPrediction
<1>3. /\ sl' \in SyncLayer
      /\ sl'.input_queues[p] = r
      /\ \A i \in Players \ {p} : sl'.input_queues[i] = sl.input_queues[i]
      /\ sl'.current_frame = sl.current_frame
  <2>1. PICK next : next = sl'
    OBVIOUS
  <2>2. WithQueue(sl, next, p, r)
    BY <2>1 DEF Delayed
  <2> QED BY <1>1, <1>2, <2>1, <2>2, WithQueueType
<1>4. truth \in [Players -> Seq(Input)] /\ sent \in [LocalPlayers -> Seq(Input)] /\ u \in Seq(Input)
  BY <1>2 DEF TypeOK, Delayed, Extends
<1>5. /\ truth' \in [Players -> Seq(Input)] /\ sent' \in [LocalPlayers -> Seq(Input)]
      /\ truth'[p] = u /\ sent'[p] = u
      /\ \A i \in Players \ {p} : truth'[i] = truth[i]
      /\ \A i \in LocalPlayers \ {p} : sent'[i] = sent[i]
  BY <1>1, <1>4 DEF Delayed
<1>6. TypeOK'
  BY <1>2, <1>3, <1>5 DEF TypeOK, checksum_vars, Delayed
<1>7. QueuesHold'
  <2>1. ASSUME NEW i \in Players PROVE Holds(sl'.input_queues[i], truth'[i])
    <3>1. CASE i = p
      BY <1>3, <1>5, <3>1 DEF Delayed
    <3>2. CASE i # p
      BY <1>3, <1>5, <3>2 DEF SessionInv, QueuesHold
    <3> QED BY <3>1, <3>2
  <2> QED BY <2>1 DEF QueuesHold
<1>8. LocalsAt(n)'
  <2>1. ASSUME NEW i \in LocalPlayers
        PROVE  /\ Awaits(sl.input_queues[i], n)'
               /\ ~local_connect_status'[i].disconnected
               /\ local_connect_status'[i].last_frame = sl'.input_queues[i].last_added_frame
    <3>1. CASE i = p
      <4>1. Awaits(r, n) /\ mode' = mode
        BY DEF Delayed
      <4>2. Awaits(sl.input_queues[i], n)'
        BY <1>3, <3>1, <4>1 DEF Awaits, MaxPrediction
      <4> QED BY <1>3, <3>1, <4>2 DEF Delayed
    <3>2. CASE i # p
      <4>1. i \in Players \ {p}
        BY <3>2, LocalPlayersAssumption
      <4>2. /\ Awaits(sl.input_queues[i], n) /\ mode' = mode
            /\ ~local_connect_status[i].disconnected
            /\ local_connect_status[i].last_frame = sl.input_queues[i].last_added_frame
        BY DEF LocalsAt, Delayed
      <4>3. sl'.input_queues[i] = sl.input_queues[i] /\ local_connect_status'[i] = local_connect_status[i]
        BY <1>3, <4>1 DEF Delayed
      <4>4. Awaits(sl.input_queues[i], n)'
        BY <4>2, <4>3 DEF Awaits, MaxPrediction
      <4> QED BY <4>2, <4>3, <4>4
    <3> QED BY <3>1, <3>2
  <2>2. local_inputs' = local_inputs
    BY DEF Delayed
  <2> QED BY <1>3, <2>1, <2>2 DEF LocalsAt
<1>9. StoredIsSent'
  <2>1. ASSUME NEW i \in LocalPlayers PROVE sent'[i] = truth'[i]
    <3>1. CASE i = p
      BY <1>5, <3>1
    <3>2. CASE i # p
      BY <1>5, <3>2, LocalPlayersAssumption DEF SessionInv, StoredIsSent
    <3> QED BY <3>1, <3>2
  <2> QED BY <2>1 DEF StoredIsSent
<1>10. RemotesBehind'
  <2>1. ASSUME NEW i \in Remotes
        PROVE  sl'.input_queues[i] = sl.input_queues[i] /\ local_connect_status'[i] = local_connect_status[i]
    <3>1. i \in Players \ {p}
      BY <1>1 DEF Remotes
    <3> QED BY <1>3, <3>1 DEF Delayed
  <2>2. committed' = committed
    BY DEF Delayed
  <2> QED BY <2>1, <2>2 DEF SessionInv, RemotesBehind
<1>11. MayHalt /\ Exposes /\ committed' = committed /\ broadcast' = broadcast /\ drop' = drop
  BY DEF MayHalt, Exposes, Delayed
<1>12. \A i \in Players : Extends(truth[i], truth'[i])
  <2>1. ASSUME NEW i \in Players PROVE Extends(truth[i], truth'[i])
    <3>1. CASE i = p
      BY <1>5, <3>1 DEF Delayed
    <3>2. CASE i # p
      BY <1>4, <1>5, <3>2, ExtendsRefl
    <3> QED BY <3>1, <3>2
  <2> QED BY <2>1
<1>13. Grows
  BY <1>11, <1>12 DEF Grows
<1>14. ASSUME NEW i \in Players PROVE LossKnown(i)'
  <2>1. CASE i = p
    <3>1. ~local_connect_status[p].disconnected
      BY DEF LocalsAt
    <3>2. ~local_connect_status'[p].disconnected
      BY DEF Delayed
    <3> QED BY <1>1, <1>11, <2>1, <3>1, <3>2, ConnectedKnown
  <2>2. CASE i # p
    <3>1. SlotKept(i)
      BY <1>3, <1>11, <1>12, <2>2 DEF SlotKept, Delayed
    <3> QED BY <1>11, <3>1, LossKept
  <2> QED BY <2>1, <2>2
<1>15. ExposureHeld' /\ ExposedFramesAreKnown' /\ SpectatorsSeeFinalInputs'
  BY <1>11, <1>13, HeldKept, ExposedKept, SpectatorsKept
<1> QED BY <1>6, <1>7, <1>8, <1>9, <1>10, <1>14, <1>15 DEF SessionInv

LEMMA SetInputDelayKeeps ==
    ASSUME SessionInv, NEW p \in LocalPlayers, NEW delay \in 0 .. MaxInputDelay, SetInputDelay(p, delay)
    PROVE  SessionInv'
<1>1. p \in Players /\ delay \in Nat
  BY LocalPlayersAssumption, BoundsAssumption
<1>2. TypeOK /\ sl \in SyncLayer /\ MaxPrediction \in Nat
  BY PredictionType DEF SessionInv, TypeOK
<1>3. PICK n \in Nat : LocalsAt(n)
  BY DEF SessionInv
<1>4. PICK q, t : q = sl.input_queues[p] /\ t = truth[p]
  OBVIOUS
<1>5. Holds(q, t) /\ t \in Seq(Input) /\ Awaits(q, n)
  BY <1>1, <1>3, <1>4, TruthLength DEF SessionInv, QueuesHold, LocalsAt
<1>6. PICK floor \in Int : floor = rollback_window_floor(sl)
  BY <1>2 DEF SyncLayer, rollback_window_floor, MaxFrameOf
<1>7. PICK res, r : res = set_frame_delay(q, delay, floor) /\ r = res.q
  OBVIOUS
<1>8. PICK gap \in BOOLEAN : gap = (q.last_added_frame # NULL_FRAME /\ delay > q.frame_delay)
  OBVIOUS
<1>9. /\ Awaits(r, n)
      /\ IF gap /\ res.res = "Ok"
         THEN /\ Holds(r, Prolonged(t, r.last_added_frame))
              /\ r.last_added_frame \in Nat
              /\ q.last_added_frame <= r.last_added_frame
         ELSE Holds(r, t) /\ r.last_added_frame = q.last_added_frame
  <2>1. MaxPrediction + delay <= QueueLength - 1
    BY DEF SetInputDelay
  <2>2. /\ Awaits(r, n)
        /\ IF (q.last_added_frame # NULL_FRAME /\ delay > q.frame_delay) /\ res.res = "Ok"
           THEN /\ Holds(r, Prolonged(t, r.last_added_frame))
                /\ r.last_added_frame \in Nat
                /\ q.last_added_frame <= r.last_added_frame
           ELSE Holds(r, t) /\ r.last_added_frame = q.last_added_frame
    BY <1>1, <1>2, <1>5, <1>7, <2>1, DelayStep
  <2> QED BY <1>8, <2>2, Zenon
<1>10. r \in Queue
  BY <1>9 DEF Holds, QueueInv
<1>11. /\ SyncLayer_set_frame_delay(sl, p, delay).res = res.res
       /\ WithQueue(sl, SyncLayer_set_frame_delay(sl, p, delay).sl, p, r)
  BY <1>4, <1>6, <1>7 DEF SyncLayer_set_frame_delay, WithQueue
<1>12. sl' = SyncLayer_set_frame_delay(sl, p, delay).sl
  BY DEF SetInputDelay
<1>13. WithQueue(sl, sl', p, r)
  BY <1>11, <1>12
<1>14. sl'.input_queues[p] = r
  <2>1. PICK next : next = sl'
    OBVIOUS
  <2> QED BY <1>1, <1>2, <1>10, <1>13, <2>1, WithQueueType
<1>15. /\ UNCHANGED <<mode, checksum_vars, game, local_inputs, peer_connect_status, running, state,
                      disconnect_frame, halt_confirmed_ceiling, exposed, drop, committed, broadcast, result>>
       /\ IF gap /\ res.res = "Ok"
          THEN /\ local_connect_status' = [local_connect_status EXCEPT ![p].last_frame = r.last_added_frame]
               /\ sent' = [sent EXCEPT ![p] = Prolonged(t, r.last_added_frame)]
               /\ truth' = [truth EXCEPT ![p] = Prolonged(t, r.last_added_frame)]
          ELSE UNCHANGED <<local_connect_status, sent, truth>>
  BY <1>4, <1>8, <1>11, <1>12, <1>14 DEF SetInputDelay, SendReplicated, Prolonged
<1>16. /\ local_connect_status \in [Players -> Status] /\ truth \in [Players -> Seq(Input)]
       /\ sent \in [LocalPlayers -> Seq(Input)] /\ sent[p] = t
       /\ ~local_connect_status[p].disconnected
       /\ local_connect_status[p].last_frame = q.last_added_frame
  BY <1>2, <1>3, <1>4 DEF TypeOK, SessionInv, StoredIsSent, LocalsAt
<1>17. CASE gap /\ res.res = "Ok"
  <2>1. PICK u, new : new = r.last_added_frame /\ u = Prolonged(t, new)
    OBVIOUS
  <2>2. Holds(r, u) /\ new \in Nat /\ q.last_added_frame <= new /\ u \in Seq(Input)
    BY <1>9, <1>17, <2>1 DEF Holds
  <2>3. Len(t) = q.last_added_frame + 1 /\ q.last_added_frame \in Int
    BY <1>1, <1>4, TruthLength
  <2>4. Extends(t, u)
    BY <1>5, <2>1, <2>2, <2>3, ProlongedExtends
  <2>5. PICK old \in Status : old = local_connect_status[p]
    BY <1>1, <1>16
  <2>6. PICK status : status = [old EXCEPT !.last_frame = new]
    OBVIOUS
  <2>7. status \in Status /\ status.last_frame = new /\ status.disconnected = old.disconnected
    BY <2>2, <2>5, <2>6 DEF Status, FrameOrNull
  <2>8. local_connect_status' = [local_connect_status EXCEPT ![p] = status]
    BY <1>15, <1>17, <2>1, <2>5, <2>6
  <2>9. /\ local_connect_status' \in [Players -> Status]
        /\ local_connect_status'[p].last_frame = r.last_added_frame
        /\ ~local_connect_status'[p].disconnected
        /\ \A i \in Players \ {p} : local_connect_status'[i] = local_connect_status[i]
    BY <1>1, <1>16, <2>1, <2>5, <2>7, <2>8
  <2>10. Delayed(p, r, u, n)
    <3>1. truth' = [truth EXCEPT ![p] = u] /\ sent' = [sent EXCEPT ![p] = u]
      BY <1>15, <1>17, <2>1
    <3> QED BY <1>4, <1>9, <1>13, <1>15, <2>2, <2>4, <2>9, <3>1 DEF Delayed
  <2> QED BY <1>3, <2>10, DelayedKeeps
<1>18. CASE ~(gap /\ res.res = "Ok")
  <2>1. truth' = [truth EXCEPT ![p] = t] /\ sent' = [sent EXCEPT ![p] = t]
    <3>1. UNCHANGED <<sent, truth>>
      BY <1>15, <1>18
    <3> QED BY <1>4, <1>16, <3>1
  <2>2. local_connect_status' = local_connect_status /\ Holds(r, t)
        /\ r.last_added_frame = q.last_added_frame
    BY <1>9, <1>15, <1>18
  <2>3. Delayed(p, r, t, n)
    BY <1>4, <1>5, <1>9, <1>13, <1>15, <1>16, <2>1, <2>2, ExtendsRefl DEF Delayed
  <2> QED BY <1>3, <2>3, DelayedKeeps
<1> QED BY <1>17, <1>18

-----------------------------------------------------------------------------
(* The coordinated drop.                                                   *)

\* A dropped player is disconnected.
LEMMA NotCommitted ==
    ASSUME SessionInv, NEW p \in Players, ~local_connect_status[p].disconnected
    PROVE  committed[p] = NULL_FRAME
<1>1. SUFFICES ASSUME committed[p] # NULL_FRAME PROVE local_connect_status[p].disconnected
  OBVIOUS
<1>2. local_connect_status[p] = [disconnected |-> TRUE, last_frame |-> committed[p]]
  BY <1>1 DEF SessionInv, LossKnown
<1>3. local_connect_status[p].disconnected = TRUE
  BY <1>2
<1> QED BY <1>3

\* A step that gave the queue of p the inputs u, at most in its blank or missing frames,
\* and does not change anything else but the drop.
Filled(p, s, q, u) ==
    /\ WithQueue(sl, s, p, q)
    /\ Holds(q, u)
    /\ Extends(truth[p], u)
    /\ q.frame_delay = 0
    /\ q.frozen => committed[p] # NULL_FRAME
    /\ committed[p] # NULL_FRAME => q = sl.input_queues[p]
    /\ sl.input_queues[p].last_added_frame <= q.last_added_frame
    /\ q.last_added_frame \in Int
    /\ truth' = [i \in Players |-> IF i = p THEN u ELSE truth[i]]
    /\ UNCHANGED <<mode, game, local_inputs, peer_connect_status, broadcast, result, sent>>

\* The statuses and the drops of the other players are the same.
OthersKept(p) ==
    /\ \A i \in Players \ {p} : local_connect_status'[i] = local_connect_status[i]
    /\ \A i \in Players \ {p} : committed'[i] = committed[i]

LEMMA FilledFed ==
    ASSUME SessionInv, NEW p \in Remotes, NEW q, NEW u, Filled(p, sl', q, u),
           UNCHANGED <<local_connect_status, committed>>
    PROVE  Fed(p, q, u) /\ OthersKept(p)
<1>1. p \in Players /\ OthersKept(p)
  BY DEF Remotes, OthersKept
<1>2. PICK a, b, c : /\ a = local_connect_status[p].last_frame
                     /\ b = sl.input_queues[p].last_added_frame /\ c = q.last_added_frame
  OBVIOUS
<1>3. a \in Int /\ b \in Int /\ c \in Int /\ a <= b /\ b <= c
  <2>1. a <= b
    BY <1>2 DEF SessionInv, RemotesBehind
  <2>2. a \in Int /\ b \in Int
    BY <1>1, <1>2, StatusBelow, TruthLength DEF Status, FrameOrNull, NULL_FRAME
  <2> QED BY <1>2, <2>1, <2>2 DEF Filled
<1>4. a <= c
  BY <1>3
<1>5. local_connect_status'[p].last_frame <= q.last_added_frame
  BY <1>2, <1>4
<1>6. /\ truth' = [i \in Players |-> truth'[i]] /\ truth'[p] = u
      /\ \A i \in Players \ {p} : truth'[i] = truth[i]
  BY <1>1 DEF Filled
<1> QED BY <1>1, <1>5, <1>6 DEF Fed, Filled, OthersKept

\* What is left to show once the queue is known.
LEMMA DropStep ==
    ASSUME SessionInv, NEW p \in Remotes, NEW r, NEW u, Fed(p, r, u), LossKnown(p)',
           committed'[p] = committed[p]
               \/ (committed[p] = NULL_FRAME /\ committed'[p] \in Nat /\ committed'[p] >= exposed),
           MayHalt, Exposes, ExposureHeld', TypeOK', broadcast' = broadcast
    PROVE  SessionInv'
<1>1. /\ QueuesHold' /\ (\E n \in Nat : LocalsAt(n))' /\ StoredIsSent' /\ RemotesBehind'
      /\ \A i \in Players \ {p} : SlotKept(i)
      /\ \A i \in Players : Extends(truth[i], truth'[i])
  BY FedKeeps
<1>2. \A i \in Players : LossKnown(i)'
  <2>1. ASSUME NEW i \in Players PROVE LossKnown(i)'
    <3>1. CASE i = p
      BY <3>1
    <3>2. CASE i # p
      BY <1>1, <3>2, LossKept
    <3> QED BY <3>1, <3>2
  <2> QED BY <2>1
<1>3. Grows
  <2>1. \A i \in Players \ {p} : committed'[i] = committed[i]
    BY DEF Fed
  <2> QED BY <1>1, <2>1 DEF Grows
<1>4. ExposedFramesAreKnown' /\ SpectatorsSeeFinalInputs'
  BY <1>3, ExposedKept, SpectatorsKept
<1> QED BY <1>1, <1>2, <1>4 DEF SessionInv

\* The sync layer after the cut.
LEMMA CutQueue ==
    ASSUME NEW s \in SyncLayer, NEW p \in Players, NEW cut, NEW t, WithQueue(sl, s, p, t), sl \in SyncLayer,
           t \in Queue
    PROVE  WithQueue(sl, SyncLayer_set_frozen_value_at(freeze_player_at_cut(s, p, cut), p, cut), p,
                     set_frozen_value_at(freeze_at_prevalidated_cut(t, cut), cut))
<1>1. PICK f, g : /\ f = freeze_at_prevalidated_cut(t, cut)
                  /\ g = set_frozen_value_at(f, cut)
  OBVIOUS
<1>2. s.input_queues[p] = t /\ s = [sl EXCEPT !.input_queues[p] = t]
  <2>1. s.input_queues[p] = t
    BY WithQueueType
  <2>2. s = [sl EXCEPT !.input_queues[p] = t]
    BY DEF WithQueue
  <2> QED BY <2>1, <2>2
<1>3. sl.input_queues \in [Players -> Queue]
  BY DEF SyncLayer
<1>4. freeze_player_at_cut(s, p, cut) = [s EXCEPT !.input_queues[p] = f]
  BY <1>1, <1>2 DEF freeze_player_at_cut
<1>5. [s EXCEPT !.input_queues[p] = f] = [sl EXCEPT !.input_queues[p] = f]
  BY <1>2, <1>3 DEF SyncLayer
<1>6. SyncLayer_set_frozen_value_at([sl EXCEPT !.input_queues[p] = f], p, cut)
        = [sl EXCEPT !.input_queues[p] = g]
  BY <1>1, <1>3 DEF SyncLayer, SyncLayer_set_frozen_value_at
<1> QED BY <1>1, <1>4, <1>5, <1>6 DEF WithQueue

\* No drop that a step commits cuts below what was exposed.
CutsAbove == \A p \in Players : committed'[p] # committed[p] => committed'[p] >= exposed

\* The end of a drop: the slot is cut where the survivors agreed, or the session halts.
LEMMA ApplyDropCommitKeeps ==
    ASSUME SessionInv, NEW p \in Remotes, NEW s, NEW q, NEW u, Filled(p, s, q, u),
           NEW cut \in Nat, NEW held_at \in Nat, ApplyDropCommit(s, p, cut, held_at),
           Exposes, exposed' <= cut
    PROVE  SessionInv' /\ CutsAbove
<1>1. p \in Players /\ TypeOK /\ sl \in SyncLayer /\ SyncLayer' = SyncLayer
  BY DEF Remotes, SessionInv, TypeOK, Filled, SyncLayer, MaxPrediction
<1>2. q \in Queue /\ Holds(q, u)
  BY DEF Filled, Holds, QueueInv
<1>3. s \in SyncLayer /\ s.input_queues[p] = q
  <2>1. WithQueue(sl, s, p, q)
    BY DEF Filled
  <2> QED BY <1>1, <1>2, <2>1, WithQueueType
<1>4. drop' = None /\ broadcast' = broadcast
  BY DEF ApplyDropCommit, Filled
<1>5. ExposureHeld'
  BY <1>4, HeldKept
<1>6. exposed' \in FrameOrNull /\ exposed' >= exposed /\ exposed \in Int /\ exposed' \in Int
  BY ExposedType
<1>7. UNCHANGED <<mode, game, local_inputs, peer_connect_status, broadcast, result, sent>>
  BY DEF Filled
<1>8. CASE ~local_connect_status[p].disconnected /\ CutValid(s.input_queues[p], cut)
  <2>1. PICK r : r = set_frozen_value_at(freeze_at_prevalidated_cut(q, cut), cut)
    OBVIOUS
  <2>2. /\ Holds(r, u) /\ r.frozen
        /\ cut < Len(u)
        /\ r.last_confirmed_input = u[cut + 1]
        /\ r.frame_delay = q.frame_delay /\ r.last_added_frame = q.last_added_frame
    <3>1. CutValid(q, cut) /\ cut \in Int
      BY <1>3, <1>8
    <3> QED BY <1>2, <2>1, <3>1, CutStep
  <2>3. /\ sl' = SyncLayer_set_frozen_value_at(freeze_player_at_cut(s, p, cut), p, cut)
        /\ local_connect_status' = DisconnectedAt(local_connect_status, p, cut)
        /\ running' = [running EXCEPT ![p] = FALSE]
        /\ disconnect_frame' = ResimulateFrom(cut)
        /\ ForgetChecksumsAfter(cut)
        /\ committed' = [committed EXCEPT ![p] = cut]
        /\ UNCHANGED <<state, halt_confirmed_ceiling>>
    BY <1>8 DEF ApplyDropCommit
  <2>4. WithQueue(sl, sl', p, r)
    <3>1. WithQueue(sl, s, p, q)
      BY DEF Filled
    <3> QED BY <1>1, <1>2, <1>3, <2>1, <2>3, <3>1, CutQueue
  <2>5. committed \in [Players -> FrameOrNull] /\ local_connect_status \in [Players -> Status]
        /\ cut \in FrameOrNull /\ cut # NULL_FRAME
    BY <1>1 DEF TypeOK, FrameOrNull, NULL_FRAME
  <2>6. /\ committed' \in [Players -> FrameOrNull]
        /\ committed'[p] = cut
        /\ \A i \in Players \ {p} : committed'[i] = committed[i]
    BY <1>1, <2>3, <2>5
  <2>7. /\ local_connect_status' \in [Players -> Status]
        /\ local_connect_status'[p] = [disconnected |-> TRUE, last_frame |-> cut]
        /\ \A i \in Players \ {p} : local_connect_status'[i] = local_connect_status[i]
    <3>1. PICK new : new = [disconnected |-> TRUE, last_frame |-> cut]
      OBVIOUS
    <3>2. new \in Status
      BY <2>5, <3>1 DEF Status
    <3>3. local_connect_status' = [local_connect_status EXCEPT ![p] = new]
      BY <1>1, <1>8, <2>3, <2>5, <3>1 DEF DisconnectedAt
    <3> QED BY <1>1, <2>5, <3>1, <3>2, <3>3
  <2>8. committed[p] = NULL_FRAME
    BY <1>1, <1>8, NotCommitted
  <2>9. /\ truth' = [i \in Players |-> truth'[i]] /\ truth'[p] = u
        /\ \A i \in Players \ {p} : truth'[i] = truth[i]
    BY <1>1 DEF Filled
  <2>10. Fed(p, r, u)
    <3>1. local_connect_status'[p].last_frame <= r.last_added_frame
      <4>1. Len(u) = r.last_added_frame + 1 /\ r.last_added_frame \in Int
        BY <2>2, PreviousSlot DEF Holds
      <4>2. cut <= r.last_added_frame
        BY <2>2, <4>1
      <4> QED BY <2>7, <4>2
    <3>2. r.frozen => committed'[p] # NULL_FRAME
      BY <2>5, <2>6
    <3>3. r.frame_delay = 0 /\ Extends(truth[p], u) /\ UNCHANGED <<mode, sent, local_inputs>>
      BY <2>2 DEF Filled
    <3> QED BY <2>2, <2>4, <2>6, <2>7, <2>9, <3>1, <3>2, <3>3 DEF Fed
  <2>11. sl' \in SyncLayer /\ truth' \in [Players -> Seq(Input)] /\ sl'.input_queues[p] = r
    BY <1>1, <2>10, FedKeeps
  <2>12. LossKnown(p)'
    <3>1. /\ committed'[p] = cut /\ committed'[p] # NULL_FRAME
          /\ local_connect_status'[p] = [disconnected |-> TRUE, last_frame |-> committed'[p]]
          /\ sl'.input_queues[p].frozen
          /\ committed'[p] < Len(truth'[p])
          /\ sl'.input_queues[p].last_confirmed_input = truth'[p][committed'[p] + 1]
      BY <2>2, <2>5, <2>6, <2>7, <2>9, <2>11
    <3>2. p \in Remotes'
      BY DEF Remotes
    <3> QED BY <3>1, <3>2 DEF LossKnown
  <2>13. MayHalt
    BY <2>3 DEF MayHalt
  <2>14. committed'[p] \in Nat /\ committed'[p] >= exposed
    BY <1>6, <2>6
  <2>15. TypeOK'
    <3>1. disconnect_frame' \in FrameOrNull
      BY <1>1, <2>3, <2>5, ResimulateType
    <3>2. DOMAIN local_checksum_history' \subseteq Nat /\ last_sent_checksum_frame' \in FrameOrNull
      BY <1>1, <2>3, ForgetType
    <3>3. running' \in [Remotes -> BOOLEAN]
      BY <1>1, <2>3 DEF TypeOK
    <3> QED BY <1>1, <1>4, <1>6, <1>7, <2>3, <2>6, <2>7, <2>11, <3>1, <3>2, <3>3 DEF TypeOK
  <2>16. CutsAbove
    BY <2>6, <2>14 DEF CutsAbove
  <2> QED BY <1>4, <1>5, <2>8, <2>10, <2>12, <2>13, <2>14, <2>15, <2>16, DropStep
<1>9. CASE ~(~local_connect_status[p].disconnected /\ CutValid(s.input_queues[p], cut))
  <2>1. /\ sl' = s
        /\ Halt(held_at)
        /\ UNCHANGED <<local_connect_status, running, disconnect_frame, committed, checksum_vars>>
    BY <1>9 DEF ApplyDropCommit
  <2>2. /\ state' = "Synchronizing"
        /\ halt_confirmed_ceiling' \in FrameOrNull
        /\ halt_confirmed_ceiling' # None
        /\ halt_confirmed_ceiling # None => halt_confirmed_ceiling' <= halt_confirmed_ceiling
    <3>1. held_at \in FrameOrNull
      BY DEF FrameOrNull
    <3> QED BY <1>1, <2>1, <3>1, HaltBounds
  <2>3. MayHalt
    BY <2>2 DEF MayHalt
  <2>4. Fed(p, q, u)
    <3>1. Filled(p, sl', q, u)
      BY <2>1
    <3> QED BY <2>1, <3>1, FilledFed
  <2>5. sl' \in SyncLayer /\ truth' \in [Players -> Seq(Input)] /\ sl'.input_queues[p] = q
    BY <1>1, <2>4, FedKeeps
  <2>6. LossKnown(p)'
    <3>1. truth'[p] = u
      BY <1>1 DEF Filled
    <3>2. SlotKept(p)
      BY <2>1, <2>5, <3>1 DEF SlotKept, Filled
    <3> QED BY <1>1, <2>3, <3>2, LossKept
  <2>7. TypeOK'
    BY <1>1, <1>4, <1>6, <1>7, <2>1, <2>2, <2>5 DEF TypeOK, checksum_vars
  <2>8. committed'[p] = committed[p]
    BY <2>1
  <2>9. CutsAbove
    BY <2>1 DEF CutsAbove
  <2> QED BY <1>4, <1>5, <2>3, <2>4, <2>6, <2>7, <2>8, <2>9, DropStep
<1> QED BY <1>8, <1>9

\* Where a drop holds confirmation, and what is exposed then.
LEMMA HoldAtType ==
    ASSUME SessionInv, Expose(confirmed_frame)
    PROVE  HoldAt \in Nat /\ Exposes /\ exposed' <= HoldAt
<1>1. PICK c \in Int, e \in Int : c = confirmed_frame /\ e = exposed
  <2>1. confirmed_frame \in FrameOrNull
    BY ConfirmedBounds
  <2>2. exposed \in FrameOrNull
    BY DEF SessionInv, TypeOK
  <2> QED BY <2>1, <2>2 DEF FrameOrNull, NULL_FRAME
<1>2. Exposes /\ exposed' = MaxFrameOf(e, c)
  BY <1>1 DEF Exposes, Expose
<1>3. HoldAt = MaxFrameOf(MaxFrameOf(c, e), 0)
  BY <1>1 DEF HoldAt
<1> QED BY <1>2, <1>3 DEF MaxFrameOf

\* The inventory of a drop is a frame that nothing exposed exceeds.
LEMMA RetainedType ==
    ASSUME NEW q, QueueInv(q)
    PROVE  RetainedThrough(q) \in Int
<1>1. q.last_added_frame \in Int
  BY PreviousSlot
<1>2. CASE retained_input_range(q) = None
  BY <1>2 DEF RetainedThrough, NULL_FRAME
<1>3. CASE retained_input_range(q) # None
  <2>1. retained_input_range(q).last = q.last_added_frame
    BY <1>3 DEF retained_input_range
  <2> QED BY <1>1, <1>3, <2>1 DEF RetainedThrough
<1> QED BY <1>2, <1>3

\* What begin_coordinated_drop does before it decides: the queue r of the target holds u,
\* at most a default for frame 0 more than before, and high is the inventory.
Begun(p, s, r, u, high) ==
    /\ Filled(p, s, r, u)
    /\ \/ r = sl.input_queues[p]
       \/ /\ retained_input_range(sl.input_queues[p]) = None
          /\ r = install_missing_backfill(sl.input_queues[p], <<blank_input(0)>>,
                                           rollback_window_floor(sl)).q
    /\ high \in Nat /\ HoldAt <= high
    /\ IF \E e \in Remotes \ {p} : running[e]
       THEN /\ drop' = [target |-> p, held_at |-> HoldAt, high |-> high]
            /\ sl' = s
            /\ UNCHANGED <<local_connect_status, running, state, disconnect_frame,
                           halt_confirmed_ceiling, committed, checksum_vars>>
       ELSE ApplyDropCommit(s, p, high, HoldAt)

LEMMA BeginDropFills ==
    ASSUME SessionInv, NEW p \in Removable, BeginDrop(p)
    PROVE  \E s, r, u, high : Begun(p, s, r, u, high)
<1>1. p \in Remotes /\ p \in Players
  BY PlayersOfMode DEF SessionInv
<1>2. TypeOK /\ sl \in SyncLayer /\ sl.input_queues \in [Players -> Queue]
  BY DEF SessionInv, TypeOK, SyncLayer
<1>3. PICK held : held = HoldAt
  OBVIOUS
<1>4. held \in Nat /\ Exposes /\ exposed' <= held
  <2>1. Expose(confirmed_frame)
    BY DEF BeginDrop
  <2> QED BY <1>3, <2>1, HoldAtType
<1>5. PICK q, t : q = sl.input_queues[p] /\ t = truth[p]
  OBVIOUS
<1>6. PICK floor \in Nat : floor = rollback_window_floor(sl)
  <2>1. sl.current_frame \in Nat /\ sl.max_prediction \in Nat
    BY <1>2, PredictionType DEF SyncLayer
  <2>2. PICK a \in Int : a = sl.current_frame - sl.max_prediction
    BY <2>1
  <2> QED BY <2>2 DEF rollback_window_floor, MaxFrameOf
<1>7. PICK blank \in BOOLEAN : blank = (retained_input_range(q) = None /\ held = 0)
  OBVIOUS
<1>8. PICK s : s = IF blank THEN SyncLayer_install_missing_backfill(sl, p, <<blank_input(0)>>).sl ELSE sl
  OBVIOUS
<1>9. PICK r : r = IF blank THEN install_missing_backfill(q, <<blank_input(0)>>, floor).q ELSE q
  OBVIOUS
<1>10. PICK u : u = IF blank THEN <<DefaultInput>> ELSE t
  OBVIOUS
<1>11. ~local_connect_status[p].disconnected /\ drop = None
  BY DEF BeginDrop
<1>12. committed[p] = NULL_FRAME
  BY <1>1, <1>11, NotCommitted
<1>13. Holds(q, t) /\ ~q.frozen /\ q.frame_delay = 0 /\ t \in Seq(Input) /\ q.last_added_frame \in Int
  BY <1>1, <1>5, <1>12, TruthLength DEF SessionInv, QueuesHold, RemotesBehind
<1>14. /\ Holds(r, u) /\ ~r.frozen /\ r.frame_delay = 0 /\ r.last_added_frame \in Int
       /\ q.last_added_frame <= r.last_added_frame
       /\ Extends(t, u)
  <2>1. CASE blank
    <3>1. retained_input_range(q) = None
      BY <1>7, <2>1
    <3>2. /\ Holds(r, <<DefaultInput>>) /\ r.frozen = q.frozen /\ r.frame_delay = q.frame_delay
          /\ r.last_added_frame = 0
      BY <1>9, <1>13, <2>1, <3>1, HoldsBlank
    <3>3. t = <<>> /\ q.last_added_frame = NULL_FRAME
      BY <1>13, <3>1, NothingRetained
    <3>4. u = <<DefaultInput>>
      BY <1>10, <2>1
    <3>5. Extends(t, u)
      BY <3>3, <3>4, InputAssumption DEF Extends
    <3> QED BY <1>13, <3>2, <3>3, <3>4, <3>5 DEF NULL_FRAME
  <2>2. CASE ~blank
    BY <1>9, <1>10, <1>13, <2>2, ExtendsRefl
  <2> QED BY <2>1, <2>2
<1>15. WithQueue(sl, s, p, r)
  <2>1. CASE blank
    BY <1>5, <1>6, <1>8, <1>9, <2>1 DEF WithQueue, SyncLayer_install_missing_backfill
  <2>2. CASE ~blank
    <3>1. s = sl /\ r = sl.input_queues[p]
      BY <1>5, <1>8, <1>9, <2>2
    <3>2. [sl EXCEPT !.input_queues[p] = sl.input_queues[p]] = sl
      BY <1>1, <1>2 DEF SyncLayer
    <3> QED BY <3>1, <3>2 DEF WithQueue
  <2> QED BY <2>1, <2>2
<1>16. s.input_queues[p] = r
  <2>1. r \in Queue
    BY <1>14 DEF Holds, QueueInv
  <2> QED BY <1>1, <1>2, <1>15, <2>1, WithQueueType
<1>17. PICK high : high = MaxFrameOf(held, RetainedThrough(r))
  OBVIOUS
<1>18. high \in Nat /\ held <= high
  <2>1. RetainedThrough(r) \in Int
    BY <1>14, RetainedType DEF Holds
  <2> QED BY <1>4, <1>17, <2>1 DEF MaxFrameOf
<1>19. /\ truth' = IF blank THEN [truth EXCEPT ![p] = <<DefaultInput>>] ELSE truth
       /\ IF \E e \in Remotes \ {p} : running[e]
          THEN /\ drop' = [target |-> p, held_at |-> held, high |-> high]
               /\ sl' = s
               /\ UNCHANGED <<local_connect_status, running, state, disconnect_frame,
                              halt_confirmed_ceiling, committed, checksum_vars>>
          ELSE ApplyDropCommit(s, p, high, held)
       /\ UNCHANGED <<mode, game, local_inputs, peer_connect_status, broadcast, result, sent>>
  BY <1>3, <1>5, <1>7, <1>8, <1>16, <1>17 DEF BeginDrop
<1>20. truth' = [i \in Players |-> IF i = p THEN u ELSE truth[i]]
  <2>1. truth \in [Players -> Seq(Input)]
    BY <1>2 DEF TypeOK
  <2>2. CASE blank
    BY <1>1, <1>10, <1>19, <2>1, <2>2
  <2>3. CASE ~blank
    BY <1>1, <1>5, <1>10, <1>19, <2>1, <2>3
  <2> QED BY <2>2, <2>3
<1>21. Filled(p, s, r, u)
  BY <1>5, <1>12, <1>14, <1>15, <1>19, <1>20 DEF Filled
<1>22. r = q \/ (retained_input_range(q) = None /\ r = install_missing_backfill(q, <<blank_input(0)>>, floor).q)
  BY <1>7, <1>9
<1> QED BY <1>3, <1>5, <1>6, <1>18, <1>19, <1>21, <1>22 DEF Begun

LEMMA BeginDropKeeps ==
    ASSUME SessionInv, NEW p \in Removable, BeginDrop(p)
    PROVE  SessionInv' /\ CutsAbove
<1>1. p \in Remotes /\ p \in Players
  BY PlayersOfMode DEF SessionInv
<1>2. TypeOK /\ ~local_connect_status[p].disconnected
  BY DEF SessionInv, BeginDrop
<1>3. PICK held : held = HoldAt
  OBVIOUS
<1>4. held \in Nat /\ Exposes /\ exposed' <= held
  <2>1. Expose(confirmed_frame)
    BY DEF BeginDrop
  <2> QED BY <1>3, <2>1, HoldAtType
<1>5. PICK s, r, u, high : Begun(p, s, r, u, high)
  BY BeginDropFills
<1>6. /\ Filled(p, s, r, u) /\ high \in Nat /\ held <= high
      /\ IF \E e \in Remotes \ {p} : running[e]
         THEN /\ drop' = [target |-> p, held_at |-> held, high |-> high]
              /\ sl' = s
              /\ UNCHANGED <<local_connect_status, running, state, disconnect_frame,
                             halt_confirmed_ceiling, committed, checksum_vars>>
         ELSE ApplyDropCommit(s, p, high, held)
  BY <1>3, <1>5 DEF Begun
<1>7. UNCHANGED <<mode, game, local_inputs, peer_connect_status, broadcast, result, sent>>
  BY <1>6 DEF Filled
<1>8. CASE \E e \in Remotes \ {p} : running[e]
  <2>1. /\ drop' = [target |-> p, held_at |-> held, high |-> high]
        /\ sl' = s
        /\ UNCHANGED <<local_connect_status, running, state, disconnect_frame,
                       halt_confirmed_ceiling, committed, checksum_vars>>
    BY <1>6, <1>8
  <2>2. Fed(p, r, u)
    <3>1. Filled(p, sl', r, u)
      BY <1>6, <2>1
    <3> QED BY <1>1, <2>1, <3>1, FilledFed
  <2>3. LossKnown(p)'
    BY <1>1, <1>2, <2>1, ConnectedKnown
  <2>4. MayHalt /\ committed'[p] = committed[p] /\ broadcast' = broadcast
    BY <1>7, <2>1 DEF MayHalt
  <2>5. exposed' \in FrameOrNull /\ exposed' \in Int /\ exposed \in Int /\ exposed' >= exposed
    BY <1>4, ExposedType
  <2>6. drop'.held_at = held /\ drop'.high = high
    BY <2>1
  <2>7. ExposureHeld'
    <3>1. Len(broadcast) <= exposed + 1 /\ Len(broadcast) \in Nat
      BY <1>2 DEF SessionInv, ExposureHeld, TypeOK, GameState
    <3>2. Len(broadcast') <= exposed' + 1
      BY <2>4, <2>5, <3>1
    <3>3. exposed' <= drop'.held_at /\ drop'.held_at <= drop'.high
      BY <1>4, <1>6, <2>6
    <3> QED BY <3>2, <3>3 DEF ExposureHeld
  <2>8. TypeOK'
    <3>1. drop' \in [target : mode.removable, held_at : Nat, high : Nat]
      BY <1>4, <1>6, <2>1 DEF Removable
    <3>2. sl' \in SyncLayer' /\ truth' \in [Players -> Seq(Input)]
      BY <1>1, <2>2, FedKeeps
    <3> QED BY <1>2, <1>7, <2>1, <2>5, <3>1, <3>2 DEF TypeOK, checksum_vars
  <2>9. CutsAbove
    BY <2>1 DEF CutsAbove
  <2> QED BY <1>1, <1>4, <2>2, <2>3, <2>4, <2>7, <2>8, <2>9, DropStep
<1>9. CASE ~\E e \in Remotes \ {p} : running[e]
  <2>1. ApplyDropCommit(s, p, high, held)
    BY <1>6, <1>9
  <2>2. exposed' <= high
    <3>1. exposed' \in Int
      BY <1>4, ExposedType
    <3> QED BY <1>4, <1>6, <3>1
  <2> QED BY <1>1, <1>4, <1>6, <1>6, <2>1, <2>2, ApplyDropCommitKeeps
<1> QED BY <1>8, <1>9

\* What a commit does first: the queue r of the target p holds u, the donor's inputs
\* for the frames it missed included.
Completed(p, s, r, u) ==
    /\ p \in Remotes
    /\ Filled(p, s, r, u)
    /\ \E values, inputs :
           /\ values \in Seq(Input)
           /\ FromNext(sl.input_queues[p], inputs, values)
           /\ r = install_missing_backfill(sl.input_queues[p], inputs, rollback_window_floor(sl)).q

LEMMA CommitDropFills ==
    ASSUME SessionInv, drop # None, NEW n \in Nat, NEW cut \in RemoteFrames,
           NEW values \in [1 .. n -> Payload[drop.target]], CommitDrop(cut, values)
    PROVE  \E p, s, r, u : Completed(p, s, r, u) /\ ApplyDropCommit(s, p, cut, drop.held_at)
<1>1. PICK p : p = drop.target
  OBVIOUS
<1>2. /\ TypeOK /\ sl \in SyncLayer /\ p \in Removable
      /\ drop.held_at \in Nat /\ drop.high \in Nat
  BY <1>1 DEF SessionInv, TypeOK, Removable
<1>3. p \in Remotes /\ p \in Players
  BY <1>2, PlayersOfMode
<1>4. values \in Seq(Input)
  <2>1. values \in [1 .. n -> Input]
    BY <1>1, <1>2, <1>3, PlayersOfMode
  <2> QED BY <2>1
<1>5. PICK q, t : q = sl.input_queues[p] /\ t = truth[p]
  OBVIOUS
<1>6. PICK inputs : inputs = [i \in 1 .. Len(values) |-> [frame |-> q.last_added_frame + i, input |-> values[i]]]
  OBVIOUS
<1>7. PICK floor \in Int : floor = rollback_window_floor(sl)
  BY <1>2, PredictionType DEF SyncLayer, rollback_window_floor, MaxFrameOf
<1>8. PICK res, r, s : /\ res = install_missing_backfill(q, inputs, floor) /\ r = res.q
                       /\ s = SyncLayer_install_missing_backfill(sl, p, inputs).sl
  OBVIOUS
<1>9. /\ cut >= drop.high
      /\ SyncLayer_install_missing_backfill(sl, p, inputs).ok
      /\ ApplyDropCommit(s, p, cut, drop.held_at)
      /\ truth' = [truth EXCEPT ![p] = @ \o values]
      /\ UNCHANGED <<mode, game, local_inputs, peer_connect_status, exposed, broadcast, result, sent>>
  BY <1>1, <1>5, <1>6, <1>8 DEF CommitDrop
<1>10. res.ok /\ WithQueue(sl, s, p, r)
  BY <1>5, <1>7, <1>8, <1>9 DEF SyncLayer_install_missing_backfill, WithQueue
<1>11. /\ Holds(q, t) /\ q.frame_delay = 0 /\ t \in Seq(Input) /\ q.last_added_frame \in Int
       /\ q.frozen => committed[p] # NULL_FRAME
  BY <1>3, <1>5, TruthLength DEF SessionInv, QueuesHold, RemotesBehind
<1>12. PICK u : u = t \o values
  OBVIOUS
<1>13. /\ Holds(r, u) /\ r.frozen = q.frozen /\ r.frame_delay = q.frame_delay
       /\ r.last_added_frame = q.last_added_frame + Len(values)
       /\ r = q \/ ~q.frozen
  <2>1. FromNext(q, inputs, values)
    BY <1>6 DEF FromNext
  <2>2. install_missing_backfill(q, inputs, floor).ok
    BY <1>8, <1>10
  <2>3. Holds(q, t)
    BY <1>11
  <2>4. LET x == install_missing_backfill(q, inputs, floor).q
        IN  /\ Holds(x, t \o values)
            /\ x.frozen = q.frozen /\ x.frame_delay = q.frame_delay
            /\ x.last_added_frame = q.last_added_frame + Len(values)
            /\ x = q \/ ~q.frozen
    BY <1>4, <2>1, <2>2, <2>3, HoldsBackfill
  <2>5. r = install_missing_backfill(q, inputs, floor).q
    BY <1>8
  <2> QED BY <1>12, <2>4, <2>5
<1>14. Extends(t, u)
  <2>1. IsJoin(u, t, values, Input)
    BY <1>4, <1>11, <1>12, Joined
  <2>2. Len(t) \in Nat /\ Len(values) \in Nat
    BY <1>4, <1>11
  <2> QED BY <2>1, <2>2 DEF IsJoin, Extends
<1>15. committed[p] # NULL_FRAME => r = q
  <2>1. committed[p] # NULL_FRAME => q.frozen
    BY <1>3, <1>5 DEF SessionInv, LossKnown
  <2> QED BY <1>13, <2>1
<1>16. q.last_added_frame <= r.last_added_frame /\ r.last_added_frame \in Int
  <2>1. Len(values) \in Nat
    BY <1>4
  <2> QED BY <1>11, <1>13, <2>1
<1>17. truth' = [i \in Players |-> IF i = p THEN u ELSE truth[i]]
  <2>1. truth \in [Players -> Seq(Input)]
    BY <1>2 DEF TypeOK
  <2> QED BY <1>3, <1>5, <1>9, <1>12, <2>1
<1>18. Filled(p, s, r, u)
  BY <1>5, <1>9, <1>10, <1>11, <1>13, <1>14, <1>15, <1>16, <1>17 DEF Filled
<1>19. FromNext(q, inputs, values)
  BY <1>6 DEF FromNext
<1>20. Completed(p, s, r, u)
  BY <1>3, <1>4, <1>5, <1>7, <1>8, <1>18, <1>19 DEF Completed
<1> QED BY <1>9, <1>20

\* Where a commit cuts.
LEMMA CommitDropCut ==
    ASSUME SessionInv, drop # None, NEW cut \in RemoteFrames, NEW values, CommitDrop(cut, values)
    PROVE  /\ Exposes /\ cut \in Nat /\ drop.held_at \in Nat
           /\ exposed' <= cut /\ exposed' <= drop.held_at
<1>1. Exposes /\ exposed' = exposed /\ cut >= drop.high
  BY DEF CommitDrop, Exposes
<1>2. cut \in Nat
  BY BoundsAssumption DEF RemoteFrames
<1>3. drop.held_at \in Nat /\ drop.high \in Nat
  BY DEF SessionInv, TypeOK
<1>4. exposed \in Int /\ exposed <= drop.held_at /\ drop.held_at <= drop.high
  BY DEF SessionInv, ExposureHeld, TypeOK, FrameOrNull, NULL_FRAME
<1>5. PICK h \in Nat, g \in Nat : h = drop.held_at /\ g = drop.high
  BY <1>3
<1> QED BY <1>1, <1>2, <1>4, <1>5

LEMMA CommitDropKeeps ==
    ASSUME SessionInv, drop # None, NEW n \in Nat, NEW cut \in RemoteFrames,
           NEW values \in [1 .. n -> Payload[drop.target]], CommitDrop(cut, values)
    PROVE  SessionInv' /\ CutsAbove
<1>1. PICK p, s, r, u : Completed(p, s, r, u) /\ ApplyDropCommit(s, p, cut, drop.held_at)
  BY CommitDropFills
<1>2. p \in Remotes /\ Filled(p, s, r, u)
  BY <1>1 DEF Completed
<1> QED BY <1>1, <1>2, CommitDropCut, ApplyDropCommitKeeps

-----------------------------------------------------------------------------
(* The call of advance_frame.                                              *)

\* The final input of a known frame stays when no drop is committed.
LEMMA FinalUnmoved ==
    ASSUME SessionInv, NEW p \in Players, NEW f \in Nat, Extends(truth[p], truth'[p]),
           committed'[p] = committed[p], committed[p] = NULL_FRAME => f < Len(truth[p])
    PROVE  FinalInput(p, f)' = FinalInput(p, f)
<1>1. PICK t, u, c : t = truth[p] /\ u = truth'[p] /\ c = committed[p]
  OBVIOUS
<1>2. \A i \in 1 .. Len(t) : u[i] = t[i]
  BY <1>1 DEF Extends
<1>3. t \in Seq(Input) /\ Len(t) \in Nat
  BY <1>1, TruthLength
<1>4. FinalInput(p, f) = IF c # NULL_FRAME /\ f > c THEN t[c + 1] ELSE t[f + 1]
  BY <1>1 DEF FinalInput
<1>5. FinalInput(p, f)' = IF c # NULL_FRAME /\ f > c THEN u[c + 1] ELSE u[f + 1]
  BY <1>1 DEF FinalInput
<1>6. CASE c = NULL_FRAME
  <2>1. f + 1 \in 1 .. Len(t)
    BY <1>1, <1>3, <1>6
  <2> QED BY <1>2, <1>4, <1>5, <1>6, <2>1
<1>7. CASE c # NULL_FRAME
  <2>1. c < Len(t) /\ c \in Nat
    BY <1>1, <1>7 DEF SessionInv, LossKnown, TypeOK, FrameOrNull
  <2>2. c + 1 \in 1 .. Len(t) /\ (~(f > c) => f + 1 \in 1 .. Len(t))
    BY <1>3, <2>1
  <2> QED BY <1>2, <1>4, <1>5, <1>7, <2>2
<1> QED BY <1>6, <1>7

\* What a running session serves the spectators for a confirmed frame is final.
LEMMA ServedIsFinal ==
    ASSUME SessionInv, state = "Running", NEW s, Derived(sl, s), NEW f \in Nat, NEW p \in Players,
           confirmed_inputs(s, f, local_connect_status)[p] \in Input
    PROVE  confirmed_inputs(s, f, local_connect_status)[p] = FinalInput(p, f)
<1>1. PICK q, r, t, c, status : /\ q = sl.input_queues[p] /\ r = s.input_queues[p] /\ t = truth[p]
                                /\ c = committed[p] /\ status = local_connect_status[p]
  OBVIOUS
<1>2. SameInputs(q, r) /\ Holds(q, t)
  BY <1>1 DEF Derived, SessionInv, QueuesHold
<1>3. Holds(r, t)
  BY <1>2, HoldsSame
<1>4. PICK x : x = confirmed_inputs(s, f, local_connect_status)[p]
  OBVIOUS
<1>5. x = IF status.disconnected /\ status.last_frame < f THEN DroppedInput(s, p)
          ELSE confirmed_input(r, f)
  BY <1>1, <1>4 DEF confirmed_inputs, IsDropped
<1>6. x \in Input /\ x # None
  BY <1>4, InputAssumption
<1>7. FinalInput(p, f) = IF c # NULL_FRAME /\ f > c THEN t[c + 1] ELSE t[f + 1]
  BY <1>1 DEF FinalInput
<1>8. c \in Int
  BY <1>1 DEF SessionInv, TypeOK, FrameOrNull, NULL_FRAME
<1>9. c # NULL_FRAME => /\ status = [disconnected |-> TRUE, last_frame |-> c]
                        /\ q.frozen
                        /\ q.last_confirmed_input = t[c + 1]
  BY <1>1 DEF SessionInv, LossKnown
<1>10. CASE status.disconnected /\ status.last_frame < f
  <2>1. c # NULL_FRAME
    BY <1>1, <1>10 DEF SessionInv, LossKnown
  <2>2. status.last_frame = c
    BY <1>9, <2>1
  <2>3. f > c
    BY <1>8, <1>10, <2>2
  <2>4. r.frozen /\ r.last_confirmed_input = t[c + 1]
    BY <1>2, <1>9, <2>1 DEF SameInputs
  <2>5. t[c + 1] # None
    <3>1. c < Len(t) /\ c \in Nat /\ t \in Seq(Input) /\ Len(t) \in Nat
      BY <1>1, <2>1, TruthLength DEF SessionInv, LossKnown, TypeOK, FrameOrNull
    <3>2. c + 1 \in 1 .. Len(t)
      BY <3>1
    <3>3. t[c + 1] \in Input
      BY <3>1, <3>2
    <3> QED BY <3>3, InputAssumption
  <2>6. DroppedInput(s, p) = t[c + 1]
    BY <1>1, <2>4, <2>5 DEF DroppedInput, predict
  <2> QED BY <1>4, <1>5, <1>7, <1>10, <2>1, <2>3, <2>6
<1>11. CASE ~(status.disconnected /\ status.last_frame < f)
  <2>1. x = confirmed_input(r, f)
    BY <1>5, <1>11
  <2>2. PICK W : W = ByFrame(t)
    OBVIOUS
  <2>3. QueueInv(r) /\ Content(r, W)
    BY <1>3, <2>2 DEF Holds
  <2>4. confirmed_input(r, f) = W[f]
    BY <1>6, <2>1, <2>3, ConfirmedIsStored
  <2>5. W[f] = t[f + 1]
    BY <2>2 DEF ByFrame
  <2>6. ~(c # NULL_FRAME /\ f > c)
    <3>1. SUFFICES ASSUME c # NULL_FRAME, f > c PROVE status.disconnected /\ status.last_frame < f
      BY <1>11
    <3>2. status.disconnected = TRUE /\ status.last_frame = c
      BY <1>9, <3>1
    <3>3. c < f
      BY <1>8, <3>1
    <3> QED BY <3>2, <3>3
  <2> QED BY <1>4, <1>7, <2>1, <2>4, <2>5, <2>6
<1> QED BY <1>10, <1>11

\* The checksums of a call.
LEMMA ChecksumType ==
    ASSUME TypeOK, check_checksum_send_interval
    PROVE  DOMAIN local_checksum_history' \subseteq Nat /\ last_sent_checksum_frame' \in FrameOrNull
<1>1. DOMAIN local_checksum_history \subseteq Nat /\ last_sent_checksum_frame \in FrameOrNull
  BY DEF TypeOK
<1>2. PICK frame, kept : frame = FrameToSend /\ kept = PrunedHistory(frame)
  OBVIOUS
<1>3. frame \in Nat
  BY <1>1, <1>2, ChecksumAssumption DEF FrameToSend, FrameOrNull
<1>4. DOMAIN kept \subseteq Nat
  BY <1>1, <1>2 DEF PrunedHistory
<1>5. CASE UNCHANGED checksum_vars
  BY <1>1, <1>5 DEF checksum_vars
<1>6. CASE ~UNCHANGED checksum_vars
  <2>1. PICK cell : /\ last_sent_checksum_frame' = frame
                    /\ local_checksum_history' = [f \in DOMAIN kept \cup {frame} |->
                                                    IF f = frame THEN cell.state ELSE kept[f]]
    BY <1>2, <1>6 DEF check_checksum_send_interval
  <2> QED BY <1>3, <1>4, <2>1 DEF FrameOrNull
<1> QED BY <1>5, <1>6

\* The local player's input of a call, and what the call submits for it.
LEMMA SubmittedInput ==
    ASSUME SessionInv, NEW n \in Nat, LocalsAt(n), NEW p \in LocalPlayers, local_inputs[p] # None,
           NEW y, PlayerCalled(y, TRUE, n, p)
    PROVE  LET u == Submit(truth[p], y.status[p].last_frame, local_inputs[p].input)
           IN  /\ Holds(y.sl.input_queues[p], u)
               /\ Extends(truth[p], u)
               /\ y.status[p] # local_connect_status[p]
               /\ y.status[p].disconnected = local_connect_status[p].disconnected
               /\ y.status[p].last_frame = y.sl.input_queues[p].last_added_frame
               /\ Awaits(y.sl.input_queues[p], n + 1)
<1>1. p \in Players
  BY LocalPlayersAssumption
<1>2. PICK q, r, t, v, frame : /\ q = sl.input_queues[p] /\ r = y.sl.input_queues[p] /\ t = truth[p]
                               /\ v = local_inputs[p].input /\ frame = n + q.frame_delay
  OBVIOUS
<1>3. v \in Input
  <2>1. local_inputs[p] \in PlayerInput
    BY DEF SessionInv, TypeOK
  <2> QED BY <1>2, <2>1 DEF PlayerInput
<1>4. /\ Given(q, r, t, frame, v)
      /\ y.status[p] = [disconnected |-> local_connect_status[p].disconnected, last_frame |-> frame]
  BY <1>2 DEF PlayerCalled
<1>5. /\ frame \in Nat /\ Len(t) <= frame /\ Holds(r, Submit(t, frame, v))
      /\ r.frozen = q.frozen /\ r.frame_delay = q.frame_delay /\ r.last_added_frame = frame
  BY <1>4 DEF Given
<1>6. /\ t \in Seq(Input) /\ Len(t) = q.last_added_frame + 1 /\ q.last_added_frame \in Int
  BY <1>1, <1>2, TruthLength
<1>7. y.status[p].last_frame = frame /\ y.status[p].disconnected = local_connect_status[p].disconnected
  BY <1>4
<1>8. Extends(t, Submit(t, frame, v))
  BY <1>3, <1>5, <1>6, SubmitExtends
<1>9. y.status[p] # local_connect_status[p]
  <2>1. local_connect_status[p].last_frame = q.last_added_frame
    BY <1>2 DEF LocalsAt
  <2>2. frame # q.last_added_frame
    BY <1>5, <1>6
  <2> QED BY <1>7, <2>1, <2>2
<1>10. Awaits(r, n + 1)
  <2>1. Awaits(q, n)
    BY <1>2 DEF LocalsAt
  <2>2. q.frame_delay \in Nat
    BY <1>1, <1>2 DEF SessionInv, QueuesHold, Holds, QueueInv, Queue
  <2>3. PICK d \in Nat : d = q.frame_delay /\ d = r.frame_delay
    BY <1>5, <2>2
  <2>4. frame = n + d /\ r.last_added_frame = frame /\ frame # NULL_FRAME
    BY <1>2, <1>5, <2>3 DEF NULL_FRAME
  <2>5. (n + 1) + r.frame_delay = r.last_added_frame + 1
    BY <2>3, <2>4
  <2> QED BY <1>5, <2>1, <2>4, <2>5 DEF Awaits
<1> QED BY <1>2, <1>5, <1>7, <1>8, <1>9, <1>10

\* What a call leaves of one player.
PlayerLeftSound(p, y, m) ==
    /\ Holds(y.sl.input_queues[p], truth'[p])
    /\ Extends(truth[p], truth'[p])
    /\ p \in LocalPlayers
         => /\ sent'[p] = truth'[p]
            /\ Awaits(y.sl.input_queues[p], m)
            /\ ~y.status[p].disconnected
            /\ y.status[p].last_frame = y.sl.input_queues[p].last_added_frame
    /\ p \notin LocalPlayers
         => /\ SameInputs(sl.input_queues[p], y.sl.input_queues[p])
            /\ y.status[p] = local_connect_status[p]

LEMMA ReturnSettles ==
    ASSUME SessionInv, NEW n \in Nat, LocalsAt(n), \A p \in LocalPlayers : local_inputs[p] # None,
           NEW y, NEW user, Return(y, user), NEW stored \in BOOLEAN, CallStored(y, stored, n)
    PROVE  /\ \A p \in Players : PlayerLeftSound(p, y, IF stored THEN n + 1 ELSE n)
           /\ truth' = [p \in Players |-> truth'[p]]
           /\ sent' = [p \in LocalPlayers |-> sent'[p]]
<1> DEFINE S == {p \in LocalPlayers : y.status[p] # local_connect_status[p]}
           after == [p \in S |-> Submit(truth[p], y.status[p].last_frame, local_inputs[p].input)]
<1>1. /\ truth' = [p \in Players |-> IF p \in S THEN after[p] ELSE truth[p]]
      /\ sent' = [p \in LocalPlayers |-> IF S = LocalPlayers THEN after[p] ELSE sent[p]]
  BY DEF Return
<1>2. \A p \in Players : PlayerCalled(y, stored, n, p)
  BY DEF CallStored
<1>3. \A p \in LocalPlayers : p \in Players /\ sent[p] = truth[p]
  BY LocalPlayersAssumption DEF SessionInv, StoredIsSent
<1>4. CASE stored
  <2>1. ASSUME NEW p \in LocalPlayers
        PROVE  LET u == Submit(truth[p], y.status[p].last_frame, local_inputs[p].input)
               IN  /\ Holds(y.sl.input_queues[p], u)
                   /\ Extends(truth[p], u)
                   /\ y.status[p] # local_connect_status[p]
                   /\ y.status[p].disconnected = local_connect_status[p].disconnected
                   /\ y.status[p].last_frame = y.sl.input_queues[p].last_added_frame
                   /\ Awaits(y.sl.input_queues[p], n + 1)
    <3>1. PlayerCalled(y, TRUE, n, p)
      BY <1>2, <1>3, <1>4
    <3> QED BY <3>1, SubmittedInput
  <2>2. S = LocalPlayers
    BY <2>1
  <2>3. ASSUME NEW p \in Players PROVE PlayerLeftSound(p, y, n + 1)
    <3>1. CASE p \in LocalPlayers
      <4>1. PICK u : u = Submit(truth[p], y.status[p].last_frame, local_inputs[p].input)
        OBVIOUS
      <4>2. truth'[p] = u /\ sent'[p] = u
        BY <1>1, <2>2, <3>1, <4>1
      <4>3. ~local_connect_status[p].disconnected
        BY <3>1 DEF LocalsAt
      <4>4. /\ Holds(y.sl.input_queues[p], u) /\ Extends(truth[p], u)
            /\ Awaits(y.sl.input_queues[p], n + 1)
            /\ y.status[p].last_frame = y.sl.input_queues[p].last_added_frame
        BY <2>1, <3>1, <4>1
      <4>5. y.status[p].disconnected = local_connect_status[p].disconnected
        BY <2>1, <3>1
      <4>6. ~y.status[p].disconnected
        BY <4>3, <4>5
      <4> QED BY <3>1, <4>2, <4>4, <4>6 DEF PlayerLeftSound
    <3>2. CASE p \notin LocalPlayers
      <4>1. SameInputs(sl.input_queues[p], y.sl.input_queues[p]) /\ y.status[p] = local_connect_status[p]
        BY <1>2, <3>2 DEF PlayerCalled
      <4>2. truth'[p] = truth[p]
        BY <1>1, <3>2
      <4>3. Holds(sl.input_queues[p], truth[p]) /\ truth[p] \in Seq(Input)
        BY TruthLength DEF SessionInv, QueuesHold
      <4>4. Holds(y.sl.input_queues[p], truth[p]) /\ Extends(truth[p], truth[p])
        BY <4>1, <4>3, HoldsSame, ExtendsRefl
      <4> QED BY <3>2, <4>1, <4>2, <4>4 DEF PlayerLeftSound
    <3> QED BY <3>1, <3>2
  <2> QED BY <1>1, <1>4, <2>3
<1>5. CASE ~stored
  <2>1. ASSUME NEW p \in Players
        PROVE  SameInputs(sl.input_queues[p], y.sl.input_queues[p]) /\ y.status[p] = local_connect_status[p]
    BY <1>2, <1>5 DEF PlayerCalled
  <2>2. S = {} /\ S # LocalPlayers
    BY <1>3, <2>1, LocalPlayersAssumption
  <2>3. ASSUME NEW p \in Players PROVE PlayerLeftSound(p, y, n)
    <3>1. truth'[p] = truth[p]
      BY <1>1, <2>2
    <3>2. Holds(sl.input_queues[p], truth[p]) /\ truth[p] \in Seq(Input)
      BY TruthLength DEF SessionInv, QueuesHold
    <3>3. Holds(y.sl.input_queues[p], truth[p]) /\ Extends(truth[p], truth[p])
      BY <2>1, <3>2, HoldsSame, ExtendsRefl
    <3>4. ASSUME p \in LocalPlayers
          PROVE  /\ sent'[p] = truth'[p]
                 /\ Awaits(y.sl.input_queues[p], n)
                 /\ ~y.status[p].disconnected
                 /\ y.status[p].last_frame = y.sl.input_queues[p].last_added_frame
      <4>1. sent'[p] = truth'[p]
        BY <1>1, <1>3, <2>2, <3>1, <3>4
      <4>2. /\ Awaits(sl.input_queues[p], n)
            /\ ~local_connect_status[p].disconnected
            /\ local_connect_status[p].last_frame = sl.input_queues[p].last_added_frame
        BY <3>4 DEF LocalsAt
      <4>3. Awaits(y.sl.input_queues[p], n)
        BY <2>1, <4>2, AwaitsSame
      <4>4. y.status[p].last_frame = y.sl.input_queues[p].last_added_frame
        BY <2>1, <4>2 DEF SameInputs
      <4> QED BY <2>1, <4>1, <4>2, <4>3, <4>4
    <3> QED BY <2>1, <3>1, <3>3, <3>4 DEF PlayerLeftSound
  <2> QED BY <1>1, <1>5, <2>3
<1> QED BY <1>4, <1>5

\* What a call broadcasts is final, and not above what it exposes.
LEMMA CallBroadcasts ==
    ASSUME SessionInv, state = "Running", Exposes, exposed' >= confirmed_frame,
           \A p \in Players : Extends(truth[p], truth'[p]), committed' = committed,
           NEW y, NEW s, NEW more, CallSent(y, confirmed_frame, s, more), broadcast' = y.broadcast
    PROVE  /\ SpectatorsSeeFinalInputs' /\ Len(broadcast') <= exposed' + 1
           /\ broadcast' \in GameState
<1>1. PICK top \in Int : top = confirmed_frame /\ top \in FrameOrNull
  <2>1. confirmed_frame \in FrameOrNull
    BY ConfirmedBounds
  <2> QED BY <2>1 DEF FrameOrNull, NULL_FRAME
<1>2. exposed \in Int /\ exposed' \in Int /\ exposed' >= exposed /\ exposed' >= top
  BY <1>1, ExposedType
<1>3. /\ broadcast \in GameState /\ Len(broadcast) <= exposed + 1
  BY DEF SessionInv, TypeOK, ExposureHeld
<1>4. PICK old \in Nat : old = Len(broadcast)
  BY <1>3 DEF GameState
<1>5. PICK size \in Nat : size = Len(more)
  BY DEF CallSent, GameState
<1>6. size <= MaxFrameOf(top + 1 - old, 0)
  BY <1>1, <1>4, <1>5 DEF CallSent
<1>7. size = 0 \/ old + size <= top + 1
  <2>1. PICK room \in Int : room = top + 1 - old
    OBVIOUS
  <2>2. size <= MaxFrameOf(room, 0)
    BY <1>6, <2>1
  <2>3. size = 0 \/ size <= room
    BY <2>2 DEF MaxFrameOf
  <2> QED BY <2>1, <2>3
<1>8. IsJoin(broadcast', broadcast, more, [Players -> Input])
  <2>1. more \in Seq([Players -> Input]) /\ broadcast \in Seq([Players -> Input])
    BY <1>3 DEF CallSent, GameState
  <2>2. broadcast' = broadcast \o more
    BY DEF CallSent
  <2> QED BY <2>1, <2>2, Joined
<1>9. /\ broadcast' \in GameState /\ Len(broadcast') = old + size
      /\ \A i \in 1 .. old : broadcast'[i] = broadcast[i]
      /\ \A k \in 1 .. size : broadcast'[old + k] = more[k]
  BY <1>4, <1>5, <1>8 DEF IsJoin, GameState
<1>10. Len(broadcast') <= exposed' + 1
  BY <1>2, <1>3, <1>4, <1>7, <1>9
<1>11. ASSUME NEW f \in Nat, f <= exposed \/ f <= top PROVE FinalInputs(f)' = FinalInputs(f)
  <2>1. ASSUME NEW p \in Players PROVE FinalInput(p, f)' = FinalInput(p, f)
    <3>1. ASSUME committed[p] = NULL_FRAME PROVE f < Len(truth[p])
      <4>1. exposed < Len(truth[p]) /\ top < Len(truth[p]) /\ Len(truth[p]) \in Nat
        BY <1>1, <3>1, ConfirmedBounds, TruthLength DEF SessionInv, ExposedFramesAreKnown
      <4> QED BY <1>2, <1>11, <4>1
    <3>2. Extends(truth[p], truth'[p]) /\ committed'[p] = committed[p]
      OBVIOUS
    <3> QED BY <3>1, <3>2, FinalUnmoved
  <2> QED BY <2>1 DEF FinalInputs
<1>12. ASSUME NEW i \in 1 .. old + size PROVE broadcast'[i] = FinalInputs(i - 1)'
  <2>1. PICK f \in Nat : f = i - 1
    OBVIOUS
  <2>2. CASE i <= old
    <3>1. f <= exposed
      BY <1>2, <1>3, <1>4, <2>1, <2>2
    <3>2. broadcast[i] = FinalInputs(i - 1)
      <4>1. i \in DOMAIN broadcast
        BY <1>3, <1>4, <2>2 DEF GameState
      <4> QED BY <4>1 DEF SessionInv, SpectatorsSeeFinalInputs
    <3>3. FinalInputs(f)' = FinalInputs(f)
      BY <1>11, <3>1
    <3>4. broadcast'[i] = broadcast[i]
      BY <1>9, <2>2
    <3> QED BY <2>1, <3>2, <3>3, <3>4
  <2>3. CASE i > old
    <3>1. PICK k \in 1 .. size : i = old + k
      BY <2>3
    <3>2. f <= top
      BY <1>7, <2>1, <3>1
    <3>3. more[k] = confirmed_inputs(s, f, local_connect_status)
      <4>1. more[k] = confirmed_inputs(s, Len(broadcast) + k - 1, local_connect_status)
        BY <1>5 DEF CallSent
      <4>2. Len(broadcast) + k - 1 = f
        BY <1>4, <2>1, <3>1
      <4> QED BY <4>1, <4>2
    <3>4. more[k] \in [Players -> Input]
      BY <1>5 DEF CallSent, GameState
    <3>5. ASSUME NEW p \in Players PROVE more[k][p] = FinalInput(p, f)
      <4>1. confirmed_inputs(s, f, local_connect_status)[p] \in Input
        BY <3>3, <3>4
      <4>2. Derived(sl, s)
        BY DEF CallSent
      <4> QED BY <3>3, <4>1, <4>2, ServedIsFinal
    <3>6. more[k] = FinalInputs(f)
      BY <3>4, <3>5 DEF FinalInputs
    <3>7. FinalInputs(f)' = FinalInputs(f)
      BY <1>11, <3>2
    <3>8. broadcast'[i] = more[k]
      BY <1>9, <3>1
    <3> QED BY <2>1, <3>6, <3>7, <3>8
  <2> QED BY <1>4, <1>5, <2>2, <2>3
<1>13. DOMAIN broadcast' = 1 .. old + size
  BY <1>9 DEF GameState
<1> QED BY <1>9, <1>10, <1>12, <1>13 DEF SpectatorsSeeFinalInputs

LEMMA AdvanceFrameKeeps ==
    ASSUME SessionInv, AdvanceFrame
    PROVE  SessionInv'
<1>1. /\ state = "Running"
      /\ \A p \in LocalPlayers : local_inputs[p] # None
      /\ UNCHANGED <<mode, peer_connect_status, running, state, halt_confirmed_ceiling, drop, committed>>
      /\ Expose(confirmed_frame)
      /\ check_checksum_send_interval
  BY DEF AdvanceFrame, CanCallAdvanceFrame
<1>2. TypeOK /\ QueuesHold /\ MaxPrediction \in Nat /\ confirmed_frame \in FrameOrNull
  BY PredictionType, ConfirmedBounds DEF SessionInv
<1>3. PICK n \in Nat : LocalsAt(n)
  BY DEF SessionInv
<1>4. PICK y : y = Advanced(confirmed_frame)
  OBVIOUS
<1>5. /\ CallTyped(y)
      /\ \E s, more : CallSent(y, confirmed_frame, s, more)
      /\ \E stored \in BOOLEAN : CallStored(y, stored, n)
  BY <1>1, <1>2, <1>3, <1>4, CallOutcome
<1>6. PICK s, more : CallSent(y, confirmed_frame, s, more)
  BY <1>5
<1>7. PICK stored \in BOOLEAN : CallStored(y, stored, n)
  BY <1>5
<1>8. PICK user : user = Fulfil(sl.saved_states, y.requests)
  OBVIOUS
<1>9. Return(y, user)
  BY <1>4, <1>8 DEF AdvanceFrame
<1>10. PICK m \in Nat : m = IF stored THEN n + 1 ELSE n
  OBVIOUS
<1>11. /\ \A p \in Players : PlayerLeftSound(p, y, m)
       /\ truth' = [p \in Players |-> truth'[p]]
       /\ sent' = [p \in LocalPlayers |-> sent'[p]]
  BY <1>1, <1>3, <1>7, <1>9, <1>10, ReturnSettles
<1>12. user \in [cells : [0 .. MaxPrediction -> Cell], game : GameState]
  <2>1. sl.saved_states \in [0 .. MaxPrediction -> Cell] /\ game \in GameState
    BY <1>2 DEF TypeOK, SyncLayer
  <2>2. y.requests \in Seq(SaveOrLoad \cup Advance)
    BY <1>5 DEF CallTyped, Shaped
  <2> QED BY <1>2, <1>8, <2>1, <2>2, FulfilType
<1>13. y.sl \in SyncLayer /\ y.disconnect_frame \in FrameOrNull /\ y.ok \in BOOLEAN
  BY <1>5 DEF CallTyped, Shaped
<1>14. SyncLayer' = SyncLayer
  BY <1>1 DEF SyncLayer, MaxPrediction
<1>15. /\ sl' \in SyncLayer
       /\ sl'.input_queues = y.sl.input_queues
       /\ sl'.current_frame = y.sl.current_frame
  <2>1. sl' = IF y.ok THEN [y.sl EXCEPT !.saved_states = user.cells] ELSE y.sl
    BY <1>9 DEF Return
  <2>2. user.cells \in [0 .. MaxPrediction -> Cell]
    BY <1>12
  <2>3. CASE y.ok
    BY <1>13, <2>1, <2>2, <2>3 DEF SyncLayer
  <2>4. CASE ~y.ok
    BY <1>13, <2>1, <2>4
  <2> QED BY <2>3, <2>4
<1>16. /\ local_connect_status' = y.status /\ local_inputs' = y.local_inputs
       /\ broadcast' = y.broadcast /\ disconnect_frame' = y.disconnect_frame
       /\ result' \in {"Ok", "Err"} /\ game' \in GameState
  <2>1. user.game \in GameState /\ game \in GameState
    BY <1>2, <1>12 DEF TypeOK
  <2> QED BY <1>9, <2>1 DEF Return
<1>17. \A p \in Players : Extends(truth[p], truth'[p])
  BY <1>11 DEF PlayerLeftSound
<1>18. Exposes /\ exposed' >= confirmed_frame
  <2>1. PICK a \in Int, b \in Int : a = exposed /\ b = confirmed_frame
    BY <1>2 DEF TypeOK, FrameOrNull, NULL_FRAME
  <2>2. exposed' = MaxFrameOf(a, b)
    BY <1>1, <2>1 DEF Expose
  <2> QED BY <2>1, <2>2 DEF Exposes, MaxFrameOf
<1>19. SpectatorsSeeFinalInputs' /\ Len(broadcast') <= exposed' + 1 /\ broadcast' \in GameState
  BY <1>1, <1>6, <1>16, <1>17, <1>18, CallBroadcasts
<1>20. TypeOK'
  <2>1. exposed' \in FrameOrNull
    BY <1>18, ExposedType
  <2>2. DOMAIN local_checksum_history' \subseteq Nat /\ last_sent_checksum_frame' \in FrameOrNull
    BY <1>1, <1>2, ChecksumType
  <2>3. truth' \in [Players -> Seq(Input)]
    <3>1. \A p \in Players : truth'[p] \in Seq(Input)
      BY <1>17 DEF Extends
    <3> QED BY <1>11, <3>1
  <2>4. sent' \in [LocalPlayers -> Seq(Input)]
    <3>1. \A p \in LocalPlayers : sent'[p] \in Seq(Input)
      BY <1>11, <2>3, LocalPlayersAssumption DEF PlayerLeftSound
    <3> QED BY <1>11, <3>1
  <2>5. y.status \in [Players -> Status] /\ y.local_inputs \in [LocalPlayers -> PlayerInput \cup {None}]
    BY <1>5 DEF CallTyped
  <2> QED BY <1>1, <1>2, <1>13, <1>14, <1>15, <1>16, <1>19, <2>1, <2>2, <2>3, <2>4, <2>5 DEF TypeOK
<1>21. QueuesHold'
  BY <1>11, <1>15 DEF QueuesHold, PlayerLeftSound
<1>22. LocalsAt(m)'
  <2>1. m >= y.sl.current_frame
    BY <1>7, <1>10 DEF CallStored
  <2>2. ASSUME NEW p \in LocalPlayers
        PROVE  /\ Awaits(sl.input_queues[p], m)'
               /\ ~local_connect_status'[p].disconnected
               /\ local_connect_status'[p].last_frame = sl'.input_queues[p].last_added_frame
               /\ m = sl'.current_frame /\ local_inputs'[p] # None => local_inputs'[p].frame = m
    <3>1. /\ Awaits(y.sl.input_queues[p], m)
          /\ ~y.status[p].disconnected
          /\ y.status[p].last_frame = y.sl.input_queues[p].last_added_frame
      BY <1>11, LocalPlayersAssumption DEF PlayerLeftSound
    <3>2. m = y.sl.current_frame /\ y.local_inputs[p] # None => y.local_inputs[p].frame = m
      BY <1>7, <1>10 DEF CallStored
    <3>3. Awaits(sl.input_queues[p], m)'
      BY <1>1, <1>15, <3>1 DEF Awaits, MaxPrediction
    <3> QED BY <1>15, <1>16, <3>1, <3>2, <3>3
  <2> QED BY <1>15, <2>1, <2>2 DEF LocalsAt
<1>23. StoredIsSent'
  BY <1>11, LocalPlayersAssumption DEF StoredIsSent, PlayerLeftSound
<1>24. RemotesBehind'
  <2>1. ASSUME NEW p \in Remotes
        PROVE  /\ sl'.input_queues[p].frame_delay = 0
               /\ local_connect_status'[p].last_frame <= sl'.input_queues[p].last_added_frame
               /\ sl'.input_queues[p].frozen => committed'[p] # NULL_FRAME
    <3>1. p \in Players /\ p \notin LocalPlayers
      BY DEF Remotes
    <3>2. /\ SameInputs(sl.input_queues[p], y.sl.input_queues[p])
          /\ y.status[p] = local_connect_status[p]
      BY <1>11, <3>1 DEF PlayerLeftSound
    <3>3. /\ sl.input_queues[p].frame_delay = 0
          /\ local_connect_status[p].last_frame <= sl.input_queues[p].last_added_frame
          /\ sl.input_queues[p].frozen => committed[p] # NULL_FRAME
      BY DEF SessionInv, RemotesBehind
    <3> QED BY <1>1, <1>15, <1>16, <3>2, <3>3 DEF SameInputs
  <2> QED BY <2>1 DEF RemotesBehind, Remotes
<1>25. MayHalt /\ Grows
  BY <1>1, <1>17 DEF MayHalt, Grows
<1>26. ASSUME NEW p \in Players PROVE LossKnown(p)'
  <2>1. CASE p \in LocalPlayers
    <3>1. ~local_connect_status[p].disconnected
      BY <1>3, <2>1 DEF LocalsAt
    <3>2. ~local_connect_status'[p].disconnected
      BY <1>11, <1>16, <2>1 DEF PlayerLeftSound
    <3> QED BY <1>1, <3>1, <3>2, ConnectedKnown
  <2>2. CASE p \notin LocalPlayers
    <3>1. /\ SameInputs(sl.input_queues[p], y.sl.input_queues[p])
          /\ y.status[p] = local_connect_status[p]
      BY <1>11, <2>2 DEF PlayerLeftSound
    <3>2. SlotKept(p)
      BY <1>1, <1>15, <1>16, <1>17, <3>1 DEF SlotKept, SameInputs
    <3> QED BY <1>25, <3>2, LossKept
  <2> QED BY <2>1, <2>2
<1>27. ExposedFramesAreKnown'
  BY <1>18, <1>25, ExposedKept
<1>28. ExposureHeld'
  <2>1. ASSUME drop # None
        PROVE  exposed' <= drop.held_at /\ drop.held_at <= drop.high
    BY <1>18, <2>1, ExposedType, ConfirmedBounds DEF SessionInv, ExposureHeld
  <2>2. (drop # None)' => (exposed <= drop.held_at /\ drop.held_at <= drop.high)'
    BY <1>1, <2>1
  <2> QED BY <1>19, <2>2 DEF ExposureHeld
<1> QED BY <1>19, <1>20, <1>21, <1>22, <1>23, <1>24, <1>26, <1>27, <1>28 DEF SessionInv

-----------------------------------------------------------------------------
(* The theorems.                                                           *)

\* The invariant survives every step, and a step's cut is above what was exposed.
LEMMA StepInv ==
    ASSUME SessionInv, [Next]_vars
    PROVE  SessionInv' /\ (CutsAbove \/ UNCHANGED vars)
<1>1. ASSUME NEW p \in LocalPlayers, NEW value \in Payload[p], AddLocalInput(p, value)
      PROVE  SessionInv' /\ CutsAbove
  BY <1>1, AddLocalInputKeeps DEF AddLocalInput, CutsAbove
<1>2. CASE AdvanceFrame
  BY <1>2, AdvanceFrameKeeps DEF AdvanceFrame, CutsAbove
<1>3. CASE AdvanceFrameHalts
  BY <1>3, AdvanceFrameHaltsKeeps DEF AdvanceFrameHalts, CutsAbove
<1>4. ASSUME NEW p \in LocalPlayers, NEW delay \in 0 .. MaxInputDelay, SetInputDelay(p, delay)
      PROVE  SessionInv' /\ CutsAbove
  BY <1>4, SetInputDelayKeeps DEF SetInputDelay, CutsAbove
<1>5. ASSUME NEW p \in Remotes, NEW value \in Payload[p], RemoteInput(p, value)
      PROVE  SessionInv' /\ CutsAbove
  BY <1>5, RemoteInputKeeps DEF RemoteInput, CutsAbove
<1>6. ASSUME NEW e \in Remotes, NEW p \in Remotes, NEW frame \in RemoteFrames, Gossip(e, p, frame)
      PROVE  SessionInv' /\ CutsAbove
  BY <1>6, GossipKeeps DEF Gossip, CutsAbove
<1>7. ASSUME NEW e \in Remotes, NEW p \in Removable \cup Disconnectable, NEW frame \in RemoteFrames,
             GossipDisconnect(e, p, frame)
      PROVE  SessionInv' /\ CutsAbove
  <2>1. p \in Players
    BY PlayersOfMode DEF SessionInv
  <2> QED BY <1>7, <2>1, GossipDisconnectKeeps DEF GossipDisconnect, CutsAbove
<1>8. CASE ConfirmedFrame
  BY <1>8, ConfirmedFrameKeeps DEF ConfirmedFrame, CutsAbove
<1>9. ASSUME NEW p \in Disconnectable, DisconnectPlayer(p)
      PROVE  SessionInv' /\ CutsAbove
  BY <1>9, DisconnectPlayerKeeps DEF DisconnectPlayer, CutsAbove
<1>10. ASSUME NEW p \in Removable, BeginDrop(p)
       PROVE  SessionInv' /\ CutsAbove
  BY <1>10, BeginDropKeeps
<1>11. ASSUME drop # None, NEW n \in 0 .. LastFrame + 1, NEW cut \in RemoteFrames,
              NEW values \in [1 .. n -> Payload[drop.target]], CommitDrop(cut, values)
       PROVE  SessionInv' /\ CutsAbove
  <2>1. n \in Nat
    BY BoundsAssumption
  <2> QED BY <1>11, <2>1, CommitDropKeeps
<1>12. CASE FailDrop
  BY <1>12, FailDropKeeps DEF FailDrop, CutsAbove
<1>13. CASE UNCHANGED vars
  <2>1. UNCHANGED <<mode, checksum_vars, sl, game, local_inputs, local_connect_status, running, state,
                    disconnect_frame, halt_confirmed_ceiling, exposed, drop, committed, broadcast,
                    result, sent, truth>> /\ peer_connect_status' = peer_connect_status
    BY <1>13 DEF vars, checksum_vars
  <2>2. peer_connect_status' \in [Remotes -> [Players -> Status]]
    BY <2>1 DEF SessionInv, TypeOK
  <2> QED BY <1>13, <2>1, <2>2, PeerReportKeeps
<1> QED BY <1>1, <1>2, <1>3, <1>4, <1>5, <1>6, <1>7, <1>8, <1>9, <1>10, <1>11, <1>12, <1>13 DEF Next

\* The inductive invariant of every session, in every mode and with any number of
\* players: each queue holds what its player really gave, the local players' inputs
\* are due for one frame, and each loss is known or has halted the session.
THEOREM SessionInvariant == Spec => []SessionInv
<1>1. Init => SessionInv
  BY InitInv
<1>2. SessionInv /\ [Next]_vars => SessionInv'
  BY StepInv
<1> QED BY <1>1, <1>2, PTL DEF Spec

\* Every field of a session keeps its type, whatever it receives and whoever is lost:
\* advance_frame's requests, the cells the game fills and the vectors it simulates are
\* always complete (src/src/sessions/p2p_session.rs, advance_frame).
THEOREM SessionTyped == Spec => []TypeOK
<1>1. SessionInv => TypeOK
  BY DEF SessionInv
<1> QED BY <1>1, SessionInvariant, PTL

\* No frame is ever reported as confirmed that some player has not really given an
\* input for, unless a drop agreed on it (confirmed_frame, its floors and ceilings).
THEOREM ExposedIsKnown == Spec => []ExposedFramesAreKnown
<1>1. SessionInv => ExposedFramesAreKnown
  BY DEF SessionInv
<1> QED BY <1>1, SessionInvariant, PTL

\* What send_confirmed_inputs_to_spectators sends is final: neither a late input, nor a
\* longer delay, nor a drop committed later changes a frame that was sent.
THEOREM SpectatorsSeeFinal == Spec => []SpectatorsSeeFinalInputs
<1>1. SessionInv => SpectatorsSeeFinalInputs
  BY DEF SessionInv
<1> QED BY <1>1, SessionInvariant, PTL

\* The peers are sent exactly the inputs that the local queues were given, those a
\* longer delay replicates included.
THEOREM StoredInputsAreSent == Spec => []StoredIsSent
<1>1. SessionInv => StoredIsSent
  BY DEF SessionInv
<1> QED BY <1>1, SessionInvariant, PTL

\* No step commits a coordinated drop below a frame that was reported as confirmed.
THEOREM DropsCutAboveExposed == Spec => DropKeepsExposedFrames
<1>1. SessionInv /\ [Next]_vars =>
          [\A p \in Players : committed'[p] # committed[p] => committed'[p] >= exposed]_vars
  BY StepInv DEF CutsAbove
<1> QED BY <1>1, SessionInvariant, PTL DEF Spec, DropKeepsExposedFrames

=============================================================================
