---------------------- MODULE P2PSessionRollbackProofs ----------------------
(***************************************************************************)
(* What rollback guarantees of a session that saves every state, in        *)
(* lockstep or with any prediction window: no call of advance_frame fails, *)
(* the state whose checksum is due is held, and the confirmed frame never  *)
(* moves back.                                                             *)
(*                                                                         *)
(* The argument is the invariant RollbackInv, beside SessionInv.  The      *)
(* confirmed frame is at least what was exposed (Above, kept as statuses   *)
(* and reports only grow or stop to count), so what a late input or a drop *)
(* makes wrong lies after it (PendingAbove), inside the window of at most  *)
(* MaxPrediction frames (InWindow) whose states are in their cells         *)
(* (StatesSaved) and whose inputs no queue has lost (InputsRetained).      *)
(* A call is followed stage by stage with InStep: what the game would be   *)
(* after the requests issued so far is where the sync layer is.            *)
(***************************************************************************)
EXTENDS P2PSessionProofs

-----------------------------------------------------------------------------
(* The confirmed frame never falls below what was exposed.                 *)

\* Nothing the confirmed frame is the minimum of lies below y.
Above(y) ==
    /\ \A p \in LocalPlayers : local_connect_status[p].last_frame >= y
    /\ \A p \in Remotes : ~local_connect_status[p].disconnected
                              => local_connect_status[p].last_frame >= y
    /\ \A p \in Remotes :
           ~local_connect_status[p].disconnected \/ (\E r \in Reports(p) : ~r.disconnected)
               => \A r \in Reports(p) : r.last_frame >= y
    /\ \A f \in HeldBack : f >= y

LEMMA BoundAbove ==
    ASSUME SessionInv, NEW p \in Remotes, NEW y \in Int
    PROVE  (\A f \in remote_slot_confirmed_bound(p) : f >= y)
             <=> /\ ~local_connect_status[p].disconnected => local_connect_status[p].last_frame >= y
                 /\ ~local_connect_status[p].disconnected \/ (\E r \in Reports(p) : ~r.disconnected)
                       => \A r \in Reports(p) : r.last_frame >= y
<1> DEFINE frames == {r.last_frame : r \in Reports(p)}
<1>1. p \in Players /\ TypeOK
  BY DEF Remotes, SessionInv
<1>2. PICK last \in FrameOrNull : last = local_connect_status[p].last_frame
  BY <1>1, StatusBelow DEF Status
<1>3. frames \subseteq FrameOrNull
  BY <1>1, ReportsType
<1>4. PICK S, gone : S = frames \cup {last} /\ gone = local_connect_status[p].disconnected
  OBVIOUS
<1>5. FrameOrNull \subseteq Int
  BY DEF FrameOrNull, NULL_FRAME
<1>6. (\A r \in Reports(p) : r.last_frame >= y) <=> \A f \in frames : f >= y
  OBVIOUS
<1>7. CASE ~gone
  <2>1. remote_slot_confirmed_bound(p) = {MinOf(S)}
    BY <1>2, <1>4, <1>7 DEF remote_slot_confirmed_bound
  <2> HIDE DEF frames
  <2>2. MinOf(S) \in S /\ \A z \in S : MinOf(S) <= z
    BY <1>3, <1>4, MinOfFrames
  <2>3. PICK m \in Int : m = MinOf(S) /\ m \in S /\ \A z \in S : m <= z
    BY <1>3, <1>4, <1>5, <2>2
  <2>4. m >= y <=> \A z \in S : z >= y
    BY <1>3, <1>4, <1>5, <2>3
  <2> QED BY <1>2, <1>4, <1>6, <1>7, <2>1, <2>3, <2>4
<1>8. CASE gone /\ \E r \in Reports(p) : ~r.disconnected
  <2>1. remote_slot_confirmed_bound(p) = {MinOf(frames)} /\ frames # {}
    BY <1>4, <1>8 DEF remote_slot_confirmed_bound
  <2> HIDE DEF frames
  <2>2. MinOf(frames) \in frames /\ \A z \in frames : MinOf(frames) <= z
    BY <1>3, <2>1, MinOfFrames
  <2>3. PICK m \in Int : m = MinOf(frames) /\ m \in frames /\ \A z \in frames : m <= z
    BY <1>3, <1>5, <2>2
  <2>4. m >= y <=> \A z \in frames : z >= y
    BY <1>3, <1>5, <2>3
  <2> QED BY <1>4, <1>6, <1>8, <2>1, <2>3, <2>4
<1>9. CASE gone /\ ~(\E r \in Reports(p) : ~r.disconnected)
  <2>1. remote_slot_confirmed_bound(p) = {}
    BY <1>4, <1>9 DEF remote_slot_confirmed_bound
  <2> QED BY <1>4, <1>9, <2>1
<1> QED BY <1>1, <1>4, <1>7, <1>8, <1>9

\* The confirmed frame is at least y exactly then.
LEMMA ConfirmedAbove ==
    ASSUME SessionInv, NEW y \in Int
    PROVE  confirmed_frame >= y <=> Above(y)
<1> DEFINE bounds == {local_connect_status[p].last_frame : p \in LocalPlayers}
                         \cup UNION {remote_slot_confirmed_bound(p) : p \in Remotes}
           all == HeldBack \cup {IF bounds = {} THEN 0 ELSE MinOf(bounds)}
<1>1. bounds \subseteq FrameOrNull
  <2>1. ASSUME NEW p \in LocalPlayers PROVE local_connect_status[p].last_frame \in FrameOrNull
    BY StatusBelow, LocalPlayersAssumption DEF Status
  <2> QED BY <2>1, SlotBound
<1>2. bounds # {}
  BY LocalPlayersAssumption
<1>3. (\A f \in bounds : f >= y)
        <=> /\ \A p \in LocalPlayers : local_connect_status[p].last_frame >= y
            /\ \A p \in Remotes : \A f \in remote_slot_confirmed_bound(p) : f >= y
  OBVIOUS
<1>4. (\A f \in bounds : f >= y)
        <=> /\ \A p \in LocalPlayers : local_connect_status[p].last_frame >= y
            /\ \A p \in Remotes : ~local_connect_status[p].disconnected
                              => local_connect_status[p].last_frame >= y
            /\ \A p \in Remotes :
                   ~local_connect_status[p].disconnected \/ (\E r \in Reports(p) : ~r.disconnected)
                       => \A r \in Reports(p) : r.last_frame >= y
  <2> HIDE DEF bounds
  <2> QED BY <1>3, BoundAbove
<1>5. confirmed_frame = MinOf(all)
  BY DEF confirmed_frame
<1> HIDE DEF bounds
<1>6. FrameOrNull \subseteq Int
  BY DEF FrameOrNull, NULL_FRAME
<1>7. PICK m \in FrameOrNull : m = MinOf(bounds) /\ m \in bounds /\ \A z \in bounds : m <= z
  BY <1>1, <1>2, MinOfFrames
<1>8. m >= y <=> \A f \in bounds : f >= y
  BY <1>1, <1>6, <1>7
<1>9. all = HeldBack \cup {m}
  BY <1>2, <1>7
<1>10. HeldBack \subseteq FrameOrNull
  BY DEF SessionInv, TypeOK, HeldBack, FrameOrNull
<1> HIDE DEF all
<1>11. PICK c \in FrameOrNull : c = MinOf(all) /\ c \in all /\ \A z \in all : c <= z
  BY <1>7, <1>9, <1>10, MinOfFrames
<1>12. c >= y <=> \A f \in all : f >= y
  BY <1>6, <1>7, <1>9, <1>10, <1>11
<1>13. (\A f \in all : f >= y) <=> ((\A f \in HeldBack : f >= y) /\ m >= y)
  BY <1>9
<1> QED BY <1>4, <1>5, <1>8, <1>11, <1>12, <1>13 DEF Above

\* What the other endpoints report of player p only grows: a report is at least an
\* earlier one, and of a player who is not more connected than it was there.
ReportsGrow(p) ==
    \A r \in Reports(p)' : \E o \in Reports(p) :
        /\ o.last_frame <= r.last_frame
        /\ o.disconnected => r.disconnected

\* A remote slot is disconnected or has not lost anything, and its reports have
\* grown or no longer count.
RemoteGrows(p) ==
    /\ \/ local_connect_status'[p].disconnected
       \/ /\ ~local_connect_status[p].disconnected
          /\ local_connect_status'[p].last_frame >= local_connect_status[p].last_frame
    /\ \/ ReportsGrow(p)
       \/ /\ local_connect_status'[p].disconnected
          /\ \A r \in Reports(p)' : r.disconnected

LEMMA AboveKept ==
    ASSUME SessionInv, SessionInv', NEW y \in Int, Above(y),
           \A p \in LocalPlayers :
               local_connect_status'[p].last_frame >= local_connect_status[p].last_frame,
           \A p \in Remotes : RemoteGrows(p),
           \A f \in HeldBack' : f >= y
    PROVE  Above(y)'
<1>1. \A p \in Players : /\ local_connect_status[p].last_frame \in Int
                         /\ local_connect_status'[p].last_frame \in Int
  BY DEF SessionInv, TypeOK, Status, FrameOrNull, NULL_FRAME
<1>2. \A p \in LocalPlayers : local_connect_status'[p].last_frame >= y
  BY <1>1, LocalPlayersAssumption DEF Above
<1>3. ASSUME NEW p \in Remotes, ~local_connect_status'[p].disconnected
      PROVE  local_connect_status'[p].last_frame >= y
  BY <1>1, <1>3 DEF Above, RemoteGrows, Remotes
<1>4. ASSUME NEW p \in Remotes,
             ~local_connect_status'[p].disconnected \/ (\E r \in Reports(p)' : ~r.disconnected),
             NEW r \in Reports(p)'
      PROVE  r.last_frame >= y
  <2>1. ReportsGrow(p)
    BY <1>4 DEF RemoteGrows
  <2>2. ~local_connect_status[p].disconnected \/ (\E o \in Reports(p) : ~o.disconnected)
    BY <1>4, <2>1 DEF RemoteGrows, ReportsGrow
  <2>3. PICK o \in Reports(p) : o.last_frame <= r.last_frame
    BY <2>1 DEF ReportsGrow
  <2>4. Reports(p) \subseteq Status
    BY ReportsType DEF SessionInv
  <2>5. Reports(p)' \subseteq Status
    BY DEF SessionInv, TypeOK, Reports, Remotes
  <2>6. o.last_frame \in Int /\ r.last_frame \in Int
    BY <2>4, <2>5 DEF Status, FrameOrNull, NULL_FRAME
  <2>7. o.last_frame >= y
    BY <2>2 DEF Above
  <2> QED BY <2>3, <2>6, <2>7
<1> QED BY <1>2, <1>3, <1>4 DEF Above

\* Reports are the same or fewer when no status of a peer changes and none starts.
LEMMA ReportsFewer ==
    ASSUME NEW p \in Remotes, \A e \in Remotes : running'[e] => running[e], TypeOK,
           peer_connect_status' = peer_connect_status
    PROVE  ReportsGrow(p)
<1>1. \A r \in Reports(p)' : r \in Reports(p)
  BY DEF Reports
<1>2. Reports(p) \subseteq Status
  BY ReportsType
<1>3. \A r \in Reports(p) : r.last_frame <= r.last_frame
  BY <1>2 DEF Status, FrameOrNull, NULL_FRAME
<1> QED BY <1>1, <1>3 DEF ReportsGrow

\* What is exposed is at most what is confirmed.
ExposedConfirmed == Above(exposed)

LEMMA ExposedBelow ==
    ASSUME SessionInv, ExposedConfirmed, Exposes
    PROVE  exposed' \in Int /\ exposed' <= confirmed_frame /\ Above(exposed')
             /\ exposed <= confirmed_frame
<1>1. exposed' \in Int /\ exposed \in Int /\ (exposed' = exposed \/ exposed' = confirmed_frame)
  BY ExposedType
<1>2. confirmed_frame >= exposed /\ confirmed_frame \in Int
  BY <1>1, ConfirmedAbove, ConfirmedBounds DEF ExposedConfirmed, FrameOrNull, NULL_FRAME
<1> QED BY <1>1, <1>2, ConfirmedAbove

\* Nothing a halt or a drop holds confirmation at is below what is exposed now.
HeldAbove == \A f \in HeldBack' : f >= exposed'

LEMMA HeldSame ==
    ASSUME SessionInv, ExposedConfirmed, Exposes, UNCHANGED <<halt_confirmed_ceiling, drop>>
    PROVE  HeldAbove
<1>1. HeldBack' = HeldBack
  BY DEF HeldBack
<1> QED BY <1>1, ExposedBelow DEF Above, HeldAbove

LEMMA HeldHalted ==
    ASSUME SessionInv, ExposedConfirmed, Exposes, NEW ceiling \in FrameOrNull, Halt(ceiling),
           ceiling >= exposed', drop' \in {drop, None}
    PROVE  HeldAbove
<1>1. halt_confirmed_ceiling' = ceiling
        \/ (halt_confirmed_ceiling # None /\ halt_confirmed_ceiling' = halt_confirmed_ceiling)
  BY DEF Halt, MinFrame
<1>2. halt_confirmed_ceiling' >= exposed'
  BY <1>1, ExposedBelow DEF Above, HeldBack
<1>3. drop' # None => drop'.held_at >= exposed'
  BY ExposedBelow DEF Above, HeldBack
<1> QED BY <1>2, <1>3 DEF HeldAbove, HeldBack

LEMMA ExposedKeeps ==
    ASSUME SessionInv, SessionInv', ExposedConfirmed, Exposes, HeldAbove,
           \A p \in LocalPlayers :
               local_connect_status'[p].last_frame >= local_connect_status[p].last_frame,
           \A p \in Remotes : RemoteGrows(p)
    PROVE  ExposedConfirmed'
<1>1. PICK y \in Int : y = exposed' /\ Above(y)
  BY ExposedBelow
<1>2. \A f \in HeldBack' : f >= y
  BY <1>1 DEF HeldAbove
<1>3. Above(y)'
  BY <1>1, <1>2, AboveKept
<1> QED BY <1>1, <1>3 DEF ExposedConfirmed, Above

\* The statuses of the step: nobody but the lost is told apart from before.
LEMMA StatusSame ==
    ASSUME SessionInv, UNCHANGED <<local_connect_status, peer_connect_status, running>>
    PROVE  /\ \A p \in LocalPlayers :
                  local_connect_status'[p].last_frame >= local_connect_status[p].last_frame
           /\ \A p \in Remotes : RemoteGrows(p)
<1>1. \A p \in Players : local_connect_status[p].last_frame \in Int
  BY DEF SessionInv, TypeOK, Status, FrameOrNull, NULL_FRAME
<1>2. \A p \in Remotes : ReportsGrow(p)
  BY ReportsFewer DEF SessionInv
<1> QED BY <1>1, <1>2, LocalPlayersAssumption DEF RemoteGrows, Remotes

\* Players are lost, whatever else stays as it is.
LEMMA StatusLost ==
    ASSUME SessionInv, peer_connect_status' = peer_connect_status,
           \A e \in Remotes : running'[e] => running[e],
           \A p \in Players : \/ local_connect_status'[p] = local_connect_status[p]
                              \/ p \in Remotes /\ local_connect_status'[p].disconnected
    PROVE  /\ \A p \in LocalPlayers :
                  local_connect_status'[p].last_frame >= local_connect_status[p].last_frame
           /\ \A p \in Remotes : RemoteGrows(p)
<1>1. \A p \in Players : local_connect_status[p].last_frame \in Int
  BY DEF SessionInv, TypeOK, Status, FrameOrNull, NULL_FRAME
<1>2. \A p \in Remotes : ReportsGrow(p)
  BY ReportsFewer DEF SessionInv
<1> QED BY <1>1, <1>2, LocalPlayersAssumption DEF RemoteGrows, Remotes

\* Steps that leave every status and report alone.
LEMMA ExposedQuiet ==
    ASSUME SessionInv, SessionInv', ExposedConfirmed, Exposes, HeldAbove,
           UNCHANGED <<local_connect_status, peer_connect_status, running>>
    PROVE  ExposedConfirmed'
  BY StatusSame, ExposedKeeps

LEMMA ExposedLost ==
    ASSUME SessionInv, SessionInv', ExposedConfirmed, Halt(confirmed_frame), Expose(confirmed_frame),
           UNCHANGED <<peer_connect_status, drop>>,
           \A e \in Remotes : running'[e] => running[e],
           \A p \in Players : \/ local_connect_status'[p] = local_connect_status[p]
                              \/ p \in Remotes /\ local_connect_status'[p].disconnected
    PROVE  ExposedConfirmed'
<1>1. Exposes
  BY DEF Expose, Exposes
<1>2. HeldAbove
  BY <1>1, ExposedBelow, ConfirmedBounds, HeldHalted DEF FrameOrNull, NULL_FRAME
<1> QED BY <1>1, <1>2, StatusLost, ExposedKeeps

LEMMA ExposedGossip ==
    ASSUME SessionInv, SessionInv', ExposedConfirmed, NEW e \in Remotes, NEW p \in Remotes,
           NEW frame \in RemoteFrames, Gossip(e, p, frame)
    PROVE  ExposedConfirmed'
<1>1. /\ UNCHANGED <<local_connect_status, running, halt_confirmed_ceiling, drop, exposed>>
      /\ peer_connect_status' = [peer_connect_status EXCEPT ![e][p].last_frame = frame]
      /\ ~peer_connect_status[e][p].disconnected
      /\ peer_connect_status[e][p].last_frame < frame
  BY DEF Gossip
<1>2. peer_connect_status \in [Remotes -> [Players -> Status]] /\ p \in Players /\ frame \in Int
  BY BoundsAssumption DEF SessionInv, TypeOK, Remotes, RemoteFrames
<1>3. Exposes
  BY <1>1 DEF Exposes
<1>4. HeldAbove
  BY <1>1, <1>3, HeldSame
<1>5. ASSUME NEW i \in Remotes PROVE ReportsGrow(i)
  <2>1. SUFFICES ASSUME NEW d \in Remotes \ {i}, running[d]
                 PROVE  /\ peer_connect_status[d][i].last_frame <= peer_connect_status'[d][i].last_frame
                        /\ peer_connect_status[d][i].disconnected => peer_connect_status'[d][i].disconnected
    BY <1>1 DEF ReportsGrow, Reports, Remotes
  <2>2. i \in Players /\ peer_connect_status[d][i] \in Status
    BY <1>2 DEF Remotes
  <2>3. peer_connect_status[d][i].last_frame \in Int
    BY <2>2 DEF Status, FrameOrNull, NULL_FRAME
  <2>4. CASE d = e /\ i = p
    <3>1. peer_connect_status'[e][p].last_frame = frame
          /\ peer_connect_status'[e][p].disconnected = peer_connect_status[e][p].disconnected
      BY <1>1, <1>2 DEF Status
    <3> QED BY <1>1, <1>2, <2>3, <2>4, <3>1
  <2>5. CASE ~(d = e /\ i = p)
    <3>1. peer_connect_status'[d][i] = peer_connect_status[d][i]
      BY <1>1, <1>2, <2>2, <2>5
    <3> QED BY <2>3, <3>1
  <2> QED BY <2>4, <2>5
<1>6. \A i \in Players : local_connect_status[i].last_frame \in Int
  BY DEF SessionInv, TypeOK, Status, FrameOrNull, NULL_FRAME
<1>7. \A i \in Remotes : RemoteGrows(i)
  BY <1>1, <1>5, <1>6 DEF RemoteGrows, Remotes
<1>8. \A i \in LocalPlayers :
          local_connect_status'[i].last_frame >= local_connect_status[i].last_frame
  BY <1>1, <1>6, LocalPlayersAssumption
<1> QED BY <1>3, <1>4, <1>7, <1>8, ExposedKeeps

\* A player that was dropped has left at most one other peer.
LastPairAfterDrops ==
    \A p \in Remotes : committed[p] # NULL_FRAME => \A a, b \in Remotes \ {p} : a = b

\* A peer that reports the cut of a drop may report less than before; it is then the
\* only other peer, and with its report the dropped player no longer counts.
LEMMA ExposedGossipDisconnect ==
    ASSUME SessionInv, SessionInv', ExposedConfirmed, LastPairAfterDrops,
           NEW e \in Remotes, NEW p \in Remotes,
           NEW frame \in RemoteFrames, GossipDisconnect(e, p, frame)
    PROVE  ExposedConfirmed'
<1>1. /\ UNCHANGED <<local_connect_status, running, halt_confirmed_ceiling, drop, exposed, committed>>
      /\ peer_connect_status' = [peer_connect_status EXCEPT
                                  ![e][p] = [disconnected |-> TRUE, last_frame |-> frame]]
      /\ ~peer_connect_status[e][p].disconnected
      /\ e # p /\ running[e]
      /\ committed[p] = frame \/ frame >= peer_connect_status[e][p].last_frame
  BY DEF GossipDisconnect
<1>2. /\ peer_connect_status \in [Remotes -> [Players -> Status]] /\ p \in Players /\ frame \in Int
      /\ frame # NULL_FRAME
  BY BoundsAssumption DEF SessionInv, TypeOK, Remotes, RemoteFrames, NULL_FRAME
<1>3. Exposes
  BY <1>1 DEF Exposes
<1>4. HeldAbove
  BY <1>1, <1>3, HeldSame
<1>5. peer_connect_status'[e][p] = [disconnected |-> TRUE, last_frame |-> frame]
  BY <1>1, <1>2
<1>6. \A i \in Players : local_connect_status[i].last_frame \in Int
  BY DEF SessionInv, TypeOK, Status, FrameOrNull, NULL_FRAME
<1>7. ASSUME NEW i \in Remotes, committed[p] # frame \/ i # p PROVE ReportsGrow(i)
  <2>1. SUFFICES ASSUME NEW d \in Remotes \ {i}, running[d]
                 PROVE  /\ peer_connect_status[d][i].last_frame <= peer_connect_status'[d][i].last_frame
                        /\ peer_connect_status[d][i].disconnected => peer_connect_status'[d][i].disconnected
    BY <1>1 DEF ReportsGrow, Reports, Remotes
  <2>2. i \in Players /\ peer_connect_status[d][i] \in Status
    BY <1>2 DEF Remotes
  <2>3. peer_connect_status[d][i].last_frame \in Int
    BY <2>2 DEF Status, FrameOrNull, NULL_FRAME
  <2>4. CASE d = e /\ i = p
    <3>1. frame >= peer_connect_status[e][p].last_frame
      BY <1>1, <1>7, <2>4
    <3>2. PICK o : o = peer_connect_status[e][p]
      OBVIOUS
    <3>3. PICK z : z = peer_connect_status'[e][p]
      OBVIOUS
    <3>4. z.last_frame = frame /\ z.disconnected = TRUE
      BY <1>5, <3>3
    <3>5. o.last_frame <= z.last_frame
      BY <1>2, <2>3, <2>4, <3>1, <3>2, <3>4
    <3> QED BY <2>4, <3>2, <3>3, <3>4, <3>5
  <2>5. CASE ~(d = e /\ i = p)
    <3>1. peer_connect_status'[d][i] = peer_connect_status[d][i]
      BY <1>1, <1>2, <2>2, <2>5
    <3> QED BY <2>3, <3>1
  <2> QED BY <2>4, <2>5
<1>8. ASSUME NEW i \in Remotes PROVE RemoteGrows(i)
  <2>1. CASE committed[p] # frame \/ i # p
    <3>1. i \in Players
      BY DEF Remotes
    <3> QED BY <1>1, <1>6, <1>7, <2>1, <3>1 DEF RemoteGrows
  <2>2. CASE committed[p] = frame /\ i = p
    <3>1. local_connect_status[p] = [disconnected |-> TRUE, last_frame |-> committed[p]]
      BY <1>2, <2>2 DEF SessionInv, LossKnown
    <3>2. local_connect_status'[p].disconnected
      BY <1>1, <3>1
    <3>3. \A d \in Remotes \ {p} : d = e
      BY <1>1, <1>2, <2>2 DEF LastPairAfterDrops
    <3>4. Reports(p)' \subseteq {peer_connect_status'[e][p]}
      BY <3>3 DEF Reports, Remotes
    <3>5. \A r \in Reports(p)' : r.disconnected
      BY <1>5, <3>4
    <3> QED BY <2>2, <3>2, <3>5 DEF RemoteGrows
  <2> QED BY <2>1, <2>2
<1>9. \A i \in LocalPlayers :
          local_connect_status'[i].last_frame >= local_connect_status[i].last_frame
  BY <1>1, <1>6, LocalPlayersAssumption
<1> QED BY <1>3, <1>4, <1>8, <1>9, ExposedKeeps

-----------------------------------------------------------------------------
(* A queue that is given inputs.                                           *)

\* The queue still holds every frame from m on that it was given.
Retains(q, m) == \A f \in Nat : m <= f /\ f <= q.last_added_frame => Kept(q, f)

\* r is q after more inputs: a misprediction that is found is one of a frame that
\* was missing, none is found without a prediction, and nothing is lost from m on.
Grown(q, r, m) ==
    /\ QueueInv(r)
    /\ q.last_added_frame <= r.last_added_frame
    /\ \/ r.first_incorrect_frame = q.first_incorrect_frame
       \/ r.first_incorrect_frame > q.last_added_frame
    /\ q.prediction.frame = NULL_FRAME
         => /\ r.prediction.frame = NULL_FRAME
            /\ r.first_incorrect_frame = q.first_incorrect_frame
    /\ Retains(q, m) => Retains(r, m)

LEMMA GrownRefl ==
    ASSUME NEW q, QueueInv(q), NEW m
    PROVE  Grown(q, q, m)
<1>1. q.last_added_frame \in Int
  BY PreviousSlot
<1> QED BY <1>1 DEF Grown

LEMMA GrownTrans ==
    ASSUME NEW q, QueueInv(q), NEW r, NEW s, NEW m, Grown(q, r, m), Grown(r, s, m)
    PROVE  Grown(q, s, m)
<1>1. QueueInv(r) /\ QueueInv(s)
  BY DEF Grown
<1>2. q.last_added_frame \in Int /\ r.last_added_frame \in Int /\ s.last_added_frame \in Int
  BY <1>1, PreviousSlot
<1>3. s.first_incorrect_frame \in Int
  BY <1>1 DEF QueueInv, Queue, FrameOrNull, NULL_FRAME
<1> QED BY <1>1, <1>2, <1>3 DEF Grown

LEMMA GrownSame ==
    ASSUME NEW q, QueueInv(q), NEW r, QueueInv(r), SameEntries(q, r), SameEpisode(q, r), NEW m
    PROVE  Grown(q, r, m)
<1>1. q.last_added_frame \in Int
  BY PreviousSlot
<1>2. Retains(q, m) => Retains(r, m)
  BY EntriesKeep DEF Retains, SameEntries
<1> QED BY <1>1, <1>2 DEF Grown, SameEntries, SameEpisode

LEMMA GrownAdd ==
    ASSUME NEW q, QueueInv(q), NEW frame \in Int, NEW v \in Input, NEW floor \in Int,
           NEW m \in Int, floor <= m
    PROVE  Grown(q, add_input_by_frame(q, frame, v, floor).q, m)
<1>1. PICK res, r : res = add_input_by_frame(q, frame, v, floor) /\ r = res.q
  OBVIOUS
<1>2. QueueInv(r) /\ (~CanAddByFrame(q, frame, floor) => r = q)
  BY <1>1, AddByFrameInv DEF AddStep, add_input_by_frame
<1>3. q.last_added_frame \in Int
  BY PreviousSlot
<1>4. CASE CanAddByFrame(q, frame, floor)
  <2>1. Added(q, r, frame, v, floor) /\ frame = q.last_added_frame + 1 /\ frame \in Nat
    BY <1>1, <1>4, AddFields, CanAddNext
  <2>2. ASSUME Retains(q, m), NEW f \in Nat, m <= f, f <= frame PROVE Kept(r, f)
    <3>1. CASE f = frame
      <4>1. r.length \in Nat /\ r.length > 0 /\ r.last_added_frame = frame
        BY <2>1, QueueLengthAssumption DEF Added, QueueInv, Queue
      <4> QED BY <2>1, <3>1, <4>1 DEF Kept
    <3>2. CASE f # frame
      <4>1. Kept(q, f)
        BY <1>3, <2>1, <2>2, <3>2 DEF Retains
      <4>2. floor <= f
        BY <2>2
      <4> QED BY <1>1, <4>1, <4>2, AddKeeps
    <3> QED BY <3>1, <3>2
  <2>3. Retains(q, m) => Retains(r, m)
    BY <2>1, <2>2 DEF Retains, Added
  <2>4. r.first_incorrect_frame = q.first_incorrect_frame
          \/ (q.prediction.frame # NULL_FRAME /\ r.first_incorrect_frame = frame)
    BY <2>1 DEF Added, Settled
  <2>5. q.prediction.frame = NULL_FRAME => r.prediction.frame = NULL_FRAME
    BY <2>1 DEF Added, Settled
  <2>6. r.last_added_frame = frame
    BY <2>1 DEF Added
  <2> QED BY <1>1, <1>2, <1>3, <2>1, <2>3, <2>4, <2>5, <2>6 DEF Grown
<1>5. CASE ~CanAddByFrame(q, frame, floor)
  BY <1>1, <1>2, <1>5, GrownRefl
<1> QED BY <1>4, <1>5

LEMMA GrownRun ==
    ASSUME NEW q, QueueInv(q), NEW from \in Int, NEW inputs \in Seq(Input), NEW floor \in Int,
           NEW m \in Int, floor <= m
    PROVE  Grown(q, AddRun(q, from, inputs, floor).q, m)
<1>1. PICK Q : Q = {r \in Queue : QueueInv(r) /\ Grown(q, r, m)}
  OBVIOUS
<1>2. q \in Q
  BY <1>1, GrownRefl DEF QueueInv
<1>3. Len(inputs) \in Nat
  OBVIOUS
<1>4. ASSUME NEW r \in Q, NEW n \in 1 .. Len(inputs)
      PROVE  add_input_by_frame(r, from + n - 1, inputs[n], floor).q \in Q
  <2>1. inputs[n] \in Input /\ from + n - 1 \in Int /\ QueueInv(r) /\ Grown(q, r, m)
    BY <1>1
  <2>2. PICK s : s = add_input_by_frame(r, from + n - 1, inputs[n], floor).q
    OBVIOUS
  <2>3. Grown(r, s, m)
    BY <2>1, <2>2, GrownAdd
  <2>4. Grown(q, s, m) /\ QueueInv(s)
    BY <2>1, <2>3, GrownTrans DEF Grown
  <2> QED BY <1>1, <2>2, <2>4 DEF QueueInv
<1>5. AddRun(q, from, inputs, floor).q \in Q
  BY <1>2, <1>3, <1>4, RunStays
<1> QED BY <1>1, <1>5

LEMMA GrownInput ==
    ASSUME NEW q, QueueInv(q), NEW frame \in Nat, NEW v \in Input, NEW floor \in Int,
           q.last_added_frame = NULL_FRAME => frame + q.frame_delay <= max_frame_delay,
           NEW m \in Int, floor <= m
    PROVE  Grown(q, add_input(q, frame, v, floor).q, m)
<1>1. PICK res : res = add_input(q, frame, v, floor)
  OBVIOUS
<1>2. CASE res.q = q
  BY <1>1, <1>2, GrownRefl
<1>3. CASE \E fill : StoredAfter(q, res, fill, frame, v, floor)
  <2>1. PICK fill : StoredAfter(q, res, fill, frame, v, floor)
    BY <1>3
  <2>2. PICK to, count : to = frame + q.frame_delay /\ count = to - (q.last_added_frame + 1)
    OBVIOUS
  <2>3. /\ count \in Nat /\ QueueInv(fill)
        /\ fill = AddRun(q, q.last_added_frame + 1, Replicate(Newest(q), count), floor).q
        /\ res.q = add_input_by_frame(fill, to, v, floor).q
    BY <2>1, <2>2 DEF StoredAfter
  <2>4. to \in Int /\ q.last_added_frame + 1 \in Int /\ Replicate(Newest(q), count) \in Seq(Input)
    <3>1. q.last_added_frame \in Int /\ q.frame_delay \in Nat /\ Newest(q) \in Input
      BY PreviousSlot DEF Newest
    <3>2. Replicate(Newest(q), count) \in Seq(Input)
      BY <2>3, <3>1, ReplicateType
    <3> QED BY <2>2, <3>1, <3>2
  <2>5. Grown(q, fill, m)
    BY <2>3, <2>4, GrownRun
  <2>6. Grown(fill, res.q, m)
    BY <2>3, <2>4, GrownAdd
  <2> QED BY <1>1, <2>5, <2>6, GrownTrans
<1> QED BY <1>1, <1>2, <1>3, AddInputAt

LEMMA GrownDelay ==
    ASSUME NEW q, QueueInv(q), NEW delay \in Nat, NEW floor \in Int, NEW m \in Int, floor <= m
    PROVE  Grown(q, set_frame_delay(q, delay, floor).q, m)
<1>1. PICK r : r = set_frame_delay(q, delay, floor).q
  OBVIOUS
<1>2. QueueInv(r)
  BY <1>1, SetFrameDelayInv
<1>3. CASE r = q
  BY <1>1, <1>3, GrownRefl
<1>4. CASE r = [q EXCEPT !.frame_delay = delay]
  BY <1>1, <1>2, <1>4, DelayKeeps, GrownSame
<1>5. CASE \E fill : FilledTo(q, r, fill, delay, floor)
  <2>1. PICK fill : FilledTo(q, r, fill, delay, floor)
    BY <1>5
  <2>2. PICK count \in Nat : count = delay - q.frame_delay
    BY <2>1 DEF FilledTo
  <2>3. /\ QueueInv(fill)
        /\ fill = AddRun(q, q.last_added_frame + 1, Replicate(Newest(q), count), floor).q
        /\ r = [fill EXCEPT !.frame_delay = delay]
    BY <2>1, <2>2 DEF FilledTo
  <2>4. q.last_added_frame + 1 \in Int /\ Replicate(Newest(q), count) \in Seq(Input)
    BY PreviousSlot, ReplicateType DEF Newest
  <2>5. Grown(q, fill, m)
    BY <2>3, <2>4, GrownRun
  <2>6. Grown(fill, r, m)
    BY <1>2, <2>3, DelayKeeps, GrownSame
  <2> QED BY <1>1, <2>5, <2>6, GrownTrans
<1> QED BY <1>1, <1>3, <1>4, <1>5, SetFrameDelayCases

\* What a discard keeps.
LEMMA RetainsDiscard ==
    ASSUME NEW q, QueueInv(q), NEW before \in Nat, NEW m \in Int, before <= m, Retains(q, m)
    PROVE  LET r == discard_confirmed_frames(q, before)
           IN  Retains(r, m) /\ SameEpisode(q, r) /\ QueueInv(r)
<1>1. PICK r : r = discard_confirmed_frames(q, before)
  OBVIOUS
<1>2. QueueInv(r) /\ r.last_added_frame = q.last_added_frame /\ q.last_added_frame \in Int
  BY <1>1, DiscardInv, PreviousSlot
<1>3. CASE r = q
  BY <1>1, <1>2, <1>3 DEF SameEpisode
<1>4. CASE Discarded(q, r, DiscardBound(q, before))
  <2>1. PICK bound \in Int : bound = DiscardBound(q, before) /\ bound <= before
    BY DEF DiscardBound, MinFrame, QueueInv, Queue, FrameOrNull, NULL_FRAME
  <2>2. /\ SameEpisode(q, r) /\ r.length \in 1 .. q.length /\ q.length \in Nat
        /\ r.length = q.length \/ q.last_added_frame + 1 - r.length <= bound
        /\ r.reclaimed_floor_input =
               IF q.reclaimed_floor_input # None /\ q.reclaimed_floor_input.frame < bound
               THEN None ELSE q.reclaimed_floor_input
    BY <1>4, <2>1 DEF Discarded, QueueInv, Queue
  <2>3. ASSUME NEW f \in Nat, m <= f, f <= r.last_added_frame PROVE Kept(r, f)
    <3>1. Kept(q, f) /\ bound <= f
      BY <1>2, <2>1, <2>3 DEF Retains
    <3>2. CASE f >= q.last_added_frame + 1 - r.length
      BY <1>2, <2>2, <2>3, <3>2 DEF Kept
    <3>3. CASE ~(f >= q.last_added_frame + 1 - r.length)
      <4>1. r.length = q.length
        BY <1>2, <2>2, <3>1, <3>3
      <4>2. /\ q.reclaimed_floor_input # None /\ q.reclaimed_floor_input.frame = f
            /\ f = q.last_added_frame - q.length
        BY <3>1, <3>3, <4>1 DEF Kept
      <4>3. r.reclaimed_floor_input = q.reclaimed_floor_input
        BY <2>2, <3>1, <4>2
      <4> QED BY <1>2, <2>2, <2>3, <4>1, <4>2, <4>3 DEF Kept
    <3> QED BY <3>2, <3>3
  <2> QED BY <1>1, <1>2, <2>2, <2>3 DEF Retains
<1> QED BY <1>1, <1>3, <1>4, DiscardCases

\* A queue without a known misprediction has an answer for every frame that it holds
\* or has yet to be given.
LEMMA AskAnswers ==
    ASSUME NEW q, NEW t, Holds(q, t), q.first_incorrect_frame = NULL_FRAME, NEW frame \in Nat,
           frame <= q.last_added_frame => Kept(q, frame)
    PROVE  input(q, frame).status # "None"
<1>1. QueueInv(q) /\ q \in Queue /\ q.last_added_frame \in Int /\ q.length \in Nat
  BY PreviousSlot DEF Holds, QueueInv, Queue
<1>2. PICK oldest, side : oldest = q.inputs[q.tail] /\ side = q.reclaimed_floor_input
  OBVIOUS
<1>3. PICK offset : offset = frame - oldest.frame
  OBVIOUS
<1>4. PICK slot : slot = q.inputs[circular_index_add(q.tail, offset)]
  OBVIOUS
<1>5. SUFFICES ASSUME ~(side # None /\ side.frame = frame)
               PROVE  /\ ~(frame < oldest.frame)
                      /\ offset >= q.length \/ slot.frame = frame
  BY <1>2, <1>3, <1>4 DEF input
<1>6. CASE q.length = 0
  <2>1. q.last_added_frame = NULL_FRAME
    BY <1>6 DEF Holds
  <2>2. oldest.frame = NULL_FRAME \/ oldest.frame <= q.last_added_frame
    BY <1>1, <1>2 DEF Holds, Content, SlotHolds, Queue
  <2>3. oldest.frame \in Int
    BY <1>1, <1>2 DEF Queue, PlayerInput, FrameOrNull, NULL_FRAME
  <2> QED BY <1>3, <1>6, <2>1, <2>2, <2>3 DEF NULL_FRAME
<1>7. CASE q.length > 0
  <2>1. oldest.frame = q.last_added_frame + 1 - q.length /\ oldest.frame \in Nat
    BY <1>1, <1>2, <1>7, OldestSlot
  <2>2. ~(frame < oldest.frame)
    <3>1. CASE frame <= q.last_added_frame
      <4>1. Kept(q, frame)
        BY <3>1
      <4> QED BY <1>1, <1>2, <1>5, <2>1, <4>1 DEF Kept
    <3>2. CASE ~(frame <= q.last_added_frame)
      BY <1>1, <1>7, <2>1, <3>2
    <3> QED BY <3>1, <3>2
  <2>3. ASSUME ~(offset >= q.length) PROVE slot.frame = frame
    <3>1. frame <= q.last_added_frame /\ frame >= q.last_added_frame + 1 - q.length
      BY <1>1, <1>3, <2>1, <2>2, <2>3
    <3>2. q.tail = SlotOf(q.last_added_frame + 1 - q.length)
      BY <1>1 DEF QueueInv, Aligned
    <3>3. PICK o \in Int : o = q.last_added_frame + 1 - q.length
      BY <1>1
    <3>4. circular_index_add(SlotOf(o), offset) = SlotOf(o + offset)
      BY <1>3, <2>1, <3>3, SlotSteps
    <3>5. o + offset = frame
      BY <1>3, <2>1, <3>3
    <3>6. slot = q.inputs[SlotOf(frame)]
      BY <1>4, <3>2, <3>3, <3>4, <3>5
    <3>7. frame \in HeldFrames(q)
      BY <1>1, <3>1 DEF HeldFrames
    <3> QED BY <1>1, <3>6, <3>7 DEF QueueInv, Aligned
  <2> QED BY <2>2, <2>3
<1> QED BY <1>1, <1>6, <1>7

\* A frame that the queue holds starts no prediction.
LEMMA AskSettled ==
    ASSUME NEW q, QueueInv(q), NEW frame \in Nat
    PROVE  LET r == input(q, frame).q
           IN  /\ SameEntries(q, r) /\ QueueInv(r)
               /\ r.first_incorrect_frame = q.first_incorrect_frame
               /\ q.prediction.frame = NULL_FRAME /\ Kept(q, frame) => r.prediction.frame = NULL_FRAME
<1>1. PICK res : res = input(q, frame)
  OBVIOUS
<1>2. RequestAs(q, res, frame) /\ QueueInv(res.q)
  BY <1>1, RequestCases, RequestInv
<1>3. ASSUME q.prediction.frame = NULL_FRAME, Kept(q, frame)
      PROVE  res.q.prediction.frame = NULL_FRAME
  <2>1. q.length \in Nat /\ q.length > 0 /\ frame <= q.last_added_frame
    BY <1>3 DEF Kept, QueueInv, Queue
  <2>2. q.inputs[q.tail].frame = q.last_added_frame + 1 - q.length /\ q.last_added_frame \in Int
    BY <2>1, OldestSlot, PreviousSlot
  <2>3. ~(frame - q.inputs[q.tail].frame >= q.length)
    BY <2>1, <2>2
  <2> QED BY <1>2, <1>3, <2>3 DEF RequestAs, SameEpisode
<1> QED BY <1>1, <1>2, <1>3 DEF RequestAs

-----------------------------------------------------------------------------
(* The game that handles the requests of a call.                           *)

\* Frames at most N apart have different cells in a ring of N + 1.
LEMMA CellsDiffer ==
    ASSUME NEW N \in Nat, NEW cells, DOMAIN cells = 0 .. N, NEW f \in Nat, NEW g \in Nat,
           f < g, g <= f + N
    PROVE  get_cell(cells, f) # get_cell(cells, g)
<1>1. Cardinality(0 .. N) = N + 1
  <2>1. 0 \in Int /\ N \in Int
    OBVIOUS
  <2>2. Cardinality(0 .. N) = IF 0 > N THEN 0 ELSE N - 0 + 1
    BY <2>1, FS_Interval
  <2> QED BY <2>2
<1>2. PICK k \in Nat : k = N + 1 /\ k > 0
  OBVIOUS
<1>3. get_cell(cells, f) = f % k /\ get_cell(cells, g) = g % k
  BY <1>1, <1>2 DEF get_cell
<1>4. SUFFICES ASSUME f % k = g % k PROVE FALSE
  BY <1>3
<1>5. PICK i \in Int : f = i * k + (f % k)
  <2>1. f \div k \in Int /\ f = (f \div k) * k + (f % k)
    BY <1>2, SMTT(30)
  <2> QED BY <2>1
<1>6. PICK j \in Int : g = j * k + (g % k)
  <2>1. g \div k \in Int /\ g = (g \div k) * k + (g % k)
    BY <1>2, SMTT(30)
  <2> QED BY <2>1
<1>7. PICK s \in Int : s = f % k
  BY <1>2
<1>8. f = i * k + s /\ g = j * k + s
  BY <1>4, <1>5, <1>6, <1>7
<1>9. g - f = (j - i) * k
  BY <1>2, <1>7, <1>8
<1>10. CASE j - i <= 0
  <2>1. (j - i) * k <= 0
    BY <1>2, <1>10, SMTT(30)
  <2> QED BY <1>9, <2>1
<1>11. CASE j - i >= 1
  <2>1. (j - i) * k >= k
    BY <1>2, <1>11, SMTT(30)
  <2> QED BY <1>2, <1>9, <2>1
<1> QED BY <1>10, <1>11

LEMMA FulfilNone == ASSUME NEW cells PROVE Fulfil(cells, <<>>) = [cells |-> cells, game |-> game]
<1>1. Len(<<>>) = 0
  OBVIOUS
<1>2. PICK f : IsFulfil(f, Len(<<>>), cells, <<>>) /\ Fulfil(cells, <<>>) = f[Len(<<>>)]
  BY <1>1, FulfilValue
<1>3. f[0] = [cells |-> cells, game |-> game]
  BY <1>1, <1>2 DEF IsFulfil
<1> QED BY <1>1, <1>2, <1>3

\* The last request is handled last.
LEMMA FulfilLast ==
    ASSUME NEW cells, NEW S, NEW requests \in Seq(S), NEW r \in S
    PROVE  LET all == Append(requests, r)
           IN  Fulfil(cells, all) = FulfilStep(Len(all), Fulfil(cells, requests), cells, all)
<1>1. PICK all : all = Append(requests, r)
  OBVIOUS
<1>2. PICK N \in Nat : N = Len(requests)
  OBVIOUS
<1>3. Len(all) = N + 1 /\ \A i \in 1 .. N : all[i] = requests[i]
  BY <1>1, <1>2
<1>4. PICK f : IsFulfil(f, N, cells, requests) /\ Fulfil(cells, requests) = f[N]
  BY <1>2, FulfilValue
<1>5. PICK g : IsFulfil(g, N + 1, cells, all) /\ Fulfil(cells, all) = g[N + 1]
  BY <1>3, FulfilValue
<1> DEFINE G == {n \in 0 .. N : g[n] = f[n]}
<1>6. 0 \in G
  BY <1>4, <1>5 DEF IsFulfil
<1>7. ASSUME NEW n \in 1 .. N, n - 1 \in G PROVE n \in G
  <2>1. g[n - 1] = f[n - 1] /\ n \in 0 .. N /\ n \in 0 .. N + 1 /\ n # 0
    BY <1>7
  <2>2. f[n] = FulfilStep(n, f[n - 1], cells, requests)
    BY <1>4, <2>1 DEF IsFulfil
  <2>3. g[n] = FulfilStep(n, g[n - 1], cells, all)
    BY <1>5, <2>1 DEF IsFulfil
  <2>4. all[n] = requests[n]
    BY <1>3
  <2>5. g[n] = f[n]
    BY <2>1, <2>2, <2>3, <2>4 DEF FulfilStep
  <2> QED BY <2>5
<1>8. \A n \in 0 .. N : n \in G
  <2> HIDE DEF G
  <2> QED BY <1>6, <1>7, IndexInduction
<1>9. g[N] = f[N]
  BY <1>8
<1>10. g[N + 1] = FulfilStep(N + 1, g[N], cells, all)
  <2>1. N + 1 \in 0 .. N + 1 /\ N + 1 # 0 /\ (N + 1) - 1 = N
    OBVIOUS
  <2> QED BY <1>5, <2>1 DEF IsFulfil
<1> QED BY <1>1, <1>3, <1>4, <1>5, <1>9, <1>10

\* The cells and the game once the requests of w are handled.
Done(w) == Fulfil(sl.saved_states, w.requests)

\* The cells hold the states of the frames lo .. last, which the game g went through.
CellsHold(cells, g, lo, last) ==
    \A f \in Nat : lo <= f /\ f <= last =>
        cells[get_cell(sl.saved_states, f)] = [frame |-> f, state |-> SubSeq(g, 1, f)]

DoneType == [cells : [0 .. MaxPrediction -> Cell], game : GameState]

LEMMA DoneTyped ==
    ASSUME TypeOK, NEW w, Shaped(w)
    PROVE  Done(w) \in DoneType
<1>1. MaxPrediction \in Nat /\ sl.saved_states \in [0 .. MaxPrediction -> Cell] /\ game \in GameState
  BY PredictionType DEF TypeOK, SyncLayer
<1>2. w.requests \in Seq(SaveOrLoad \cup Advance)
  BY DEF Shaped
<1> QED BY <1>1, <1>2, FulfilType DEF Done, DoneType

\* What one more request makes of them.
DoneBy(g, h, r) ==
    \/ /\ r.type = "Save"
       /\ h = [g EXCEPT !.cells[get_cell(sl.saved_states, r.frame)] = [frame |-> r.frame, state |-> g.game]]
    \/ /\ r.type = "Load"
       /\ h = [g EXCEPT !.game = g.cells[get_cell(sl.saved_states, r.frame)].state]
    \/ /\ r.type = "Advance"
       /\ h = [g EXCEPT !.game = Append(@, r.inputs)]

LEMMA DoneNext ==
    ASSUME TypeOK, NEW w, Shaped(w), NEW r \in SaveOrLoad \cup Advance, NEW x,
           x.requests = Append(w.requests, r)
    PROVE  DoneBy(Done(w), Done(x), r)
<1>1. w.requests \in Seq(SaveOrLoad \cup Advance)
  BY DEF Shaped
<1>2. PICK all, n : all = Append(w.requests, r) /\ n = Len(all)
  OBVIOUS
<1>3. all[n] = r
  BY <1>1, <1>2
<1>4. Done(x) = FulfilStep(n, Done(w), sl.saved_states, all)
  BY <1>1, <1>2, FulfilLast DEF Done
<1>5. r.type \in {"Save", "Load", "Advance"}
  BY DEF SaveOrLoad, Advance
<1> QED BY <1>3, <1>4, <1>5 DEF FulfilStep, DoneBy

-----------------------------------------------------------------------------
(* The stages of a call, when every state is saved.                        *)

Floor == rollback_window_floor(sl)

\* The game is where the session is, and the cells hold the states of the window: the
\* newest of them is that of the current frame or of the one before.
InStep(w) ==
    /\ w.ok
    /\ Len(Done(w).game) = w.sl.current_frame
    /\ IF lockstep THEN w.sl.last_saved_frame = NULL_FRAME
       ELSE /\ w.sl.last_saved_frame \in {w.sl.current_frame - 1, w.sl.current_frame}
            /\ CellsHold(Done(w).cells, Done(w).game, Floor, w.sl.last_saved_frame)

\* The sync layer of a step that saves, and what else the step leaves.
LEMMA SaveFields ==
    ASSUME NEW w, Shaped(w)
    PROVE  LET x == RequestSave(w)
               r == [type |-> "Save", frame |-> w.sl.current_frame]
           IN  /\ x.sl \in SyncLayer
               /\ x.sl.last_saved_frame = w.sl.current_frame
               /\ x.sl.current_frame = w.sl.current_frame
               /\ x.sl.input_queues = w.sl.input_queues
               /\ x.requests = Append(w.requests, r)
               /\ r \in SaveOrLoad
               /\ x.disconnect_frame = w.disconnect_frame
               /\ x.ok = w.ok
<1>1. w.sl \in SyncLayer /\ w.sl.current_frame \in Nat
  BY DEF Shaped, SyncLayer
<1>2. PICK t : t = save_current_state(w.sl)
  OBVIOUS
<1>3. /\ t \in SyncLayer /\ t.last_saved_frame = w.sl.current_frame
      /\ t.current_frame = w.sl.current_frame /\ t.input_queues = w.sl.input_queues
  BY <1>1, <1>2 DEF save_current_state, SyncLayer, FrameOrNull
<1>4. PICK r : r = [type |-> "Save", frame |-> w.sl.current_frame]
  OBVIOUS
<1>5. r \in SaveOrLoad
  BY <1>1, <1>4 DEF SaveOrLoad
<1>6. PICK y : y = [w EXCEPT !.sl = t]
  OBVIOUS
<1>7. y.sl = t /\ y.requests = w.requests /\ y.disconnect_frame = w.disconnect_frame /\ y.ok = w.ok
      /\ y = [y EXCEPT !.sl = t] /\ Shaped(y)
  BY <1>3, <1>6 DEF Shaped
<1>8. RequestSave(w) = [y EXCEPT !.requests = Append(@, r)]
  BY <1>2, <1>4, <1>6 DEF RequestSave, Request
<1> QED BY <1>3, <1>4, <1>5, <1>7, <1>8 DEF Shaped

LEMMA WindowSize ==
    ASSUME TypeOK
    PROVE  /\ Floor \in Nat /\ sl.current_frame \in Nat /\ MaxPrediction \in Nat
           /\ sl.current_frame <= Floor + MaxPrediction
           /\ Floor = IF sl.current_frame >= MaxPrediction THEN sl.current_frame - MaxPrediction ELSE 0
           /\ Floor <= sl.current_frame
<1>1. sl.current_frame \in Nat /\ sl.max_prediction = MaxPrediction /\ MaxPrediction \in Nat
  BY PredictionType DEF TypeOK, SyncLayer
<1> QED BY <1>1 DEF Floor, rollback_window_floor, MaxFrameOf

LEMMA SaveInStep ==
    ASSUME TypeOK, NEW w, Shaped(w), InStep(w), ~lockstep,
           w.sl.current_frame <= Floor + MaxPrediction
    PROVE  InStep(RequestSave(w))
<1>1. PICK x, r : x = RequestSave(w) /\ r = [type |-> "Save", frame |-> w.sl.current_frame]
  OBVIOUS
<1>2. /\ x.sl.last_saved_frame = w.sl.current_frame
      /\ x.sl.current_frame = w.sl.current_frame
      /\ x.requests = Append(w.requests, r)
      /\ r \in SaveOrLoad
      /\ x.ok = w.ok
  BY <1>1, SaveFields
<1>3. PICK cur \in Nat : cur = w.sl.current_frame
  BY DEF Shaped, SyncLayer
<1>4. PICK last \in Int : last = w.sl.last_saved_frame /\ last \in {cur - 1, cur}
  <2>1. w.sl.last_saved_frame \in {w.sl.current_frame - 1, w.sl.current_frame}
    BY Zenon DEF InStep
  <2> QED BY <1>3, <2>1
<1>5. PICK g \in DoneType : g = Done(w)
  BY DoneTyped
<1>6. r.type = "Save" /\ r.frame = cur
  BY <1>1, <1>3
<1>7. Done(x) = [g EXCEPT !.cells[get_cell(sl.saved_states, cur)] = [frame |-> cur, state |-> g.game]]
  <2>1. r \in SaveOrLoad \cup Advance
    BY <1>2
  <2>2. DoneBy(g, Done(x), r)
    BY <1>2, <1>5, <2>1, DoneNext, Zenon
  <2> QED BY <1>6, <2>2 DEF DoneBy
<1>8. g.cells \in [0 .. MaxPrediction -> Cell] /\ g.game \in GameState
  BY <1>5 DEF DoneType
<1>9. Floor \in Nat /\ MaxPrediction \in Nat /\ DOMAIN sl.saved_states = 0 .. MaxPrediction
  BY WindowSize DEF TypeOK, SyncLayer
<1>10. PICK c \in 0 .. MaxPrediction : c = get_cell(sl.saved_states, cur)
  BY <1>9, CellInRing
<1>11. Done(x).game = g.game /\ Done(x).cells = [g.cells EXCEPT ![c] = [frame |-> cur, state |-> g.game]]
  BY <1>5, <1>7, <1>10 DEF DoneType
<1>12. ASSUME NEW f \in Nat, Floor <= f, f <= cur
       PROVE  Done(x).cells[get_cell(sl.saved_states, f)] = [frame |-> f, state |-> SubSeq(g.game, 1, f)]
  <2>1. CASE f = cur
    <3>1. Len(g.game) = cur
      BY <1>3, <1>5 DEF InStep
    <3>2. SubSeq(g.game, 1, cur) = g.game
      BY <1>8, <3>1 DEF GameState
    <3>3. Done(x).cells[c] = [frame |-> cur, state |-> g.game]
      BY <1>8, <1>11
    <3> QED BY <1>10, <2>1, <3>2, <3>3
  <2>2. CASE f # cur
    <3>1. f < cur /\ cur <= f + MaxPrediction
      BY <1>3, <1>9, <1>12, <2>2
    <3>2. get_cell(sl.saved_states, f) # c
      BY <1>9, <1>10, <3>1, CellsDiffer
    <3>3. get_cell(sl.saved_states, f) \in 0 .. MaxPrediction
      BY <1>9, CellInRing
    <3>4. f <= last
      BY <1>4, <3>1
    <3>5. g.cells[get_cell(sl.saved_states, f)] = [frame |-> f, state |-> SubSeq(g.game, 1, f)]
      BY <1>4, <1>5, <1>12, <3>4 DEF InStep, CellsHold
    <3> QED BY <1>8, <1>11, <3>2, <3>3, <3>5
  <2> QED BY <2>1, <2>2
<1>13. CellsHold(Done(x).cells, Done(x).game, Floor, cur)
  BY <1>11, <1>12 DEF CellsHold
<1> QED BY <1>1, <1>2, <1>3, <1>5, <1>11, <1>13 DEF InStep

\* A longer game has the same earlier states.
LEMMA EarlierState ==
    ASSUME NEW g \in GameState, NEW v \in [Players -> Input], NEW f \in Nat, f <= Len(g)
    PROVE  SubSeq(Append(g, v), 1, f) = SubSeq(g, 1, f)
  BY DEF GameState

\* A shorter game too.
LEMMA LoadedState ==
    ASSUME NEW g \in GameState, NEW n \in Nat, n <= Len(g), NEW f \in Nat, f <= n
    PROVE  /\ SubSeq(SubSeq(g, 1, n), 1, f) = SubSeq(g, 1, f)
           /\ SubSeq(g, 1, n) \in GameState /\ Len(SubSeq(g, 1, n)) = n
<1>1. /\ SubSeq(g, 1, n) \in GameState /\ Len(SubSeq(g, 1, n)) = n
      /\ \A i \in 1 .. n : SubSeq(g, 1, n)[i] = g[i]
  BY DEF GameState
<1>2. PICK h : h = SubSeq(g, 1, n)
  OBVIOUS
<1>3. /\ SubSeq(h, 1, f) \in GameState /\ Len(SubSeq(h, 1, f)) = f
      /\ \A i \in 1 .. f : SubSeq(h, 1, f)[i] = h[i]
  BY <1>1, <1>2 DEF GameState
<1>4. /\ SubSeq(g, 1, f) \in GameState /\ Len(SubSeq(g, 1, f)) = f
      /\ \A i \in 1 .. f : SubSeq(g, 1, f)[i] = g[i]
  BY DEF GameState
<1>5. SubSeq(h, 1, f) = SubSeq(g, 1, f)
  BY <1>1, <1>2, <1>3, <1>4, SameSequence DEF GameState
<1> QED BY <1>1, <1>2, <1>5

\* The step that simulates a frame.
LEMMA AdvanceInStep ==
    ASSUME TypeOK, NEW w, Shaped(w), InStep(w), lockstep \/ w.sl.last_saved_frame = w.sl.current_frame,
           NEW r \in Advance, NEW x, x.requests = Append(w.requests, r), x.ok = w.ok,
           x.sl.current_frame = w.sl.current_frame + 1,
           x.sl.last_saved_frame = w.sl.last_saved_frame
    PROVE  InStep(x)
<1>1. PICK cur \in Nat : cur = w.sl.current_frame
  BY DEF Shaped, SyncLayer
<1>2. PICK g \in DoneType : g = Done(w)
  BY DoneTyped
<1>3. r \in SaveOrLoad \cup Advance /\ r.type = "Advance" /\ r.inputs \in [Players -> Input]
  BY DEF Advance
<1>4. Done(x) = [g EXCEPT !.game = Append(@, r.inputs)]
  <2>1. DoneBy(g, Done(x), r)
    BY <1>2, <1>3, DoneNext, Zenon
  <2> QED BY <1>3, <2>1 DEF DoneBy
<1>5. g.game \in GameState
  BY <1>2 DEF DoneType
<1>6. Done(x).game = Append(g.game, r.inputs) /\ Done(x).cells = g.cells
  BY <1>2, <1>4 DEF DoneType
<1>7. Len(g.game) = cur
  BY <1>1, <1>2 DEF InStep
<1>8. Len(Done(x).game) = cur + 1
  BY <1>3, <1>5, <1>6, <1>7 DEF GameState
<1>9. CASE lockstep
  <2>1. w.sl.last_saved_frame = NULL_FRAME /\ w.ok
    BY <1>9, Zenon DEF InStep
  <2>2. x.sl.last_saved_frame = NULL_FRAME /\ x.ok /\ Len(Done(x).game) = x.sl.current_frame
    BY <1>1, <1>8, <2>1
  <2> QED BY <1>9, <2>2 DEF InStep
<1>10. CASE ~lockstep
  <2>1. w.sl.last_saved_frame = cur /\ w.ok
    BY <1>1, <1>10 DEF InStep
  <2>2. CellsHold(g.cells, g.game, Floor, cur)
    <3>1. CellsHold(Done(w).cells, Done(w).game, Floor, w.sl.last_saved_frame)
      BY <1>10, Zenon DEF InStep
    <3> QED BY <1>2, <2>1, <3>1
  <2>3. CellsHold(Done(x).cells, Done(x).game, Floor, cur)
    <3>1. ASSUME NEW f \in Nat, Floor <= f, f <= cur
          PROVE  Done(x).cells[get_cell(sl.saved_states, f)]
                   = [frame |-> f, state |-> SubSeq(Done(x).game, 1, f)]
      <4>1. SubSeq(Append(g.game, r.inputs), 1, f) = SubSeq(g.game, 1, f)
        BY <1>3, <1>5, <1>7, <3>1, EarlierState
      <4> QED BY <1>6, <2>2, <3>1, <4>1 DEF CellsHold
    <3> QED BY <3>1 DEF CellsHold
  <2>4. x.sl.last_saved_frame = cur /\ x.ok /\ x.sl.current_frame = cur + 1 /\ cur = (cur + 1) - 1
    BY <1>1, <2>1
  <2> QED BY <1>8, <1>10, <2>3, <2>4 DEF InStep
<1> QED BY <1>9, <1>10

\* The step that goes back to a saved state.
LEMMA LoadInStep ==
    ASSUME TypeOK, NEW w, Shaped(w), InStep(w), ~lockstep, NEW target \in Nat,
           Floor <= target, target <= w.sl.last_saved_frame,
           NEW r \in SaveOrLoad, r.type = "Load", r.frame = target,
           NEW x, x.requests = Append(w.requests, r), x.ok = w.ok,
           x.sl.current_frame = target, x.sl.last_saved_frame = target
    PROVE  InStep(x)
<1>1. PICK cur \in Nat, last \in Int : cur = w.sl.current_frame /\ last = w.sl.last_saved_frame
                                         /\ last <= cur
  <2>1. w.sl.last_saved_frame \in {w.sl.current_frame - 1, w.sl.current_frame}
    BY Zenon DEF InStep
  <2>2. w.sl.current_frame \in Nat
    BY DEF Shaped, SyncLayer
  <2> QED BY <2>1, <2>2
<1>2. PICK g \in DoneType : g = Done(w)
  BY DoneTyped
<1>3. r \in SaveOrLoad \cup Advance
  OBVIOUS
<1>4. Done(x) = [g EXCEPT !.game = g.cells[get_cell(sl.saved_states, target)].state]
  <2>1. DoneBy(g, Done(x), r)
    BY <1>2, <1>3, DoneNext, Zenon
  <2> QED BY <2>1 DEF DoneBy
<1>5. g.game \in GameState /\ Len(g.game) = cur
  BY <1>1, <1>2 DEF DoneType, InStep
<1>6. CellsHold(g.cells, g.game, Floor, last)
  <2>1. CellsHold(Done(w).cells, Done(w).game, Floor, w.sl.last_saved_frame)
    BY Zenon DEF InStep
  <2> QED BY <1>1, <1>2, <2>1
<1>7. g.cells[get_cell(sl.saved_states, target)] = [frame |-> target, state |-> SubSeq(g.game, 1, target)]
  BY <1>1, <1>6 DEF CellsHold
<1>8. Done(x).game = SubSeq(g.game, 1, target) /\ Done(x).cells = g.cells
  BY <1>2, <1>4, <1>7 DEF DoneType
<1>9. Len(Done(x).game) = target
  BY <1>1, <1>5, <1>8, LoadedState
<1>10. CellsHold(Done(x).cells, Done(x).game, Floor, target)
  <2>1. ASSUME NEW f \in Nat, Floor <= f, f <= target
        PROVE  Done(x).cells[get_cell(sl.saved_states, f)]
                 = [frame |-> f, state |-> SubSeq(Done(x).game, 1, f)]
    <3>1. SubSeq(SubSeq(g.game, 1, target), 1, f) = SubSeq(g.game, 1, f)
      BY <1>1, <1>5, <2>1, LoadedState
    <3>2. f <= last
      BY <1>1, <2>1
    <3> QED BY <1>6, <1>8, <2>1, <3>1, <3>2 DEF CellsHold
  <2> QED BY <2>1 DEF CellsHold
<1>11. x.ok
  BY DEF InStep
<1> QED BY <1>9, <1>10, <1>11 DEF InStep

-----------------------------------------------------------------------------
(* Queues that answer.                                                     *)

\* The players whose inputs are never predicted.
Awaited == IF lockstep THEN Players ELSE LocalPlayers

\* No misprediction is known and nothing is lost from frame m on: the queue can be asked
\* for every frame from m on.
Answers(q, m) ==
    /\ \E t : Holds(q, t)
    /\ q.first_incorrect_frame = NULL_FRAME
    /\ Retains(q, m)

Fit(s, m) ==
    \A p \in Players :
        /\ Answers(s.input_queues[p], m)
        /\ p \in Awaited => s.input_queues[p].prediction.frame = NULL_FRAME

LEMMA AskFit ==
    ASSUME NEW q, NEW m \in Int, Answers(q, m), NEW frame \in Nat, m <= frame
    PROVE  LET res == input(q, frame)
           IN  /\ res.status # "None"
               /\ Answers(res.q, m)
               /\ q.prediction.frame = NULL_FRAME /\ frame <= q.last_added_frame
                    => res.q.prediction.frame = NULL_FRAME
<1>1. PICK t : Holds(q, t)
  BY DEF Answers
<1>2. QueueInv(q)
  BY <1>1 DEF Holds
<1>3. frame <= q.last_added_frame => Kept(q, frame)
  BY DEF Answers, Retains
<1>4. PICK res : res = input(q, frame)
  OBVIOUS
<1>5. res.status # "None"
  BY <1>1, <1>3, <1>4, AskAnswers DEF Answers
<1>6. /\ SameEntries(q, res.q) /\ QueueInv(res.q)
      /\ res.q.first_incorrect_frame = q.first_incorrect_frame
      /\ q.prediction.frame = NULL_FRAME /\ Kept(q, frame) => res.q.prediction.frame = NULL_FRAME
  BY <1>2, <1>4, AskSettled
<1>7. Holds(res.q, t)
  BY <1>1, <1>6, HoldsEntries
<1>8. Retains(res.q, m)
  BY <1>6, EntriesKeep DEF Answers, Retains, SameEntries
<1> QED BY <1>3, <1>4, <1>5, <1>6, <1>7, <1>8 DEF Answers

\* Such queues answer, and still do after it.
LEMMA SyncFit ==
    ASSUME NEW s, SyncInv(s), NEW m \in Int, Fit(s, m), m <= s.current_frame, NEW status,
           \A p \in Awaited : \/ IsDropped(status, p, s.current_frame)
                              \/ s.current_frame <= s.input_queues[p].last_added_frame
    PROVE  LET got == synchronized_inputs(s, status)
           IN  got.ok /\ Fit(got.sl, m)
<1> DEFINE got == synchronized_inputs(s, status)
           ask == [p \in Players |-> input(s.input_queues[p], s.current_frame)]
           asked == {p \in Players : ~IsDropped(status, p, s.current_frame)}
           failed == {p \in asked : ask[p].status = "None"}
           queues == [p \in Players |-> IF p \in asked /\ \A f \in failed : p <= f
                                        THEN ask[p].q ELSE s.input_queues[p]]
<1>1. s \in SyncLayer /\ s.current_frame \in Nat
  BY DEF SyncInv, SyncLayer
<1>2. got.sl = [s EXCEPT !.input_queues = queues] /\ got.ok = (failed = {})
  BY DEF synchronized_inputs
<1>3. ASSUME NEW p \in Players
      PROVE  /\ ask[p].status # "None"
             /\ Answers(ask[p].q, m)
             /\ p \in Awaited /\ p \in asked => ask[p].q.prediction.frame = NULL_FRAME
  <2>1. PICK q : q = s.input_queues[p]
    OBVIOUS
  <2>2. Answers(q, m) /\ (p \in Awaited => q.prediction.frame = NULL_FRAME)
    BY <2>1 DEF Fit
  <2>3. ask[p] = input(q, s.current_frame)
    BY <2>1
  <2>4. PICK res : res = input(q, s.current_frame)
    OBVIOUS
  <2>5. /\ res.status # "None"
        /\ Answers(res.q, m)
        /\ q.prediction.frame = NULL_FRAME /\ s.current_frame <= q.last_added_frame
             => res.q.prediction.frame = NULL_FRAME
    BY <1>1, <2>2, <2>4, AskFit
  <2> QED BY <2>1, <2>2, <2>3, <2>4, <2>5
<1>4. failed = {}
  BY <1>3
<1>5. got.sl.input_queues = queues
  <2> HIDE DEF queues, got
  <2> QED BY <1>1, <1>2 DEF SyncLayer
<1>6. ASSUME NEW p \in Players
      PROVE  Answers(queues[p], m) /\ (p \in Awaited => queues[p].prediction.frame = NULL_FRAME)
  <2>1. CASE p \in asked
    <3>1. queues[p] = ask[p].q
      BY <1>4, <2>1
    <3> HIDE DEF queues, asked, ask
    <3> QED BY <1>3, <2>1, <3>1
  <2>2. CASE p \notin asked
    <3>1. queues[p] = s.input_queues[p]
      BY <2>2
    <3> QED BY <3>1 DEF Fit
  <2> QED BY <2>1, <2>2
<1>7. Fit(got.sl, m)
  <2> HIDE DEF queues, got
  <2> QED BY <1>5, <1>6 DEF Fit
<1> QED BY <1>2, <1>4, <1>7

-----------------------------------------------------------------------------
(* A simulated frame.                                                      *)

\* The stage can simulate its frame: the game is in step, every queue answers, and the
\* state of the frame is saved first unless it has been.
Simulates(w, m, save) ==
    /\ Shaped(w) /\ SyncInv(w.sl) /\ InStep(w)
    /\ Fit(w.sl, m)
    /\ m <= w.sl.current_frame
    /\ \A p \in Awaited : \/ IsDropped(w.status, p, w.sl.current_frame)
                          \/ w.sl.current_frame <= w.sl.input_queues[p].last_added_frame
    /\ lockstep => ~save
    /\ ~lockstep /\ ~save => w.sl.last_saved_frame = w.sl.current_frame
    /\ save => w.sl.current_frame <= Floor + MaxPrediction

\* And then is in step again, one frame later.
Simulated(w, x, m) ==
    /\ Worked(w, x)
    /\ InStep(x)
    /\ Fit(x.sl, m)
    /\ x.sl.current_frame = w.sl.current_frame + 1
    /\ ~lockstep => x.sl.last_saved_frame = w.sl.current_frame
    /\ x.disconnect_frame = w.disconnect_frame

LEMMA SimulateInStep ==
    ASSUME TypeOK, NEW w, NEW m \in Int, NEW save \in BOOLEAN, Simulates(w, m, save)
    PROVE  Simulated(w, Simulate(w, save), m)
<1>1. /\ Shaped(w) /\ SyncInv(w.sl) /\ InStep(w) /\ w.ok /\ w.ok \in BOOLEAN
      /\ w.sl \in SyncLayer /\ w.sl.current_frame \in Nat
  BY DEF Simulates, InStep, SyncInv, Shaped, SyncLayer
<1>2. PICK got : got = synchronized_inputs(w.sl, w.status)
  OBVIOUS
<1>3. /\ Derived(w.sl, got.sl)
      /\ got.sl.current_frame = w.sl.current_frame
      /\ got.sl.last_confirmed_frame = w.sl.last_confirmed_frame
      /\ got.sl.last_saved_frame = w.sl.last_saved_frame
      /\ got.ok => got.inputs \in [Players -> Input]
  BY <1>1, <1>2, SynchronizedInputs
<1>4. got.ok /\ Fit(got.sl, m)
  BY <1>1, <1>2, SyncFit DEF Simulates
<1> DEFINE y == [w EXCEPT !.sl = got.sl]
           z == RequestSaveIf(y, save)
           u == [z EXCEPT !.sl = advance_frame(@)]
           r == [type |-> "Advance", inputs |-> got.inputs]
<1>5. Simulate(w, save) = Request(u, r)
  BY <1>1, <1>2, <1>4 DEF Simulate, SimulateWith
<1>6. PICK next : next = got.sl
  OBVIOUS
<1>7. Worked(w, y) /\ y.sl = next /\ y.ok = w.ok /\ y.requests = w.requests
      /\ y.disconnect_frame = w.disconnect_frame
  <2>1. Replaced(w, y, next, w.ok)
    BY <1>6 DEF Replaced
  <2>2. y.requests = w.requests /\ y.disconnect_frame = w.disconnect_frame
    BY <1>1 DEF Shaped
  <2> HIDE DEF y
  <2> QED BY <1>1, <1>3, <1>6, <2>1, <2>2, WorkedWith
<1> HIDE DEF y
<1>8. Shaped(y) /\ SyncInv(y.sl)
  BY <1>7, WorkedInv
<1>9. InStep(y)
  <2>1. Done(y) = Done(w)
    BY <1>7 DEF Done
  <2>2. /\ y.sl.current_frame = w.sl.current_frame /\ y.sl.last_saved_frame = w.sl.last_saved_frame
    BY <1>3, <1>6, <1>7
  <2> QED BY <1>1, <1>7, <2>1, <2>2, Zenon DEF InStep
<1>10. /\ Worked(y, z) /\ z.ok = w.ok /\ z.sl.current_frame = w.sl.current_frame
       /\ InStep(z) /\ z.sl.input_queues = got.sl.input_queues
       /\ lockstep \/ z.sl.last_saved_frame = z.sl.current_frame
       /\ z.disconnect_frame = w.disconnect_frame
  <2>1. CASE save
    <3>1. z = RequestSave(y)
      BY <2>1 DEF RequestSaveIf
    <3>2. ~lockstep /\ y.sl.current_frame <= Floor + MaxPrediction
      BY <1>3, <1>6, <1>7, <2>1 DEF Simulates
    <3>3. InStep(z)
      BY <1>8, <1>9, <3>1, <3>2, SaveInStep
    <3>4. Worked(y, z) /\ z.ok = w.ok /\ z.sl.current_frame = w.sl.current_frame
      BY <1>3, <1>6, <1>7, <1>8, <3>1, SaveStage
    <3>5. /\ z.sl.last_saved_frame = y.sl.current_frame /\ z.sl.input_queues = y.sl.input_queues
          /\ z.disconnect_frame = y.disconnect_frame
      BY <1>8, <3>1, SaveFields
    <3> HIDE DEF z
    <3> QED BY <1>3, <1>6, <1>7, <3>3, <3>4, <3>5
  <2>2. CASE ~save
    <3>1. z = y
      BY <2>2 DEF RequestSaveIf
    <3>2. lockstep \/ z.sl.last_saved_frame = z.sl.current_frame
      BY <1>3, <1>6, <1>7, <2>2, <3>1 DEF Simulates
    <3> HIDE DEF z
    <3> QED BY <1>3, <1>6, <1>7, <1>8, <1>9, <3>1, <3>2, WorkedRefl
  <2> QED BY <2>1, <2>2
<1> HIDE DEF z
<1>11. Shaped(z) /\ SyncInv(z.sl) /\ z.sl \in SyncLayer
  BY <1>10, WorkedInv DEF SyncInv
<1>12. PICK t : t = advance_frame(z.sl)
  OBVIOUS
<1>13. PICK n \in Nat : n = w.sl.current_frame + 1
  BY <1>1
<1>14. /\ t \in SyncLayer /\ t.saved_states = z.sl.saved_states
       /\ t.input_queues = z.sl.input_queues /\ t.current_frame = n
       /\ t.last_confirmed_frame = z.sl.last_confirmed_frame
       /\ t.last_saved_frame = z.sl.last_saved_frame
  BY <1>1, <1>10, <1>11, <1>12, <1>13 DEF advance_frame, SyncLayer
<1>15. Derived(z.sl, t)
  BY <1>11, <1>14, CountersDerived
<1>16. Replaced(z, u, t, z.ok) /\ u.disconnect_frame = z.disconnect_frame /\ u.requests = z.requests
  BY <1>11, <1>12 DEF Replaced, Shaped
<1> HIDE DEF u
<1>17. Worked(z, u) /\ u.sl = t /\ u.ok = z.ok
  <2>1. z.ok \in BOOLEAN
    BY <1>11 DEF Shaped
  <2> QED BY <1>11, <1>14, <1>15, <1>16, <2>1, WorkedWith
<1>18. r \in Advance
  BY <1>3, <1>4 DEF Advance
<1> HIDE DEF r
<1>19. PICK x : x = Request(u, r)
  OBVIOUS
<1>20. Worked(u, x) /\ x.sl = t /\ x.ok = z.ok
  BY <1>17, <1>18, <1>19, WorkedInv, WorkedRequest
<1>21. x.requests = Append(z.requests, r) /\ x.disconnect_frame = w.disconnect_frame
  <2>1. Shaped(u)
    BY <1>17, WorkedInv
  <2>2. x = [u EXCEPT !.requests = Append(u.requests, r)]
    BY <1>19 DEF Request
  <2>3. PICK more : more = Append(u.requests, r)
    OBVIOUS
  <2>4. x.requests = more /\ x.disconnect_frame = u.disconnect_frame
    BY <2>1, <2>2, <2>3 DEF Shaped
  <2> QED BY <1>10, <1>16, <2>3, <2>4
<1>22. Worked(w, x)
  BY <1>7, <1>10, <1>17, <1>20, WorkedTrans
<1>23. InStep(x)
  <2>1. /\ x.sl.current_frame = z.sl.current_frame + 1
        /\ x.sl.last_saved_frame = z.sl.last_saved_frame
    BY <1>10, <1>13, <1>14, <1>20
  <2> QED BY <1>10, <1>11, <1>18, <1>20, <1>21, <2>1, AdvanceInStep
<1>24. Fit(x.sl, m)
  BY <1>4, <1>10, <1>14, <1>20 DEF Fit
<1> QED BY <1>5, <1>10, <1>13, <1>14, <1>19, <1>20, <1>21, <1>22, <1>23, <1>24 DEF Simulated

\* A replay of n frames that stays in step.
ReplayedTo(w, x, n, m) ==
    /\ Worked(w, x)
    /\ InStep(x)
    /\ Fit(x.sl, m)
    /\ x.sl.current_frame = w.sl.current_frame + n
    /\ n = 0 => x.sl.last_saved_frame = w.sl.last_saved_frame
    /\ x.disconnect_frame = w.disconnect_frame

LEMMA ReplayInStep ==
    ASSUME TypeOK, SaveMode = "EveryFrame", ~lockstep, NEW w, Shaped(w), SyncInv(w.sl), InStep(w),
           NEW m \in Int, Fit(w.sl, m), m <= w.sl.current_frame,
           w.sl.last_saved_frame = w.sl.current_frame,
           NEW N \in Nat, w.sl.current_frame + N <= Floor + MaxPrediction,
           \A p \in Awaited : w.sl.current_frame + N <= w.sl.input_queues[p].last_added_frame + 1,
           NEW min_confirmed
    PROVE  ReplayedTo(w, Replay(w, N, min_confirmed), N, m)
<1>1. PICK f : IsReplay(f, N, w, min_confirmed) /\ Replay(w, N, min_confirmed) = f[N]
  BY ReplayValue
<1> DEFINE G == {n \in 0 .. N : ReplayedTo(w, f[n], n, m)}
<1>2. w.sl.current_frame \in Nat /\ Floor \in Nat /\ MaxPrediction \in Nat
  BY WindowSize DEF SyncInv, SyncLayer
<1>3. 0 \in G
  <2>1. f[0] = w
    BY <1>1 DEF IsReplay
  <2> QED BY <1>2, <2>1, WorkedRefl DEF ReplayedTo
<1>4. ASSUME NEW n \in 1 .. N, n - 1 \in G PROVE n \in G
  <2>1. f[n] = ReplayStep(n, f[n - 1], min_confirmed)
    <3>1. n \in 0 .. N /\ n # 0
      BY <1>4
    <3> QED BY <1>1, <3>1, Zenon DEF IsReplay
  <2>2. PICK prev, save : /\ prev = f[n - 1]
                          /\ save = SaveWhileReplaying(prev.sl.current_frame, n, min_confirmed)
    OBVIOUS
  <2>3. f[n] = Simulate(prev, save)
    BY <2>1, <2>2 DEF ReplayStep
  <2>4. ReplayedTo(w, prev, n - 1, m)
    BY <1>4, <2>2
  <2>5. Worked(w, prev) /\ Shaped(prev) /\ SyncInv(prev.sl) /\ InStep(prev) /\ Fit(prev.sl, m)
    BY <2>4, WorkedInv DEF ReplayedTo
  <2>6. save = (n > 1) /\ save \in BOOLEAN
    BY <2>2 DEF SaveWhileReplaying
  <2>7. PICK at \in Nat : at = prev.sl.current_frame /\ at = w.sl.current_frame + (n - 1)
    BY <1>2, <2>4 DEF ReplayedTo
  <2>8. ASSUME ~save PROVE prev.sl.last_saved_frame = at
    <3>0. ~(n > 1)
      BY <2>6, <2>8, Zenon
    <3>1. n = 1 /\ n - 1 = 0
      BY <3>0
    <3>2. prev.sl.last_saved_frame = w.sl.current_frame
      BY <2>4, <3>1 DEF ReplayedTo
    <3> QED BY <1>2, <2>7, <3>1, <3>2
  <2>9. ASSUME NEW p \in Awaited PROVE at <= prev.sl.input_queues[p].last_added_frame
    <3>1. p \in Players
      BY LocalPlayersAssumption DEF Awaited
    <3>2. prev.sl.input_queues[p].last_added_frame = w.sl.input_queues[p].last_added_frame
      BY <2>5, <3>1 DEF Worked, Derived, SameInputs
    <3>3. w.sl.input_queues[p].last_added_frame \in Int
      BY <3>1, PreviousSlot DEF SyncInv
    <3> QED BY <1>2, <2>7, <3>2, <3>3
  <2>10. at <= Floor + MaxPrediction /\ m <= at
    BY <1>2, <2>7
  <2>11. Simulates(prev, m, save)
    BY <2>5, <2>7, <2>8, <2>9, <2>10 DEF Simulates
  <2>12. PICK x : x = Simulate(prev, save)
    OBVIOUS
  <2>13. Simulated(prev, x, m)
    BY <2>6, <2>11, <2>12, SimulateInStep
  <2>14. Worked(w, x)
    BY <2>5, <2>13, WorkedTrans DEF Simulated
  <2>15. ReplayedTo(w, x, n, m)
    BY <1>2, <2>4, <2>7, <2>13, <2>14 DEF ReplayedTo, Simulated
  <2> QED BY <2>3, <2>12, <2>15
<1>5. \A n \in 0 .. N : n \in G
  <2> HIDE DEF G
  <2> QED BY <1>3, <1>4, IndexInduction
<1> QED BY <1>1, <1>5

\* A queue without predictions.
LEMMA ResetFit ==
    ASSUME NEW s, SyncInv(s), NEW m \in Int,
           \A p \in Players : /\ \E t : Holds(s.input_queues[p], t)
                              /\ Retains(s.input_queues[p], m)
    PROVE  Fit(SyncLayer_reset_prediction(s), m)
<1>1. PICK queues : queues = [p \in Players |-> reset_prediction(s.input_queues[p])]
  OBVIOUS
<1>2. PICK t : t = SyncLayer_reset_prediction(s)
  OBVIOUS
<1>3. t = [s EXCEPT !.input_queues = queues]
  BY <1>1, <1>2 DEF SyncLayer_reset_prediction
<1>4. t.input_queues = queues
  BY <1>3 DEF SyncInv, SyncLayer
<1>5. ASSUME NEW p \in Players
      PROVE  Answers(queues[p], m) /\ queues[p].prediction.frame = NULL_FRAME
  <2>1. PICK q, r : q = s.input_queues[p] /\ r = reset_prediction(q)
    OBVIOUS
  <2>2. queues[p] = r
    BY <1>1, <2>1
  <2>3. PICK u : Holds(q, u)
    BY <2>1
  <2>4. QueueInv(q) /\ q \in Queue
    BY <2>3 DEF Holds, QueueInv
  <2>5. SameInputs(q, r)
    BY <2>1, <2>4, SameAfterReset
  <2>6. Holds(r, u)
    BY <2>3, <2>5, HoldsSame
  <2>7. SameEntries(q, r) /\ r.first_incorrect_frame = NULL_FRAME /\ r.prediction.frame = NULL_FRAME
    BY <2>1, <2>4 DEF reset_prediction, SameEntries, Queue, PlayerInput
  <2>8. Retains(r, m)
    BY <2>1, <2>7, EntriesKeep DEF Retains, SameEntries
  <2> QED BY <2>2, <2>6, <2>7, <2>8 DEF Answers
<1> QED BY <1>2, <1>4, <1>5 DEF Fit

-----------------------------------------------------------------------------
(* The invariant of a session that saves every frame.                      *)

\* The oldest frame that a rollback or a replay may still ask for.
OldestNeeded == MaxFrameOf(Floor, sl.last_confirmed_frame)

\* No queue has lost an input from there on.
InputsRetained == \A p \in Players : Retains(sl.input_queues[p], OldestNeeded)

\* No prediction runs for a player whose inputs are never predicted.
AwaitedQuiet ==
    \A p \in Awaited : /\ sl.input_queues[p].first_incorrect_frame = NULL_FRAME
                       /\ sl.input_queues[p].prediction.frame = NULL_FRAME

\* What is to be simulated again has not been confirmed.
PendingAbove ==
    state = "Running"
        => /\ \A p \in Players : \/ sl.input_queues[p].first_incorrect_frame = NULL_FRAME
                                 \/ sl.input_queues[p].first_incorrect_frame > sl.last_confirmed_frame
           /\ \/ lockstep
              \/ disconnect_frame = NULL_FRAME
              \/ disconnect_frame > sl.last_confirmed_frame

\* The session is at most the prediction window past its confirmed frame.
InWindow ==
    /\ sl.last_confirmed_frame <= sl.current_frame
    /\ IF lockstep THEN sl.current_frame <= sl.last_confirmed_frame + 1
       ELSE sl.current_frame <= MaxFrameOf(sl.last_confirmed_frame, 0) + MaxPrediction

\* The game is at the session's frame, and the states of the window are in their cells.
StatesSaved ==
    /\ Len(game) = sl.current_frame
    /\ IF lockstep THEN sl.last_saved_frame = NULL_FRAME
       ELSE /\ sl.last_saved_frame \in {sl.current_frame - 1, sl.current_frame}
            /\ sl.last_confirmed_frame <= sl.last_saved_frame
            /\ CellsHold(sl.saved_states, game, Floor, sl.last_saved_frame)

\* The next checksum is one of a state in the window.
ScheduleAhead == ~lockstep => FrameToSend >= Floor

RollbackInv ==
    /\ SaveMode = "EveryFrame"
    /\ sl.last_confirmed_frame <= exposed
    /\ ExposedConfirmed
    /\ InputsRetained
    /\ AwaitedQuiet
    /\ PendingAbove
    /\ InWindow
    /\ StatesSaved
    /\ ScheduleAhead
    /\ sl.last_confirmed_frame < Len(broadcast)
    /\ result = "Ok"

LEMMA StartInStep ==
    ASSUME TypeOK, StatesSaved
    PROVE  InStep(Start)
<1>1. Start.requests = <<>> /\ Start.sl = sl /\ Start.ok
  BY DEF Start
<1>2. Done(Start) = [cells |-> sl.saved_states, game |-> game]
  BY <1>1, FulfilNone DEF Done
<1>3. Done(Start).cells = sl.saved_states /\ Done(Start).game = game
  BY <1>2
<1> QED BY <1>1, <1>3, Zenon DEF InStep, StatesSaved

LEMMA Numbers ==
    ASSUME TypeOK
    PROVE  /\ sl.last_confirmed_frame \in Int /\ sl.current_frame \in Nat
           /\ Floor \in Nat /\ MaxPrediction \in Nat
           /\ OldestNeeded \in Nat /\ OldestNeeded >= Floor
           /\ OldestNeeded >= sl.last_confirmed_frame
           /\ OldestNeeded \in {Floor, sl.last_confirmed_frame}
<1>1. sl.last_confirmed_frame \in FrameOrNull /\ sl.current_frame \in Nat
  BY DEF TypeOK, SyncLayer
<1> QED BY <1>1, WindowSize DEF OldestNeeded, MaxFrameOf, FrameOrNull, NULL_FRAME

\* The local players' inputs are there up to the current frame.
LEMMA LocalsGiven ==
    ASSUME SessionInv, NEW p \in LocalPlayers
    PROVE  sl.current_frame <= sl.input_queues[p].last_added_frame + 1
<1>1. PICK n \in Nat : LocalsAt(n)
  BY DEF SessionInv
<1>2. p \in Players
  BY LocalPlayersAssumption
<1>3. Holds(sl.input_queues[p], truth[p])
  BY <1>2 DEF SessionInv, QueuesHold
<1>4. PICK q : q = sl.input_queues[p]
  OBVIOUS
<1>5. q.last_added_frame \in Int /\ q.frame_delay \in Nat
  BY <1>3, <1>4, PreviousSlot DEF Holds
<1>6. n >= sl.current_frame /\ Awaits(q, n) /\ sl.current_frame \in Nat
  BY <1>1, <1>4 DEF LocalsAt, SessionInv, TypeOK, SyncLayer
<1> QED BY <1>4, <1>5, <1>6 DEF Awaits, NULL_FRAME

\* A rollback stays in step.
LEMMA LoadAndReplayInStep ==
    ASSUME SessionInv, RollbackInv, ~lockstep, NEW w, Shaped(w), SyncInv(w.sl), InStep(w),
           w.sl.input_queues = sl.input_queues, w.sl.current_frame = sl.current_frame,
           NEW target \in Nat, OldestNeeded <= target,
           target < sl.current_frame => w = Start,
           NEW min_confirmed
    PROVE  LET x == LoadAndReplay(w, target, min_confirmed)
           IN  /\ InStep(x)
               /\ Fit(x.sl, OldestNeeded)
               /\ x.disconnect_frame = w.disconnect_frame
<1>1. TypeOK /\ QueuesHold
  BY DEF SessionInv
<1>2. /\ sl.current_frame \in Nat /\ Floor \in Nat /\ MaxPrediction \in Nat
      /\ OldestNeeded \in Nat /\ OldestNeeded >= Floor
      /\ sl.current_frame <= Floor + MaxPrediction
      /\ sl.max_prediction = MaxPrediction
  BY <1>1, Numbers, WindowSize DEF TypeOK, SyncLayer
<1>3. w.sl \in SyncLayer /\ w.ok \in BOOLEAN
  BY DEF Shaped
<1>4. ASSUME NEW p \in Players PROVE \E t : Holds(sl.input_queues[p], t)
  BY <1>1 DEF QueuesHold
<1>5. CASE target >= sl.current_frame
  <2>1. PICK x, t : x = LoadAndReplay(w, target, min_confirmed) /\ t = SyncLayer_reset_prediction(w.sl)
    OBVIOUS
  <2>2. x = [w EXCEPT !.sl = t]
    BY <1>5, <2>1 DEF LoadAndReplay
  <2>3. /\ t.current_frame = w.sl.current_frame /\ t.last_saved_frame = w.sl.last_saved_frame
    BY <2>1, ResetDerived
  <2>4. x.sl = t /\ x.ok = w.ok /\ x.requests = w.requests /\ x.disconnect_frame = w.disconnect_frame
    BY <2>2 DEF Shaped
  <2>5. InStep(x)
    <3>1. Done(x) = Done(w)
      BY <2>4 DEF Done
    <3> QED BY <2>3, <2>4, <3>1, Zenon DEF InStep
  <2>6. ASSUME NEW p \in Players
        PROVE  (\E u : Holds(w.sl.input_queues[p], u)) /\ Retains(w.sl.input_queues[p], OldestNeeded)
    BY <1>4 DEF RollbackInv, InputsRetained
  <2>7. Fit(t, OldestNeeded)
    BY <1>2, <2>1, <2>6, ResetFit
  <2> QED BY <2>1, <2>4, <2>5, <2>7
<1>6. CASE target < sl.current_frame
  <2> DEFINE r == [type |-> "Load", frame |-> target]
             y == [w EXCEPT !.sl = SyncLayer_reset_prediction(load_frame(@, target))]
  <2>1. w.sl = sl
    BY <1>1, <1>6, StartShape
  <2>2. PICK last \in Nat : last = sl.last_saved_frame /\ target <= last
    <3>1. sl.last_saved_frame \in {sl.current_frame - 1, sl.current_frame}
      BY Zenon DEF RollbackInv, StatesSaved
    <3> QED BY <1>2, <1>6, <3>1
  <2>3. CellsHold(sl.saved_states, game, Floor, last)
    BY <2>2, Zenon DEF RollbackInv, StatesSaved
  <2>4. sl.saved_states[get_cell(sl.saved_states, target)] = [frame |-> target, state |-> SubSeq(game, 1, target)]
    BY <1>2, <2>2, <2>3 DEF CellsHold
  <2>5. CanLoadFrame(sl, target)
    <3>1. target >= sl.current_frame - sl.max_prediction /\ target # NULL_FRAME
      BY <1>2 DEF NULL_FRAME
    <3> QED BY <1>6, <2>4, <3>1 DEF CanLoadFrame
  <2>6. PICK n \in Nat : n = sl.current_frame - target
    BY <1>2, <1>6
  <2>7. LoadAndReplay(w, target, min_confirmed) = Replay(Request(y, r), n, min_confirmed)
    <3>1. ~(target >= w.sl.current_frame)
      BY <1>2, <1>6, <2>1
    <3> QED BY <2>1, <2>5, <2>6, <3>1 DEF LoadAndReplay
  <2>8. PICK s, t : s = load_frame(w.sl, target) /\ t = SyncLayer_reset_prediction(s)
    OBVIOUS
  <2>9. /\ s \in SyncLayer /\ s.saved_states = w.sl.saved_states
        /\ s.input_queues = w.sl.input_queues /\ s.current_frame = target
        /\ s.last_confirmed_frame = w.sl.last_confirmed_frame
        /\ s.last_saved_frame = target
    BY <1>3, <2>8 DEF load_frame, SyncLayer, FrameOrNull
  <2>10. Derived(w.sl, s)
    BY <2>9, CountersDerived
  <2>11. /\ Derived(s, t) /\ t.current_frame = target /\ t.last_saved_frame = target
         /\ t.last_confirmed_frame = w.sl.last_confirmed_frame
    BY <2>8, <2>9, <2>10, DerivedInv, ResetDerived
  <2>12. Derived(w.sl, t)
    BY <2>10, <2>11, DerivedTrans
  <2>13. /\ Worked(w, y) /\ y.sl = t /\ y.ok = w.ok /\ y.requests = w.requests
         /\ y.disconnect_frame = w.disconnect_frame
    <3>1. Replaced(w, y, t, w.ok)
      BY <2>8 DEF Replaced
    <3>2. y.requests = w.requests /\ y.disconnect_frame = w.disconnect_frame
      BY DEF Shaped
    <3> HIDE DEF y
    <3> QED BY <1>3, <2>11, <2>12, <3>1, <3>2, WorkedWith
  <2>14. r \in SaveOrLoad /\ r.type = "Load" /\ r.frame = target
    BY DEF SaveOrLoad
  <2> HIDE DEF r, y
  <2>15. PICK z : z = Request(y, r)
    OBVIOUS
  <2>16. Worked(y, z) /\ z.sl = t /\ z.ok = w.ok
    BY <2>13, <2>14, <2>15, WorkedInv, WorkedRequest
  <2>17. z.requests = Append(w.requests, r) /\ z.disconnect_frame = w.disconnect_frame
    <3>1. Shaped(y)
      BY <2>13, WorkedInv
    <3>2. PICK more : more = Append(y.requests, r)
      OBVIOUS
    <3>3. z = [y EXCEPT !.requests = more]
      BY <2>15, <3>2 DEF Request
    <3> QED BY <2>13, <3>1, <3>2, <3>3 DEF Shaped
  <2>18. Shaped(z) /\ SyncInv(z.sl)
    BY <2>16, WorkedInv
  <2>19. InStep(z)
    <3>1. Floor <= target /\ target <= w.sl.last_saved_frame
      BY <1>2, <2>1, <2>2
    <3> QED BY <1>1, <2>11, <2>14, <2>16, <2>17, <3>1, LoadInStep
  <2>20. Fit(z.sl, OldestNeeded)
    <3>1. SyncInv(s)
      BY <2>10, DerivedInv
    <3>2. ASSUME NEW p \in Players
          PROVE  (\E u : Holds(s.input_queues[p], u)) /\ Retains(s.input_queues[p], OldestNeeded)
      BY <1>4, <2>9 DEF RollbackInv, InputsRetained
    <3> QED BY <1>2, <2>8, <2>16, <3>1, <3>2, ResetFit
  <2>21. ASSUME NEW p \in Awaited
         PROVE  z.sl.current_frame + n <= z.sl.input_queues[p].last_added_frame + 1
    <3>1. p \in LocalPlayers /\ p \in Players
      BY LocalPlayersAssumption DEF Awaited
    <3>2. sl.current_frame <= sl.input_queues[p].last_added_frame + 1
      BY <3>1, LocalsGiven
    <3>3. z.sl.input_queues[p].last_added_frame = sl.input_queues[p].last_added_frame
      BY <2>1, <2>12, <2>16, <3>1 DEF Derived, SameInputs
    <3>4. z.sl.current_frame + n = sl.current_frame
      BY <1>2, <2>6, <2>11, <2>16
    <3> QED BY <3>2, <3>3, <3>4
  <2>22. PICK x : x = Replay(z, n, min_confirmed)
    OBVIOUS
  <2>23. ReplayedTo(z, x, n, OldestNeeded)
    <3>1. /\ OldestNeeded <= z.sl.current_frame /\ z.sl.last_saved_frame = z.sl.current_frame
          /\ z.sl.current_frame + n <= Floor + MaxPrediction /\ OldestNeeded \in Int
      BY <1>2, <2>6, <2>11, <2>16
    <3> QED BY <1>1, <2>18, <2>19, <2>20, <2>21, <2>22, <3>1, ReplayInStep DEF RollbackInv
  <2> QED BY <2>7, <2>15, <2>17, <2>22, <2>23 DEF ReplayedTo
<1> QED BY <1>2, <1>5, <1>6

\* The stage has caught up: in step, nothing known to be wrong.
CaughtUp(w) ==
    /\ Shaped(w) /\ SyncInv(w.sl)
    /\ Worked(Start, w)
    /\ InStep(w)
    /\ w.sl.current_frame = sl.current_frame
    /\ Fit(w.sl, OldestNeeded)
    /\ lockstep \/ w.disconnect_frame = NULL_FRAME

\* The queues as they are, when no misprediction is known.
LEMMA NothingWrong ==
    ASSUME SessionInv, RollbackInv,
           \A p \in Players : sl.input_queues[p].first_incorrect_frame = NULL_FRAME
    PROVE  Fit(sl, OldestNeeded)
<1>1. ASSUME NEW p \in Players PROVE Answers(sl.input_queues[p], OldestNeeded)
  BY DEF SessionInv, QueuesHold, RollbackInv, InputsRetained, Answers
<1> QED BY <1>1 DEF Fit, RollbackInv, AwaitedQuiet

LEMMA RollbackInStep ==
    ASSUME SessionInv, RollbackInv, state = "Running", NEW confirmed
    PROVE  CaughtUp(Rollback(Start, confirmed))
<1> DEFINE wrong == check_simulation_consistency(sl, disconnect_frame)
           first == RequestSaveIf(Start, sl.current_frame = 0 /\ ~lockstep)
           known == FirstIncorrects(sl) \cup ({disconnect_frame} \ {NULL_FRAME})
<1>1. /\ TypeOK /\ MaxPrediction \in Nat /\ disconnect_frame \in FrameOrNull
      /\ sl.current_frame \in Nat /\ Floor \in Nat /\ OldestNeeded \in Nat
      /\ sl.current_frame <= Floor + MaxPrediction
      /\ OldestNeeded \in {Floor, sl.last_confirmed_frame}
      /\ sl.last_confirmed_frame \in Int
  BY Numbers, WindowSize DEF SessionInv, TypeOK
<1>2. SyncInv(sl)
  BY DEF SessionInv, TypeOK, QueuesHold, Holds, SyncInv
<1>3. /\ Shaped(Start) /\ SyncInv(Start.sl) /\ Start.sl = sl /\ Start.ok = TRUE /\ InStep(Start)
      /\ Start.disconnect_frame = disconnect_frame
  BY <1>1, <1>2, StartShape, StartInStep DEF RollbackInv, Start
<1>4. /\ Worked(Start, first) /\ InStep(first) /\ first.sl.current_frame = sl.current_frame
      /\ first.sl.input_queues = sl.input_queues /\ first.disconnect_frame = disconnect_frame
      /\ sl.current_frame # 0 => first = Start
  <2>1. CASE sl.current_frame = 0 /\ ~lockstep
    <3>1. first = RequestSave(Start)
      BY <2>1 DEF RequestSaveIf
    <3>2. Worked(Start, first) /\ first.sl.current_frame = Start.sl.current_frame
      BY <1>3, <3>1, SaveStage
    <3>3. first.sl.input_queues = Start.sl.input_queues
          /\ first.disconnect_frame = Start.disconnect_frame
      BY <1>3, <3>1, SaveFields
    <3>4. InStep(first)
      BY <1>1, <1>3, <2>1, <3>1, SaveInStep
    <3> HIDE DEF first
    <3> QED BY <1>3, <2>1, <3>2, <3>3, <3>4
  <2>2. CASE ~(sl.current_frame = 0 /\ ~lockstep)
    <3>1. first = Start
      BY <2>2 DEF RequestSaveIf
    <3> HIDE DEF first
    <3> QED BY <1>3, <3>1, WorkedRefl
  <2> QED BY <2>1, <2>2
<1> HIDE DEF first
<1>5. Shaped(first) /\ SyncInv(first.sl)
  BY <1>4, WorkedInv
<1>6. known \subseteq FrameOrNull /\ NULL_FRAME \notin known
  BY <1>1, <1>2 DEF FirstIncorrects, SyncInv, SyncLayer, Queue
<1>7. wrong = IF known = {} THEN NULL_FRAME ELSE MinOf(known)
  BY DEF check_simulation_consistency, MinOf
<1>8. CASE lockstep
  <2>1. Rollback(Start, confirmed) = first
    BY <1>8 DEF Rollback, first
  <2>2. \A p \in Players : sl.input_queues[p].first_incorrect_frame = NULL_FRAME
    BY <1>8 DEF RollbackInv, AwaitedQuiet, Awaited
  <2>3. Fit(first.sl, OldestNeeded)
    BY <1>4, <2>2, NothingWrong DEF Fit
  <2> QED BY <1>4, <1>5, <1>8, <2>1, <2>3 DEF CaughtUp
<1>9. CASE ~lockstep /\ wrong = NULL_FRAME
  <2>1. Rollback(Start, confirmed) = first
    BY <1>9 DEF Rollback, first
  <2>2. known = {}
    <3> HIDE DEF known, wrong
    <3> QED BY <1>6, <1>7, <1>9, MinOfFrames
  <2>3. \A p \in Players : sl.input_queues[p].first_incorrect_frame = NULL_FRAME
    BY <2>2 DEF FirstIncorrects
  <2>4. disconnect_frame = NULL_FRAME
    BY <2>2
  <2>5. Fit(first.sl, OldestNeeded)
    BY <1>4, <2>3, NothingWrong DEF Fit
  <2> QED BY <1>4, <1>5, <2>1, <2>4, <2>5 DEF CaughtUp
<1>10. CASE ~lockstep /\ wrong # NULL_FRAME
  <2>1. wrong \in known /\ wrong \in Nat
    <3> HIDE DEF known, wrong
    <3> QED BY <1>6, <1>7, <1>10, MinOfFrames DEF FrameOrNull
  <2>2. wrong > sl.last_confirmed_frame
    BY <1>10, <2>1 DEF RollbackInv, PendingAbove, FirstIncorrects
  <2> HIDE DEF wrong, known
  <2>3. rollback_window_floor(first.sl) = Floor
    <3>1. first.sl.max_prediction = MaxPrediction /\ sl.max_prediction = MaxPrediction
      BY <1>1, <1>5 DEF TypeOK, SyncInv, SyncLayer
    <3> QED BY <1>4, <3>1 DEF Floor, rollback_window_floor
  <2>4. PICK target \in Nat : target = MaxFrameOf(wrong, Floor)
    BY <1>1, <2>1 DEF MaxFrameOf
  <2>5. OldestNeeded <= target
    BY <1>1, <2>1, <2>2, <2>4 DEF MaxFrameOf
  <2>6. PICK moved : moved = LoadAndReplay(first, target, confirmed)
    OBVIOUS
  <2>7. adjust_gamestate(first, wrong, confirmed) = moved
    BY <2>3, <2>4, <2>6 DEF adjust_gamestate, FrameToLoad, RollbackInv
  <2>8. target < sl.current_frame => first = Start
    BY <1>1, <1>4
  <2>9. /\ InStep(moved) /\ Fit(moved.sl, OldestNeeded)
        /\ moved.disconnect_frame = first.disconnect_frame
    BY <1>4, <1>5, <1>10, <2>5, <2>6, <2>8, LoadAndReplayInStep
  <2>10. Moved(first, moved)
    BY <1>5, <2>6, LoadStage
  <2>11. moved.ok /\ Shaped(moved)
    BY <2>9, <2>10, WorkedInv DEF InStep, Moved
  <2>12. PICK x : x = DisconnectHandled(moved)
    OBVIOUS
  <2>13. x = [moved EXCEPT !.disconnect_frame = NULL_FRAME]
    BY <2>11, <2>12 DEF DisconnectHandled
  <2>14. Rollback(Start, confirmed) = x
    BY <1>10, <2>7, <2>12 DEF Rollback, first, wrong
  <2>15. /\ x.sl = moved.sl /\ x.ok = moved.ok /\ x.requests = moved.requests
         /\ x.disconnect_frame = NULL_FRAME
    BY <2>11, <2>13 DEF Shaped
  <2>16. InStep(x)
    <3>1. Done(x) = Done(moved)
      BY <2>15 DEF Done
    <3> QED BY <2>9, <2>15, <3>1, Zenon DEF InStep
  <2>17. Moved(Start, x)
    BY <1>1, <1>2, <1>3, <2>14, RollbackStage
  <2>18. Worked(Start, x) /\ x.sl.current_frame = sl.current_frame
    BY <1>3, <2>11, <2>15, <2>17 DEF Moved
  <2> QED BY <2>9, <2>14, <2>15, <2>16, <2>18, WorkedInv DEF CaughtUp
<1> QED BY <1>8, <1>9, <1>10

\* The state of the current frame is saved after it.
LEMMA SavedInStep ==
    ASSUME SessionInv, RollbackInv, NEW w, CaughtUp(w), NEW confirmed
    PROVE  LET x == SaveAfterRollback(w, confirmed)
           IN  CaughtUp(x) /\ (lockstep \/ x.sl.last_saved_frame = sl.current_frame)
<1>1. PICK x : x = SaveAfterRollback(w, confirmed)
  OBVIOUS
<1>2. w.ok /\ TypeOK
  BY DEF CaughtUp, InStep, SessionInv
<1>3. CASE lockstep
  BY <1>1, <1>3 DEF SaveAfterRollback
<1>4. CASE ~lockstep
  <2>1. x = RequestSave(w)
    BY <1>1, <1>2, <1>4 DEF SaveAfterRollback, RollbackInv
  <2>2. /\ x.sl.last_saved_frame = w.sl.current_frame /\ x.sl.current_frame = w.sl.current_frame
        /\ x.sl.input_queues = w.sl.input_queues /\ x.disconnect_frame = w.disconnect_frame
    BY <2>1, SaveFields DEF CaughtUp
  <2>3. Worked(w, x)
    BY <2>1, SaveStage DEF CaughtUp
  <2>4. Worked(Start, x)
    BY <2>3, WorkedTrans DEF CaughtUp
  <2>5. InStep(x)
    BY <1>2, <1>4, <2>1, SaveInStep, WindowSize DEF CaughtUp
  <2> QED BY <1>1, <2>2, <2>3, <2>4, <2>5, WorkedInv DEF CaughtUp, Fit
<1> QED BY <1>3, <1>4

-----------------------------------------------------------------------------
(* The broadcast.                                                          *)

\* Up to the confirmed frame, a queue that is asked has been given the input.
LEMMA ConfirmedGiven ==
    ASSUME SessionInv, NEW p \in Players, NEW f \in Nat, f <= confirmed_frame,
           ~IsDropped(local_connect_status, p, f)
    PROVE  f <= sl.input_queues[p].last_added_frame
<1>1. PICK c \in Int : c = confirmed_frame
  BY ConfirmedBounds DEF FrameOrNull, NULL_FRAME
<1>2. Above(c)
  BY <1>1, ConfirmedAbove
<1>3. PICK last \in Int : last = local_connect_status[p].last_frame
  BY DEF SessionInv, TypeOK, Status, FrameOrNull, NULL_FRAME
<1>4. sl.input_queues[p].last_added_frame \in Int
  BY TruthLength
<1>5. CASE p \in LocalPlayers
  <2>1. last >= c
    BY <1>2, <1>3, <1>5 DEF Above
  <2>2. last = sl.input_queues[p].last_added_frame
    BY <1>3, <1>5 DEF SessionInv, LocalsAt
  <2> QED BY <1>1, <1>3, <2>1, <2>2
<1>6. CASE p \in Remotes
  <2>1. last <= sl.input_queues[p].last_added_frame
    BY <1>3, <1>6 DEF SessionInv, RemotesBehind
  <2>2. last >= f
    <3>1. CASE ~local_connect_status[p].disconnected
      BY <1>1, <1>2, <1>3, <1>6, <3>1 DEF Above
    <3>2. CASE local_connect_status[p].disconnected
      BY <1>3, <3>2 DEF IsDropped
    <3> QED BY <3>1, <3>2
  <2> QED BY <1>3, <1>4, <2>1, <2>2
<1> QED BY <1>5, <1>6 DEF Remotes

\* What is held can be read.
LEMMA KeptRead ==
    ASSUME NEW q, QueueInv(q), NEW f \in Nat, Kept(q, f)
    PROVE  confirmed_input(q, f) # None
<1>1. retained_confirmed_input(q, f) # None
  BY HeldIsKept
<1> QED BY <1>1 DEF retained_confirmed_input

\* The frames to be sent are held.
LEMMA UnsentHeld ==
    ASSUME SessionInv, RollbackInv, NEW s, Fit(s, OldestNeeded), NEW f \in Nat,
           Len(broadcast) <= f, f <= confirmed_frame, NEW p \in Players,
           \A i \in Players : s.input_queues[i].last_added_frame = sl.input_queues[i].last_added_frame
    PROVE  confirmed_inputs(s, f, local_connect_status)[p] # None
<1>1. TypeOK /\ Len(broadcast) \in Nat
  BY DEF SessionInv, TypeOK, GameState
<1>2. /\ sl.last_confirmed_frame \in Int /\ sl.current_frame \in Nat
      /\ MaxPrediction \in Nat /\ OldestNeeded \in Nat
      /\ OldestNeeded \in {Floor, sl.last_confirmed_frame}
      /\ Floor = IF sl.current_frame >= MaxPrediction THEN sl.current_frame - MaxPrediction ELSE 0
  BY <1>1, Numbers, WindowSize
<1>3. f > sl.last_confirmed_frame
  BY <1>1, <1>2 DEF RollbackInv
<1>4. f >= OldestNeeded
  <2>1. CASE lockstep
    <3>1. sl.current_frame <= sl.last_confirmed_frame + 1 /\ MaxPrediction = 0
      BY <2>1 DEF RollbackInv, InWindow, lockstep
    <3> QED BY <1>2, <1>3, <3>1
  <2>2. CASE ~lockstep
    <3>1. sl.current_frame <= MaxFrameOf(sl.last_confirmed_frame, 0) + MaxPrediction
      BY <2>2 DEF RollbackInv, InWindow
    <3> QED BY <1>2, <1>3, <3>1 DEF MaxFrameOf
  <2> QED BY <2>1, <2>2
<1>5. PICK q : q = s.input_queues[p]
  OBVIOUS
<1>6. PICK t : Holds(q, t)
  BY <1>5 DEF Fit, Answers
<1>7. QueueInv(q) /\ Retains(q, OldestNeeded)
  BY <1>5, <1>6 DEF Fit, Answers, Holds
<1>8. CASE IsDropped(local_connect_status, p, f)
  <2>1. DroppedInput(s, p) \in Input
    BY <1>5, <1>7, InputAssumption DEF DroppedInput, predict, QueueInv, Queue
  <2> QED BY <1>8, <2>1, InputAssumption DEF confirmed_inputs
<1>9. CASE ~IsDropped(local_connect_status, p, f)
  <2>1. f <= q.last_added_frame
    BY <1>5, <1>9, ConfirmedGiven
  <2>2. Kept(q, f)
    BY <1>4, <1>7, <2>1 DEF Retains
  <2>3. confirmed_input(q, f) # None
    BY <1>7, <2>2, KeptRead
  <2> QED BY <1>5, <1>9, <2>3 DEF confirmed_inputs
<1> QED BY <1>8, <1>9

\* The stage after the broadcast: everything confirmed has been sent.
SentAll(w, x) ==
    /\ Shaped(x)
    /\ x.sl = w.sl
    /\ x.status = w.status
    /\ x.local_inputs = w.local_inputs
    /\ x.requests = w.requests
    /\ x.disconnect_frame = w.disconnect_frame
    /\ x.ok
    /\ Len(x.broadcast) > confirmed_frame

LEMMA SendsAll ==
    ASSUME SessionInv, RollbackInv, NEW w, CaughtUp(w)
    PROVE  SentAll(w, SendToSpectators(w, confirmed_frame))
<1>1. PICK top \in FrameOrNull : top = confirmed_frame /\ top \in Int
  BY ConfirmedBounds DEF FrameOrNull, NULL_FRAME
<1>2. PICK sofar \in Nat : sofar = Len(broadcast)
  BY DEF SessionInv, TypeOK, GameState
<1>3. PICK N \in Nat : N = MaxFrameOf(top + 1 - sofar, 0) /\ N >= top + 1 - sofar
                          /\ (N # 0 => N = top + 1 - sofar)
  <2>1. PICK k \in Int : k = top + 1 - sofar
    BY <1>1, <1>2
  <2>2. MaxFrameOf(k, 0) \in Nat /\ MaxFrameOf(k, 0) >= k /\ MaxFrameOf(k, 0) \in {k, 0}
    BY DEF MaxFrameOf
  <2> QED BY <2>1, <2>2
<1>4. PICK x : x = SendToSpectators(w, top)
  OBVIOUS
<1>5. /\ Shaped(w) /\ SyncInv(w.sl) /\ w.ok /\ w.broadcast = broadcast
      /\ w.status = local_connect_status /\ Fit(w.sl, OldestNeeded)
      /\ \A i \in Players : w.sl.input_queues[i].last_added_frame = sl.input_queues[i].last_added_frame
  <2>1. TypeOK
    BY DEF SessionInv
  <2>2. /\ Start.sl = sl /\ Start.status = local_connect_status /\ Start.broadcast = broadcast
    BY <2>1, StartShape
  <2> QED BY <2>2 DEF CaughtUp, InStep, Worked, Derived, SameInputs
<1> DEFINE vectors == [i \in 1 .. N |-> confirmed_inputs(w.sl, sofar + i - 1, w.status)]
           lost == {i \in DOMAIN vectors : \E p \in Players : vectors[i][p] = None}
           m == IF lost = {} THEN Len(vectors) ELSE MinOf(lost) - 1
           more == SubSeq(vectors, 1, m)
<1>6. x = [w EXCEPT !.ok = lost = {}, !.broadcast = @ \o more]
  BY <1>2, <1>3, <1>4, <1>5 DEF SendToSpectators, SendVectors
<1>7. ASSUME NEW i \in 1 .. N, NEW p \in Players PROVE vectors[i][p] # None
  <2>1. PICK f \in Nat : f = sofar + i - 1
    OBVIOUS
  <2>2. sofar <= f /\ f <= top
    BY <1>1, <1>3, <1>7, <2>1
  <2>3. confirmed_inputs(w.sl, f, local_connect_status)[p] # None
    BY <1>1, <1>2, <1>5, <2>2, UnsentHeld
  <2> QED BY <1>5, <2>1, <2>3
<1>8. lost = {} /\ DOMAIN vectors = 1 .. N
  BY <1>7
<1>9. vectors \in Seq([Players -> Input \cup {None}]) /\ Len(vectors) = N
  <2>1. ASSUME NEW i \in 1 .. N PROVE vectors[i] \in [Players -> Input \cup {None}]
    <3>1. sofar + i - 1 \in Nat
      OBVIOUS
    <3> QED BY <1>5, <3>1, ConfirmedInputsType
  <2>2. DOMAIN vectors = 1 .. N /\ Len(vectors) = N /\ vectors \in Seq([Players -> Input \cup {None}])
    BY <2>1
  <2> QED BY <2>2
<1> HIDE DEF vectors
<1>10. m = N
  BY <1>8, <1>9
<1>11. more \in Seq([Players -> Input \cup {None}]) /\ Len(more) = N
  <2> HIDE DEF m
  <2> QED BY <1>9, <1>10
<1>12. w.broadcast \in Seq([Players -> Input \cup {None}])
  <2>1. broadcast \in Seq([Players -> Input])
    BY DEF SessionInv, TypeOK, GameState
  <2> QED BY <1>5, <2>1
<1> HIDE DEF more
<1>13. PICK sequence : sequence = w.broadcast \o more
  OBVIOUS
<1>14. Len(sequence) = sofar + N
  <2>1. PICK a, b : a = w.broadcast /\ b = more
    OBVIOUS
  <2>2. IsJoin(a \o b, a, b, [Players -> Input \cup {None}])
    BY <1>11, <1>12, <2>1, Joined
  <2> QED BY <1>2, <1>5, <1>11, <1>13, <2>1, <2>2 DEF IsJoin
<1>15. PICK ok : ok = TRUE
  OBVIOUS
<1>16. x = [w EXCEPT !.ok = ok, !.broadcast = sequence]
  <2>1. (lost = {}) = TRUE
    BY <1>8
  <2> HIDE DEF lost
  <2> QED BY <1>6, <1>13, <1>15, <2>1
<1>17. Extended(w, x, sequence, ok) /\ ok \in BOOLEAN
  BY <1>15, <1>16 DEF Extended
<1>18. /\ Shaped(x) /\ x.sl = w.sl /\ x.status = w.status /\ x.local_inputs = w.local_inputs
       /\ x.ok = ok /\ x.broadcast = sequence
  BY <1>5, <1>17, ExtendedShape
<1>19. x.requests = w.requests /\ x.disconnect_frame = w.disconnect_frame
  BY <1>5, <1>16 DEF Shaped
<1>20. sofar + N > top
  BY <1>1, <1>3
<1> QED BY <1>1, <1>4, <1>14, <1>15, <1>18, <1>19, <1>20 DEF SentAll

-----------------------------------------------------------------------------
(* Confirming, discarding and storing the local inputs.                    *)

LEMMA RetainsLess ==
    ASSUME NEW q, NEW m \in Int, NEW k \in Int, m <= k, Retains(q, m)
    PROVE  Retains(q, k)
  BY DEF Retains

\* Without a known misprediction the confirmed frame, or the current one, is confirmed.
LEMMA ConfirmFit ==
    ASSUME SaveMode = "EveryFrame", NEW s, SyncInv(s), NEW m \in Int, Fit(s, m),
           NEW frame \in FrameOrNull, NEW k \in Int, m <= k, MinFrame(frame, s.current_frame) <= k
    PROVE  LET t == set_last_confirmed_frame(s, frame, SaveMode)
           IN  /\ t.last_confirmed_frame = MinFrame(frame, s.current_frame)
               /\ Fit(t, k)
<1>1. s \in SyncLayer /\ s.current_frame \in Nat
  BY DEF SyncInv, SyncLayer
<1>2. PICK c \in FrameOrNull : c = MinFrame(frame, s.current_frame)
  BY <1>1 DEF MinFrame, FrameOrNull
<1>3. c \in Int /\ c <= k
  BY <1>2 DEF FrameOrNull, NULL_FRAME
<1>4. FirstIncorrects(s) = {}
  BY DEF Fit, Answers, FirstIncorrects
<1>5. ConfirmedBound(s, frame, SaveMode) = c
  BY <1>2 DEF ConfirmedBound
<1> DEFINE queues == IF c > 0 THEN [p \in Players |-> discard_confirmed_frames(s.input_queues[p], c - 1)]
                     ELSE s.input_queues
<1>6. PICK t : t = set_last_confirmed_frame(s, frame, SaveMode)
  OBVIOUS
<1>7. t = [s EXCEPT !.last_confirmed_frame = c, !.input_queues = queues]
  BY <1>4, <1>5, <1>6 DEF set_last_confirmed_frame
<1>8. ASSUME NEW p \in Players
      PROVE  Answers(queues[p], k) /\ (p \in Awaited => queues[p].prediction.frame = NULL_FRAME)
  <2>1. PICK q : q = s.input_queues[p]
    OBVIOUS
  <2>2. Answers(q, m) /\ (p \in Awaited => q.prediction.frame = NULL_FRAME)
    BY <2>1 DEF Fit
  <2>3. Answers(q, k)
    BY <2>2, RetainsLess DEF Answers
  <2>4. CASE c > 0
    <3>1. PICK before \in Nat : before = c - 1 /\ before <= k
      BY <1>3, <2>4
    <3>2. PICK r : r = discard_confirmed_frames(q, before)
      OBVIOUS
    <3>3. queues[p] = r
      BY <2>1, <2>4, <3>1, <3>2
    <3>4. PICK u : Holds(q, u)
      BY <2>3 DEF Answers
    <3>5. QueueInv(q)
      BY <3>4 DEF Holds
    <3>6. Retains(r, k) /\ SameEpisode(q, r) /\ SameInputs(q, r)
      BY <2>3, <3>1, <3>2, <3>5, RetainsDiscard, SameAfterDiscard DEF Answers
    <3>7. Holds(r, u)
      BY <3>4, <3>6, HoldsSame
    <3> QED BY <2>2, <2>3, <3>3, <3>6, <3>7 DEF Answers, SameEpisode
  <2>5. CASE ~(c > 0)
    BY <2>1, <2>2, <2>3, <2>5
  <2> QED BY <2>4, <2>5
<1> HIDE DEF queues
<1>9. t.last_confirmed_frame = c /\ t.input_queues = queues
  BY <1>1, <1>7 DEF SyncLayer
<1> QED BY <1>2, <1>6, <1>8, <1>9 DEF Fit

\* A local player's input.
LEMMA LocalAddFit ==
    ASSUME NEW s, SyncInv(s), MaxPrediction \in Nat, NEW p \in Players, NEW n \in Nat,
           n >= s.current_frame, Awaits(s.input_queues[p], n), NEW frame, NEW v \in Input,
           NEW m \in Int, rollback_window_floor(s) <= m
    PROVE  Grown(s.input_queues[p], SyncLayer_add_local_input(s, p, frame, v).sl.input_queues[p], m)
<1>1. PICK q : q = s.input_queues[p]
  OBVIOUS
<1>2. /\ s \in SyncLayer /\ s.current_frame \in Nat /\ s.max_prediction = MaxPrediction /\ QueueInv(q)
      /\ s.input_queues \in [Players -> Queue]
  BY <1>1 DEF SyncInv, SyncLayer
<1>3. PICK floor \in Int : floor = rollback_window_floor(s) /\ floor >= s.current_frame - MaxPrediction
  BY <1>2 DEF rollback_window_floor, MaxFrameOf
<1>4. CASE frame # s.current_frame
  BY <1>1, <1>2, <1>4, GrownRefl DEF SyncLayer_add_local_input
<1>5. CASE frame = s.current_frame
  <2>1. PICK res : res = add_input(q, frame, v, floor)
    OBVIOUS
  <2>2. SyncLayer_add_local_input(s, p, frame, v).sl = [s EXCEPT !.input_queues[p] = res.q]
    BY <1>1, <1>3, <1>5, <2>1 DEF SyncLayer_add_local_input
  <2>3. SyncLayer_add_local_input(s, p, frame, v).sl.input_queues[p] = res.q
    BY <1>2, <2>2 DEF SyncLayer
  <2>4. q.last_added_frame = NULL_FRAME => frame + q.frame_delay <= max_frame_delay
    <3>1. ASSUME q.last_added_frame = NULL_FRAME PROVE n = frame /\ floor >= n - MaxPrediction
      BY <1>1, <1>2, <1>3, <1>5, <3>1 DEF Awaits
    <3> QED BY <1>1, <1>2, <3>1, NextFits
  <2>5. Grown(q, res.q, m)
    BY <1>2, <1>3, <1>5, <2>1, <2>4, GrownInput
  <2> QED BY <1>1, <2>3, <2>5
<1> QED BY <1>4, <1>5

\* The fields the stage leaves alone.
LEMMA StoredRest ==
    ASSUME NEW w, Shaped(w), NEW queues \in [Players -> Queue], NEW inputs, NEW status,
           NEW x, StoredWith(w, x, queues, inputs, status)
    PROVE  /\ x.requests = w.requests /\ x.disconnect_frame = w.disconnect_frame
           /\ x.sl.last_confirmed_frame = w.sl.last_confirmed_frame
           /\ x.sl.last_saved_frame = w.sl.last_saved_frame
<1>1. PICK s : s = [w.sl EXCEPT !.input_queues = queues]
  OBVIOUS
<1>2. w.sl \in SyncLayer
  BY DEF Shaped
<1>3. /\ s.last_confirmed_frame = w.sl.last_confirmed_frame
      /\ s.last_saved_frame = w.sl.last_saved_frame
  BY <1>1, <1>2 DEF SyncLayer
<1>4. x = [w EXCEPT !.sl = s, !.local_inputs = inputs, !.status = status]
  BY <1>1 DEF StoredWith, Shaped
<1>5. x.requests = w.requests /\ x.disconnect_frame = w.disconnect_frame /\ x.sl = s
  BY <1>4 DEF Shaped
<1> QED BY <1>3, <1>5

\* The stage that confirms and stores stays in step, and the local inputs of the current
\* frame are there after it.
StoredInStep(w, x, k, top) ==
    /\ Shaped(x) /\ SyncInv(x.sl) /\ InStep(x)
    /\ Fit(x.sl, k)
    /\ x.sl.current_frame = w.sl.current_frame
    /\ x.sl.last_confirmed_frame = MinFrame(top, w.sl.current_frame)
    /\ x.sl.last_saved_frame = w.sl.last_saved_frame
    /\ x.disconnect_frame = w.disconnect_frame
    /\ x.broadcast = w.broadcast
    /\ \A p \in Players : ~(p \in LocalPlayers) =>
           /\ x.sl.input_queues[p].last_added_frame = w.sl.input_queues[p].last_added_frame
           /\ x.status[p] = w.status[p]
    /\ \A p \in LocalPlayers : w.sl.current_frame <= x.sl.input_queues[p].last_added_frame

LEMMA StoreInStep ==
    ASSUME TypeOK, SaveMode = "EveryFrame", NEW w, NEW n \in Nat, NEW T, Ready(w, n, T), InStep(w),
           NEW m \in Int, Fit(w.sl, m), NEW top \in FrameOrNull, NEW k \in Int, m <= k,
           MinFrame(top, w.sl.current_frame) <= k, rollback_window_floor(w.sl) <= k
    PROVE  StoredInStep(w, StoreLocalInputs(w, top), k, top)
<1>1. /\ MaxPrediction \in Nat /\ w.ok /\ SyncInv(w.sl) /\ w.sl \in SyncLayer /\ Shaped(w)
      /\ w.sl.current_frame \in Nat
  BY PredictionType DEF InStep, Ready, SyncInv, SyncLayer
<1>2. PICK s : s = set_last_confirmed_frame(w.sl, top, SaveMode)
  OBVIOUS
<1>3. Derived(w.sl, s) /\ s.current_frame = w.sl.current_frame
  BY <1>1, <1>2, ConfirmDerived
<1>4. s.last_confirmed_frame = MinFrame(top, w.sl.current_frame) /\ Fit(s, k)
  BY <1>1, <1>2, ConfirmFit
<1>5. PICK u : u = [w EXCEPT !.sl = s]
  OBVIOUS
<1>6. PICK x : x = StoreLocalInputs(w, top)
  OBVIOUS
<1>7. x = StoreLocal(u)
  BY <1>1, <1>2, <1>5, <1>6 DEF StoreLocalInputs
<1>8. Stored(w, x, n, T)
  BY <1>1, <1>6, StoreStage
<1>9. s \in SyncLayer /\ SyncInv(s)
  BY <1>3, DerivedInv DEF Derived
<1>10. /\ u.sl = s /\ u.status = w.status /\ u.local_inputs = w.local_inputs
       /\ u.requests = w.requests /\ u.disconnect_frame = w.disconnect_frame
       /\ Shaped(u)
  <2>1. /\ u \in [sl : SyncLayer, status : {w.status}, local_inputs : {w.local_inputs},
                  disconnect_frame : FrameOrNull, broadcast : {w.broadcast},
                  requests : Seq(SaveOrLoad \cup Advance), ok : BOOLEAN]
        /\ u.sl = s /\ u.status = w.status /\ u.local_inputs = w.local_inputs
        /\ u.broadcast = w.broadcast
        /\ u.requests = w.requests /\ u.disconnect_frame = w.disconnect_frame
    BY <1>1, <1>5, <1>9 DEF Shaped
  <2> QED BY <2>1 DEF Shaped
<1> DEFINE add(p) == SyncLayer_add_local_input(s, p, w.local_inputs[p].frame, w.local_inputs[p].input)
           queues == [p \in Players |-> IF p \in LocalPlayers THEN add(p).sl.input_queues[p]
                                        ELSE s.input_queues[p]]
           inputs == [p \in LocalPlayers |-> [w.local_inputs[p] EXCEPT !.frame = add(p).frame]]
           status == [p \in Players |-> IF p \in LocalPlayers /\ add(p).frame # NULL_FRAME
                                        THEN [w.status[p] EXCEPT !.last_frame = add(p).frame]
                                        ELSE w.status[p]]
<1>11. StoredWith(u, x, queues, inputs, status)
  <2>1. LocalPlayers \subseteq Players
    BY LocalPlayersAssumption
  <2> QED BY <1>7, <1>10, <2>1 DEF StoreLocal, StoreWith, StoredWith
<1>12. ASSUME NEW p \in LocalPlayers
       PROVE  p \in Players /\ Grown(s.input_queues[p], add(p).sl.input_queues[p], k)
  <2>1. p \in Players
    BY LocalPlayersAssumption
  <2>2. PICK q, r, frame, v : /\ q = w.sl.input_queues[p] /\ r = s.input_queues[p]
                              /\ frame = w.local_inputs[p].frame /\ v = w.local_inputs[p].input
    OBVIOUS
  <2>3. Awaits(r, n)
    BY <1>3, <2>1, <2>2, AwaitsSame DEF Ready, Derived
  <2>4. v \in Input /\ n >= s.current_frame
    BY <1>3, <2>2 DEF Ready, PlayerInput
  <2>5. rollback_window_floor(s) <= k
    BY <1>1, <1>3, <1>9 DEF rollback_window_floor, SyncLayer
  <2>6. Grown(r, SyncLayer_add_local_input(s, p, frame, v).sl.input_queues[p], k)
    BY <1>1, <1>9, <2>1, <2>2, <2>3, <2>4, <2>5, LocalAddFit
  <2> QED BY <2>1, <2>2, <2>6
<1> HIDE DEF add
<1>13. queues \in [Players -> Queue]
  <2>1. s.input_queues \in [Players -> Queue]
    BY <1>9 DEF SyncLayer
  <2> QED BY <1>12, <2>1 DEF Grown, QueueInv
<1>14. \A p \in Players : queues[p] = IF p \in LocalPlayers THEN add(p).sl.input_queues[p]
                                      ELSE s.input_queues[p]
  OBVIOUS
<1> HIDE DEF queues, inputs, status
<1>15. /\ Shaped(x) /\ x.sl.current_frame = s.current_frame /\ x.sl.input_queues = queues
       /\ x.requests = w.requests /\ x.disconnect_frame = w.disconnect_frame
       /\ x.sl.last_confirmed_frame = s.last_confirmed_frame
       /\ x.sl.last_saved_frame = s.last_saved_frame
  <2>1. PICK Q, I, C : Q = queues /\ I = inputs /\ C = status
    OBVIOUS
  <2>2. Q \in [Players -> Queue] /\ StoredWith(u, x, Q, I, C) /\ Shaped(u)
    BY <1>10, <1>11, <1>13, <2>1, Zenon
  <2>3. /\ Shaped(x) /\ x.sl.current_frame = u.sl.current_frame /\ x.sl.input_queues = Q
    BY <2>2, StoredShape
  <2>4. /\ x.requests = u.requests /\ x.disconnect_frame = u.disconnect_frame
        /\ x.sl.last_confirmed_frame = u.sl.last_confirmed_frame
        /\ x.sl.last_saved_frame = u.sl.last_saved_frame
    BY <2>2, StoredRest
  <2> QED BY <1>10, <2>1, <2>3, <2>4
<1>16. s.last_saved_frame = w.sl.last_saved_frame
  <2>1. PICK c, queue : s = [w.sl EXCEPT !.last_confirmed_frame = c, !.input_queues = queue]
    BY <1>2 DEF set_last_confirmed_frame
  <2> QED BY <1>1, <2>1 DEF SyncLayer
<1>17. ASSUME NEW p \in Players
       PROVE  /\ Answers(queues[p], k)
              /\ p \in Awaited => queues[p].prediction.frame = NULL_FRAME
  <2>1. PICK q, r : q = s.input_queues[p] /\ r = queues[p]
    OBVIOUS
  <2>2. Answers(q, k) /\ (p \in Awaited => q.prediction.frame = NULL_FRAME)
    BY <1>4, <2>1 DEF Fit
  <2>3. CASE p \in LocalPlayers
    <3>1. Grown(q, r, k)
      BY <1>12, <1>14, <2>1, <2>3
    <3>2. p \in Awaited
      BY <2>3, LocalPlayersAssumption DEF Awaited
    <3>3. \E t : Holds(r, t)
      <4>1. PlayerStored(w, x, n, T[p], p)
        BY <1>8 DEF Stored
      <4>2. Holds(w.sl.input_queues[p], T[p])
        BY DEF Ready
      <4>3. x.sl.input_queues[p] = r
        BY <1>15, <2>1
      <4> QED BY <4>1, <4>2, <4>3, HoldsSame DEF PlayerStored, Given
    <3>4. r.first_incorrect_frame = NULL_FRAME /\ r.prediction.frame = NULL_FRAME /\ Retains(r, k)
      BY <2>2, <3>1, <3>2 DEF Grown, Answers
    <3> QED BY <2>1, <3>3, <3>4 DEF Answers
  <2>4. CASE p \notin LocalPlayers
    BY <1>14, <2>1, <2>2, <2>4
  <2> QED BY <2>3, <2>4
<1>18. Fit(x.sl, k)
  BY <1>15, <1>17 DEF Fit
<1>19. SyncInv(x.sl)
  <2>1. ASSUME NEW p \in Players PROVE QueueInv(x.sl.input_queues[p])
    BY <1>15, <1>17 DEF Answers, Holds
  <2> QED BY <1>15, <2>1 DEF Shaped, SyncInv
<1>20. InStep(x)
  <2>1. Done(x) = Done(w)
    BY <1>15 DEF Done
  <2>2. /\ x.sl.current_frame = w.sl.current_frame /\ x.sl.last_saved_frame = w.sl.last_saved_frame
    BY <1>3, <1>15, <1>16
  <2>3. x.ok = w.ok
    BY <1>8 DEF Stored
  <2> QED BY <1>1, <2>1, <2>2, <2>3, Zenon DEF InStep
<1>21. ASSUME NEW p \in Players
       PROVE  /\ p \in LocalPlayers => w.sl.current_frame <= x.sl.input_queues[p].last_added_frame
              /\ p \notin LocalPlayers =>
                    /\ x.sl.input_queues[p].last_added_frame = w.sl.input_queues[p].last_added_frame
                    /\ x.status[p] = w.status[p]
  <2>1. PlayerStored(w, x, n, T[p], p)
    BY <1>8 DEF Stored
  <2>2. PICK q, r : q = w.sl.input_queues[p] /\ r = x.sl.input_queues[p]
    OBVIOUS
  <2>3. QueueInv(q) /\ q.last_added_frame \in Int /\ q.frame_delay \in Nat
    BY <1>1, <2>2, PreviousSlot DEF SyncInv
  <2>4. n >= w.sl.current_frame /\ (p \in LocalPlayers => Awaits(q, n))
    BY <2>2 DEF Ready
  <2>5. CASE p \in LocalPlayers /\ n = w.sl.current_frame
    <3>1. r.last_added_frame = n + q.frame_delay
      BY <2>1, <2>2, <2>5 DEF PlayerStored, Given
    <3> QED BY <1>1, <2>2, <2>3, <2>5, <3>1
  <2>6. CASE p \in LocalPlayers /\ n # w.sl.current_frame
    <3>1. SameInputs(q, r)
      BY <2>1, <2>2, <2>6 DEF PlayerStored
    <3>2. r.last_added_frame = q.last_added_frame /\ r.last_added_frame \in Int
      BY <2>3, <3>1 DEF SameInputs
    <3>3. n > w.sl.current_frame
      BY <1>1, <2>4, <2>6
    <3>4. n + q.frame_delay = q.last_added_frame + 1
      BY <1>1, <2>4, <2>6, <3>3 DEF Awaits
    <3> QED BY <1>1, <2>2, <2>3, <2>6, <3>2, <3>3, <3>4
  <2>7. CASE p \notin LocalPlayers
    BY <2>1, <2>2, <2>7 DEF PlayerStored, SameInputs
  <2> QED BY <2>5, <2>6, <2>7
<1>22. x.broadcast = w.broadcast
  BY <1>8 DEF Stored
<1>23. \A p \in LocalPlayers : w.sl.current_frame <= x.sl.input_queues[p].last_added_frame
  BY <1>21, LocalPlayersAssumption
<1> QED BY <1>3, <1>4, <1>6, <1>15, <1>16, <1>18, <1>19, <1>20, <1>21, <1>22, <1>23 DEF StoredInStep

-----------------------------------------------------------------------------
(* The new frame, and the whole call.                                      *)

\* The last stage: the new frame, or nothing.
FrameInStep(w, x, m) ==
    /\ Shaped(x) /\ SyncInv(x.sl) /\ InStep(x)
    /\ Fit(x.sl, m)
    /\ x.sl.last_confirmed_frame = w.sl.last_confirmed_frame
    /\ x.disconnect_frame = w.disconnect_frame
    /\ x.broadcast = w.broadcast
    /\ \/ /\ x.sl.current_frame = w.sl.current_frame
          /\ x.sl.last_saved_frame = w.sl.last_saved_frame
       \/ /\ CanAdvance(w.sl)
          /\ x.sl.current_frame = w.sl.current_frame + 1
          /\ lockstep \/ x.sl.last_saved_frame = w.sl.current_frame

LEMMA FrameStaysInStep ==
    ASSUME TypeOK, NEW w, NEW m \in Int, Shaped(w), SyncInv(w.sl), InStep(w), Fit(w.sl, m),
           CanAdvance(w.sl) => Simulates(w, m, FALSE)
    PROVE  FrameInStep(w, AdvanceLocal(w), m)
<1>1. PICK x : x = AdvanceLocal(w)
  OBVIOUS
<1>2. w.ok
  BY DEF InStep
<1>3. CASE ~CanAdvance(w.sl)
  <2>1. x = w
    BY <1>1, <1>3 DEF AdvanceLocal
  <2> QED BY <1>1, <2>1 DEF FrameInStep
<1>4. CASE CanAdvance(w.sl)
  <2>1. PICK y : y = Simulate(w, FALSE)
    OBVIOUS
  <2>2. Simulated(w, y, m)
    BY <1>4, <2>1, SimulateInStep
  <2>3. /\ Worked(w, y) /\ InStep(y) /\ y.ok /\ Fit(y.sl, m)
        /\ y.sl.current_frame = w.sl.current_frame + 1
        /\ lockstep \/ y.sl.last_saved_frame = w.sl.current_frame
        /\ y.disconnect_frame = w.disconnect_frame
    BY <2>2 DEF Simulated, InStep
  <2>4. /\ Shaped(y) /\ SyncInv(y.sl) /\ y.broadcast = w.broadcast
        /\ y.sl.last_confirmed_frame = w.sl.last_confirmed_frame
    BY <2>3, WorkedInv DEF Worked
  <2>5. PICK none : none = [p \in LocalPlayers |-> None]
    OBVIOUS
  <2>6. x = [y EXCEPT !.local_inputs = none]
    BY <1>1, <1>2, <1>4, <2>1, <2>3, <2>5 DEF AdvanceLocal, ClearLocalInputs
  <2>7. /\ x \in [sl : SyncLayer, status : {y.status}, local_inputs : {none},
                  disconnect_frame : FrameOrNull, broadcast : {y.broadcast},
                  requests : Seq(SaveOrLoad \cup Advance), ok : BOOLEAN]
        /\ x.sl = y.sl /\ x.ok = y.ok /\ x.status = y.status /\ x.local_inputs = none
        /\ x.broadcast = y.broadcast /\ x.requests = y.requests
        /\ x.disconnect_frame = y.disconnect_frame
    BY <2>4, <2>6 DEF Shaped
  <2>8. Shaped(x)
    BY <2>7 DEF Shaped
  <2>9. InStep(x)
    <3>1. Done(x) = Done(y)
      BY <2>7 DEF Done
    <3> QED BY <2>3, <2>7, <3>1, Zenon DEF InStep
  <2> QED BY <1>1, <1>4, <2>3, <2>4, <2>7, <2>8, <2>9 DEF FrameInStep
<1> QED BY <1>3, <1>4

\* What a call leaves: c is confirmed and m the oldest frame needed then.
CallInStep(y, c, m) ==
    /\ Shaped(y) /\ SyncInv(y.sl) /\ InStep(y)
    /\ Fit(y.sl, m)
    /\ y.sl.last_confirmed_frame = c
    /\ lockstep \/ y.disconnect_frame = NULL_FRAME
    /\ Len(y.broadcast) > confirmed_frame
    /\ lockstep \/ y.sl.last_saved_frame = sl.current_frame
    /\ \/ y.sl.current_frame = sl.current_frame
       \/ /\ y.sl.current_frame = sl.current_frame + 1
          /\ IF lockstep THEN c = sl.current_frame
             ELSE sl.current_frame - MaxFrameOf(c, 0) < MaxPrediction

LEMMA CallStaysInStep ==
    ASSUME SessionInv, RollbackInv, CanCallAdvanceFrame, NEW c \in Int, NEW m \in Int,
           c = MinFrame(confirmed_frame, sl.current_frame), m = MaxFrameOf(Floor, c)
    PROVE  CallInStep(Advanced(confirmed_frame), c, m)
<1>1. TypeOK /\ SaveMode = "EveryFrame"
  BY DEF SessionInv, RollbackInv
<1>2. /\ sl.last_confirmed_frame \in Int /\ sl.current_frame \in Nat /\ MaxPrediction \in Nat
      /\ OldestNeeded \in Nat /\ Floor \in Nat /\ Floor <= sl.current_frame
      /\ OldestNeeded \in {Floor, sl.last_confirmed_frame}
  BY <1>1, Numbers, WindowSize
<1>3. PICK top \in FrameOrNull : top = confirmed_frame /\ top \in Int
  BY ConfirmedBounds DEF FrameOrNull, NULL_FRAME
<1>4. sl.last_confirmed_frame <= top
  <2>1. PICK e \in Int : e = exposed /\ sl.last_confirmed_frame <= e
    BY DEF SessionInv, TypeOK, RollbackInv, FrameOrNull, NULL_FRAME
  <2>2. top >= e
    BY <1>3, <2>1, ConfirmedAbove DEF RollbackInv, ExposedConfirmed
  <2> QED BY <1>2, <1>3, <2>1, <2>2
<1>5. sl.last_confirmed_frame <= c /\ c <= sl.current_frame /\ c <= top /\ (c = top \/ c = sl.current_frame)
  BY <1>2, <1>3, <1>4 DEF MinFrame, RollbackInv, InWindow
<1>6. /\ OldestNeeded <= m /\ Floor <= m /\ c <= m /\ m <= sl.current_frame
  BY <1>2, <1>5 DEF MaxFrameOf
<1>7. PICK v : v = Rollback(Start, top)
  OBVIOUS
<1>8. CaughtUp(v)
  BY <1>7, RollbackInStep DEF CanCallAdvanceFrame
<1>9. PICK w : w = SaveAfterRollback(v, top)
  OBVIOUS
<1>10. CaughtUp(w) /\ (lockstep \/ w.sl.last_saved_frame = sl.current_frame)
  BY <1>8, <1>9, SavedInStep
<1>11. PICK x : x = SendToSpectators(w, top)
  OBVIOUS
<1>12. SentAll(w, x)
  BY <1>3, <1>10, <1>11, SendsAll
<1>13. PICK u : u = StoreLocalInputs(x, top)
  OBVIOUS
<1>14. PICK y : y = AdvanceLocal(u)
  OBVIOUS
<1>15. Advanced(top) = y
  BY <1>7, <1>9, <1>11, <1>13, <1>14 DEF Advanced
<1>16. /\ Shaped(x) /\ SyncInv(x.sl) /\ InStep(x) /\ Fit(x.sl, OldestNeeded) /\ x.sl = w.sl
       /\ x.sl.current_frame = sl.current_frame /\ x.status = local_connect_status
       /\ x.local_inputs = local_inputs
       /\ lockstep \/ x.disconnect_frame = NULL_FRAME
       /\ \A p \in Players : SameInputs(sl.input_queues[p], x.sl.input_queues[p])
  <2>1. /\ Start.sl = sl /\ Start.status = local_connect_status /\ Start.local_inputs = local_inputs
    BY <1>1, StartShape
  <2>2. InStep(x)
    <3>1. Done(x) = Done(w) /\ x.ok /\ x.sl = w.sl
      BY <1>12 DEF SentAll, Done
    <3>2. InStep(w)
      BY <1>10 DEF CaughtUp
    <3> QED BY <3>1, <3>2, Zenon DEF InStep
  <2> QED BY <1>10, <1>12, <2>1, <2>2 DEF CaughtUp, SentAll, Worked, Derived
<1>17. PICK n \in Nat : LocalsAt(n)
  BY DEF SessionInv
<1>18. Ready(x, n, truth)
  <2>1. ASSUME NEW p \in Players PROVE Holds(x.sl.input_queues[p], truth[p])
    BY <1>16, HoldsSame DEF SessionInv, QueuesHold
  <2>2. ASSUME NEW p \in LocalPlayers
        PROVE  /\ Awaits(x.sl.input_queues[p], n)
               /\ n = x.sl.current_frame => x.local_inputs[p].frame = n
    <3>1. Awaits(sl.input_queues[p], n) /\ local_inputs[p] # None
      BY <1>17 DEF LocalsAt, CanCallAdvanceFrame
    <3>2. p \in Players
      BY LocalPlayersAssumption
    <3>3. Awaits(x.sl.input_queues[p], n)
      BY <1>16, <3>1, <3>2, AwaitsSame
    <3> QED BY <1>16, <1>17, <3>1, <3>3 DEF LocalsAt
  <2>3. local_inputs \in [LocalPlayers -> PlayerInput] /\ local_connect_status \in [Players -> Status]
    BY <1>1 DEF TypeOK, CanCallAdvanceFrame
  <2> QED BY <1>16, <1>17, <2>1, <2>2, <2>3 DEF Ready, LocalsAt
<1>19. StoredInStep(x, u, m, top)
  <2>1. rollback_window_floor(x.sl) = Floor
    BY <1>1, <1>16 DEF rollback_window_floor, Floor, SyncInv, SyncLayer, TypeOK
  <2>2. MinFrame(top, x.sl.current_frame) <= m
    BY <1>3, <1>6, <1>16
  <2> QED BY <1>1, <1>2, <1>6, <1>13, <1>16, <1>18, <2>1, <2>2, StoreInStep
<1>20. /\ Shaped(u) /\ SyncInv(u.sl) /\ InStep(u) /\ Fit(u.sl, m)
       /\ u.sl.current_frame = sl.current_frame /\ u.sl.last_confirmed_frame = c
       /\ lockstep \/ u.sl.last_saved_frame = sl.current_frame
       /\ lockstep \/ u.disconnect_frame = NULL_FRAME
  BY <1>3, <1>10, <1>16, <1>19 DEF StoredInStep
<1>21. ASSUME CanAdvance(u.sl) PROVE Simulates(u, m, FALSE)
  <2>1. ASSUME NEW p \in Awaited
        PROVE  \/ IsDropped(u.status, p, u.sl.current_frame)
               \/ u.sl.current_frame <= u.sl.input_queues[p].last_added_frame
    <3>1. CASE p \in LocalPlayers
      BY <1>16, <1>19, <1>20, <3>1 DEF StoredInStep
    <3>2. CASE p \notin LocalPlayers
      <4>1. lockstep /\ p \in Players
        BY <2>1, <3>2, LocalPlayersAssumption DEF Awaited
      <4>2. c = sl.current_frame
        BY <1>20, <1>21, <4>1 DEF CanAdvance
      <4>3. sl.current_frame <= top
        BY <1>5, <4>2
      <4>4. /\ u.sl.input_queues[p].last_added_frame = sl.input_queues[p].last_added_frame
            /\ u.status[p] = local_connect_status[p]
        BY <1>16, <1>19, <3>2, <4>1 DEF StoredInStep, SameInputs
      <4>5. CASE IsDropped(local_connect_status, p, sl.current_frame)
        BY <1>20, <4>4, <4>5 DEF IsDropped
      <4>6. CASE ~IsDropped(local_connect_status, p, sl.current_frame)
        BY <1>2, <1>3, <1>20, <4>1, <4>3, <4>4, <4>6, ConfirmedGiven
      <4> QED BY <4>5, <4>6
    <3> QED BY <3>1, <3>2
  <2> QED BY <1>6, <1>20, <2>1 DEF Simulates
<1>22. FrameInStep(u, y, m)
  BY <1>1, <1>14, <1>20, <1>21, FrameStaysInStep
<1>23. Len(y.broadcast) > top
  BY <1>3, <1>12, <1>19, <1>22 DEF SentAll, StoredInStep, FrameInStep
<1>24. \/ y.sl.current_frame = sl.current_frame
       \/ /\ y.sl.current_frame = sl.current_frame + 1
          /\ IF lockstep THEN c = sl.current_frame
             ELSE sl.current_frame - MaxFrameOf(c, 0) < MaxPrediction
  BY <1>20, <1>22 DEF FrameInStep, CanAdvance
<1>25. lockstep \/ y.sl.last_saved_frame = sl.current_frame
  BY <1>20, <1>22 DEF FrameInStep
<1> QED BY <1>3, <1>15, <1>20, <1>22, <1>23, <1>24, <1>25 DEF CallInStep, FrameInStep

-----------------------------------------------------------------------------
(* The schedule of checksums.                                              *)

LEMMA ScheduleType ==
    ASSUME TypeOK
    PROVE  FrameToSend \in Nat /\ FrameToSend >= 1
<1>1. last_sent_checksum_frame \in FrameOrNull /\ ChecksumInterval \in Nat /\ ChecksumInterval >= 1
  BY ChecksumAssumption DEF TypeOK
<1> QED BY <1>1 DEF FrameToSend, FrameOrNull, NULL_FRAME

\* The state of the scheduled frame is held when it is due.
LEMMA DueIsHeld ==
    ASSUME TypeOK, StatesSaved, ScheduleAhead, ChecksumDue
    PROVE  saved_state_by_frame(sl, FrameToSend) # None /\ ~lockstep
<1>1. PICK f \in Nat : f = FrameToSend /\ f >= 1
  BY ScheduleType
<1>2. f <= sl.last_saved_frame
  BY <1>1 DEF ChecksumDue
<1>3. ~lockstep
  <2>1. ASSUME lockstep PROVE FALSE
    <3>1. sl.last_saved_frame = NULL_FRAME
      BY <2>1, Zenon DEF StatesSaved
    <3> QED BY <1>1, <1>2, <3>1 DEF NULL_FRAME
  <2> QED BY <2>1
<1>4. Floor <= f
  BY <1>1, <1>3, WindowSize DEF ScheduleAhead
<1>5. CellsHold(sl.saved_states, game, Floor, sl.last_saved_frame)
  BY <1>3, Zenon DEF StatesSaved
<1>6. PICK cell : cell = sl.saved_states[get_cell(sl.saved_states, f)]
  OBVIOUS
<1>7. cell.frame = f
  <2>1. cell = [frame |-> f, state |-> SubSeq(game, 1, f)]
    BY <1>2, <1>4, <1>5, <1>6, Zenon DEF CellsHold
  <2> QED BY <2>1
<1>8. cell \in Cell
  <2>1. /\ MaxPrediction \in Nat /\ sl.saved_states \in [0 .. MaxPrediction -> Cell]
    BY PredictionType DEF TypeOK, SyncLayer
  <2>2. get_cell(sl.saved_states, f) \in 0 .. MaxPrediction
    BY <2>1, CellInRing
  <2> QED BY <1>6, <2>1, <2>2
<1>9. cell # None
  BY <1>8, OptionAssumption DEF Cell, GameState
<1> QED BY <1>1, <1>3, <1>6, <1>7, <1>9 DEF saved_state_by_frame

\* The schedule keeps up with the window.
LEMMA ScheduleKeepsUp ==
    ASSUME TypeOK, TypeOK', RollbackInv, check_checksum_send_interval, state = "Running", ~lockstep,
           mode' = mode,
           \/ sl'.current_frame = sl.current_frame
           \/ sl'.current_frame = sl.current_frame + 1
    PROVE  FrameToSend' >= Floor'
<1>1. /\ Floor \in Nat /\ sl.current_frame \in Nat /\ MaxPrediction \in Nat
      /\ Floor = IF sl.current_frame >= MaxPrediction THEN sl.current_frame - MaxPrediction ELSE 0
  BY WindowSize
<1>2. PICK cur \in Nat : cur = sl'.current_frame
  BY DEF TypeOK, SyncLayer
<1>3. Floor' = IF cur >= MaxPrediction THEN cur - MaxPrediction ELSE 0
  <2>1. MaxPrediction' = MaxPrediction /\ sl'.max_prediction = MaxPrediction
    BY DEF TypeOK, SyncLayer, MaxPrediction
  <2> QED BY <1>1, <1>2, <2>1 DEF Floor, rollback_window_floor, MaxFrameOf
<1>4. PICK low \in Nat : low = Floor' /\ low <= Floor + 1 /\ (cur = sl.current_frame => low = Floor)
  BY <1>1, <1>2, <1>3
<1>5. PICK f \in Nat : f = FrameToSend /\ f >= 1
  BY ScheduleType
<1>6. Floor <= f
  BY <1>5 DEF RollbackInv, ScheduleAhead
<1>7. CASE ChecksumDue
  <2>1. saved_state_by_frame(sl, f) # None
    BY <1>5, <1>7, DueIsHeld DEF RollbackInv
  <2>2. last_sent_checksum_frame' = f
    BY <1>5, <1>7, <2>1 DEF check_checksum_send_interval
  <2>3. FrameToSend' = f + ChecksumInterval
    BY <1>5, <2>2 DEF FrameToSend, NULL_FRAME
  <2>4. ChecksumInterval \in Nat /\ ChecksumInterval >= 1
    BY ChecksumAssumption
  <2> QED BY <1>1, <1>4, <1>6, <2>3, <2>4
<1>8. CASE ~ChecksumDue
  <2>1. last_sent_checksum_frame' = last_sent_checksum_frame
    BY <1>8 DEF check_checksum_send_interval, checksum_vars
  <2>2. FrameToSend' = f
    BY <1>5, <2>1 DEF FrameToSend
  <2>3. /\ sl.last_confirmed_frame \in Int
        /\ sl.last_saved_frame \in {sl.current_frame - 1, sl.current_frame}
        /\ sl.current_frame <= MaxFrameOf(sl.last_confirmed_frame, 0) + MaxPrediction
    <3>1. sl.last_confirmed_frame \in Int
      BY Numbers
    <3>2. sl.last_saved_frame \in {sl.current_frame - 1, sl.current_frame}
      BY Zenon DEF RollbackInv, StatesSaved
    <3>3. sl.current_frame <= MaxFrameOf(sl.last_confirmed_frame, 0) + MaxPrediction
      BY DEF RollbackInv, InWindow
    <3> QED BY <3>1, <3>2, <3>3
  <2>4. f > sl.last_confirmed_frame \/ f > sl.last_saved_frame
    <3>1. CASE disconnect_frame = NULL_FRAME \/ f < disconnect_frame
      BY <1>1, <1>5, <1>8, <2>3, <3>1 DEF ChecksumDue
    <3>2. CASE ~(disconnect_frame = NULL_FRAME \/ f < disconnect_frame)
      <4>1. disconnect_frame > sl.last_confirmed_frame
        BY <3>2 DEF RollbackInv, PendingAbove
      <4>2. disconnect_frame \in Int
        BY DEF TypeOK, FrameOrNull, NULL_FRAME
      <4> QED BY <2>3, <3>2, <4>1, <4>2
    <3> QED BY <3>1, <3>2
  <2>5. MaxPrediction >= 1
    BY <1>1 DEF lockstep
  <2>6. f >= low
    <3>1. CASE cur = sl.current_frame
      BY <1>4, <1>6, <3>1
    <3>2. CASE cur = sl.current_frame + 1
      <4>1. CASE f > sl.last_saved_frame
        BY <1>1, <1>3, <1>4, <2>3, <2>5, <3>2, <4>1
      <4>2. CASE f > sl.last_confirmed_frame
        <5>1. sl.current_frame <= (f - 1) + MaxPrediction
          BY <1>1, <1>5, <2>3, <4>2 DEF MaxFrameOf
        <5> QED BY <1>1, <1>3, <1>4, <3>2, <5>1
      <4> QED BY <2>4, <4>1, <4>2
    <3> QED BY <1>2, <3>1, <3>2
  <2> QED BY <1>4, <2>2, <2>6
<1> QED BY <1>7, <1>8

-----------------------------------------------------------------------------
(* The call keeps the invariant.                                           *)

\* The sync layer a call returns with.
LEMMA ReturnedLayer ==
    ASSUME NEW s \in SyncLayer, NEW cells, NEW t, t = [s EXCEPT !.saved_states = cells]
    PROVE  /\ t.saved_states = cells /\ t.input_queues = s.input_queues
           /\ t.current_frame = s.current_frame /\ t.last_saved_frame = s.last_saved_frame
           /\ t.last_confirmed_frame = s.last_confirmed_frame
  BY DEF SyncLayer

\* The local statuses rise with the inputs a call stores.
LEMMA CallRaises ==
    ASSUME SessionInv, AdvanceFrame
    PROVE  /\ \A p \in LocalPlayers :
                  local_connect_status'[p].last_frame >= local_connect_status[p].last_frame
           /\ \A p \in Remotes : RemoteGrows(p)
<1>1. PICK top \in FrameOrNull : top = confirmed_frame
  BY ConfirmedBounds
<1>2. PICK y : y = Advanced(top)
  OBVIOUS
<1>3. local_connect_status' = y.status /\ peer_connect_status' = peer_connect_status /\ running' = running
  BY <1>1, <1>2 DEF AdvanceFrame, Return
<1>4. PICK n \in Nat : LocalsAt(n)
  BY DEF SessionInv
<1>5. TypeOK /\ MaxPrediction \in Nat /\ QueuesHold
  BY PredictionType DEF SessionInv
<1>6. PICK stored \in BOOLEAN : CallStored(y, stored, n)
  BY <1>2, <1>4, <1>5, CallOutcome DEF AdvanceFrame, CanCallAdvanceFrame
<1>7. ASSUME NEW p \in LocalPlayers
      PROVE  local_connect_status'[p].last_frame >= local_connect_status[p].last_frame
  <2>1. p \in Players
    BY LocalPlayersAssumption
  <2>2. PICK q, r : q = sl.input_queues[p] /\ r = y.sl.input_queues[p]
    OBVIOUS
  <2>3. PICK last \in Int : last = q.last_added_frame /\ last = local_connect_status[p].last_frame
    BY <1>4, <2>1, <2>2, TruthLength DEF LocalsAt
  <2>4. PlayerCalled(y, stored, n, p)
    BY <1>6, <2>1 DEF CallStored
  <2>5. CASE stored
    <3>1. y.status[p].last_frame = n + q.frame_delay
      BY <2>2, <2>4, <2>5 DEF PlayerCalled
    <3>2. Awaits(q, n) /\ q.frame_delay \in Nat
      BY <1>4, <1>5, <2>1, <2>2 DEF LocalsAt, QueuesHold, Holds, QueueInv, Queue
    <3>3. n + q.frame_delay >= last
      BY <2>3, <3>2 DEF Awaits, NULL_FRAME
    <3> QED BY <1>3, <2>3, <3>1, <3>3
  <2>6. CASE ~stored
    BY <1>3, <2>3, <2>4, <2>6 DEF PlayerCalled
  <2> QED BY <2>5, <2>6
<1>8. ASSUME NEW p \in Remotes PROVE RemoteGrows(p)
  <2>1. p \in Players /\ p \notin LocalPlayers
    BY DEF Remotes
  <2>2. local_connect_status'[p] = local_connect_status[p]
    BY <1>3, <1>6, <2>1 DEF CallStored, PlayerCalled
  <2>3. ReportsGrow(p)
    BY <1>3, <1>5, ReportsFewer
  <2>4. local_connect_status[p].last_frame \in Int
    BY <2>1 DEF SessionInv, TypeOK, Status, FrameOrNull, NULL_FRAME
  <2> QED BY <2>2, <2>3, <2>4 DEF RemoteGrows
<1> QED BY <1>7, <1>8

\* The confirmed frame does not fall when it is set.
Confirms == sl'.last_confirmed_frame >= sl.last_confirmed_frame

LEMMA AdvanceFrameRolls ==
    ASSUME SessionInv, SessionInv', RollbackInv, AdvanceFrame
    PROVE  RollbackInv' /\ Confirms
<1>1. /\ TypeOK /\ TypeOK' /\ mode' = mode /\ state = "Running" /\ CanCallAdvanceFrame
      /\ UNCHANGED <<halt_confirmed_ceiling, drop>> /\ Expose(confirmed_frame)
      /\ check_checksum_send_interval
  BY DEF SessionInv, AdvanceFrame, CanCallAdvanceFrame
<1>2. PICK top \in FrameOrNull : top = confirmed_frame /\ top \in Int
  BY ConfirmedBounds DEF FrameOrNull, NULL_FRAME
<1>3. /\ sl.last_confirmed_frame \in Int /\ sl.current_frame \in Nat /\ MaxPrediction \in Nat
      /\ Floor \in Nat /\ Floor <= sl.current_frame
      /\ Floor = IF sl.current_frame >= MaxPrediction THEN sl.current_frame - MaxPrediction ELSE 0
  BY <1>1, Numbers, WindowSize
<1>4. PICK c \in Int : c = MinFrame(top, sl.current_frame)
  BY <1>2, <1>3 DEF MinFrame
<1>5. PICK m \in Int : m = MaxFrameOf(Floor, c)
  BY <1>3, <1>4 DEF MaxFrameOf
<1>6. PICK y : y = Advanced(top)
  OBVIOUS
<1>7. CallInStep(y, c, m)
  BY <1>1, <1>2, <1>4, <1>5, <1>6, CallStaysInStep
<1>8. y.ok /\ InStep(y) /\ y.sl \in SyncLayer /\ Shaped(y) /\ Fit(y.sl, m)
  BY <1>7 DEF CallInStep, InStep, SyncInv
<1>9. PICK g \in DoneType : g = Done(y)
  BY <1>1, <1>8, DoneTyped
<1>10. /\ result' = "Ok" /\ sl' = [y.sl EXCEPT !.saved_states = g.cells] /\ game' = g.game
       /\ disconnect_frame' = y.disconnect_frame /\ broadcast' = y.broadcast
  BY <1>2, <1>6, <1>8, <1>9 DEF AdvanceFrame, Return, Done
<1>11. /\ sl'.saved_states = g.cells /\ sl'.input_queues = y.sl.input_queues
       /\ sl'.current_frame = y.sl.current_frame /\ sl'.last_saved_frame = y.sl.last_saved_frame
       /\ sl'.last_confirmed_frame = c
  BY <1>7, <1>8, <1>10, ReturnedLayer DEF CallInStep
<1>12. PICK e \in Int : e = exposed' /\ e >= top /\ exposed <= top /\ exposed \in Int
  <2>1. PICK o \in Int : o = exposed
    BY <1>1 DEF TypeOK, FrameOrNull, NULL_FRAME
  <2>2. top >= o
    BY <1>2, <2>1, ConfirmedAbove DEF RollbackInv, ExposedConfirmed
  <2>3. exposed' = MaxFrameOf(o, top)
    BY <1>1, <1>2, <2>1 DEF Expose
  <2> QED BY <1>2, <2>1, <2>2, <2>3 DEF MaxFrameOf
<1>13. /\ sl.last_confirmed_frame <= c /\ c <= sl.current_frame /\ c <= top
  <2>1. sl.last_confirmed_frame <= top /\ sl.last_confirmed_frame <= sl.current_frame
    BY <1>2, <1>3, <1>12 DEF RollbackInv, InWindow
  <2> QED BY <1>2, <1>3, <1>4, <2>1 DEF MinFrame
<1>14. Confirms
  BY <1>11, <1>13 DEF Confirms
<1>15. /\ MaxPrediction' = MaxPrediction /\ lockstep' = lockstep /\ SaveMode' = SaveMode
       /\ Awaited' = Awaited
  BY <1>1 DEF MaxPrediction, lockstep, SaveMode, Awaited
<1>16. PICK cur \in Nat : cur = sl'.current_frame /\ (cur = sl.current_frame \/ cur = sl.current_frame + 1)
  BY <1>3, <1>7, <1>11 DEF CallInStep
<1>17. /\ Floor' = IF cur >= MaxPrediction THEN cur - MaxPrediction ELSE 0
       /\ OldestNeeded' \in Nat /\ OldestNeeded' >= m
  <2>1. /\ Floor' = IF cur >= MaxPrediction THEN cur - MaxPrediction ELSE 0
    <3>1. sl'.max_prediction = MaxPrediction
      BY <1>1, <1>15 DEF TypeOK, SyncLayer
    <3> QED BY <1>3, <1>16, <3>1 DEF Floor, rollback_window_floor, MaxFrameOf
  <2>2. OldestNeeded' = MaxFrameOf(Floor', c)
    BY <1>11 DEF OldestNeeded
  <2> QED BY <1>3, <1>5, <1>16, <2>1, <2>2 DEF MaxFrameOf
<1>18. ExposedConfirmed'
  <2>1. Exposes
    BY <1>1 DEF Expose, Exposes
  <2>2. HeldAbove
    BY <1>1, <2>1, HeldSame DEF RollbackInv
  <2> QED BY <2>1, <2>2, CallRaises, ExposedKeeps DEF RollbackInv
<1>19. InputsRetained'
  <2>1. ASSUME NEW p \in Players PROVE Retains(sl'.input_queues[p], OldestNeeded')
    <3>1. Retains(sl'.input_queues[p], m)
      BY <1>8, <1>11 DEF Fit, Answers
    <3> QED BY <1>17, <3>1, RetainsLess
  <2> QED BY <2>1 DEF InputsRetained
<1>20. AwaitedQuiet'
  <2>1. Awaited \subseteq Players
    BY LocalPlayersAssumption DEF Awaited
  <2> QED BY <1>8, <1>11, <1>15, <2>1 DEF AwaitedQuiet, Fit, Answers
<1>21. PendingAbove'
  <2>1. \A p \in Players : sl'.input_queues[p].first_incorrect_frame = NULL_FRAME
    BY <1>8, <1>11 DEF Fit, Answers
  <2>2. lockstep' \/ disconnect_frame' = NULL_FRAME
    BY <1>7, <1>10, <1>15 DEF CallInStep
  <2> QED BY <2>1, <2>2 DEF PendingAbove
<1>22. InWindow'
  <2>1. c <= cur
    BY <1>3, <1>13, <1>16
  <2>2. ASSUME lockstep PROVE cur <= c + 1
    <3>1. sl.current_frame <= sl.last_confirmed_frame + 1
      BY <2>2 DEF RollbackInv, InWindow
    <3>2. cur = sl.current_frame \/ c = sl.current_frame
      BY <1>7, <1>11, <1>16, <2>2 DEF CallInStep
    <3> QED BY <1>3, <1>13, <1>16, <3>1, <3>2
  <2>3. ASSUME ~lockstep PROVE cur <= MaxFrameOf(c, 0) + MaxPrediction
    <3>1. sl.current_frame <= MaxFrameOf(sl.last_confirmed_frame, 0) + MaxPrediction
      BY <2>3 DEF RollbackInv, InWindow
    <3>2. cur = sl.current_frame \/ sl.current_frame - MaxFrameOf(c, 0) < MaxPrediction
      BY <1>7, <1>11, <1>16, <2>3 DEF CallInStep
    <3> QED BY <1>3, <1>13, <1>16, <3>1, <3>2 DEF MaxFrameOf
  <2> QED BY <1>11, <1>15, <1>16, <2>1, <2>2, <2>3 DEF InWindow
<1>23. StatesSaved'
  <2>1. Len(game') = sl'.current_frame
    BY <1>8, <1>9, <1>10, <1>11 DEF InStep
  <2>2. CASE lockstep
    <3>1. sl'.last_saved_frame = NULL_FRAME
      BY <1>8, <1>11, <2>2, Zenon DEF InStep
    <3> QED BY <1>15, <2>1, <2>2, <3>1 DEF StatesSaved
  <2>3. CASE ~lockstep
    <3>1. sl'.last_saved_frame = sl.current_frame
      BY <1>7, <1>11, <2>3 DEF CallInStep
    <3>2. /\ sl'.last_saved_frame \in {sl'.current_frame - 1, sl'.current_frame}
          /\ sl'.last_confirmed_frame <= sl'.last_saved_frame
      BY <1>3, <1>11, <1>13, <1>16, <3>1
    <3>3. CellsHold(g.cells, g.game, Floor, sl.current_frame)
      BY <1>8, <1>9, <1>11, <2>3, <3>1, Zenon DEF InStep
    <3>4. ASSUME NEW f \in Nat, Floor' <= f, f <= sl'.last_saved_frame
          PROVE  sl'.saved_states[get_cell(sl'.saved_states, f)]
                   = [frame |-> f, state |-> SubSeq(game', 1, f)]
      <4>1. Floor <= f
        BY <1>3, <1>16, <1>17, <3>4
      <4>2. get_cell(sl'.saved_states, f) = get_cell(sl.saved_states, f)
        <5>1. DOMAIN sl'.saved_states = DOMAIN sl.saved_states
          BY <1>1, <1>15 DEF TypeOK, SyncLayer
        <5> QED BY <5>1, Zenon DEF get_cell
      <4>3. g.cells[get_cell(sl.saved_states, f)] = [frame |-> f, state |-> SubSeq(g.game, 1, f)]
        BY <3>1, <3>3, <3>4, <4>1 DEF CellsHold
      <4> QED BY <1>10, <1>11, <4>2, <4>3, Zenon
    <3>5. CellsHold(sl.saved_states, game, Floor, sl.last_saved_frame)'
      BY <3>4, Zenon DEF CellsHold
    <3> QED BY <1>15, <2>1, <2>3, <3>2, <3>5, Zenon DEF StatesSaved
  <2> QED BY <2>2, <2>3
<1>24. ScheduleAhead'
  <2>1. ASSUME ~lockstep PROVE FrameToSend' >= Floor'
    BY <1>1, <1>16, <2>1, ScheduleKeepsUp
  <2> QED BY <1>15, <2>1 DEF ScheduleAhead
<1>25. sl'.last_confirmed_frame < Len(broadcast')
  <2>1. Len(y.broadcast) > top /\ Len(broadcast') \in Nat
    BY <1>1, <1>2, <1>7 DEF CallInStep, TypeOK, GameState
  <2> QED BY <1>2, <1>10, <1>11, <1>13, <2>1
<1>26. sl'.last_confirmed_frame <= exposed'
  BY <1>2, <1>11, <1>12, <1>13
<1>27. SaveMode' = "EveryFrame"
  BY <1>15 DEF RollbackInv
<1> QED BY <1>10, <1>14, <1>18, <1>19, <1>20, <1>21, <1>22, <1>23, <1>24, <1>25, <1>26, <1>27 DEF RollbackInv

-----------------------------------------------------------------------------
(* Steps that do not advance.                                              *)

\* t is s with other queues.
SameCounters(s, t) ==
    /\ t.saved_states = s.saved_states
    /\ t.current_frame = s.current_frame
    /\ t.last_confirmed_frame = s.last_confirmed_frame
    /\ t.last_saved_frame = s.last_saved_frame

\* What the step is still to simulate again comes after what was exposed: a misprediction
\* is found by an input of a connected player, a disconnect is above.
PendingKept ==
    /\ state = "Running"
    /\ \A p \in Players :
           \/ sl'.input_queues[p].first_incorrect_frame = sl.input_queues[p].first_incorrect_frame
           \/ ~local_connect_status[p].disconnected
    /\ disconnect_frame' = disconnect_frame \/ disconnect_frame' > exposed

\* A connected player has given what was exposed.
LEMMA ConnectedGave ==
    ASSUME SessionInv, ExposedConfirmed, NEW p \in Players, ~local_connect_status[p].disconnected
    PROVE  exposed <= sl.input_queues[p].last_added_frame
<1>1. PICK last \in Int : last = local_connect_status[p].last_frame
  BY DEF SessionInv, TypeOK, Status, FrameOrNull, NULL_FRAME
<1>2. exposed \in Int /\ sl.input_queues[p].last_added_frame \in Int
  BY TruthLength DEF SessionInv, TypeOK, FrameOrNull, NULL_FRAME
<1>3. exposed <= last
  BY <1>1, <1>2 DEF ExposedConfirmed, Above, Remotes
<1>4. last <= sl.input_queues[p].last_added_frame
  <2>1. CASE p \in LocalPlayers
    BY <1>1, <1>2, <2>1 DEF SessionInv, LocalsAt
  <2>2. CASE p \in Remotes
    BY <1>1, <2>2 DEF SessionInv, RemotesBehind
  <2> QED BY <2>1, <2>2 DEF Remotes
<1> QED BY <1>1, <1>2, <1>3, <1>4

LEMMA RollbackKept ==
    ASSUME SessionInv, SessionInv', RollbackInv, ExposedConfirmed',
           UNCHANGED <<mode, game, broadcast, result, last_sent_checksum_frame>>,
           SameCounters(sl, sl'), exposed' >= exposed,
           \A p \in Players : Grown(sl.input_queues[p], sl'.input_queues[p], OldestNeeded),
           state' = "Running" => PendingKept
    PROVE  RollbackInv' /\ Confirms
<1>1. /\ TypeOK /\ TypeOK' /\ sl.last_confirmed_frame \in Int /\ OldestNeeded \in Nat
      /\ exposed \in Int /\ exposed' \in Int /\ disconnect_frame' \in Int
  <2>1. TypeOK /\ TypeOK'
    BY DEF SessionInv
  <2>2. exposed \in FrameOrNull /\ exposed' \in FrameOrNull /\ disconnect_frame' \in FrameOrNull
    BY <2>1 DEF TypeOK
  <2>3. FrameOrNull \subseteq Int
    BY DEF FrameOrNull, NULL_FRAME
  <2> QED BY <2>1, <2>2, <2>3, Numbers
<1>2. /\ MaxPrediction' = MaxPrediction /\ lockstep' = lockstep /\ SaveMode' = SaveMode
      /\ Awaited' = Awaited /\ Awaited \subseteq Players
  BY LocalPlayersAssumption DEF MaxPrediction, lockstep, SaveMode, Awaited
<1>3. /\ sl'.current_frame = sl.current_frame /\ sl'.last_confirmed_frame = sl.last_confirmed_frame
      /\ sl'.last_saved_frame = sl.last_saved_frame /\ sl'.saved_states = sl.saved_states
  BY DEF SameCounters
<1>4. Floor' = Floor /\ OldestNeeded' = OldestNeeded /\ FrameToSend' = FrameToSend
  <2>1. sl'.max_prediction = sl.max_prediction
    BY <1>1, <1>2 DEF TypeOK, SyncLayer
  <2>2. Floor' = Floor
    BY <1>3, <2>1 DEF Floor, rollback_window_floor
  <2> QED BY <1>3, <2>2 DEF OldestNeeded, FrameToSend
<1>5. InputsRetained'
  <2>1. ASSUME NEW p \in Players PROVE Retains(sl'.input_queues[p], OldestNeeded)
    BY DEF RollbackInv, InputsRetained, Grown
  <2> QED BY <1>4, <2>1 DEF InputsRetained
<1>6. AwaitedQuiet'
  <2>1. ASSUME NEW p \in Awaited
        PROVE  /\ sl'.input_queues[p].first_incorrect_frame = NULL_FRAME
               /\ sl'.input_queues[p].prediction.frame = NULL_FRAME
    BY <1>2 DEF RollbackInv, AwaitedQuiet, Grown
  <2> QED BY <1>2, <2>1 DEF AwaitedQuiet
<1>7. PendingAbove'
  <2>1. SUFFICES ASSUME state' = "Running" PROVE PendingAbove'
    BY DEF PendingAbove
  <2>2. PendingKept /\ PendingAbove
    BY <2>1 DEF RollbackInv
  <2>3. ASSUME NEW p \in Players
        PROVE  \/ sl'.input_queues[p].first_incorrect_frame = NULL_FRAME
               \/ sl'.input_queues[p].first_incorrect_frame > sl'.last_confirmed_frame
    <3>1. PICK q, r : q = sl.input_queues[p] /\ r = sl'.input_queues[p]
      OBVIOUS
    <3>2. Grown(q, r, OldestNeeded)
      BY <3>1
    <3>3. CASE r.first_incorrect_frame = q.first_incorrect_frame
      BY <1>3, <2>2, <3>1, <3>3 DEF PendingAbove, PendingKept
    <3>4. CASE r.first_incorrect_frame # q.first_incorrect_frame
      <4>1. ~local_connect_status[p].disconnected
        BY <2>2, <3>1, <3>4 DEF PendingKept
      <4>2. exposed <= q.last_added_frame /\ q.last_added_frame \in Int
        BY <3>1, <4>1, ConnectedGave, TruthLength DEF RollbackInv
      <4>3. r.first_incorrect_frame > q.last_added_frame /\ r.first_incorrect_frame \in Int
        BY <3>2, <3>4 DEF Grown, QueueInv, Queue, FrameOrNull, NULL_FRAME
      <4>4. sl.last_confirmed_frame <= exposed
        BY DEF RollbackInv
      <4> QED BY <1>1, <1>3, <3>1, <4>2, <4>3, <4>4
    <3> QED BY <3>3, <3>4
  <2>4. \/ lockstep' \/ disconnect_frame' = NULL_FRAME
        \/ disconnect_frame' > sl'.last_confirmed_frame
    <3>1. CASE disconnect_frame' = disconnect_frame
      BY <1>2, <1>3, <2>2, <3>1 DEF PendingAbove, PendingKept
    <3>2. CASE disconnect_frame' > exposed
      BY <1>1, <1>3, <3>2 DEF RollbackInv
    <3> QED BY <2>2, <3>1, <3>2 DEF PendingKept
  <2> QED BY <2>3, <2>4 DEF PendingAbove
<1>8. InWindow'
  BY <1>2, <1>3 DEF RollbackInv, InWindow
<1>9. StatesSaved'
  <2>1. CellsHold(sl.saved_states, game, Floor, sl.last_saved_frame)'
          = CellsHold(sl.saved_states, game, Floor, sl.last_saved_frame)
    BY <1>3, <1>4 DEF CellsHold
  <2>2. StatesSaved
    BY DEF RollbackInv
  <2> QED BY <1>2, <1>3, <2>1, <2>2, Zenon DEF StatesSaved
<1>10. ScheduleAhead'
  BY <1>2, <1>4 DEF RollbackInv, ScheduleAhead
<1>11. /\ sl'.last_confirmed_frame <= exposed' /\ Confirms
       /\ sl'.last_confirmed_frame < Len(broadcast') /\ result' = "Ok" /\ SaveMode' = "EveryFrame"
  BY <1>1, <1>2, <1>3 DEF RollbackInv, Confirms
<1> QED BY <1>5, <1>6, <1>7, <1>8, <1>9, <1>10, <1>11 DEF RollbackInv

\* Steps that leave the sync layer alone.
LEMMA LayerKept ==
    ASSUME SessionInv, sl' = sl
    PROVE  /\ SameCounters(sl, sl')
           /\ \A p \in Players : Grown(sl.input_queues[p], sl'.input_queues[p], OldestNeeded)
<1>1. ASSUME NEW p \in Players PROVE Grown(sl.input_queues[p], sl.input_queues[p], OldestNeeded)
  <2>1. QueueInv(sl.input_queues[p])
    BY DEF SessionInv, QueuesHold, Holds
  <2> QED BY <2>1, GrownRefl
<1> QED BY <1>1 DEF SameCounters

LEMMA QuietRolls ==
    ASSUME SessionInv, SessionInv', RollbackInv, ExposedConfirmed', Exposes,
           UNCHANGED <<mode, sl, game, broadcast, result, last_sent_checksum_frame>>,
           state' = "Running" => UNCHANGED <<state, disconnect_frame>>
    PROVE  RollbackInv' /\ Confirms
<1>1. exposed' >= exposed
  BY ExposedType
<1>2. state' = "Running" => PendingKept
  BY DEF PendingKept
<1> QED BY <1>1, <1>2, LayerKept, RollbackKept

LEMMA AddLocalInputRolls ==
    ASSUME SessionInv, SessionInv', RollbackInv, NEW p \in LocalPlayers, NEW value \in Payload[p],
           AddLocalInput(p, value)
    PROVE  RollbackInv' /\ Confirms
<1>1. /\ UNCHANGED <<mode, sl, game, broadcast, result, last_sent_checksum_frame, state, disconnect_frame>>
      /\ UNCHANGED <<local_connect_status, peer_connect_status, running, halt_confirmed_ceiling, drop>>
      /\ Exposes
  BY DEF AddLocalInput, checksum_vars, Exposes
<1>2. ExposedConfirmed'
  BY <1>1, HeldSame, ExposedQuiet DEF RollbackInv
<1> QED BY <1>1, <1>2, QuietRolls

LEMMA ConfirmedFrameRolls ==
    ASSUME SessionInv, SessionInv', RollbackInv, ConfirmedFrame
    PROVE  RollbackInv' /\ Confirms
<1>1. /\ UNCHANGED <<mode, sl, game, broadcast, result, last_sent_checksum_frame, state, disconnect_frame>>
      /\ UNCHANGED <<local_connect_status, peer_connect_status, running, halt_confirmed_ceiling, drop>>
      /\ Exposes
  BY DEF ConfirmedFrame, checksum_vars, Expose, Exposes
<1>2. ExposedConfirmed'
  BY <1>1, HeldSame, ExposedQuiet DEF RollbackInv
<1> QED BY <1>1, <1>2, QuietRolls

LEMMA GossipRolls ==
    ASSUME SessionInv, SessionInv', RollbackInv, LastPairAfterDrops, NEW e \in Remotes, NEW p \in Remotes,
           NEW frame \in RemoteFrames, Gossip(e, p, frame) \/ GossipDisconnect(e, p, frame)
    PROVE  RollbackInv' /\ Confirms
<1>1. /\ UNCHANGED <<mode, sl, game, broadcast, result, last_sent_checksum_frame, state, disconnect_frame>>
      /\ Exposes
  BY DEF Gossip, GossipDisconnect, checksum_vars, Exposes
<1>2. ExposedConfirmed'
  BY ExposedGossip, ExposedGossipDisconnect DEF RollbackInv
<1> QED BY <1>1, <1>2, QuietRolls

LEMMA FailDropRolls ==
    ASSUME SessionInv, SessionInv', RollbackInv, FailDrop
    PROVE  RollbackInv' /\ Confirms
<1>1. /\ UNCHANGED <<mode, sl, game, broadcast, result, last_sent_checksum_frame>>
      /\ UNCHANGED <<local_connect_status, peer_connect_status, running, exposed>>
      /\ drop # None /\ drop' = None /\ Halt(drop.held_at) /\ state' = "Synchronizing" /\ Exposes
  BY DEF FailDrop, checksum_vars, Exposes, Halt
<1>2. drop.held_at \in FrameOrNull /\ drop.held_at >= exposed'
  <2>1. drop.held_at \in Nat /\ exposed \in Int
    BY <1>1 DEF SessionInv, TypeOK, FrameOrNull, NULL_FRAME
  <2> QED BY <1>1, <2>1 DEF SessionInv, ExposureHeld, FrameOrNull
<1>3. HeldAbove
  BY <1>1, <1>2, HeldHalted DEF RollbackInv
<1>4. ExposedConfirmed'
  BY <1>1, <1>3, ExposedQuiet DEF RollbackInv
<1> QED BY <1>1, <1>4, QuietRolls

LEMMA DisconnectPlayerRolls ==
    ASSUME SessionInv, SessionInv', RollbackInv, NEW p \in Disconnectable, DisconnectPlayer(p)
    PROVE  RollbackInv' /\ Confirms
<1>1. /\ UNCHANGED <<mode, sl, game, broadcast, result, peer_connect_status, drop, last_sent_checksum_frame>>
      /\ Halt(confirmed_frame) /\ Expose(confirmed_frame) /\ Exposes /\ state' = "Synchronizing"
  BY DEF DisconnectPlayer, ForgetChecksumsAfter, Expose, Exposes, Halt
<1>2. p \in Remotes /\ p \in Players
  BY PlayersOfMode DEF SessionInv
<1>3. \A i \in Players : \/ local_connect_status'[i] = local_connect_status[i]
                         \/ i \in Remotes /\ local_connect_status'[i].disconnected
  <2>1. PICK frame : local_connect_status' = DisconnectedAt(local_connect_status, p, frame)
    BY DEF DisconnectPlayer
  <2>2. local_connect_status \in [Players -> Status]
    BY DEF SessionInv, TypeOK
  <2> QED BY <1>2, <2>1, <2>2 DEF DisconnectedAt
<1>4. \A e \in Remotes : running'[e] => running[e]
  <2>1. running' = [running EXCEPT ![p] = FALSE] /\ running \in [Remotes -> BOOLEAN]
    BY DEF DisconnectPlayer, SessionInv, TypeOK
  <2> QED BY <1>2, <2>1
<1>5. ExposedConfirmed'
  BY <1>1, <1>3, <1>4, ExposedLost DEF RollbackInv
<1> QED BY <1>1, <1>5, QuietRolls

LEMMA AdvanceFrameHaltsRolls ==
    ASSUME SessionInv, SessionInv', RollbackInv, AdvanceFrameHalts
    PROVE  RollbackInv' /\ Confirms
<1>1. /\ UNCHANGED <<mode, sl, game, broadcast, result, peer_connect_status, drop, last_sent_checksum_frame>>
      /\ Halt(confirmed_frame) /\ Expose(confirmed_frame) /\ Exposes /\ state' = "Synchronizing"
  BY DEF AdvanceFrameHalts, ForgetChecksumsAfter, Expose, Exposes, Halt
<1>2. PropagatedDisconnects \subseteq Remotes /\ Remotes \subseteq Players
  BY DEF PropagatedDisconnects, Remotes
<1>3. \A i \in Players : \/ local_connect_status'[i] = local_connect_status[i]
                         \/ i \in Remotes /\ local_connect_status'[i].disconnected
  <2> DEFINE lowest(p) == MinOf({r.last_frame : r \in Reports(p)} \cup
                                IF local_connect_status[p].disconnected THEN {}
                                ELSE {local_connect_status[p].last_frame})
  <2>1. local_connect_status' = [p \in Players |->
               IF p \in PropagatedDisconnects THEN DisconnectedAt(local_connect_status, p, lowest(p))[p]
               ELSE local_connect_status[p]]
    BY DEF AdvanceFrameHalts
  <2> HIDE DEF lowest
  <2>2. local_connect_status \in [Players -> Status]
    BY DEF SessionInv, TypeOK
  <2>3. ASSUME NEW p \in Players PROVE DisconnectedAt(local_connect_status, p, lowest(p))[p].disconnected
    BY <2>2 DEF DisconnectedAt
  <2> QED BY <1>2, <2>1, <2>3
<1>4. \A e \in Remotes : running'[e] => running[e]
  BY DEF AdvanceFrameHalts
<1>5. ExposedConfirmed'
  BY <1>1, <1>3, <1>4, ExposedLost DEF RollbackInv
<1> QED BY <1>1, <1>5, QuietRolls

\* Steps that give one queue more inputs.
LEMMA OneQueue ==
    ASSUME SessionInv, NEW p \in Players, NEW r \in Queue, WithQueue(sl, sl', p, r),
           Grown(sl.input_queues[p], r, OldestNeeded)
    PROVE  /\ SameCounters(sl, sl')
           /\ \A i \in Players : Grown(sl.input_queues[i], sl'.input_queues[i], OldestNeeded)
           /\ \A i \in Players \ {p} : sl'.input_queues[i] = sl.input_queues[i]
<1>1. PICK next : next = sl'
  OBVIOUS
<1>2. sl \in SyncLayer /\ WithQueue(sl, next, p, r)
  BY <1>1 DEF SessionInv, TypeOK
<1>3. /\ next.input_queues[p] = r
      /\ \A i \in Players \ {p} : next.input_queues[i] = sl.input_queues[i]
  BY <1>2, WithQueueType
<1>4. PICK queues : next = [sl EXCEPT !.input_queues = queues]
  BY <1>2 DEF WithQueue
<1>5. SameCounters(sl, next)
  BY <1>2, <1>4 DEF SyncLayer, SameCounters
<1>6. ASSUME NEW i \in Players PROVE Grown(sl.input_queues[i], next.input_queues[i], OldestNeeded)
  <2>1. QueueInv(sl.input_queues[i])
    BY DEF SessionInv, QueuesHold, Holds
  <2> QED BY <1>3, <2>1, GrownRefl
<1> QED BY <1>1, <1>3, <1>5, <1>6

LEMMA RemoteInputRolls ==
    ASSUME SessionInv, SessionInv', RollbackInv, NEW p \in Remotes, NEW value \in Payload[p],
           RemoteInput(p, value)
    PROVE  RollbackInv' /\ Confirms
<1>1. p \in Players /\ value \in Input
  BY PlayersOfMode DEF SessionInv, Remotes
<1>2. PICK q, frame, floor, add : /\ q = sl.input_queues[p] /\ frame = NextFrame(p)
                                  /\ floor = rollback_window_floor(sl)
                                  /\ add = add_input(q, frame, value, floor)
  OBVIOUS
<1>3. PICK last : last = local_connect_status[p].last_frame
  OBVIOUS
<1>4. ~local_connect_status[p].disconnected /\ frame = IF last = NULL_FRAME THEN RemoteDelay ELSE last + 1
  BY <1>2, <1>3 DEF RemoteInput, CanReceive, NextFrame
<1>5. TypeOK /\ floor \in Int /\ floor <= OldestNeeded /\ OldestNeeded \in Int
  BY <1>2, Numbers DEF SessionInv, Floor
<1>6. q.frame_delay = 0 /\ last <= q.last_added_frame /\ QueueInv(q)
  BY <1>1, <1>2, <1>3 DEF SessionInv, RemotesBehind, QueuesHold, Holds
<1>7. last \in FrameOrNull
  BY <1>1, <1>3, StatusBelow DEF SessionInv, Status
<1>8. frame \in Nat /\ (q.last_added_frame = NULL_FRAME => frame + q.frame_delay <= max_frame_delay)
      /\ last <= frame
  <2>1. RemoteDelay \in 0 .. max_frame_delay /\ max_frame_delay \in Int
    BY <1>5, PredictionType, QueueLengthAssumption DEF max_frame_delay
  <2> QED BY <1>4, <1>6, <1>7, <2>1 DEF FrameOrNull, NULL_FRAME
<1>9. Grown(q, add.q, OldestNeeded)
  BY <1>1, <1>2, <1>5, <1>6, <1>8, GrownInput
<1>10. sl' = SyncLayer_add_remote_input(sl, p, frame, value).sl
  BY <1>2 DEF RemoteInput
<1>11. WithQueue(sl, sl', p, add.q)
  BY <1>2, <1>10 DEF SyncLayer_add_remote_input, WithQueue
<1>12. add.q \in Queue
  BY <1>9 DEF Grown, QueueInv
<1>13. /\ SameCounters(sl, sl')
       /\ \A i \in Players : Grown(sl.input_queues[i], sl'.input_queues[i], OldestNeeded)
       /\ \A i \in Players \ {p} : sl'.input_queues[i] = sl.input_queues[i]
  BY <1>1, <1>2, <1>9, <1>11, <1>12, OneQueue
<1>14. UNCHANGED <<mode, game, broadcast, result, last_sent_checksum_frame, peer_connect_status, running,
                   disconnect_frame, drop>>
  BY DEF RemoteInput, checksum_vars
<1>15. PICK ok : ok = SyncLayer_add_remote_input(sl, p, frame, value).ok
  OBVIOUS
<1>16. IF ok
       THEN /\ local_connect_status' = [local_connect_status EXCEPT ![p].last_frame = frame]
            /\ UNCHANGED <<state, halt_confirmed_ceiling, exposed>>
       ELSE /\ Halt(confirmed_frame)
            /\ Expose(confirmed_frame)
            /\ UNCHANGED local_connect_status
  BY <1>2, <1>15 DEF RemoteInput
<1>17. CASE ok
  <2>1. /\ local_connect_status' = [local_connect_status EXCEPT ![p].last_frame = frame]
        /\ UNCHANGED <<state, halt_confirmed_ceiling, exposed>>
    BY <1>16, <1>17
  <2>2. local_connect_status \in [Players -> Status]
    BY <1>5 DEF TypeOK
  <2>3. /\ local_connect_status'[p].last_frame = frame
        /\ local_connect_status'[p].disconnected = local_connect_status[p].disconnected
        /\ \A i \in Players \ {p} : local_connect_status'[i] = local_connect_status[i]
    <3>1. PICK old \in Status : old = local_connect_status[p]
      BY <1>1, <2>2
    <3>2. PICK new : new = [old EXCEPT !.last_frame = frame]
      OBVIOUS
    <3>3. new.last_frame = frame /\ new.disconnected = old.disconnected
      BY <3>1, <3>2 DEF Status
    <3>4. local_connect_status' = [local_connect_status EXCEPT ![p] = new]
      BY <2>1, <3>1, <3>2
    <3> QED BY <1>1, <2>2, <3>1, <3>3, <3>4
  <2>4. Exposes
    BY <2>1 DEF Exposes
  <2>5. HeldAbove
    BY <1>14, <2>1, <2>4, HeldSame DEF RollbackInv
  <2>6. \A i \in Players : /\ local_connect_status[i].last_frame \in Int
                           /\ local_connect_status'[i].last_frame >= local_connect_status[i].last_frame
    <3>1. \A i \in Players : local_connect_status[i].last_frame \in Int
      BY <2>2 DEF Status, FrameOrNull, NULL_FRAME
    <3> QED BY <1>3, <1>8, <2>3, <3>1
  <2>7. \A i \in Remotes : ReportsGrow(i)
    BY <1>5, <1>14, ReportsFewer
  <2>8. \A i \in Remotes : RemoteGrows(i)
    <3>1. ASSUME NEW i \in Remotes
          PROVE  local_connect_status'[i].disconnected \/ ~local_connect_status[i].disconnected
      <4>1. i \in Players
        BY DEF Remotes
      <4> QED BY <1>4, <2>3, <4>1
    <3> QED BY <2>6, <2>7, <3>1 DEF RemoteGrows, Remotes
  <2>9. ExposedConfirmed'
    BY <2>4, <2>5, <2>6, <2>8, ExposedKeeps, LocalPlayersAssumption DEF RollbackInv
  <2>10. state' = "Running" => PendingKept
    BY <1>4, <1>13, <1>14, <2>1 DEF PendingKept
  <2>11. exposed' >= exposed
    BY <2>4, ExposedType
  <2> QED BY <1>13, <1>14, <2>9, <2>10, <2>11, RollbackKept
<1>18. CASE ~ok
  <2>1. /\ Halt(confirmed_frame)
        /\ Expose(confirmed_frame)
        /\ UNCHANGED local_connect_status
    BY <1>16, <1>18
  <2>2. ExposedConfirmed'
    BY <1>14, <2>1, ExposedLost DEF RollbackInv
  <2>3. exposed' >= exposed
    BY <2>1, ExposedType DEF Expose, Exposes
  <2>4. state' = "Synchronizing"
    BY <2>1 DEF Halt
  <2> QED BY <1>13, <1>14, <2>2, <2>3, <2>4, RollbackKept
<1> QED BY <1>17, <1>18

LEMMA SetInputDelayRolls ==
    ASSUME SessionInv, SessionInv', RollbackInv, NEW p \in LocalPlayers, NEW delay \in 0 .. MaxInputDelay,
           SetInputDelay(p, delay)
    PROVE  RollbackInv' /\ Confirms
<1>1. p \in Players /\ delay \in Nat
  BY LocalPlayersAssumption, BoundsAssumption
<1>2. PICK q, floor, res : /\ q = sl.input_queues[p] /\ floor = rollback_window_floor(sl)
                           /\ res = set_frame_delay(q, delay, floor)
  OBVIOUS
<1>3. TypeOK /\ floor \in Int /\ floor <= OldestNeeded /\ OldestNeeded \in Int
  BY <1>2, Numbers DEF SessionInv, Floor
<1>4. QueueInv(q)
  BY <1>1, <1>2 DEF SessionInv, QueuesHold, Holds
<1>5. Grown(q, res.q, OldestNeeded) /\ res.q \in Queue
  BY <1>1, <1>2, <1>3, <1>4, GrownDelay DEF Grown, QueueInv
<1>6. sl' = SyncLayer_set_frame_delay(sl, p, delay).sl
  BY DEF SetInputDelay
<1>7. WithQueue(sl, sl', p, res.q)
  BY <1>2, <1>6 DEF SyncLayer_set_frame_delay, WithQueue
<1>8. /\ SameCounters(sl, sl')
      /\ \A i \in Players : Grown(sl.input_queues[i], sl'.input_queues[i], OldestNeeded)
      /\ \A i \in Players \ {p} : sl'.input_queues[i] = sl.input_queues[i]
  BY <1>1, <1>2, <1>5, <1>7, OneQueue
<1>9. /\ UNCHANGED <<mode, game, broadcast, result, last_sent_checksum_frame, peer_connect_status, running,
                     state, disconnect_frame, drop, halt_confirmed_ceiling, exposed>>
      /\ \/ UNCHANGED local_connect_status
         \/ \E new : /\ new = sl'.input_queues[p].last_added_frame
                     /\ local_connect_status' = [local_connect_status EXCEPT ![p].last_frame = new]
  BY <1>6 DEF SetInputDelay, checksum_vars
<1>10. local_connect_status \in [Players -> Status]
  BY <1>3 DEF TypeOK
<1>11. ~local_connect_status[p].disconnected /\ local_connect_status[p].last_frame = q.last_added_frame
  BY <1>2 DEF SessionInv, LocalsAt
<1>12. q.last_added_frame <= sl'.input_queues[p].last_added_frame
  BY <1>1, <1>2, <1>8 DEF Grown
<1>13. /\ local_connect_status'[p].last_frame >= local_connect_status[p].last_frame
       /\ \A i \in Players \ {p} : local_connect_status'[i] = local_connect_status[i]
  <2>1. PICK old \in Status : old = local_connect_status[p]
    BY <1>1, <1>10
  <2>2. old.last_frame \in Int /\ old.last_frame = q.last_added_frame
    BY <1>11, <2>1 DEF Status, FrameOrNull, NULL_FRAME
  <2>3. CASE UNCHANGED local_connect_status
    BY <2>1, <2>2, <2>3
  <2>4. CASE ~UNCHANGED local_connect_status
    <3>1. PICK new : /\ new = sl'.input_queues[p].last_added_frame
                     /\ local_connect_status' = [local_connect_status EXCEPT ![p].last_frame = new]
      BY <1>9, <2>4
    <3>2. PICK status : status = [old EXCEPT !.last_frame = new]
      OBVIOUS
    <3>3. status.last_frame = new
      BY <2>1, <3>2 DEF Status
    <3>4. local_connect_status' = [local_connect_status EXCEPT ![p] = status]
      BY <2>1, <3>1, <3>2
    <3>5. new \in Int /\ new >= old.last_frame
      BY <1>1, <1>8, <1>12, <2>2, <3>1, PreviousSlot DEF Grown
    <3> QED BY <1>1, <1>10, <2>1, <3>3, <3>4, <3>5
  <2> QED BY <2>3, <2>4
<1>14. Exposes
  BY <1>9 DEF Exposes
<1>15. HeldAbove
  BY <1>9, <1>14, HeldSame DEF RollbackInv
<1>16. \A i \in Players : local_connect_status[i].last_frame \in Int
  BY <1>10 DEF Status, FrameOrNull, NULL_FRAME
<1>17. \A i \in LocalPlayers : local_connect_status'[i].last_frame >= local_connect_status[i].last_frame
  BY <1>13, <1>16, LocalPlayersAssumption
<1>18. \A i \in Remotes : RemoteGrows(i)
  <2>1. ASSUME NEW i \in Remotes PROVE RemoteGrows(i)
    <3>1. local_connect_status'[i] = local_connect_status[i] /\ local_connect_status[i].last_frame \in Int
      BY <1>13, <1>16 DEF Remotes
    <3>2. ReportsGrow(i)
      BY <1>3, <1>9, ReportsFewer
    <3> QED BY <3>1, <3>2 DEF RemoteGrows
  <2> QED BY <2>1
<1>19. ExposedConfirmed'
  BY <1>14, <1>15, <1>17, <1>18, ExposedKeeps DEF RollbackInv
<1>20. state' = "Running" => PendingKept
  BY <1>8, <1>9, <1>11 DEF PendingKept
<1>21. exposed' >= exposed
  BY <1>14, ExposedType
<1> QED BY <1>8, <1>9, <1>19, <1>20, <1>21, RollbackKept

\* Freezing a queue at the cut adds nothing to it.
LEMMA GrownCut ==
    ASSUME NEW q, NEW t, Holds(q, t), NEW cut \in Int, CutValid(q, cut), NEW m
    PROVE  Grown(q, set_frozen_value_at(freeze_at_prevalidated_cut(q, cut), cut), m)
<1>1. QueueInv(q) /\ q \in Queue /\ Content(q, ByFrame(t))
  BY DEF Holds, QueueInv
<1>2. cut \in Nat /\ cut # NULL_FRAME /\ retained_confirmed_input(q, cut) # None
  BY DEF CutValid, NULL_FRAME
<1>3. PICK value : value = confirmed_input(q, cut)
  OBVIOUS
<1>4. retained_confirmed_input(q, cut) = value /\ value # None
  BY <1>2, <1>3 DEF retained_confirmed_input
<1>5. value \in Input
  <2>1. PICK W : W = ByFrame(t)
    OBVIOUS
  <2> QED BY <1>1, <1>2, <1>3, <1>4, <2>1, ConfirmedIsStored
<1>6. PICK r : r = [q EXCEPT !.last_confirmed_input = value, !.frozen = TRUE]
  OBVIOUS
<1>7. freeze_at_prevalidated_cut(q, cut) = r
  BY <1>2, <1>4, <1>6 DEF freeze_at_prevalidated_cut
<1>8. /\ r \in Queue /\ SameRing(q, r) /\ r.prediction = q.prediction
      /\ SameEntries(q, r) /\ SameEpisode(q, r)
      /\ r.frozen = TRUE /\ r.last_confirmed_input = value
      /\ r.inputs = q.inputs /\ r.reclaimed_floor_input = q.reclaimed_floor_input
  BY <1>1, <1>5, <1>6 DEF Queue, SameRing, SameEntries, SameEpisode
<1>9. QueueInv(r)
  BY <1>1, <1>8, SameRingInv
<1>10. confirmed_input(r, cut) = value
  BY <1>3, <1>8 DEF confirmed_input
<1>11. [r EXCEPT !.last_confirmed_input = value] = r
  BY <1>8 DEF Queue
<1>12. set_frozen_value_at(r, cut) = r
  BY <1>8, <1>10, <1>11 DEF set_frozen_value_at, roll_confirmed_input_to
<1> QED BY <1>1, <1>7, <1>8, <1>9, <1>12, GrownSame

\* A backfill of the frames after the last one.
LEMMA GrownBackfill ==
    ASSUME NEW q, QueueInv(q), NEW values \in Seq(Input), NEW floor \in Int, NEW m \in Int, floor <= m,
           NEW inputs, FromNext(q, inputs, values)
    PROVE  Grown(q, install_missing_backfill(q, inputs, floor).q, m)
<1>1. q.last_added_frame + 1 \in Int
  BY PreviousSlot
<1>2. PICK run : run = AddRun(q, q.last_added_frame + 1, values, floor)
  OBVIOUS
<1>3. Grown(q, run.q, m)
  BY <1>1, <1>2, GrownRun
<1>4. install_missing_backfill(q, inputs, floor).q \in {run.q, q}
  BY <1>2, BackfillNext
<1> QED BY <1>3, <1>4, GrownRefl

LEMMA GrownBlank ==
    ASSUME NEW q, NEW t, Holds(q, t), retained_input_range(q) = None, NEW floor \in Int, NEW m \in Int,
           floor <= m
    PROVE  Grown(q, install_missing_backfill(q, <<blank_input(0)>>, floor).q, m)
<1>1. QueueInv(q) /\ q.last_added_frame = NULL_FRAME
  BY NothingRetained DEF Holds
<1>2. PICK values, inputs : values = <<DefaultInput>> /\ inputs = <<blank_input(0)>>
  OBVIOUS
<1>3. values \in Seq(Input) /\ Len(values) = 1 /\ values[1] = DefaultInput
  BY <1>2, InputAssumption
<1>4. FromNext(q, inputs, values)
  <2>1. q.last_added_frame + 1 = 0
    BY <1>1 DEF NULL_FRAME
  <2>2. inputs = [i \in 1 .. 1 |-> [frame |-> 0, input |-> DefaultInput]]
    BY <1>2 DEF blank_input
  <2>3. \A i \in 1 .. 1 : [frame |-> q.last_added_frame + i, input |-> values[i]]
                            = [frame |-> 0, input |-> DefaultInput]
    BY <1>3, <2>1
  <2>4. [i \in 1 .. 1 |-> [frame |-> q.last_added_frame + i, input |-> values[i]]]
          = [i \in 1 .. 1 |-> [frame |-> 0, input |-> DefaultInput]]
    BY <2>3
  <2> QED BY <1>3, <2>2, <2>4 DEF FromNext
<1> QED BY <1>1, <1>2, <1>3, <1>4, GrownBackfill

\* The end of a drop.
LEMMA ApplyDropCommitRolls ==
    ASSUME SessionInv, SessionInv', RollbackInv, NEW p \in Remotes, NEW s, NEW q, NEW u, Filled(p, s, q, u),
           Grown(sl.input_queues[p], q, OldestNeeded),
           NEW cut \in Nat, NEW held_at \in Nat, ApplyDropCommit(s, p, cut, held_at),
           Exposes, exposed' <= cut, exposed' <= held_at
    PROVE  RollbackInv' /\ Confirms
<1>1. p \in Players /\ TypeOK /\ sl \in SyncLayer
  BY DEF Remotes, SessionInv, TypeOK
<1>2. q \in Queue /\ Holds(q, u) /\ WithQueue(sl, s, p, q) /\ QueueInv(sl.input_queues[p])
  BY <1>1 DEF Filled, Holds, QueueInv, SessionInv, QueuesHold
<1>3. s \in SyncLayer /\ s.input_queues[p] = q
  BY <1>1, <1>2, WithQueueType
<1>4. drop' = None /\ UNCHANGED <<mode, game, broadcast, result, peer_connect_status, last_sent_checksum_frame>>
  BY DEF ApplyDropCommit, Filled, ForgetChecksumsAfter, checksum_vars
<1>5. exposed' >= exposed /\ exposed \in Int /\ exposed' \in Int
  BY ExposedType
<1>6. CASE ~local_connect_status[p].disconnected /\ CutValid(s.input_queues[p], cut)
  <2>1. PICK r : r = set_frozen_value_at(freeze_at_prevalidated_cut(q, cut), cut)
    OBVIOUS
  <2>2. CutValid(q, cut) /\ cut \in Int
    BY <1>3, <1>6
  <2>3. Grown(q, r, OldestNeeded)
    BY <1>2, <2>1, <2>2, GrownCut
  <2>4. Grown(sl.input_queues[p], r, OldestNeeded) /\ r \in Queue
    BY <1>2, <2>3, GrownTrans DEF Grown, QueueInv
  <2>5. /\ sl' = SyncLayer_set_frozen_value_at(freeze_player_at_cut(s, p, cut), p, cut)
        /\ local_connect_status' = DisconnectedAt(local_connect_status, p, cut)
        /\ running' = [running EXCEPT ![p] = FALSE]
        /\ disconnect_frame' = ResimulateFrom(cut)
        /\ UNCHANGED <<state, halt_confirmed_ceiling>>
    BY <1>6 DEF ApplyDropCommit
  <2>6. WithQueue(sl, sl', p, r)
    BY <1>1, <1>2, <1>3, <2>1, <2>5, CutQueue
  <2>7. /\ SameCounters(sl, sl')
        /\ \A i \in Players : Grown(sl.input_queues[i], sl'.input_queues[i], OldestNeeded)
        /\ \A i \in Players \ {p} : sl'.input_queues[i] = sl.input_queues[i]
    BY <1>1, <2>4, <2>6, OneQueue
  <2>8. \A i \in Players : \/ local_connect_status'[i] = local_connect_status[i]
                           \/ i \in Remotes /\ local_connect_status'[i].disconnected
    <3>1. local_connect_status \in [Players -> Status]
      BY <1>1 DEF TypeOK
    <3> QED BY <1>1, <2>5, <3>1 DEF DisconnectedAt
  <2>9. \A e \in Remotes : running'[e] => running[e]
    <3>1. running \in [Remotes -> BOOLEAN]
      BY <1>1 DEF TypeOK
    <3> QED BY <2>5, <3>1
  <2>10. HeldAbove
    <3>1. HeldBack' \subseteq HeldBack
      BY <1>4, <2>5 DEF HeldBack
    <3> QED BY <3>1, ExposedBelow DEF Above, HeldAbove, RollbackInv
  <2>11. ExposedConfirmed'
    BY <1>4, <2>8, <2>9, <2>10, StatusLost, ExposedKeeps DEF RollbackInv
  <2>12. disconnect_frame' = disconnect_frame \/ disconnect_frame' > exposed
    <3>1. disconnect_frame' \in {disconnect_frame, cut + 1}
      BY <2>5 DEF ResimulateFrom, MinFrame
    <3> QED BY <1>5, <3>1
  <2>13. state' = "Running" => PendingKept
    BY <1>6, <2>5, <2>7, <2>12 DEF PendingKept
  <2> QED BY <1>4, <1>5, <2>7, <2>11, <2>13, RollbackKept
<1>7. CASE ~(~local_connect_status[p].disconnected /\ CutValid(s.input_queues[p], cut))
  <2>1. sl' = s /\ Halt(held_at) /\ UNCHANGED <<local_connect_status, running>>
    BY <1>7 DEF ApplyDropCommit
  <2>2. /\ SameCounters(sl, sl')
        /\ \A i \in Players : Grown(sl.input_queues[i], sl'.input_queues[i], OldestNeeded)
    BY <1>1, <1>2, <2>1, OneQueue
  <2>3. HeldAbove
    <3>1. held_at \in FrameOrNull /\ held_at >= exposed' /\ drop' \in {drop, None}
      BY <1>4, <1>5 DEF FrameOrNull
    <3> QED BY <2>1, <3>1, HeldHalted DEF RollbackInv
  <2>4. ExposedConfirmed'
    BY <1>4, <2>1, <2>3, ExposedQuiet DEF RollbackInv
  <2>5. state' = "Synchronizing"
    BY <2>1 DEF Halt
  <2> QED BY <1>4, <1>5, <2>2, <2>4, <2>5, RollbackKept
<1> QED BY <1>6, <1>7

LEMMA BeginDropRolls ==
    ASSUME SessionInv, SessionInv', RollbackInv, NEW p \in Removable, BeginDrop(p)
    PROVE  RollbackInv' /\ Confirms
<1>1. p \in Remotes /\ p \in Players
  BY PlayersOfMode DEF SessionInv
<1>2. PICK held, q, floor : held = HoldAt /\ q = sl.input_queues[p] /\ floor = rollback_window_floor(sl)
  OBVIOUS
<1>3. held \in Nat /\ Exposes /\ exposed' <= held
  BY <1>2, HoldAtType DEF BeginDrop
<1>4. TypeOK /\ floor \in Int /\ floor <= OldestNeeded /\ OldestNeeded \in Int
  BY <1>2, Numbers DEF SessionInv, Floor
<1>5. Holds(q, truth[p]) /\ QueueInv(q)
  BY <1>1, <1>2 DEF SessionInv, QueuesHold, Holds
<1>6. PICK s, r, u, high : Begun(p, s, r, u, high)
  BY BeginDropFills
<1>7. /\ Filled(p, s, r, u) /\ high \in Nat /\ held <= high
      /\ r = q \/ (retained_input_range(q) = None
                      /\ r = install_missing_backfill(q, <<blank_input(0)>>, floor).q)
      /\ IF \E e \in Remotes \ {p} : running[e]
         THEN /\ drop' = [target |-> p, held_at |-> held, high |-> high]
              /\ sl' = s
              /\ UNCHANGED <<local_connect_status, running, state, disconnect_frame,
                             halt_confirmed_ceiling, committed, checksum_vars>>
         ELSE ApplyDropCommit(s, p, high, held)
  BY <1>2, <1>6 DEF Begun
<1>8. Grown(q, r, OldestNeeded)
  <2>1. CASE r = q
    BY <1>5, <2>1, GrownRefl
  <2>2. CASE retained_input_range(q) = None /\ r = install_missing_backfill(q, <<blank_input(0)>>, floor).q
    BY <1>4, <1>5, <2>2, GrownBlank
  <2> QED BY <1>7, <2>1, <2>2
<1>9. exposed' >= exposed /\ exposed \in Int /\ exposed' \in Int
  BY <1>3, ExposedType
<1>10. CASE \E e \in Remotes \ {p} : running[e]
  <2>1. /\ drop' = [target |-> p, held_at |-> held, high |-> high] /\ sl' = s
        /\ UNCHANGED <<mode, game, broadcast, result, local_connect_status, running, state,
                       disconnect_frame, halt_confirmed_ceiling, last_sent_checksum_frame,
                       peer_connect_status>>
    BY <1>7, <1>10 DEF Filled, checksum_vars
  <2>2. r \in Queue /\ WithQueue(sl, sl', p, r) /\ state = "Running" /\ ~local_connect_status[p].disconnected
    BY <1>7, <1>8, <2>1 DEF Filled, Grown, QueueInv, BeginDrop
  <2>3. /\ SameCounters(sl, sl')
        /\ \A i \in Players : Grown(sl.input_queues[i], sl'.input_queues[i], OldestNeeded)
        /\ \A i \in Players \ {p} : sl'.input_queues[i] = sl.input_queues[i]
    BY <1>1, <1>2, <1>8, <2>2, OneQueue
  <2>4. HeldAbove
    <3>1. drop'.held_at >= exposed'
      BY <1>3, <1>9, <2>1
    <3>2. halt_confirmed_ceiling' # None => halt_confirmed_ceiling' >= exposed'
      BY <1>3, <2>1, ExposedBelow DEF Above, HeldBack, RollbackInv
    <3> QED BY <3>1, <3>2 DEF HeldAbove, HeldBack
  <2>5. ExposedConfirmed'
    BY <1>3, <2>1, <2>4, ExposedQuiet DEF RollbackInv
  <2>6. PendingKept
    BY <2>1, <2>2, <2>3 DEF PendingKept
  <2> QED BY <1>9, <2>1, <2>3, <2>5, <2>6, RollbackKept
<1>11. CASE ~\E e \in Remotes \ {p} : running[e]
  <2>1. ApplyDropCommit(s, p, high, held)
    BY <1>7, <1>11
  <2>2. exposed' <= high
    BY <1>3, <1>7, <1>9
  <2> QED BY <1>1, <1>2, <1>3, <1>7, <1>8, <2>1, <2>2, ApplyDropCommitRolls
<1> QED BY <1>10, <1>11

LEMMA CommitDropRolls ==
    ASSUME SessionInv, SessionInv', RollbackInv, drop # None, NEW n \in Nat, NEW cut \in RemoteFrames,
           NEW values \in [1 .. n -> Payload[drop.target]], CommitDrop(cut, values)
    PROVE  RollbackInv' /\ Confirms
<1>1. PICK p, s, r, u : Completed(p, s, r, u) /\ ApplyDropCommit(s, p, cut, drop.held_at)
  BY CommitDropFills
<1>2. PICK q, floor : q = sl.input_queues[p] /\ floor = rollback_window_floor(sl)
  OBVIOUS
<1>3. p \in Remotes /\ p \in Players /\ Filled(p, s, r, u)
  BY <1>1 DEF Completed, Remotes
<1>4. PICK given, inputs : /\ given \in Seq(Input) /\ FromNext(q, inputs, given)
                           /\ r = install_missing_backfill(q, inputs, floor).q
  BY <1>1, <1>2 DEF Completed
<1>5. floor \in Int /\ floor <= OldestNeeded /\ OldestNeeded \in Int /\ QueueInv(q)
  BY <1>2, <1>3, Numbers DEF SessionInv, Floor, QueuesHold, Holds
<1>6. Grown(sl.input_queues[p], r, OldestNeeded)
  BY <1>2, <1>4, <1>5, GrownBackfill
<1>7. /\ Exposes /\ cut \in Nat /\ drop.held_at \in Nat
      /\ exposed' <= cut /\ exposed' <= drop.held_at
  BY CommitDropCut
<1> QED BY <1>1, <1>3, <1>6, <1>7, ApplyDropCommitRolls

-----------------------------------------------------------------------------
(* The theorems.                                                           *)

LEMMA InitRolls ==
    ASSUME Init, SaveMode = "EveryFrame"
    PROVE  RollbackInv
<1>1. TypeOK /\ SessionInv /\ MaxPrediction \in Nat
  BY InitInv, PredictionType DEF SessionInv
<1>2. sl.current_frame = 0 /\ sl.last_confirmed_frame = NULL_FRAME /\ sl.last_saved_frame = NULL_FRAME
  <2>1. PICK queues : sl = [NewSyncLayer(mode.prediction) EXCEPT !.input_queues = queues]
    BY DEF Init
  <2> QED BY <2>1 DEF NewSyncLayer
<1>3. \A p \in Players : sl.input_queues[p] = NewQueue
                           \/ sl.input_queues[p] = set_frame_delay(NewQueue, InputDelay, NoFloor).q
  <2>1. PICK queues : /\ queues = [p \in Players |-> IF p \in LocalPlayers
                                     THEN set_frame_delay(NewQueue, InputDelay, NoFloor).q ELSE NewQueue]
                      /\ sl = [NewSyncLayer(mode.prediction) EXCEPT !.input_queues = queues]
    BY DEF Init
  <2>2. sl.input_queues = queues
    BY <2>1 DEF NewSyncLayer
  <2> QED BY <2>1, <2>2
<1>4. \A p \in Players : /\ sl.input_queues[p].last_added_frame = NULL_FRAME
                         /\ sl.input_queues[p].first_incorrect_frame = NULL_FRAME
                         /\ sl.input_queues[p].prediction.frame = NULL_FRAME
  <2>1. PICK q : q = NewQueue
    OBVIOUS
  <2>2. /\ q.last_added_frame = NULL_FRAME /\ q.first_incorrect_frame = NULL_FRAME
        /\ q.prediction.frame = NULL_FRAME /\ q \in Queue
    BY <2>1, NewQueueInv DEF NewQueue, blank_input, QueueInv
  <2>3. set_frame_delay(q, InputDelay, NoFloor).q \in {q, [q EXCEPT !.frame_delay = InputDelay]}
    BY <2>2 DEF set_frame_delay, NULL_FRAME
  <2>4. PICK r : r = [q EXCEPT !.frame_delay = InputDelay]
    OBVIOUS
  <2>5. /\ r.last_added_frame = NULL_FRAME /\ r.first_incorrect_frame = NULL_FRAME
        /\ r.prediction.frame = NULL_FRAME
    BY <2>2, <2>4 DEF Queue
  <2> QED BY <1>3, <2>1, <2>2, <2>3, <2>4, <2>5
<1>5. InputsRetained /\ AwaitedQuiet
  BY <1>4, LocalPlayersAssumption DEF InputsRetained, Retains, AwaitedQuiet, Awaited, NULL_FRAME
<1>6. PendingAbove
  BY <1>4 DEF PendingAbove, Init
<1>7. InWindow
  BY <1>1, <1>2 DEF InWindow, lockstep, MaxFrameOf, NULL_FRAME
<1>8. StatesSaved
  <2>1. CellsHold(sl.saved_states, game, Floor, sl.last_saved_frame)
    BY <1>2 DEF CellsHold, NULL_FRAME
  <2>2. Len(game) = 0
    BY DEF Init
  <2>3. /\ sl.last_saved_frame \in {sl.current_frame - 1, sl.current_frame}
        /\ sl.last_confirmed_frame <= sl.last_saved_frame
    BY <1>2 DEF NULL_FRAME
  <2> QED BY <1>2, <2>1, <2>2, <2>3, Zenon DEF StatesSaved
<1>9. ScheduleAhead
  <2>1. Floor = 0
    <3>1. sl.max_prediction = MaxPrediction
      BY <1>1 DEF TypeOK, SyncLayer
    <3> QED BY <1>1, <1>2, <3>1 DEF Floor, rollback_window_floor, MaxFrameOf
  <2> QED BY <1>1, <2>1, ScheduleType DEF ScheduleAhead
<1>10. ExposedConfirmed
  <2>1. \A f \in Int : f \in FrameOrNull => f >= NULL_FRAME
    BY DEF FrameOrNull, NULL_FRAME
  <2>2. HeldBack = {} /\ exposed = NULL_FRAME
    BY DEF HeldBack, Init
  <2>3. \A p \in Players : local_connect_status[p].last_frame >= NULL_FRAME
    BY DEF Init, NULL_FRAME
  <2>4. \A p \in Remotes : \A r \in Reports(p) : r.last_frame >= NULL_FRAME
    <3>1. \A p \in Remotes : Reports(p) \subseteq Status
      BY <1>1, ReportsType
    <3> QED BY <3>1 DEF Status, FrameOrNull, NULL_FRAME
  <2> QED BY <2>2, <2>3, <2>4, LocalPlayersAssumption DEF ExposedConfirmed, Above, Remotes
<1>11. sl.last_confirmed_frame <= exposed /\ sl.last_confirmed_frame < Len(broadcast) /\ result = "Ok"
  BY <1>2 DEF Init, NULL_FRAME
<1> QED BY <1>5, <1>6, <1>7, <1>8, <1>9, <1>10, <1>11 DEF RollbackInv

\* The invariant survives every step, and no step takes a confirmed frame back.
LEMMA StepRolls ==
    ASSUME SessionInv, SessionInv', RollbackInv, LastPairAfterDrops, [Next]_vars
    PROVE  RollbackInv' /\ (Confirms \/ UNCHANGED vars)
<1>1. ASSUME NEW p \in LocalPlayers, NEW value \in Payload[p], AddLocalInput(p, value)
      PROVE  RollbackInv' /\ Confirms
  BY <1>1, AddLocalInputRolls
<1>2. CASE AdvanceFrame
  BY <1>2, AdvanceFrameRolls
<1>3. CASE AdvanceFrameHalts
  BY <1>3, AdvanceFrameHaltsRolls
<1>4. ASSUME NEW p \in LocalPlayers, NEW delay \in 0 .. MaxInputDelay, SetInputDelay(p, delay)
      PROVE  RollbackInv' /\ Confirms
  BY <1>4, SetInputDelayRolls
<1>5. ASSUME NEW p \in Remotes, NEW value \in Payload[p], RemoteInput(p, value)
      PROVE  RollbackInv' /\ Confirms
  BY <1>5, RemoteInputRolls
<1>6. ASSUME NEW e \in Remotes, NEW p \in Remotes, NEW frame \in RemoteFrames, Gossip(e, p, frame)
      PROVE  RollbackInv' /\ Confirms
  BY <1>6, GossipRolls
<1>7. ASSUME NEW e \in Remotes, NEW p \in Removable \cup Disconnectable, NEW frame \in RemoteFrames,
             GossipDisconnect(e, p, frame)
      PROVE  RollbackInv' /\ Confirms
  <2>1. p \in Remotes
    BY PlayersOfMode DEF SessionInv
  <2> QED BY <1>7, <2>1, GossipRolls
<1>8. CASE ConfirmedFrame
  BY <1>8, ConfirmedFrameRolls
<1>9. ASSUME NEW p \in Disconnectable, DisconnectPlayer(p)
      PROVE  RollbackInv' /\ Confirms
  BY <1>9, DisconnectPlayerRolls
<1>10. ASSUME NEW p \in Removable, BeginDrop(p)
       PROVE  RollbackInv' /\ Confirms
  BY <1>10, BeginDropRolls
<1>11. ASSUME drop # None, NEW n \in 0 .. LastFrame + 1, NEW cut \in RemoteFrames,
              NEW values \in [1 .. n -> Payload[drop.target]], CommitDrop(cut, values)
       PROVE  RollbackInv' /\ Confirms
  <2>1. n \in Nat
    BY BoundsAssumption
  <2> QED BY <1>11, <2>1, CommitDropRolls
<1>12. CASE FailDrop
  BY <1>12, FailDropRolls
<1>13. CASE UNCHANGED vars
  <2>1. /\ UNCHANGED <<mode, sl, game, broadcast, result, last_sent_checksum_frame, state, disconnect_frame>>
        /\ UNCHANGED <<local_connect_status, peer_connect_status, running, halt_confirmed_ceiling, drop>>
        /\ Exposes
    BY <1>13 DEF vars, checksum_vars, Exposes
  <2>2. ExposedConfirmed'
    BY <2>1, HeldSame, ExposedQuiet DEF RollbackInv
  <2> QED BY <2>1, <2>2, QuietRolls
<1> QED BY <1>1, <1>2, <1>3, <1>4, <1>5, <1>6, <1>7, <1>8, <1>9, <1>10, <1>11, <1>12, <1>13 DEF Next

\* A step never changes the mode, and it commits the drop of a removable player only.
LEMMA OnlyRemovable ==
    ASSUME TypeOK, [Next]_vars
    PROVE  /\ mode' = mode
           /\ \A p \in Players : committed'[p] # committed[p] => p \in Removable
<1>1. CASE UNCHANGED <<mode, committed>>
  BY <1>1
<1>2. ASSUME NEW p \in Removable, NEW s, NEW cut, NEW held_at, ApplyDropCommit(s, p, cut, held_at)
      PROVE  \A i \in Players : committed'[i] # committed[i] => i \in Removable
  <2>1. committed \in [Players -> FrameOrNull]
    BY DEF TypeOK
  <2>2. committed' = committed \/ committed' = [committed EXCEPT ![p] = cut]
    BY <1>2 DEF ApplyDropCommit
  <2> QED BY <2>1, <2>2
<1>3. ASSUME NEW p \in Removable, BeginDrop(p)
      PROVE  mode' = mode /\ \A i \in Players : committed'[i] # committed[i] => i \in Removable
  <2>1. mode' = mode
    BY <1>3 DEF BeginDrop
  <2>2. committed' = committed \/ \E s, cut, held_at : ApplyDropCommit(s, p, cut, held_at)
    BY <1>3 DEF BeginDrop
  <2> QED BY <1>2, <2>1, <2>2
<1>4. ASSUME drop # None, NEW cut, NEW values, CommitDrop(cut, values)
      PROVE  mode' = mode /\ \A i \in Players : committed'[i] # committed[i] => i \in Removable
  <2>1. drop.target \in Removable
    BY <1>4 DEF TypeOK, Removable
  <2>2. mode' = mode /\ \E s, held_at : ApplyDropCommit(s, drop.target, cut, held_at)
    BY <1>4 DEF CommitDrop
  <2> QED BY <1>2, <2>1, <2>2
<1>5. UNCHANGED <<mode, committed>>
        \/ (\E p \in Removable : BeginDrop(p))
        \/ (drop # None /\ \E cut, values : CommitDrop(cut, values))
  BY DEF Next, vars, AddLocalInput, AdvanceFrame, AdvanceFrameHalts, SetInputDelay, RemoteInput, Gossip,
         GossipDisconnect, ConfirmedFrame, DisconnectPlayer, FailDrop
<1> QED BY <1>1, <1>3, <1>4, <1>5

\* A player that may be removed leaves at most one other remote peer behind: nobody is
\* removable, or there are at most two remote players.
LastPairRemains == \A p \in Removable : \A a, b \in Remotes \ {p} : a = b

\* What is proved of the sessions that save every state.
RollsWhenSaved ==
    /\ \A p \in Players : committed[p] # NULL_FRAME => p \in Removable
    /\ SaveMode = "EveryFrame" /\ LastPairRemains => RollbackInv

LEMMA RollsInit == ASSUME Init PROVE RollsWhenSaved
<1>1. \A p \in Players : committed[p] = NULL_FRAME
  BY DEF Init
<1> QED BY <1>1, InitRolls DEF RollsWhenSaved

LEMMA RollsStep ==
    ASSUME SessionInv, SessionInv', RollsWhenSaved, [Next]_vars
    PROVE  /\ RollsWhenSaved'
           /\ SaveMode = "EveryFrame" /\ LastPairRemains => Confirms \/ UNCHANGED vars
<1>1. TypeOK
  BY DEF SessionInv
<1>2. mode' = mode /\ \A p \in Players : committed'[p] # committed[p] => p \in Removable
  BY <1>1, OnlyRemovable
<1>3. \A p \in Players : committed'[p] # NULL_FRAME => p \in Removable'
  BY <1>2 DEF RollsWhenSaved, Removable
<1>4. ASSUME SaveMode = "EveryFrame", LastPairRemains
      PROVE  RollbackInv' /\ (Confirms \/ UNCHANGED vars)
  <2>1. RollbackInv
    BY <1>4 DEF RollsWhenSaved
  <2>2. LastPairAfterDrops
    BY <1>4 DEF LastPairAfterDrops, LastPairRemains, RollsWhenSaved, Remotes
  <2> QED BY <2>1, <2>2, StepRolls
<1>5. SaveMode' = SaveMode /\ LastPairRemains' = LastPairRemains
  BY <1>2 DEF SaveMode, LastPairRemains, Removable, Remotes
<1> QED BY <1>3, <1>4, <1>5 DEF RollsWhenSaved

\* The inductive invariant of a session that saves every state: the game is where the
\* session is, every state and every input from the rollback window's floor on is held,
\* and nothing to be simulated again has been confirmed.
THEOREM RollbackInvariant == Spec => []RollsWhenSaved
<1>1. Init => RollsWhenSaved
  BY RollsInit
<1>2. SessionInv /\ SessionInv' /\ RollsWhenSaved /\ [Next]_vars => RollsWhenSaved'
  BY RollsStep
<1> QED BY <1>1, <1>2, SessionInvariant, PTL DEF Spec

\* No call of advance_frame fails when every state is saved, in lockstep or with any
\* prediction window: load_frame finds the state a rollback needs, the replay and the
\* spectators' broadcast find their inputs, and the requests take the game exactly to the
\* session's frame (src/src/sessions/p2p_session.rs, advance_frame and adjust_gamestate).
THEOREM AdvanceSucceeds ==
    Spec => [](SaveMode = "EveryFrame" /\ LastPairRemains => AdvanceNeverFails)
<1>1. RollsWhenSaved => (SaveMode = "EveryFrame" /\ LastPairRemains => AdvanceNeverFails)
  BY DEF RollsWhenSaved, RollbackInv, StatesSaved, AdvanceNeverFails
<1> QED BY <1>1, RollbackInvariant, PTL

\* The state whose checksum is due is still in its cell when every state is saved, so
\* check_checksum_send_interval never stops reporting.
THEOREM ScheduledStateHeld == Spec => [](LastPairRemains => EveryFrameStateIsHeld)
<1>1. SessionInv /\ RollsWhenSaved => (LastPairRemains => EveryFrameStateIsHeld)
  BY DueIsHeld DEF RollsWhenSaved, RollbackInv, SessionInv, EveryFrameStateIsHeld, ScheduledStateIsHeld
<1> QED BY <1>1, SessionInvariant, RollbackInvariant, PTL

\* set_last_confirmed_frame never moves back when every state is saved, although the
\* minimum it is computed from is over other slots after a loss or a drop.
THEOREM ConfirmedOnlyRises ==
    Spec /\ [](SaveMode = "EveryFrame" /\ LastPairRemains) => ConfirmedNeverRegresses
<1>1. SessionInv /\ SessionInv' /\ RollsWhenSaved /\ [Next]_vars
          /\ (SaveMode = "EveryFrame" /\ LastPairRemains)
        => [sl'.last_confirmed_frame >= sl.last_confirmed_frame]_vars
  BY RollsStep DEF Confirms
<1> QED BY <1>1, SessionInvariant, RollbackInvariant, PTL DEF Spec, ConfirmedNeverRegresses

\* The session as set_last_confirmed_frame finds it in a call of advance_frame.
BeforeConfirming ==
    SendToSpectators(SaveAfterRollback(Rollback(Start, confirmed_frame), confirmed_frame),
                     confirmed_frame)
NothingPendingIsConfirmed == state = "Running" => FirstIncorrects(BeforeConfirming.sl) = {}

\* When set_last_confirmed_frame is called, the rollback before it has dealt with every
\* misprediction: however many queues knew of one, and whichever frames they were of, the
\* maximum it folds over the queues' first_incorrect_frame is that of none
\* (src/src/sync_layer/mod.rs, set_last_confirmed_frame and check_simulation_consistency).
THEOREM ConfirmsAfterRollback ==
    Spec => [](SaveMode = "EveryFrame" /\ LastPairRemains => NothingPendingIsConfirmed)
<1>1. ASSUME SessionInv, RollbackInv, state = "Running"
      PROVE  FirstIncorrects(BeforeConfirming.sl) = {}
  <2>1. PICK w : w = SaveAfterRollback(Rollback(Start, confirmed_frame), confirmed_frame)
    OBVIOUS
  <2>2. CaughtUp(w)
    BY <1>1, <2>1, RollbackInStep, SavedInStep
  <2>3. BeforeConfirming.sl = w.sl
    BY <1>1, <2>1, <2>2, SendsAll DEF BeforeConfirming, SentAll
  <2>4. \A p \in Players : w.sl.input_queues[p].first_incorrect_frame = NULL_FRAME
    BY <2>2 DEF CaughtUp, Fit, Answers
  <2> QED BY <2>3, <2>4 DEF FirstIncorrects
<1>2. SessionInv /\ RollsWhenSaved
        => (SaveMode = "EveryFrame" /\ LastPairRemains => NothingPendingIsConfirmed)
  BY <1>1 DEF RollsWhenSaved, NothingPendingIsConfirmed
<1> QED BY <1>2, SessionInvariant, RollbackInvariant, PTL

=============================================================================
