------------------------------ MODULE Spectator ------------------------------
(***************************************************************************)
(* A spectator session fed by several redundant hosts                      *)
(* (src/src/sessions/p2p_spectator_session.rs): staging of each host's     *)
(* frames, commit of the canonical host's, detection of hosts that         *)
(* disagree, the connection status of a slot that is dropped and reopened, *)
(* failover, delayed playback with catch-up, and rewind.                   *)
(*                                                                         *)
(* One player slot is modelled, the one that may be dropped: a packet      *)
(* brings the inputs of all slots of a frame together, and the handlers    *)
(* treat the slots alike.  The hosts are the environment: each confirms    *)
(* frames under the views of the slot it goes through, and its endpoint    *)
(* delivers every confirmed frame once, in order, with the status the host *)
(* then has (UdpProtocol).  The session is past its first Synchronized.    *)
(***************************************************************************)
EXTENDS Integers, Sequences, FiniteSetsExt

CONSTANTS
    BufferSize,    \* buffer_size of the rings
    MaxBatch,      \* bound: the frames one poll brings of one host
    Scenarios,     \* the hosts' views, the mesh's inputs and the configuration
    Input, None

NULL_FRAME == -1

\* What inputs_at_frame answers instead of an input.
Errors == {"PredictionThreshold", "SpectatorTooFarBehind"}

\* A player's slot as a host or the session sees it, and what the rings hold.
FrameOrNull == Nat \cup {NULL_FRAME}
Status == [disconnected : BOOLEAN, last_frame : FrameOrNull, epoch : Nat]
Witness == [freeze : FrameOrNull, epoch : Nat]
StagedInput == [frame : Nat, input : Input, status : Status]
HeldInput == [frame : Nat, input : Input]
SavedGame == [frame : Nat, game : Seq(Input)]

ASSUME SizeAssumption == BufferSize \in Nat \ {0} /\ MaxBatch \in Nat
ASSUME InputAssumption == Input \cap (Errors \cup {None}) = {}
ASSUME NoneAssumption == None \notin Witness \cup StagedInput \cup HeldInput \cup SavedGame

\* A scenario has, for each host in the order of its priority, the views of the slot
\* it goes through, and for each frame the inputs the mesh allows.
ScenarioViews(c) == UNION {{c.views[h][i] : i \in DOMAIN c.views[h]} : h \in DOMAIN c.views}
ASSUME ScenarioAssumption ==
    \A c \in Scenarios :
        /\ c.mesh \in Seq(SUBSET Input)
        /\ c.views \in Seq(Seq([status : Status, inputs : Seq(Input)]))
        /\ \A h \in DOMAIN c.views : Len(c.views[h]) > 0
        /\ \A v \in ScenarioViews(c) :
               /\ v.status.last_frame < Len(c.mesh)
               /\ Len(v.inputs) <= Len(c.mesh)
               /\ \A i \in DOMAIN v.inputs : v.inputs[i] \in c.mesh[i]
        /\ {c.stream_delay, c.max_frames_behind, c.catchup_speed, c.ahead} \subseteq Nat
        /\ c.rewind \in BOOLEAN
        /\ c.stream_delay < BufferSize

\* The slot is dropped and reopened at most once, in epochs 1 and 2, and it is
\* reopened only when the hosts have settled on the frame of the drop.
ASSUME CycleAssumption ==
    \A c \in Scenarios : \A v, w \in ScenarioViews(c) :
        /\ v.status.disconnected <=> v.status.epoch = 1
        /\ v.status.disconnected /\ w.status.disconnected
             /\ (\E x \in ScenarioViews(c) : x.status.epoch > 1)
           => v.status.last_frame = w.status.last_frame

VARIABLES
    config,     \* the scenario
    view,       \* host -> index of its current view of the slot
    confirmed,  \* host -> the inputs it has confirmed and queued for the spectator
    delivered,  \* host -> how many of them have been handled here
    session,    \* the session's tables (NewSession)
    current_frame,
    game,       \* the inputs the game has been advanced with
    saved       \* state_buffer: slot -> the game saved there, or None

vars == <<config, view, confirmed, delivered, session, current_frame, game, saved>>

Hosts == DOMAIN config.views
Views(h) == config.views[h]
Slots == 0 .. BufferSize - 1
SlotOf(frame) == frame % BufferSize
FrameCount == Len(config.mesh)

Connected(epoch) == [disconnected |-> FALSE, last_frame |-> NULL_FRAME, epoch |-> epoch]
DroppedAt(frame, epoch) == [disconnected |-> TRUE, last_frame |-> frame, epoch |-> epoch]

\* Blank ring entries; the hosts in the order of their priority.
NewSession(hosts) ==
    [hosts    |-> hosts,
     snapshots |-> [h \in hosts |-> [i \in Slots |-> None]],
     witness  |-> [h \in hosts |-> None],
     epoch    |-> [h \in hosts |-> 0],
     status   |-> Connected(0),
     inputs   |-> [i \in Slots |-> None],
     last_recv_frame |-> NULL_FRAME,
     diverged |-> FALSE,
     committed |-> <<>>]   \* history: every input committed

Init ==
    /\ config \in Scenarios
    /\ view = [h \in Hosts |-> 1]
    /\ confirmed = [h \in Hosts |-> <<>>]
    /\ delivered = [h \in Hosts |-> 0]
    /\ session = NewSession(Hosts)
    /\ current_frame = NULL_FRAME
    /\ game = <<>>
    /\ saved = [i \in Slots |-> None]

-----------------------------------------------------------------------------
(* The connection status of the slot.                                      *)

\* A drop report of this or of a newer cycle is remembered, at the highest freeze.
Rewitness(witness, status) ==
    IF witness = None THEN [freeze |-> status.last_frame, epoch |-> status.epoch]
    ELSE IF status.epoch > witness.epoch
    THEN [freeze |-> status.last_frame, epoch |-> status.epoch]
    ELSE IF status.epoch = witness.epoch
    THEN [witness EXCEPT !.freeze = Max({@, status.last_frame})]
    ELSE witness

witness_host_status_reports(s, h, status) ==
    [s EXCEPT !.epoch[h] = Max({@, status.epoch}),
              !.witness[h] = IF status.disconnected /\ status.epoch >= s.epoch[h]
                             THEN Rewitness(@, status) ELSE @]

\* Mutant of Witnessed: any connected report reopens the slot.
Witnessed_Always(s, h, epoch) == TRUE

\* reactivation_provenance: h itself reported the drop it now reopens.
Witnessed(s, h, epoch) ==
    /\ s.witness[h] # None
    /\ s.status.disconnected
    /\ s.witness[h].freeze >= s.status.last_frame
    /\ epoch >= s.witness[h].epoch

\* Mutant of Snapshot: an entry that another frame left in the slot is taken.
Snapshot_AnyFrame(s, h, frame) == s.snapshots[h][SlotOf(frame)]

Snapshot(s, h, frame) ==
    LET x == s.snapshots[h][SlotOf(frame)]
    IN  IF x = None THEN None ELSE IF x.frame = frame THEN x ELSE None

\* snapshot_freeze_frame, of several hosts.
Freezes(s, hosts, frame) ==
    {Snapshot(s, h, frame).status.last_frame :
        h \in {g \in hosts : Snapshot(s, g, frame) # None /\ Snapshot(s, g, frame).status.disconnected}}

\* converged_drop_status: the lowest freeze any connected host reports for the frame.
ConvergedStatus(s, h, frame, leaving) ==
    LET status == Snapshot(s, h, frame).status
    IN  IF status.disconnected
        THEN [status EXCEPT !.last_frame = Min({@} \cup Freezes(s, s.hosts \ (leaving \cup {h}), frame))]
        ELSE status

\* Mutant of merge_connection_status: a reopened slot stays frozen.
merge_connection_status_Latch(s, h, status) ==
    IF ~s.status.disconnected /\ status.disconnected THEN [s EXCEPT !.status = status] ELSE s

\* merge_connection_status with the witness upkeep of its caller: a followed
\* reopening consumes the witnesses of the drop, an adopted drop is witnessed by
\* the host whose frame brought it.
merge_connection_status(s, h, status) ==
    CASE s.status.disconnected /\ status.disconnected ->
             [s EXCEPT !.status.last_frame = Min({@, status.last_frame})]
      [] s.status.disconnected /\ ~status.disconnected ->
             IF Witnessed(s, h, status.epoch)
             THEN [s EXCEPT !.status = status, !.witness = [g \in s.hosts |-> None]] ELSE s
      [] ~s.status.disconnected /\ status.disconnected ->
             [s EXCEPT !.status = status, !.witness[h] = Rewitness(@, status)]
      [] OTHER -> s

\* converge_latched_drop_status: a late report can still lower the freeze.
converge_latched_drop_status(s, h, frame) ==
    IF s.status.disconnected
    THEN [s EXCEPT !.status.last_frame = Min({@} \cup Freezes(s, {h}, frame))] ELSE s

-----------------------------------------------------------------------------
(* Staging, comparison and commit of frames.                               *)

Contradicts(s, h, frame, input) ==
    Snapshot(s, h, frame) # None /\ Snapshot(s, h, frame).input # input

\* Mutant of detect_staged_input_disagreement: only other hosts' staged frames count.
detect_staged_input_disagreement_Staged(s, h, frame, input, others) ==
    \E o \in others \ {h} : Contradicts(s, o, frame, input)

\* What is committed has left the other hosts' rings only when it left this one.  A
\* blank entry of the ring is of no frame.
detect_staged_input_disagreement(s, h, frame, input, others) ==
    \/ \E o \in others \ {h} : Contradicts(s, o, frame, input)
    \/ /\ frame <= s.last_recv_frame
       /\ s.inputs[SlotOf(frame)] # None
       /\ s.inputs[SlotOf(frame)].frame = frame
       /\ s.inputs[SlotOf(frame)].input # input

commit_canonical_snapshot(s, h, frame, leaving) ==
    LET input == Snapshot(s, h, frame).input
        stored == [s EXCEPT !.inputs[SlotOf(frame)] = [frame |-> frame, input |-> input],
                            !.committed = Append(@, input)]
    IN  [merge_connection_status(stored, h, ConvergedStatus(s, h, frame, leaving))
            EXCEPT !.last_recv_frame = frame]

\* One round of the loop of try_commit_ready_frames: the next frame, as the host h
\* has it, unless one of the compared hosts has another input for it.
CommitNext(s, h, compared, leaving) ==
    LET frame == s.last_recv_frame + 1
    IN  IF s.diverged \/ Snapshot(s, h, frame) = None THEN s
        ELSE IF \E o \in compared \ {h} : Contradicts(s, o, frame, Snapshot(s, h, frame).input)
        THEN [s EXCEPT !.diverged = TRUE]
        ELSE commit_canonical_snapshot(s, h, frame, leaving)

\* try_commit_ready_frames_with_pending_host: of the first host that stays, or of
\* those in pending (at most one) when all leave.
try_commit_ready_frames(s, leaving, pending) ==
    LET staying   == s.hosts \ leaving
        canonical == IF staying # {} THEN {Min(staying)} ELSE pending
        compared  == IF staying # {} THEN staying ELSE s.hosts
        commit[n \in 0 .. BufferSize] ==
            IF n = 0 THEN s ELSE CommitNext(commit[n - 1], Min(canonical), compared, leaving)
    IN  IF canonical = {} THEN s ELSE commit[BufferSize]

\* handle_host_input.  The endpoint delivers a frame once, so that a host never
\* contradicts itself.
handle_host_input(s, h, frame, input, status, leaving) ==
    LET pending   == h \in leaving
        compareAll == pending /\ s.hosts \subseteq leaving
        staged    == [witness_host_status_reports(s, h, status)
                         EXCEPT !.snapshots[h][SlotOf(frame)] =
                                    [frame |-> frame, input |-> input, status |-> status]]
        others    == IF compareAll THEN s.hosts ELSE s.hosts \ leaving
        lowered   == IF pending THEN staged ELSE converge_latched_drop_status(staged, h, frame)
    IN  IF (~pending \/ compareAll) /\ detect_staged_input_disagreement(staged, h, frame, input, others)
        THEN [staged EXCEPT !.diverged = TRUE]
        ELSE IF frame > s.last_recv_frame
        THEN try_commit_ready_frames(lowered, leaving, IF pending THEN {h} ELSE {})
        ELSE lowered

\* remove_disconnected_hosts: the tables of a host go with it.
remove_disconnected_hosts(s, leaving) ==
    LET staying == s.hosts \ leaving
    IN  [s EXCEPT !.hosts = staying,
                  !.snapshots = [h \in staying |-> @[h]],
                  !.witness = [h \in staying |-> @[h]],
                  !.epoch = [h \in staying |-> @[h]]]

\* The next count frames of host h, one after the other.
HandleBatch(s, h, count, leaving) ==
    LET after[n \in 0 .. count] ==
            IF n = 0 THEN s
            ELSE handle_host_input(after[n - 1], h, delivered[h] + n - 1, confirmed[h][delivered[h] + n],
                                   Views(h)[view[h]].status, leaving)
    IN  after[count]

\* poll_remote_clients: the events of each host in turn, its disconnection last.
Polled(batch, leaving) ==
    LET handled[n \in 0 .. Len(config.views)] ==
            IF n = 0 THEN session
            ELSE IF n \in session.hosts THEN HandleBatch(handled[n - 1], n, batch[n], leaving)
            ELSE handled[n - 1]
    IN  try_commit_ready_frames(remove_disconnected_hosts(handled[Len(config.views)], leaving), {}, {})

-----------------------------------------------------------------------------
(* Playback.                                                               *)

\* Mutant of viewable_frame: the delay also holds back the end of the stream.
viewable_frame_AlwaysDelayed(s) == Max({s.last_recv_frame - config.stream_delay, NULL_FRAME})

viewable_frame(s) ==
    IF s.hosts = {} /\ ~s.diverged THEN s.last_recv_frame
    ELSE Max({s.last_recv_frame - config.stream_delay, NULL_FRAME})

\* inputs_at_frame: the input to play, past the freeze that of the freeze frame if
\* it is still held; or the error.
inputs_at_frame(s, frame) ==
    LET held   == s.inputs[SlotOf(frame)]
        freeze == s.status.last_frame
        frozen == IF freeze = NULL_FRAME THEN None ELSE s.inputs[SlotOf(freeze)]
    IN  IF held = None THEN "PredictionThreshold"
        ELSE IF held.frame > frame THEN "SpectatorTooFarBehind"
        ELSE IF held.frame < frame THEN "PredictionThreshold"
        ELSE IF s.status.disconnected /\ freeze < frame /\ frozen # None /\ frozen.frame = freeze
        THEN frozen.input
        ELSE held.input

frames_to_advance(s) ==
    IF viewable_frame(s) - current_frame > config.max_frames_behind THEN config.catchup_speed ELSE 1

\* One round of the loop of advance_frame.  An error other than the threshold
\* discards the requests.
PlayNext(p, s) ==
    LET frame == p.frame + 1
        input == inputs_at_frame(s, frame)
    IN  IF p.stop \/ frame > viewable_frame(s) THEN [p EXCEPT !.stop = TRUE]
        ELSE IF input = "SpectatorTooFarBehind"
        THEN [p EXCEPT !.game = game, !.saved = saved, !.stop = TRUE]
        ELSE IF input \in Errors THEN [p EXCEPT !.stop = TRUE]
        ELSE [frame |-> frame,
              game  |-> Append(p.game, input),
              saved |-> IF config.rewind
                        THEN [p.saved EXCEPT ![SlotOf(frame)] = [frame |-> frame, game |-> p.game]]
                        ELSE p.saved,
              stop  |-> FALSE]

\* The whole loop: the frame, the game once the requests are handled, and what it
\* saved.
Advanced(s) ==
    LET play[n \in 0 .. frames_to_advance(s)] ==
            IF n = 0 THEN [frame |-> current_frame, game |-> game, saved |-> saved, stop |-> FALSE]
            ELSE PlayNext(play[n - 1], s)
    IN  play[frames_to_advance(s)]

-----------------------------------------------------------------------------
(* Steps of the hosts (external).                                          *)

\* A host confirms its next frame as it sees the slot, and queues it.
HostConfirms(h) ==
    /\ Len(confirmed[h]) < Len(Views(h)[view[h]].inputs)
    /\ confirmed' = [confirmed EXCEPT ![h] = Append(@, Views(h)[view[h]].inputs[Len(@) + 1])]
    /\ UNCHANGED <<config, view, delivered, session, current_frame, game, saved>>

\* Its view changes.  Bound: a dropped slot is reopened only after some frame of h
\* sent meanwhile has come through.
HostChangesView(h) ==
    /\ view[h] < Len(Views(h))
    /\ LET status == Views(h)[view[h]].status
           next   == Views(h)[view[h] + 1].status
       IN  status.disconnected /\ ~next.disconnected /\ h \in session.hosts
               => session.epoch[h] = status.epoch
    /\ view' = [view EXCEPT ![h] = @ + 1]
    /\ UNCHANGED <<config, confirmed, delivered, session, current_frame, game, saved>>

(* Steps of the session.                                                   *)

\* What a poll may find: up to MaxBatch frames of each host, and hosts that leave.
\* Bound: no host's frames reach further ahead of playback than config.ahead.
Batches == {b \in [session.hosts -> 0 .. MaxBatch] :
               \A h \in session.hosts :
                   /\ delivered[h] + b[h] <= Len(confirmed[h])
                   /\ b[h] > 0 => delivered[h] + b[h] - 1 <= current_frame + config.ahead}

Deliver(batch) ==
    delivered' = [h \in Hosts |-> IF h \in session.hosts THEN delivered[h] + batch[h] ELSE delivered[h]]

PollRemoteClients(batch, leaving) ==
    /\ session' = Polled(batch, leaving)
    /\ Deliver(batch)
    /\ UNCHANGED <<config, view, confirmed, current_frame, game, saved>>

\* advance_frame polls first; a session that has diverged does neither.
AdvanceFrame(batch, leaving) ==
    /\ ~session.diverged
    /\ session' = Polled(batch, leaving)
    /\ Deliver(batch)
    /\ IF session'.diverged THEN UNCHANGED <<current_frame, game, saved>>
       ELSE LET p == Advanced(session')
            IN  current_frame' = p.frame /\ game' = p.game /\ saved' = p.saved
    /\ UNCHANGED <<config, view, confirmed>>

\* Mutant of SeekLabel: the state of the frame itself, not of the one after it.
SeekLabel_SameFrame(target) == target

\* The saved state that has target as its last frame.
SeekLabel(target) == target + 1

SeekToFrame(target) ==
    LET label == SeekLabel(target)
        cell  == saved[SlotOf(label)]
    IN  /\ config.rewind
        /\ cell # None
        /\ cell.frame = label
        /\ game' = cell.game
        /\ current_frame' = target
        /\ UNCHANGED <<config, view, confirmed, delivered, session, saved>>

Next ==
    \/ \E h \in Hosts : HostConfirms(h)
    \/ \E h \in Hosts : HostChangesView(h)
    \/ \E batch \in Batches, leaving \in SUBSET session.hosts : PollRemoteClients(batch, leaving)
    \/ \E batch \in Batches, leaving \in SUBSET session.hosts : AdvanceFrame(batch, leaving)
    \/ \E target \in 0 .. FrameCount - 1 : SeekToFrame(target)

Spec == Init /\ [][Next]_vars

\* Something more can be played; a host has frames for the next poll.
CanPlay == ~session.diverged /\ Advanced(session).frame # current_frame
HasFrames(h) == ~session.diverged /\ h \in session.hosts /\ \E batch \in Batches : batch[h] > 0

\* The application goes on calling advance_frame, every host that has not left goes
\* on, and its frames arrive in the end.
Fairness ==
    /\ []<>~CanPlay \/ []<><<\E batch \in Batches : AdvanceFrame(batch, {})>>_vars
    /\ \A h \in UNION {DOMAIN c.views : c \in Scenarios} :
        /\ WF_vars(h \in Hosts /\ HostConfirms(h))
        /\ WF_vars(h \in Hosts /\ HostChangesView(h))
        /\ \/ []<>~HasFrames(h)
           \/ []<><<\E batch \in Batches : batch[h] > 0 /\ AdvanceFrame(batch, {})>>_vars

FairSpec == Spec /\ Fairness

-----------------------------------------------------------------------------
(* Properties.                                                             *)

TypeOK ==
    /\ session.hosts \subseteq Hosts
    /\ session.last_recv_frame \in NULL_FRAME .. FrameCount - 1
    /\ session.status.last_frame \in NULL_FRAME .. FrameCount - 1
    /\ \A i \in Slots : session.inputs[i] # None =>
           session.inputs[i].input \in Input /\ SlotOf(session.inputs[i].frame) = i
    /\ \A h \in session.hosts : \A i \in Slots : session.snapshots[h][i] # None =>
           SlotOf(session.snapshots[h][i].frame) = i
    /\ current_frame \in NULL_FRAME .. session.last_recv_frame
    /\ game \in Seq(Input) /\ Len(game) = current_frame + 1

\* The game has played, for each frame, an input of the slot that the mesh agreed on:
\* whichever hosts the frames came from, through a drop, a reopening, failovers and
\* seeks.
PlayedIsMeshInput == \A i \in DOMAIN game : game[i] \in config.mesh[i]

\* A session that goes on has no host among those it still listens to that gave
\* another input for a frame it still holds, unless a host may run further ahead than
\* the ring is long.
NoSilentConflict ==
    config.ahead <= BufferSize /\ ~session.diverged => \A h \in session.hosts :
        \A i \in 1 .. Min({delivered[h], Len(session.committed)}) :
            i - 1 > session.last_recv_frame - BufferSize => confirmed[h][i] = session.committed[i]

\* Hosts that agree are never found to disagree.
AgreeingHostsPlayOn ==
    (\A i \in DOMAIN config.mesh : \A x, y \in config.mesh[i] : x = y) => ~session.diverged

\* A frozen slot is taken for reopened only if some host has in fact reopened it since
\* that drop, and meanwhile its freeze frame only moves down.
FreezeHolds ==
    [][session.status.disconnected =>
           IF session'.status.disconnected
           THEN session'.status.last_frame <= session.status.last_frame
           ELSE \E h \in Hosts : \E i \in 1 .. view[h] :
                    /\ ~Views(h)[i].status.disconnected
                    /\ Views(h)[i].status.epoch > session.status.epoch]_vars

\* Everything the remaining hosts confirm is played, up to the delay; what was
\* committed is played to its end when no host remains.
CaughtUp ==
    \/ session.diverged
    \/ session.hosts = {} /\ current_frame = session.last_recv_frame
    \/ session.hosts # {} /\ current_frame = FrameCount - 1 - config.stream_delay
PlaysToTheEnd == []~config.rewind => <>[]CaughtUp

\* Spectation continues while a host remains: unless playback itself falls behind by
\* more than the buffer.
FailoverContinues ==
    [](session.last_recv_frame <= current_frame + BufferSize) /\ []~config.rewind => <>[]CaughtUp
=============================================================================
