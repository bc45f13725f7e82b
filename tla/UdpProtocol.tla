----------------------------- MODULE UdpProtocol -----------------------------
(***************************************************************************)
(* Two endpoints (src/src/network/protocol/mod.rs) and the network between *)
(* them: the handshake, the transport of inputs with acknowledgements and  *)
(* resends, the connect status that travels on input packets, goodbyes,    *)
(* silence timeouts, the restart of a peer with packets of its earlier     *)
(* connection still under way, and the floor rounds by which an observer   *)
(* asks a relay how low it knows the third slot to be frozen.              *)
(*                                                                         *)
(* The network loses, repeats and reorders.  A timer may fire whenever the *)
(* state allows it: the clock is left out.  Keep-alives and quality        *)
(* reports, which change nothing but the time of the last packet and the   *)
(* statistics, are left out with it.                                       *)
(*                                                                         *)
(* An input is a set of bits, so that the delta coding is what it is in    *)
(* the code: exclusive or with a reference input.  The run-length coding   *)
(* that follows it is lossless and left out.                               *)
(***************************************************************************)
EXTENDS Integers, Sequences, FiniteSets, Functions, SequencesExt, FiniteSetsExt

CONSTANTS
    Bits,          \* of one input
    Setups,        \* the pairs of sessions to look at, see SetupAssumption
    Randoms,       \* the numbers a sync request may carry
    PendingLimit,  \* pending_output_limit
    History,       \* input_history_multiplier * max_prediction
    MaxInFlight    \* bound: packets under way to one peer

Peers == {1, 2}
Peer(p) == 3 - p

NULL_FRAME == -1
NoConn == <<0, 0>>

ConnectionStatus == [disconnected : BOOLEAN, last_frame : Int]

ASSUME LimitAssumption == PendingLimit \in Nat \ {0} /\ History \in Nat /\ MaxInFlight \in Nat \ {0}

\* What a pair of sessions does: for each peer the inputs it sends, the frame of the
\* first one (its input delay), the configuration of each start of its session, the
\* start the behaviour begins with, and the successive connect statuses it has of a
\* third slot; num_sync_packets; and whether a peer may fall silent or leave.  For
\* floor rounds: the lowest freeze of that slot its other remotes report along with
\* each view, how many of its other remotes it loses, and a bound on the requests.
ASSUME SetupAssumption ==
    \A s \in Setups :
        /\ s.payload \in [Peers -> Seq(SUBSET Bits)]
        /\ s.first_frame \in [Peers -> Nat]
        /\ s.config \in [Peers -> Seq(STRING)]
        /\ s.views \in [Peers -> Seq(ConnectionStatus)]
        /\ s.others \in [Peers -> Seq(Int)]
        /\ \A p \in Peers : s.start[p] \in DOMAIN s.config[p]
        /\ \A p \in Peers : Len(s.views[p]) > 0 /\ Len(s.others[p]) = Len(s.views[p])
        /\ s.num_sync \in Nat \ {0}
        /\ s.timers \in BOOLEAN
        /\ s.prunes \in [Peers -> Nat] /\ s.max_rounds \in Nat

VARIABLES
    setup,      \* one of Setups, never changed
    ep,         \* peer -> its endpoint
    net,        \* peer -> the packets under way to it
    view,       \* peer -> which of its Views its session has now
    left,       \* history: the connections that have said goodbye
    pruned,     \* peer -> for each remote its session has lost, the other peer's view then
    sent,       \* history: peer -> the inputs its endpoint accepted, in order
    delivered   \* history: peer -> its inputs as handed to the other session

vars == <<setup, ep, net, view, left, pruned, sent, delivered>>

Input == SUBSET Bits
blank == {}

Payload == setup.payload
FirstFrame == setup.first_frame
Config == setup.config
Views == setup.views
Timers == setup.timers

xor(a, b) == (a \ b) \cup (b \ a)

Channel == INSTANCE InputChannel WITH Peers <- Peers, Input <- Input, sent <- sent, delivered <- delivered

\* ConnectionStatus::default, also what UdpProtocol::new starts with.
NewStatus == [disconnected |-> FALSE, last_frame |-> NULL_FRAME]

\* UdpProtocol::new.  conn_id is unique to a start of the session.
NewEndpoint(conn) ==
    [state                     |-> "Initializing",
     sync_remaining_roundtrips |-> setup.num_sync,
     sync_random_requests      |-> {},
     handshake_failed          |-> FALSE,
     conn_id                   |-> conn,
     remote_conn_id            |-> NoConn,
     pending_output            |-> <<>>,
     last_acked_input          |-> [frame |-> NULL_FRAME, input |-> blank],
     recv_inputs               |-> [f \in {NULL_FRAME} |-> blank],
     peer_connect_status       |-> NewStatus,
     round_floor               |-> NULL_FRAME,
     floor_request_seq         |-> 0,
     floor_reply_seq           |-> 0,
     floor_prune_seq           |-> 0,
     pending_floor_request     |-> 0,
     disconnect_notify_sent    |-> FALSE,
     disconnect_event_sent     |-> FALSE,
     disconnected_event        |-> FALSE]

Init ==
    /\ setup \in Setups
    /\ ep = [p \in Peers |-> NewEndpoint(<<p, setup.start[p]>>)]
    /\ net = [p \in Peers |-> {}]
    /\ view = [p \in Peers |-> 1]
    /\ left = {}
    /\ pruned = [p \in Peers |-> <<>>]
    /\ sent = [p \in Peers |-> <<>>]
    /\ delivered = [p \in Peers |-> <<>>]

ConfigOf(conn) == Config[conn[1]][conn[2]]
last_recv_frame(e) == Max(DOMAIN e.recv_inputs)

-----------------------------------------------------------------------------
(* Packets.                                                                *)

\* What the packets under way can be once msg is sent too: when the network is
\* full it loses another one.
Posted(packets, msg) ==
    IF Cardinality(packets \cup {msg}) <= MaxInFlight THEN {packets \cup {msg}}
    ELSE {(packets \ {lost}) \cup {msg} : lost \in packets}

SyncRequest(e, random) ==
    [type |-> "SyncRequest", conn |-> e.conn_id, random |-> random, config |-> ConfigOf(e.conn_id)]
SyncReply(e, random) ==
    [type |-> "SyncReply", conn |-> e.conn_id, random |-> random, config |-> ConfigOf(e.conn_id)]
Goodbye(e) == [type |-> "Goodbye", conn |-> e.conn_id]
InputAck(e) == [type |-> "InputAck", conn |-> e.conn_id, ack_frame |-> last_recv_frame(e)]

FloorRequest(e, seq) == [type |-> "FloorRequest", conn |-> e.conn_id, round_seq |-> seq]
FloorReply(e, floor) ==
    [type |-> "FloorReply", conn |-> e.conn_id, round_seq |-> e.pending_floor_request, floor |-> floor]

\* Mutant of InputPacket: each input is coded against the newest pending one.
InputPacket_WrongReference(e, status) ==
    [type |-> "Input", conn |-> e.conn_id, start_frame |-> Head(e.pending_output).frame,
     ack_frame |-> last_recv_frame(e), status |-> status,
     bytes |-> [i \in DOMAIN e.pending_output |->
                   xor(Last(e.pending_output).input, e.pending_output[i].input)]]

\* send_pending_output: everything pending, coded against the last input acked.
InputPacket(e, status) ==
    [type |-> "Input", conn |-> e.conn_id, start_frame |-> Head(e.pending_output).frame,
     ack_frame |-> last_recv_frame(e), status |-> status,
     bytes |-> [i \in DOMAIN e.pending_output |->
                   xor(e.last_acked_input.input, e.pending_output[i].input)]]

\* send_connect_status_nudge: the last acked input once more, coded against
\* itself, to carry the connect status.
NudgePacket(e, status) ==
    [type |-> "Input", conn |-> e.conn_id, start_frame |-> e.last_acked_input.frame,
     ack_frame |-> last_recv_frame(e), status |-> status,
     bytes |-> <<xor(e.last_acked_input.input, e.last_acked_input.input)>>]

Status(p) == Views[p][view[p]]

-----------------------------------------------------------------------------
(* Sending.                                                                *)

\* Puts msg on the way to the peer of p.
Send(p, msg) == \E packets \in Posted(net[Peer(p)], msg) : net' = [net EXCEPT ![Peer(p)] = packets]

RequestSync(e, random) == [e EXCEPT !.sync_random_requests = @ \cup {random}]

\* synchronize.
Synchronize(p, random) ==
    /\ ep[p].state = "Initializing"
    /\ ep' = [ep EXCEPT ![p] = RequestSync([@ EXCEPT !.state = "Synchronizing"], random)]
    /\ Send(p, SyncRequest(ep[p], random))
    /\ UNCHANGED <<setup, view, left, pruned, sent, delivered>>

\* poll while Synchronizing: sync_retry_interval has passed.
RetrySync(p, random) ==
    /\ ep[p].state = "Synchronizing"
    /\ ~ep[p].handshake_failed
    /\ ep' = [ep EXCEPT ![p] = RequestSync(@, random)]
    /\ Send(p, SyncRequest(ep[p], random))
    /\ UNCHANGED <<setup, view, left, pruned, sent, delivered>>

\* send_input of the next frame.  A full queue refuses it and reports the peer
\* as disconnected; the session handles that event before it sends again.
SendInput(p) ==
    LET next == Len(sent[p]) + 1
        item == [frame |-> FirstFrame[p] + next - 1, input |-> Payload[p][next]]
        new  == [ep[p] EXCEPT !.pending_output = Append(@, item)]
    IN  /\ ep[p].state = "Running"
        /\ ~ep[p].disconnected_event
        /\ next <= Len(Payload[p])
        /\ IF Len(ep[p].pending_output) >= PendingLimit
           THEN /\ ep' = [ep EXCEPT ![p].disconnected_event = TRUE]
                /\ UNCHANGED <<net, sent>>
           ELSE /\ ep' = [ep EXCEPT ![p] = new]
                /\ sent' = [sent EXCEPT ![p] = Append(@, item.input)]
                /\ Send(p, InputPacket(new, Status(p)))
        /\ UNCHANGED <<setup, view, left, pruned, delivered>>

\* poll while Running: running_retry_interval has passed without a new input.
ResendPending(p) ==
    /\ ep[p].state = "Running"
    /\ ep[p].pending_output # <<>>
    /\ Send(p, InputPacket(ep[p], Status(p)))
    /\ UNCHANGED <<setup, ep, view, left, pruned, sent, delivered>>

\* The session asks for nudges while some endpoint has yet to report a drop it knows
\* of: surely while this peer has not, and later if another peer of the mesh has not.
NudgeNeeded(p) == Status(p).disconnected /\ ~ep[p].peer_connect_status.disconnected
\* poll sends one when there is no input to carry the status.
Nudge(p) ==
    /\ Status(p).disconnected
    /\ ep[p].state = "Running"
    /\ ep[p].pending_output = <<>>
    /\ ep[p].last_acked_input.frame # NULL_FRAME
    /\ Send(p, NudgePacket(ep[p], Status(p)))
    /\ UNCHANGED <<setup, ep, view, left, pruned, sent, delivered>>

\* The session's own view of the third slot moves on.
ChangeView(p) ==
    /\ view[p] < Len(Views[p])
    /\ view' = [view EXCEPT ![p] = @ + 1]
    /\ UNCHANGED <<setup, ep, net, left, pruned, sent, delivered>>

-----------------------------------------------------------------------------
(* Receiving.                                                              *)

MessageAllowed(e, msg) ==
    \/ e.state \in {"Initializing", "Synchronizing"}
           /\ msg.type \in {"SyncRequest", "SyncReply", "Goodbye"}
    \/ e.state = "Running"
    \/ e.state = "Disconnected" /\ msg.type = "SyncRequest"

\* Mutant of Accepts: a goodbye counts before the connection is bound.
Accepts_UnboundGoodbye(e, msg) ==
    /\ e.state # "Shutdown"
    /\ e.remote_conn_id \in {NoConn, msg.conn}
    /\ MessageAllowed(e, msg)

\* The filters of handle_message.
Accepts(e, msg) ==
    /\ e.state # "Shutdown"
    /\ e.remote_conn_id \in {NoConn, msg.conn}
    /\ MessageAllowed(e, msg)
    /\ msg.type = "Goodbye" => e.remote_conn_id # NoConn

\* Mutant of observe_handshake: the other side's configuration is not compared.
observe_handshake_Blind(e, config) == e

observe_handshake(e, config) ==
    [e EXCEPT !.handshake_failed = @ \/ config # ConfigOf(e.conn_id)]

\* An accepted packet ends an interruption.
Resumed(e) == [e EXCEPT !.disconnect_notify_sent = @ /\ e.state # "Running"]

classify_ack_frame(e, ack) ==
    /\ ack # NULL_FRAME
    /\ ack > e.last_acked_input.frame
    /\ e.pending_output # <<>>
    /\ ack <= Last(e.pending_output).frame

\* Mutant of apply_ack_frame: an ack is taken for the packet's whole batch.
apply_ack_frame_WholeBatch(e, ack) ==
    IF ~classify_ack_frame(e, ack) THEN e
    ELSE [e EXCEPT !.pending_output = <<>>, !.last_acked_input = Last(e.pending_output)]

\* How many of the pending inputs, from the front, an ack covers.
AckedCount(pending, ack) ==
    Max({0} \cup {i \in DOMAIN pending : \A j \in 1 .. i : pending[j].frame <= ack})

\* Drops from the front what is acked; the newest of it becomes the reference.
apply_ack_frame(e, ack) ==
    LET n == AckedCount(e.pending_output, ack)
    IN  IF ~classify_ack_frame(e, ack) THEN e
        ELSE [e EXCEPT !.pending_output = SubSeq(@, n + 1, Len(@)),
                       !.last_acked_input = IF n = 0 THEN @ ELSE e.pending_output[n]]

\* Mutant of merge_peer_connect_status: the newest packet wins.
merge_peer_connect_status_Overwrite(old, new) == new

\* Progress only rises, a disconnect stays, and its frame only falls.
merge_peer_connect_status(old, new) ==
    IF old.disconnected /\ new.disconnected
    THEN [old EXCEPT !.last_frame = Min({@, new.last_frame})]
    ELSE IF new.disconnected THEN new
    ELSE IF old.disconnected THEN old
    ELSE [old EXCEPT !.last_frame = Max({@, new.last_frame})]

\* on_input: what becomes of msg.  The input before its first frame is the reference
\* (the blank one before anything was received): a packet that starts past the next
\* frame is a gap, and one whose reference has been pruned brings nothing new.
DecodeFrame(e, msg) == IF last_recv_frame(e) = NULL_FRAME THEN NULL_FRAME ELSE msg.start_frame - 1
Verdict(e, msg) ==
    IF last_recv_frame(e) # NULL_FRAME /\ last_recv_frame(e) + 1 < msg.start_frame THEN "gap"
    ELSE IF DecodeFrame(e, msg) \notin DOMAIN e.recv_inputs THEN "known"
    ELSE IF Len(msg.bytes) > PendingLimit THEN "too long"
    ELSE "decoded"
NewFrames(e, msg) ==
    {f \in msg.start_frame .. msg.start_frame + Len(msg.bytes) - 1 : f > last_recv_frame(e)}
Decode(e, msg) ==
    [f \in NewFrames(e, msg) |->
        xor(e.recv_inputs[DecodeFrame(e, msg)], msg.bytes[f - msg.start_frame + 1])]

\* Received inputs, the newest History frames of them.
Stage(e, new) ==
    LET all  == [f \in DOMAIN new \cup DOMAIN e.recv_inputs |->
                    IF f \in DOMAIN new THEN new[f] ELSE e.recv_inputs[f]]
    IN  [e EXCEPT !.recv_inputs = Restrict(all, {f \in DOMAIN all : f >= Max(DOMAIN all) - History})]

\* Mutant of Reacks: packets without a reference are met with silence.
Reacks_Silent(verdict) == verdict = "decoded"

Reacks(verdict) == verdict \in {"decoded", "known"}

Received(e, msg) ==
    LET verdict == Verdict(e, msg)
        merged  == [e EXCEPT !.peer_connect_status = merge_peer_connect_status(@, msg.status)]
        acked   == apply_ack_frame(merged, msg.ack_frame)
    IN  CASE verdict = "decoded" -> Stage(acked, Decode(e, msg))
          [] verdict = "known"   -> acked
          [] OTHER               -> merged

\* The inputs msg adds to what the session has received, frame by frame.
Events(e, msg) ==
    IF Verdict(e, msg) # "decoded" THEN <<>>
    ELSE LET first == Max({msg.start_frame, last_recv_frame(e) + 1})
         IN  [i \in 1 .. Cardinality(NewFrames(e, msg)) |-> Decode(e, msg)[first + i - 1]]

OnInput(p, msg, packets) ==
    LET e   == Resumed(ep[p])
        new == Received(e, msg)
    IN  /\ msg.type = "Input"
        /\ ep' = [ep EXCEPT ![p] = new]
        /\ delivered' = [delivered EXCEPT ![Peer(p)] = @ \o Events(e, msg)]
        /\ IF Reacks(Verdict(e, msg))
           THEN \E replies \in Posted(net[Peer(p)], InputAck(new)) :
                    net' = [net EXCEPT ![p] = packets, ![Peer(p)] = replies]
           ELSE net' = [net EXCEPT ![p] = packets]
        /\ UNCHANGED <<setup, view, left, pruned, sent>>

OnInputAck(p, msg, packets) ==
    /\ msg.type = "InputAck"
    /\ ep' = [ep EXCEPT ![p] = apply_ack_frame(Resumed(@), msg.ack_frame)]
    /\ net' = [net EXCEPT ![p] = packets]
    /\ UNCHANGED <<setup, view, left, pruned, sent, delivered>>

\* Mutant of OnSyncRequest: an endpoint that found a mismatch answers no more.
OnSyncRequest_FailedIsSilent(p, msg, packets) ==
    LET seen == observe_handshake(ep[p], msg.config)
    IN  /\ msg.type = "SyncRequest"
        /\ ep' = [ep EXCEPT ![p] = IF @.state = "Synchronizing" THEN seen ELSE Resumed(@)]
        /\ IF seen.handshake_failed THEN net' = [net EXCEPT ![p] = packets]
           ELSE \E replies \in Posted(net[Peer(p)], SyncReply(ep[p], msg.random)) :
                    net' = [net EXCEPT ![p] = packets, ![Peer(p)] = replies]
        /\ UNCHANGED <<setup, view, left, pruned, sent, delivered>>

\* on_sync_request: always answered; observed while Synchronizing.
OnSyncRequest(p, msg, packets) ==
    /\ msg.type = "SyncRequest"
    /\ ep' = [ep EXCEPT ![p] = IF @.state = "Synchronizing" THEN observe_handshake(@, msg.config)
                               ELSE Resumed(@)]
    /\ \E replies \in Posted(net[Peer(p)], SyncReply(ep[p], msg.random)) :
           net' = [net EXCEPT ![p] = packets, ![Peer(p)] = replies]
    /\ UNCHANGED <<setup, view, left, pruned, sent, delivered>>

\* on_sync_reply: the answer to a live request binds the connection, counts a
\* roundtrip, and either asks again or ends the handshake.
OnSyncReply(p, msg, packets) ==
    LET live == ep[p].state = "Synchronizing" /\ ~ep[p].handshake_failed
                    /\ msg.random \in ep[p].sync_random_requests
        e    == observe_handshake([ep[p] EXCEPT !.sync_random_requests = @ \ {msg.random}], msg.config)
        rest == ep[p].sync_remaining_roundtrips - 1
        good == [e EXCEPT !.remote_conn_id = IF @ = NoConn THEN msg.conn ELSE @,
                          !.sync_remaining_roundtrips = rest]
    IN  /\ msg.type = "SyncReply"
        /\ \/ /\ ~live
              /\ ep' = [ep EXCEPT ![p] = Resumed(@)]
              /\ net' = [net EXCEPT ![p] = packets]
           \/ /\ live
              /\ e.handshake_failed
              /\ ep' = [ep EXCEPT ![p] = e]
              /\ net' = [net EXCEPT ![p] = packets]
           \/ /\ live
              /\ ~e.handshake_failed
              /\ rest > 0
              /\ \E random \in Randoms :
                     /\ ep' = [ep EXCEPT ![p] = RequestSync(good, random)]
                     /\ \E replies \in Posted(net[Peer(p)], SyncRequest(good, random)) :
                            net' = [net EXCEPT ![p] = packets, ![Peer(p)] = replies]
           \/ /\ live
              /\ ~e.handshake_failed
              /\ rest = 0
              /\ ep' = [ep EXCEPT ![p] = [good EXCEPT !.state = "Running"]]
              /\ net' = [net EXCEPT ![p] = packets]
        /\ UNCHANGED <<setup, view, left, pruned, sent, delivered>>

\* on_goodbye: reports the peer as disconnected, once.
OnGoodbye(p, msg, packets) ==
    LET e == Resumed(ep[p])
    IN  /\ msg.type = "Goodbye"
        /\ ep' = [ep EXCEPT ![p] =
                     [e EXCEPT !.disconnected_event = e.disconnected_event \/ ~e.disconnect_event_sent,
                               !.disconnect_event_sent = TRUE]]
        /\ net' = [net EXCEPT ![p] = packets]
        /\ UNCHANGED <<setup, view, left, pruned, sent, delivered>>

-----------------------------------------------------------------------------
(* Floor rounds.  A peer that has lost a remote, with this one and another *)
(* still running, asks this one, a relay, for the lowest frame it knows    *)
(* the third slot to be frozen at.                                         *)

\* pessimistic_floors, for the third slot, the i-th view and what the peer reports.
PessimisticFloor(p, i, reported) ==
    Min({Views[p][i].last_frame}
            \cup {f \in {setup.others[p][i]} : f # NULL_FRAME}
            \cup {f \in {reported.last_frame} : reported.disconnected /\ f # NULL_FRAME})

\* Mutant of reset_floor_freshness: answers under way still count.
reset_floor_freshness_AfterReply(e) == [e EXCEPT !.floor_prune_seq = e.floor_reply_seq]

reset_floor_freshness(e) == [e EXCEPT !.floor_prune_seq = e.floor_request_seq]
floor_round_is_fresh(e) == e.floor_reply_seq > e.floor_prune_seq

\* drive_floor_round, first step: a poll notices that another remote has left Running
\* since the last poll.
NoticePrune(p) ==
    /\ Len(pruned[p]) < setup.prunes[p]
    /\ pruned' = [pruned EXCEPT ![p] = Append(@, view[Peer(p)])]
    /\ ep' = [ep EXCEPT ![p] = reset_floor_freshness(@)]
    /\ UNCHANGED <<setup, net, view, left, sent, delivered>>

\* drive_floor_round, third step, in the relay topology: a remote is lost, and this
\* one and another still run.
FloorRequestNeeded(p) == ep[p].state = "Running" /\ pruned[p] # <<>>

\* poll: keepalive_interval has passed since the last request.
SendFloorRequest(p) ==
    LET seq == ep[p].floor_request_seq + 1
    IN  /\ FloorRequestNeeded(p)
        /\ seq <= setup.max_rounds
        /\ ep' = [ep EXCEPT ![p].floor_request_seq = seq]
        /\ Send(p, FloorRequest(ep[p], seq))
        /\ UNCHANGED <<setup, view, left, pruned, sent, delivered>>

\* on_floor_request: the newest request is remembered (0 is none).
OnFloorRequest(p, msg, packets) ==
    LET e      == Resumed(ep[p])
        newest == Max({e.pending_floor_request, msg.round_seq})
    IN  /\ msg.type = "FloorRequest"
        /\ ep' = [ep EXCEPT ![p] = [e EXCEPT !.pending_floor_request = newest]]
        /\ net' = [net EXCEPT ![p] = packets]
        /\ UNCHANGED <<setup, view, left, pruned, sent, delivered>>

\* drive_floor_round, second step: the request is answered with the current floor.
AnswerFloorRequest(p) ==
    /\ ep[p].pending_floor_request # 0
    /\ ep' = [ep EXCEPT ![p].pending_floor_request = 0]
    /\ IF ep[p].state = "Running"
       THEN Send(p, FloorReply(ep[p], PessimisticFloor(p, view[p], ep[p].peer_connect_status)))
       ELSE UNCHANGED net
    /\ UNCHANGED <<setup, view, left, pruned, sent, delivered>>

\* on_floor_reply: only an answer newer than the last, to a request that was made.
OnFloorReply(p, msg, packets) ==
    LET e    == Resumed(ep[p])
        news == e.floor_reply_seq < msg.round_seq /\ msg.round_seq <= e.floor_request_seq
    IN  /\ msg.type = "FloorReply"
        /\ ep' = [ep EXCEPT ![p] = IF ~news THEN e
                     ELSE [e EXCEPT !.round_floor = msg.floor, !.floor_reply_seq = msg.round_seq]]
        /\ net' = [net EXCEPT ![p] = packets]
        /\ UNCHANGED <<setup, view, left, pruned, sent, delivered>>

-----------------------------------------------------------------------------
(* Delivery of packets.                                                    *)

\* handle_message for a packet that passes the filters; packets are those that
\* stay under way.
Handle(p, msg, packets) ==
    /\ Accepts(ep[p], msg)
    /\ \/ OnInput(p, msg, packets)
       \/ OnInputAck(p, msg, packets)
       \/ OnSyncRequest(p, msg, packets)
       \/ OnSyncReply(p, msg, packets)
       \/ OnGoodbye(p, msg, packets)
       \/ OnFloorRequest(p, msg, packets)
       \/ OnFloorReply(p, msg, packets)

\* A packet arrives, and is gone or arrives again later.
Receive(p, msg) == msg \in net[p] /\ Handle(p, msg, net[p] \ {msg})
ReceiveCopy(p, msg) == msg \in net[p] /\ Handle(p, msg, net[p])

\* A packet is lost, or arrives and is filtered out.
Lose(p, msg) ==
    /\ msg \in net[p]
    /\ net' = [net EXCEPT ![p] = @ \ {msg}]
    /\ UNCHANGED <<setup, ep, view, left, pruned, sent, delivered>>

-----------------------------------------------------------------------------
(* Leaving, timeouts and restarts.                                         *)

\* poll after disconnect_notify_start, and after disconnect_timeout, of silence.
Interrupt(p) ==
    /\ Timers
    /\ ep[p].state = "Running"
    /\ ~ep[p].disconnect_notify_sent
    /\ ep' = [ep EXCEPT ![p].disconnect_notify_sent = TRUE]
    /\ UNCHANGED <<setup, net, view, left, pruned, sent, delivered>>
DisconnectTimeout(p) ==
    /\ Timers
    /\ ep[p].state = "Running"
    /\ ep[p].disconnect_notify_sent
    /\ ~ep[p].disconnect_event_sent
    /\ ep' = [ep EXCEPT ![p].disconnect_event_sent = TRUE, ![p].disconnected_event = TRUE]
    /\ UNCHANGED <<setup, net, view, left, pruned, sent, delivered>>

\* The session handles Event::Disconnected: disconnect_remote, without a goodbye.
DisconnectRemote(p) ==
    /\ ep[p].disconnected_event
    /\ ep' = [ep EXCEPT ![p].disconnected_event = FALSE,
                        ![p].state = IF @ = "Shutdown" THEN @ ELSE "Disconnected"]
    /\ UNCHANGED <<setup, net, view, left, pruned, sent, delivered>>

\* The user closes the link: goodbyes, then Disconnected.
Disconnect(p) ==
    /\ Timers
    /\ ep[p].state \notin {"Disconnected", "Shutdown"}
    /\ ep' = [ep EXCEPT ![p].state = "Disconnected"]
    /\ left' = left \cup {ep[p].conn_id}
    /\ Send(p, Goodbye(ep[p]))
    /\ UNCHANGED <<setup, view, pruned, sent, delivered>>

\* shutdown_delay has passed.
Shutdown(p) ==
    /\ ep[p].state = "Disconnected"
    /\ ep' = [ep EXCEPT ![p].state = "Shutdown"]
    /\ UNCHANGED <<setup, net, view, left, pruned, sent, delivered>>

\* The peer's process ends and starts a new session at the same address.  Bound:
\* before inputs flow, since a new session starts a new stream of inputs, and sent
\* and delivered record only one.
BeforeInputs == \A p \in Peers : sent[p] = <<>>
Restart(p) ==
    /\ BeforeInputs
    /\ ep[p].conn_id[2] < Len(Config[p])
    /\ ep' = [ep EXCEPT ![p] = NewEndpoint(<<p, ep[p].conn_id[2] + 1>>)]
    /\ pruned' = [pruned EXCEPT ![p] = <<>>]
    /\ UNCHANGED <<setup, net, view, left, sent, delivered>>

Next ==
    \E p \in Peers :
        \/ \E random \in Randoms : Synchronize(p, random) \/ RetrySync(p, random)
        \/ ResendPending(p)
        \/ Nudge(p)
        \/ SendInput(p)
        \/ ChangeView(p)
        \/ NoticePrune(p)
        \/ SendFloorRequest(p)
        \/ AnswerFloorRequest(p)
        \/ \E msg \in net[p] : Receive(p, msg) \/ ReceiveCopy(p, msg) \/ Lose(p, msg)
        \/ Interrupt(p)
        \/ DisconnectTimeout(p)
        \/ DisconnectRemote(p)
        \/ Disconnect(p)
        \/ Shutdown(p)
        \/ Restart(p)

Spec == Init /\ [][Next]_vars

\* The session polls its endpoints again and again, goes on sending inputs, and its
\* view reaches the last one.  A packet that is sent again and again arrives in the
\* end: a request, the reply to a live request, the current ack, the current input
\* packet or nudge.
Poll(p) ==
    \/ \E random \in Randoms : Synchronize(p, random) \/ RetrySync(p, random)
    \/ ResendPending(p)
    \/ NudgeNeeded(p) /\ Nudge(p)
Current(p) ==
    IF ep[p].pending_output = <<>> THEN NudgePacket(ep[p], Status(p)) ELSE InputPacket(ep[p], Status(p))
Wanted(p, kind, msg) ==
    CASE kind = "SyncRequest" -> msg.type = kind /\ msg.conn = ep[Peer(p)].conn_id
      [] kind = "SyncReply"   -> msg.type = kind /\ msg.random \in ep[p].sync_random_requests
      [] kind = "InputAck"    -> msg = InputAck(ep[Peer(p)])
      [] kind = "Input"       -> msg = Current(Peer(p))
Arrives(p, kind) == \E msg \in net[p] : Wanted(p, kind, msg) /\ Receive(p, msg)
Fairness ==
    \A p \in Peers :
        /\ WF_vars(Poll(p))
        /\ WF_vars(SendInput(p))
        /\ WF_vars(ChangeView(p))
        /\ \A kind \in {"SyncRequest", "SyncReply", "InputAck", "Input"} : SF_vars(Arrives(p, kind))

FairSpec == Spec /\ Fairness

-----------------------------------------------------------------------------
(* Properties.                                                             *)

\* Packets in any order, any number of times or never: the sessions see each
\* other's inputs in order and exactly once.  Every delta is decoded with the very
\* input it was coded against, and a nudge is never taken for an input.
ImplementsChannel == Channel!Spec

\* An input leaves pending_output only when the other session has received it, and
\* what is pending is exactly what follows it, without a gap.
AckedIsDelivered ==
    \A p \in Peers :
        LET acked == Len(sent[p]) - Len(ep[p].pending_output)
        IN  /\ acked <= Len(delivered[p])
            /\ acked > 0 => ep[p].last_acked_input =
                                [frame |-> FirstFrame[p] + acked - 1, input |-> sent[p][acked]]
            /\ \A i \in DOMAIN ep[p].pending_output :
                   ep[p].pending_output[i] =
                       [frame |-> FirstFrame[p] + acked + i - 1, input |-> sent[p][acked + i]]

Agree == ConfigOf(ep[1].conn_id) = ConfigOf(ep[2].conn_id)
GivenUp(p) == ep[p].disconnected_event \/ ep[p].state \in {"Disconnected", "Shutdown"}

\* The handshake of two sessions that agree ends, every input arrives and its sender
\* learns that it did, whatever is lost, unless an endpoint gave up on a full queue:
\* no lost ack or pruned reference leaves pending_output waiting for ever.
InputsArrive ==
    Agree => <>(\/ \E p \in Peers : GivenUp(p)
                \/ \A p \in Peers : delivered[p] = Payload[p] /\ ep[p].pending_output = <<>>)

\* The connect status a session ends with reaches the other one and stays, although
\* older statuses may arrive after it and the link has no input left to carry it.  Once
\* the other one has reported the drop too, only inputs carry what is lowered later.
GossipConverges ==
    Agree => <>[](\/ \E p \in Peers : GivenUp(p)
                  \/ \A p \in Peers : Last(Views[p]).disconnected /\ ~ep[p].peer_connect_status.disconnected
                         => ep[Peer(p)].peer_connect_status = Last(Views[p]))

\* An endpoint runs only against a start of the peer with its own configuration,
\* whatever packets of other starts were under way.
RunningPeersAgree ==
    \A p \in Peers :
        ep[p].state = "Running" =>
            /\ ep[p].remote_conn_id # NoConn
            /\ ConfigOf(ep[p].remote_conn_id) = ConfigOf(ep[p].conn_id)

\* A goodbye ends a handshake only if the very connection being bound said it: a
\* delayed one of an earlier connection does not disconnect a fresh session.
StaleGoodbyeIgnored ==
    [][\A p \in Peers :
           /\ ep[p].state = "Synchronizing"
           /\ ep'[p].conn_id = ep[p].conn_id
           /\ ep'[p].disconnected_event /\ ~ep[p].disconnected_event
           => ep[p].remote_conn_id \in left]_vars

\* A floor that the observer trusts (a fresh one) is one the relay had after the
\* observer noticed its last loss of a remote, given something that the observer had
\* itself reported: no answer to an earlier request, however late it comes, passes for
\* the new round's.
ReportsOf(p) == {NewStatus} \cup {Views[p][j] : j \in 1 .. view[p]}
FreshFloorIsCurrent ==
    \A p \in Peers :
        floor_round_is_fresh(ep[p]) =>
            \E i \in Last(pruned[p]) .. view[Peer(p)] : \E reported \in ReportsOf(p) :
                ep[p].round_floor = PessimisticFloor(Peer(p), i, reported)

\* Two sessions with different configurations both find out, although the first to
\* do so stops asking, unless one is started again with the other's configuration.
IncompatibleDiagnosed ==
    ~Agree => <>(Agree \/ \A p \in Peers : ep[p].handshake_failed)
=============================================================================
