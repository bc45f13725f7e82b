---------------------------- MODULE MCUdpProtocol ----------------------------
(* Instances of UdpProtocol for TLC. *)
EXTENDS UdpProtocol, TLC

Connected(frame) == [disconnected |-> FALSE, last_frame |-> frame]
FrozenAt(frame) == [disconnected |-> TRUE, last_frame |-> frame]

\* Transport: peer 1 sends three different inputs from frame 1 on, peer 2 one; peer
\* 1 drops the third slot at frame 1 and later lowers that to frame 0.
Transport ==
    [payload     |-> 1 :> <<{1}, {2}, {1, 2}>> @@ 2 :> <<{1}>>,
     first_frame |-> 1 :> 1 @@ 2 :> 0,
     config      |-> 1 :> <<"c">> @@ 2 :> <<"d", "c">>,
     start       |-> 1 :> 1 @@ 2 :> 2,
     views       |-> 1 :> <<FrozenAt(1), FrozenAt(0)>> @@ 2 :> <<Connected(0)>>,
     num_sync    |-> 1,
     timers      |-> FALSE,
     others      |-> 1 :> <<NULL_FRAME, NULL_FRAME>> @@ 2 :> <<NULL_FRAME>>,
     prunes      |-> [p \in Peers |-> 0],
     max_rounds  |-> 0]

\* Handshake: both peers may be started again, peer 2 with another configuration
\* the first time.
Handshake ==
    [payload     |-> [p \in Peers |-> <<>>],
     first_frame |-> [p \in Peers |-> 0],
     config      |-> 1 :> <<"c", "c">> @@ 2 :> <<"d", "c">>,
     start       |-> [p \in Peers |-> 1],
     views       |-> [p \in Peers |-> <<Connected(0)>>],
     num_sync    |-> 2,
     timers      |-> TRUE,
     others      |-> [p \in Peers |-> <<NULL_FRAME>>],
     prunes      |-> [p \in Peers |-> 0],
     max_rounds  |-> 0]

\* FloorRound: peer 2 loses two other remotes and asks peer 1, which learns that a
\* third peer has frozen the slot at frame 1, and then freezes it itself at frame 0.
FloorRound ==
    [Handshake EXCEPT
        !.config      = [p \in Peers |-> <<"c">>],
        !.views[1]    = <<Connected(2), Connected(2), FrozenAt(0)>>,
        !.others[1]   = <<NULL_FRAME, 1, 1>>,
        !.num_sync    = 1,
        !.timers      = FALSE,
        !.prunes[2]   = 2,
        !.max_rounds  = 3]

\* Delivery: only peer 1 sends; the sessions agree from the start, or peer 2 may be
\* started again with the configuration they agree on.
Delivery == [Transport EXCEPT !.payload = 1 :> <<{1}, {2}>> @@ 2 :> <<>>]

MCSafety == {Transport, Handshake, FloorRound}
MCDelivery == {Delivery, [Delivery EXCEPT !.start[2] = 1]}
=============================================================================
