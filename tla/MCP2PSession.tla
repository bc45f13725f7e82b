---------------------------- MODULE MCP2PSession ----------------------------
(* Instances of P2PSession for TLC. *)
EXTENDS P2PSession

CONSTANTS i0, i1

\* The inputs of each player: the local one submits one, the remote players one or two.
Inputs(varying) == [p \in Players |-> IF p \in varying THEN {i0, i1} ELSE {i0}]
\* Remote player 1 is mispredicted at frame 0 only, player 2 at any frame.
FirstAndAny == [Inputs({2}) EXCEPT ![1] = {i1}]

Mode(save, behavior, prediction, remote_delay, payload, removable, disconnectable) ==
    [save |-> save, behavior |-> behavior, prediction |-> prediction, remote_delay |-> remote_delay,
     payload |-> payload, removable |-> removable, disconnectable |-> disconnectable]

\* Two peers.
TwoPeers(save, behavior, prediction, remote_delay) ==
    Mode(save, behavior, prediction, remote_delay, Inputs({1}), {1}, {1})
MCModes == {TwoPeers("EveryFrame", "ContinueWithout", 2, 0), TwoPeers("Sparse", "ContinueWithout", 2, 1),
            TwoPeers("EveryFrame", "Halt", 0, 0)}
MCSparse == {Mode("Sparse", "ContinueWithout", 2, 0, Inputs({1}), {}, {})}

\* Three peers.  Player 2 is dropped or its loss halts the session (behavior Halt without
\* a window: what gossip makes of a loss), or both remote players are mispredicted, from
\* different frames on, in a window of two.
MCLossModes == {Mode("EveryFrame", "ContinueWithout", 1, 0, Inputs({2}), {2}, {2}),
                Mode("EveryFrame", "Halt", 0, 0, Inputs({2}), {2}, {2}),
                Mode("EveryFrame", "Halt", 2, 0, FirstAndAny, {}, {})}
\* Player 2 is dropped while player 1 is mispredicted.
MCContinue == {Mode("EveryFrame", "ContinueWithout", 1, 0, Inputs({1}), {2}, {})}
=============================================================================
