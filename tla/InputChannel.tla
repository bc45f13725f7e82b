---------------------------- MODULE InputChannel ----------------------------
(***************************************************************************)
(* What a session expects of its endpoints: the inputs a peer sends reach  *)
(* the other one in order, each exactly once.  P2PSession's RemoteInput    *)
(* takes this for granted; UdpProtocol implements it over a network that   *)
(* loses, repeats and reorders packets.                                    *)
(***************************************************************************)
EXTENDS Integers, Sequences

CONSTANTS
    Peers,   \* the two ends
    Input    \* the inputs a peer may send for a frame

VARIABLES
    sent,       \* peer -> the inputs it has sent, frame after frame
    delivered   \* peer -> its inputs as the session at the other end received them

Init ==
    /\ sent = [p \in Peers |-> <<>>]
    /\ delivered = [p \in Peers |-> <<>>]

Send(p) ==
    /\ \E input \in Input : sent' = [sent EXCEPT ![p] = Append(@, input)]
    /\ UNCHANGED delivered

\* One packet may deliver several inputs.
Deliver(p) ==
    /\ \E n \in Len(delivered[p]) + 1 .. Len(sent[p]) :
           delivered' = [delivered EXCEPT ![p] = SubSeq(sent[p], 1, n)]
    /\ UNCHANGED sent

Next == \E p \in Peers : Send(p) \/ Deliver(p)

Spec == Init /\ [][Next]_<<sent, delivered>>
=============================================================================
