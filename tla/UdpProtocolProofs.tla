-------------------------- MODULE UdpProtocolProofs --------------------------
(***************************************************************************)
(* Proofs about UdpProtocol, for every setup, every pending_output_limit,  *)
(* every input history and every capacity of the network.                  *)
(*                                                                         *)
(* The handshake: RunningPeersAgree and StaleGoodbyeIgnored follow from    *)
(* what the packets under way say of the connection that sent them.  The   *)
(* transport: AckedIsDelivered and the refinement of InputChannel follow   *)
(* from one invariant of a stream of inputs, TransportInv: what the sender *)
(* has pending, what the receiver has kept, and what each input packet and *)
(* each ack under way says of the two.  Floor rounds: FreshFloorIsCurrent  *)
(* follows from the numbers of the requests and answers under way.         *)
(***************************************************************************)
EXTENDS UdpProtocol, FiniteSetTheorems, TLAPS

-----------------------------------------------------------------------------
(* Types.                                                                  *)

Item == [frame : Int, input : Input]
FrameMap == UNION {[D -> Input] : D \in SUBSET Int}
ConnId == Peers \X Nat
Configs == {s.config[c[1]][c[2]] : s \in Setups, c \in ConnId}

Endpoint ==
    [state                     : {"Initializing", "Synchronizing", "Running", "Disconnected", "Shutdown"},
     sync_remaining_roundtrips : Int,
     sync_random_requests      : SUBSET Randoms,
     handshake_failed          : BOOLEAN,
     conn_id                   : ConnId,
     remote_conn_id            : ConnId \cup {NoConn},
     pending_output            : Seq(Item),
     last_acked_input          : Item,
     recv_inputs               : FrameMap,
     peer_connect_status       : ConnectionStatus,
     round_floor               : Int,
     floor_request_seq         : Nat,
     floor_reply_seq           : Nat,
     floor_prune_seq           : Nat,
     pending_floor_request     : Nat,
     disconnect_notify_sent    : BOOLEAN,
     disconnect_event_sent     : BOOLEAN,
     disconnected_event        : BOOLEAN]

Packet ==
    [type : {"SyncRequest", "SyncReply"}, conn : ConnId, random : Randoms, config : Configs]
    \cup [type : {"Goodbye"}, conn : ConnId]
    \cup [type : {"Input"}, conn : ConnId, start_frame : Int, ack_frame : Int,
          status : ConnectionStatus, bytes : Seq(Input)]
    \cup [type : {"InputAck"}, conn : ConnId, ack_frame : Int]
    \cup [type : {"FloorRequest"}, conn : ConnId, round_seq : Nat]
    \cup [type : {"FloorReply"}, conn : ConnId, round_seq : Nat, floor : Int]

TypeInv ==
    /\ setup \in Setups
    /\ ep \in [Peers -> Endpoint]
    /\ net \in [Peers -> SUBSET Packet]
    /\ view \in [Peers -> Nat]
    /\ \A p \in Peers : view[p] \in DOMAIN Views[p]
    /\ sent \in [Peers -> Seq(Input)]
    /\ delivered \in [Peers -> Seq(Input)]

-----------------------------------------------------------------------------
(* The handshake.                                                          *)

\* A request or a reply says which configuration its connection has; a goodbye under
\* way was said.
HandshakePacket(msg) ==
    /\ msg.type \in {"SyncRequest", "SyncReply"} => msg.config = ConfigOf(msg.conn)
    /\ msg.type = "Goodbye" => msg.conn \in left
HandshakePackets == \A p \in Peers : \A msg \in net[p] : HandshakePacket(msg)

\* RunningPeersAgree, for one endpoint.
LinkInv(e) ==
    e.state = "Running" => e.remote_conn_id # NoConn /\ ConfigOf(e.remote_conn_id) = ConfigOf(e.conn_id)

HandshakeInv == RunningPeersAgree /\ HandshakePackets

-----------------------------------------------------------------------------
(* The stream of inputs s, from frame ff on, of which d are delivered.     *)

\* The newest frame received, as last_recv_frame has it.
Top(ff, d) == IF d = 0 THEN NULL_FRAME ELSE ff + d - 1

\* What the inputs after the first k are coded against.
Reference(s, k) == IF k = 0 THEN blank ELSE s[k]

\* The first k inputs are acked, all of them delivered: pending_output is what
\* follows, and the last acked one is the reference.
SenderAt(ff, s, k, e) ==
    /\ Len(s) = k + Len(e.pending_output)
    /\ e.last_acked_input.frame = Top(ff, k)
    /\ e.last_acked_input.input = Reference(s, k)
    /\ \A i \in 1 .. Len(e.pending_output) :
           /\ e.pending_output[i].frame = ff + k + i - 1
           /\ e.pending_output[i].input = s[k + i]
SenderInv(ff, s, d, e) == \E k \in 0 .. d : SenderAt(ff, s, k, e)

\* The receiver keeps, for each frame of the stream it has not pruned, the input sent.
ReceiverInv(ff, s, d, e) ==
    /\ Top(ff, d) \in DOMAIN e.recv_inputs
    /\ \A f \in DOMAIN e.recv_inputs :
           \/ f = NULL_FRAME /\ e.recv_inputs[f] = blank
           \/ f \in ff .. Top(ff, d) /\ e.recv_inputs[f] = s[f - ff + 1]

\* An input packet carries inputs after the first k, which are delivered, coded
\* against the last of those; or it is a nudge, and all it carries is delivered.
Coded(ff, s, k, msg) ==
    /\ msg.start_frame = ff + k
    /\ Len(msg.bytes) >= 1
    /\ k + Len(msg.bytes) <= Len(s)
    /\ \A i \in 1 .. Len(msg.bytes) : msg.bytes[i] = xor(Reference(s, k), s[k + i])
Nudged(ff, d, msg) == Len(msg.bytes) = 1 /\ \E k \in Nat : k < d /\ msg.start_frame = ff + k
InputInv(ff, s, d, msg) == Nudged(ff, d, msg) \/ \E k \in 0 .. d : Coded(ff, s, k, msg)

\* Nobody acknowledges what is not delivered.
AckInv(ff, d, ack) == ack = NULL_FRAME \/ ack \in ff .. Top(ff, d)

DeliveredInv(s, dseq) == Len(dseq) <= Len(s) /\ \A i \in 1 .. Len(dseq) : dseq[i] = s[i]

\* The two ends of the stream of p, and a packet under way to p: it carries the
\* stream of the peer, and acks for the stream of p.
StreamInv(p) ==
    LET d == Len(delivered[p])
    IN  /\ DeliveredInv(sent[p], delivered[p])
        /\ SenderInv(FirstFrame[p], sent[p], d, ep[p])
        /\ ReceiverInv(FirstFrame[p], sent[p], d, ep[Peer(p)])
PacketInv(p, msg) ==
    /\ msg.type = "Input" =>
           InputInv(FirstFrame[Peer(p)], sent[Peer(p)], Len(delivered[Peer(p)]), msg)
    /\ msg.type \in {"Input", "InputAck"} =>
           AckInv(FirstFrame[p], Len(delivered[p]), msg.ack_frame)

TransportInv ==
    \A p \in Peers : StreamInv(p) /\ \A msg \in net[p] : PacketInv(p, msg)

IInv == TypeInv /\ HandshakeInv /\ TransportInv

-----------------------------------------------------------------------------
(* Sets of numbers and of packets.                                         *)

LEMMA MaxIs ==
    ASSUME NEW S \in SUBSET Int, NEW t \in S, \A u \in S : u <= t
    PROVE  Max(S) = t
<1>1. \E x \in S : \A y \in S : x >= y
  OBVIOUS
<1>2. Max(S) \in S /\ \A y \in S : Max(S) >= y
  BY <1>1, Zenon DEF Max
<1>3. \A x \in S : (\A y \in S : x >= y) => x = t
  OBVIOUS
<1> QED
  BY <1>2, <1>3, Zenon

LEMMA MaxOfTwo ==
    ASSUME NEW a \in Int, NEW b \in Int
    PROVE  Max({a, b}) = IF a >= b THEN a ELSE b
<1>1. CASE a >= b
  <2>1. Max({a, b}) = a
    BY <1>1, MaxIs
  <2> QED
    BY <1>1, <2>1
<1>2. CASE ~(a >= b)
  <2>1. Max({a, b}) = b
    BY <1>2, MaxIs
  <2> QED
    BY <1>2, <2>1
<1> QED
  BY <1>1, <1>2

LEMMA MinOfTwo ==
    ASSUME NEW a \in Int, NEW b \in Int
    PROVE  Min({a, b}) \in Int /\ Min({a, b}) \in {a, b}
<1>1. \E x \in {a, b} : \A y \in {a, b} : x =< y
  <2>1. CASE a =< b
    BY <2>1
  <2>2. CASE ~(a =< b)
    BY <2>2
  <2> QED
    BY <2>1, <2>2
<1>2. Min({a, b}) \in {a, b}
  BY <1>1, Zenon DEF Min
<1> QED
  BY <1>2

LEMMA PostedPackets ==
    ASSUME NEW packets, NEW msg, NEW new \in Posted(packets, msg)
    PROVE  new \subseteq packets \cup {msg}
BY DEF Posted

LEMMA XorTwice ==
    ASSUME NEW a \in Input, NEW b \in Input
    PROVE  xor(a, b) \in Input /\ xor(a, xor(a, b)) = b
BY DEF xor, Input

-----------------------------------------------------------------------------
(* The stream.                                                             *)

LEMMA PeerFacts ==
    ASSUME NEW p \in Peers
    PROVE  /\ Peer(p) \in Peers /\ Peer(p) # p /\ Peer(Peer(p)) = p
           /\ \A q \in Peers : q = p \/ q = Peer(p)
BY DEF Peers, Peer

\* A receiver's newest frame is that of the last input delivered.
LEMMA LastRecvFrame ==
    ASSUME NEW ff \in Nat, NEW s \in Seq(Input), NEW d \in Nat, NEW e \in Endpoint,
           ReceiverInv(ff, s, d, e)
    PROVE  last_recv_frame(e) = Top(ff, d) /\ Top(ff, d) \in Int
<1>1. Top(ff, d) \in Int /\ Top(ff, d) >= NULL_FRAME
  BY DEF Top, NULL_FRAME
<1>2. DOMAIN e.recv_inputs \in SUBSET Int
  <2>1. e.recv_inputs \in FrameMap
    BY DEF Endpoint
  <2>2. PICK D \in SUBSET Int : e.recv_inputs \in [D -> Input]
    BY <2>1, Zenon DEF FrameMap
  <2> QED
    BY <2>2
<1>3. Top(ff, d) \in DOMAIN e.recv_inputs /\ \A f \in DOMAIN e.recv_inputs : f <= Top(ff, d)
  BY <1>1 DEF ReceiverInv
<1> QED
  BY <1>1, <1>2, <1>3, MaxIs DEF last_recv_frame

\* More inputs sent, or delivered, disturb neither packets nor acks under way.
LEMMA InputStable ==
    ASSUME NEW ff \in Nat, NEW s \in Seq(Input), NEW d \in Nat,
           NEW t \in Seq(Input), NEW c \in Nat, d <= c,
           Len(s) <= Len(t), \A i \in 1 .. Len(s) : t[i] = s[i], d <= Len(s),
           NEW msg, msg.bytes \in Seq(Input), InputInv(ff, s, d, msg)
    PROVE  InputInv(ff, t, c, msg)
<1>1. CASE Nudged(ff, d, msg)
  BY <1>1 DEF InputInv, Nudged
<1>2. CASE \E k \in 0 .. d : Coded(ff, s, k, msg)
  <2>1. PICK k \in 0 .. d : Coded(ff, s, k, msg)
    BY <1>2
  <2>2. Reference(t, k) = Reference(s, k)
    BY DEF Reference
  <2>3. \A i \in 1 .. Len(msg.bytes) : t[k + i] = s[k + i]
    BY <2>1 DEF Coded
  <2>4. Coded(ff, t, k, msg)
    BY <2>1, <2>2, <2>3 DEF Coded
  <2> QED
    BY <2>4 DEF InputInv
<1> QED
  BY <1>1, <1>2 DEF InputInv

LEMMA AckStable ==
    ASSUME NEW ff \in Nat, NEW d \in Nat, NEW c \in Nat, d <= c, NEW ack, AckInv(ff, d, ack)
    PROVE  AckInv(ff, c, ack)
BY DEF AckInv, Top, NULL_FRAME

\* send_input appends to pending_output what it appends to the stream.
LEMMA SendSender ==
    ASSUME NEW ff \in Nat, NEW s \in Seq(Input), NEW d \in Nat, NEW e \in Endpoint,
           SenderInv(ff, s, d, e), NEW x \in Input, NEW n \in Endpoint,
           n.pending_output = Append(e.pending_output, [frame |-> ff + Len(s), input |-> x]),
           n.last_acked_input = e.last_acked_input
    PROVE  SenderInv(ff, Append(s, x), d, n)
<1> DEFINE t == Append(s, x)
<1>1. PICK k \in 0 .. d : SenderAt(ff, s, k, e)
  BY DEF SenderInv
<1> DEFINE po == e.pending_output
           item == [frame |-> ff + Len(s), input |-> x]
<1>2. po \in Seq(Item) /\ item \in Item /\ item.frame = ff + Len(s) /\ item.input = x
  BY DEF Endpoint, Item
<1>3. n.pending_output = Append(po, item)
  OBVIOUS
<1>4. Len(s) = k + Len(po)
      /\ \A i \in 1 .. Len(po) : po[i].frame = ff + k + i - 1 /\ po[i].input = s[k + i]
  BY <1>1 DEF SenderAt
<1> HIDE DEF po, item
<1>5. /\ Len(t) = Len(s) + 1
      /\ \A i \in 1 .. Len(s) : t[i] = s[i]
      /\ t[Len(s) + 1] = x
  OBVIOUS
<1>6. Reference(t, k) = Reference(s, k)
  BY <1>2, <1>4, <1>5 DEF Reference
<1>7. ASSUME NEW i \in 1 .. Len(po) + 1
      PROVE  Append(po, item)[i].frame = ff + k + i - 1 /\ Append(po, item)[i].input = t[k + i]
  <2>1. CASE i \in 1 .. Len(po)
    BY <1>2, <1>4, <1>5, <2>1
  <2>2. CASE i = Len(po) + 1
    BY <1>2, <1>4, <1>5, <2>2
  <2>3. i \in 1 .. Len(po) \/ i = Len(po) + 1
    BY <1>2
  <2> QED
    BY <2>1, <2>2, <2>3
<1>8. Len(t) = k + Len(Append(po, item)) /\ Len(Append(po, item)) = Len(po) + 1
  BY <1>2, <1>4, <1>5
<1>9. SenderAt(ff, t, k, n)
  BY <1>1, <1>3, <1>6, <1>7, <1>8 DEF SenderAt
<1> QED
  BY <1>9 DEF SenderInv

\* send_pending_output sends a packet that every delivered prefix allows.
LEMMA SendInputPacket ==
    ASSUME NEW ff \in Nat, NEW s \in Seq(Input), NEW d \in Nat, NEW e \in Endpoint,
           SenderInv(ff, s, d, e), e.pending_output # <<>>, NEW status
    PROVE  InputInv(ff, s, d, InputPacket(e, status))
<1> DEFINE msg == InputPacket(e, status)
           po == e.pending_output
<1>1. PICK k \in 0 .. d : SenderAt(ff, s, k, e)
  BY DEF SenderInv
<1>2. po \in Seq(Item) /\ Len(po) >= 1
  BY DEF Endpoint
<1>3. msg.start_frame = po[1].frame
  BY <1>2 DEF InputPacket
<1>4. msg.bytes = [i \in 1 .. Len(po) |-> xor(e.last_acked_input.input, po[i].input)]
  BY <1>2 DEF InputPacket
<1> HIDE DEF msg
<1>5. Len(msg.bytes) = Len(po)
  BY <1>2, <1>4
<1>6. Coded(ff, s, k, msg)
  BY <1>1, <1>2, <1>3, <1>4, <1>5 DEF SenderAt, Coded
<1> QED
  BY <1>6 DEF InputInv, msg

LEMMA SendNudgePacket ==
    ASSUME NEW ff \in Nat, NEW s \in Seq(Input), NEW d \in Nat, NEW e \in Endpoint,
           SenderInv(ff, s, d, e), e.last_acked_input.frame # NULL_FRAME, NEW status
    PROVE  InputInv(ff, s, d, NudgePacket(e, status))
<1>1. PICK k \in 0 .. d : SenderAt(ff, s, k, e)
  BY DEF SenderInv
<1>2. k # 0 /\ e.last_acked_input.frame = ff + k - 1
  BY <1>1 DEF SenderAt, Top
<1>3. k - 1 \in Nat /\ k - 1 < d /\ e.last_acked_input.frame = ff + (k - 1)
  BY <1>2
<1>4. Nudged(ff, d, NudgePacket(e, status))
  BY <1>3 DEF Nudged, NudgePacket
<1> QED
  BY <1>4 DEF InputInv

\* An operation that leaves the handshake and the disconnect event as they are.
SameLink(e, n) ==
    /\ n.state = e.state
    /\ n.conn_id = e.conn_id
    /\ n.remote_conn_id = e.remote_conn_id
    /\ n.disconnected_event = e.disconnected_event

\* How much of a run of pending frames an ack covers.
RunFrom(first, po) == \A i \in 1 .. Len(po) : po[i].frame = first + i - 1

LEMMA AckedPrefix ==
    ASSUME NEW first \in Nat, NEW po \in Seq(Item), RunFrom(first, po), Len(po) >= 1,
           NEW ack \in Int, ack >= first, ack <= po[Len(po)].frame
    PROVE  \E j \in 1 .. Len(po) : ack = first + j - 1 /\ AckedCount(po, ack) = j
<1> DEFINE acked == {0} \cup {i \in DOMAIN po : \A h \in 1 .. i : po[h].frame <= ack}
           l == Len(po)
<1>0. l \in Nat /\ l >= 1 /\ (\A i \in 1 .. l : po[i].frame = first + i - 1) /\ DOMAIN po = 1 .. l
  BY DEF RunFrom
<1> HIDE DEF l
<1>1. ack <= first + l - 1
  BY <1>0 DEF l
<1>2. PICK j \in 1 .. l : ack = first + j - 1
  <2>1. ack - first + 1 \in 1 .. l /\ ack = first + (ack - first + 1) - 1
    BY <1>0, <1>1
  <2> QED
    BY <2>1
<1>3. acked \in SUBSET Int
  BY <1>0
<1>4. j \in acked
  BY <1>0, <1>2
<1>5. ASSUME NEW u \in acked
      PROVE  u <= j
  <2>1. CASE u = 0
    BY <2>1
  <2>2. CASE u # 0
    <3>1. u \in 1 .. l /\ po[u].frame <= ack
      BY <1>0, <2>2
    <3>2. first + u - 1 <= first + j - 1
      BY <1>0, <1>2, <3>1
    <3> QED
      BY <3>1, <3>2
  <2> QED
    BY <2>1, <2>2
<1> HIDE DEF acked
<1>6. Max(acked) = j
  BY <1>3, <1>4, <1>5, MaxIs
<1> QED
  BY <1>2, <1>6 DEF acked, AckedCount, l

\* An ack of what is delivered drops exactly that from pending_output.
LEMMA ApplyAck ==
    ASSUME NEW ff \in Nat, NEW s \in Seq(Input), NEW d \in Nat, NEW e \in Endpoint,
           SenderInv(ff, s, d, e), NEW ack \in Int, AckInv(ff, d, ack)
    PROVE  LET n == apply_ack_frame(e, ack)
           IN  /\ n \in Endpoint
               /\ SenderInv(ff, s, d, n)
               /\ SameLink(e, n)
               /\ n.recv_inputs = e.recv_inputs
<1>1. CASE ~classify_ack_frame(e, ack)
  BY <1>1 DEF apply_ack_frame, SameLink
<1>2. CASE classify_ack_frame(e, ack)
  <2> DEFINE po == e.pending_output
             l == Len(po)
             top == AckedCount(po, ack)
             n == [e EXCEPT !.pending_output = SubSeq(po, top + 1, l),
                            !.last_acked_input = IF top = 0 THEN @ ELSE po[top]]
  <2>1. apply_ack_frame(e, ack) = n
    BY <1>2, Zenon DEF apply_ack_frame
  <2>2. po \in Seq(Item) /\ l \in Nat \ {0}
    BY <1>2 DEF classify_ack_frame, Endpoint
  <2>3. PICK k \in 0 .. d : SenderAt(ff, s, k, e)
    BY DEF SenderInv
  <2>4. /\ Len(s) = k + l
        /\ \A i \in 1 .. l : po[i].frame = ff + k + i - 1 /\ po[i].input = s[k + i]
    BY <2>3 DEF SenderAt
  <2>5. ack # NULL_FRAME /\ ack > Top(ff, k) /\ ack <= po[l].frame
    BY <1>2, <2>2, <2>3 DEF classify_ack_frame, SenderAt, Last
  <2>6. ack \in ff .. ff + d - 1 /\ ack >= ff + k
    BY <2>5 DEF AckInv, Top, NULL_FRAME
  <2> HIDE DEF po, l, top
  <2>7. PICK j \in 1 .. l : ack = (ff + k) + j - 1 /\ top = j
    <3> DEFINE first == ff + k
    <3>1. first \in Nat /\ Len(po) >= 1
      BY <2>2 DEF l
    <3>2. RunFrom(first, po)
      BY <2>4 DEF RunFrom, l
    <3>3. ack >= first /\ ack <= po[Len(po)].frame
      BY <2>5, <2>6 DEF l
    <3> HIDE DEF first
    <3>4. \E j \in 1 .. Len(po) : ack = first + j - 1 /\ AckedCount(po, ack) = j
      BY <2>2, <3>1, <3>2, <3>3, AckedPrefix
    <3> QED
      BY <3>4 DEF first, l, top
  <2>8. n = [e EXCEPT !.pending_output = SubSeq(po, j + 1, l), !.last_acked_input = po[j]]
    <3>1. (IF top = 0 THEN e.last_acked_input ELSE po[top]) = po[j] /\ top = j
      BY <2>7
    <3> QED
      BY <3>1, Zenon
  <2> HIDE DEF n
  <2>9. n.pending_output = SubSeq(po, j + 1, l) /\ n.last_acked_input = po[j]
    BY <2>8 DEF Endpoint
  <2>10. n \in Endpoint /\ SameLink(e, n) /\ n.recv_inputs = e.recv_inputs
    <3>1. SubSeq(po, j + 1, l) \in Seq(Item) /\ po[j] \in Item
      BY <2>2, <2>7 DEF l
    <3> QED
      BY <2>8, <3>1 DEF Endpoint, SameLink
  <2>11. SenderInv(ff, s, d, n)
    <3>1. Len(SubSeq(po, j + 1, l)) = l - j
          /\ \A i \in 1 .. l - j : SubSeq(po, j + 1, l)[i] = po[j + i]
      BY <2>2, <2>7 DEF l
    <3>2. k + j \in 1 .. d /\ k + j \in 1 .. Len(s)
      BY <2>2, <2>4, <2>6, <2>7
    <3>3. po[j].frame = ff + (k + j) - 1 /\ po[j].input = s[k + j]
      BY <2>4, <2>7
    <3>4. po[j].frame = Top(ff, k + j) /\ po[j].input = Reference(s, k + j)
      BY <3>2, <3>3 DEF Top, Reference
    <3>5. \A i \in 1 .. l - j :
             po[j + i].frame = ff + (k + j) + i - 1 /\ po[j + i].input = s[(k + j) + i]
      BY <2>2, <2>4, <2>7
    <3>6. Len(s) = (k + j) + (l - j)
      BY <2>2, <2>4, <2>7
    <3>7. SenderAt(ff, s, k + j, n)
      BY <2>9, <3>1, <3>4, <3>5, <3>6 DEF SenderAt
    <3> QED
      BY <3>2, <3>7 DEF SenderInv
  <2> QED
    BY <2>1, <2>10, <2>11
<1> QED
  BY <1>1, <1>2

-----------------------------------------------------------------------------
(* Receiving.                                                              *)

\* What a packet adds to a stream of which d inputs are delivered: those from d + 1
\* to c.
Adds(ff, s, d, c, new) ==
    /\ DOMAIN new = ff + d .. ff + c - 1
    /\ \A f \in ff + d .. ff + c - 1 : new[f] = s[f - ff + 1]

Brings(ff, s, d, c, e, msg) ==
    /\ Adds(ff, s, d, c, Decode(e, msg))
    /\ NewFrames(e, msg) = ff + d .. ff + c - 1
    /\ c > d => Max({msg.start_frame, last_recv_frame(e) + 1}) = ff + d

\* The inputs from d + 1 to c, in order.
NextInputs(s, d, c, events) ==
    /\ events \in Seq(Input)
    /\ Len(events) = c - d
    /\ \A i \in 1 .. c - d : events[i] = s[d + i]

\* A delta is decoded with the input it was coded against, and a nudge adds nothing.
LEMMA DecodeAdds ==
    ASSUME NEW ff \in Nat, NEW s \in Seq(Input), NEW d \in 0 .. Len(s), NEW e \in Endpoint,
           ReceiverInv(ff, s, d, e), NEW msg, msg.bytes \in Seq(Input), InputInv(ff, s, d, msg),
           Verdict(e, msg) = "decoded"
    PROVE  \E c \in d .. Len(s) : Brings(ff, s, d, c, e, msg)
<1> DEFINE l == Len(msg.bytes)
<1>1. last_recv_frame(e) = Top(ff, d) /\ Top(ff, d) \in Int
  BY LastRecvFrame
<1>2. l \in Nat /\ Len(s) \in Nat
  OBVIOUS
<1>3. CASE Nudged(ff, d, msg)
  <2>1. PICK k \in Nat : k < d /\ msg.start_frame = ff + k /\ l = 1
    BY <1>3 DEF Nudged
  <2>2. NewFrames(e, msg) = {}
    BY <1>1, <2>1 DEF NewFrames, Top
  <2>3. ff + d .. ff + d - 1 = {}
    OBVIOUS
  <2>4. DOMAIN Decode(e, msg) = {}
    BY <2>2 DEF Decode
  <2>5. Adds(ff, s, d, d, Decode(e, msg)) /\ NewFrames(e, msg) = ff + d .. ff + d - 1
    BY <2>2, <2>3, <2>4 DEF Adds
  <2> QED
    BY <2>5 DEF Brings
<1>4. CASE \E k \in 0 .. d : Coded(ff, s, k, msg)
  <2>1. PICK k \in 0 .. d : Coded(ff, s, k, msg)
    BY <1>4
  <2>2. /\ msg.start_frame = ff + k
        /\ l >= 1
        /\ k + l <= Len(s)
        /\ \A i \in 1 .. l : msg.bytes[i] = xor(Reference(s, k), s[k + i])
    BY <2>1 DEF Coded
  <2> HIDE DEF l
  <2> DEFINE c == IF k + l > d THEN k + l ELSE d
             new == NewFrames(e, msg)
  <2>3. c \in d .. Len(s)
    BY <1>2, <2>2
  <2>4. new = {f \in ff + k .. ff + k + l - 1 : f > Top(ff, d)}
    BY <1>1, <2>2 DEF NewFrames, l
  <2>5. new = ff + d .. ff + c - 1
    BY <1>2, <2>4 DEF Top, NULL_FRAME
  <2> HIDE DEF new
  <2>6. e.recv_inputs[DecodeFrame(e, msg)] = Reference(s, k)
    <3>1. DecodeFrame(e, msg) \in DOMAIN e.recv_inputs
      BY DEF Verdict
    <3>2. CASE d = 0
      <4>1. DecodeFrame(e, msg) = NULL_FRAME /\ k = 0 /\ Top(ff, d) = NULL_FRAME
        BY <1>1, <3>2 DEF DecodeFrame, Top
      <4>2. e.recv_inputs[NULL_FRAME] = blank
        BY <3>1, <4>1 DEF ReceiverInv, NULL_FRAME
      <4> QED
        BY <4>1, <4>2 DEF Reference
    <3>3. CASE d > 0
      <4>1. Top(ff, d) # NULL_FRAME
        BY <3>3 DEF Top, NULL_FRAME
      <4>2. DecodeFrame(e, msg) = ff + k - 1
        BY <1>1, <2>2, <4>1 DEF DecodeFrame
      <4>3. CASE ff + k - 1 = NULL_FRAME
        <5>1. k = 0 /\ ~(ff + k - 1 \in ff .. Top(ff, d))
          BY <4>3 DEF NULL_FRAME
        <5> QED
          BY <3>1, <4>2, <4>3, <5>1 DEF ReceiverInv, Reference
      <4>4. CASE ff + k - 1 # NULL_FRAME
        <5>1. ff + k - 1 \in ff .. Top(ff, d) /\ e.recv_inputs[ff + k - 1] = s[(ff + k - 1) - ff + 1]
          BY <3>1, <4>2, <4>4 DEF ReceiverInv
        <5>2. (ff + k - 1) - ff + 1 = k /\ k # 0
          BY <5>1
        <5> QED
          BY <4>2, <5>1, <5>2 DEF Reference
      <4> QED
        BY <4>3, <4>4
    <3> QED
      BY <3>2, <3>3
  <2>7. ASSUME NEW f \in ff + d .. ff + c - 1
        PROVE  Decode(e, msg)[f] = s[f - ff + 1]
    <3> DEFINE i == f - (ff + k) + 1
    <3>0. f \in Int /\ f >= ff + d /\ f <= ff + k + l - 1
      BY <1>2
    <3>1. i \in 1 .. l /\ k + i = f - ff + 1 /\ k + i \in 1 .. Len(s)
      <4>1. i \in Int /\ i >= 1 /\ i <= l
        BY <1>2, <3>0
      <4>2. k + i = f - ff + 1
        BY <1>2, <3>0
      <4> HIDE DEF i
      <4>3. k + i \in 1 .. Len(s)
        BY <1>2, <2>2, <4>1
      <4> QED
        BY <4>1, <4>2, <4>3, <1>2
    <3>2. Decode(e, msg)[f] = xor(e.recv_inputs[DecodeFrame(e, msg)], msg.bytes[i])
      BY <2>2, <2>5 DEF Decode, new
    <3> HIDE DEF i
    <3>3. msg.bytes[i] = xor(Reference(s, k), s[k + i])
      BY <2>2, <3>1
    <3>4. Reference(s, k) \in Input /\ s[k + i] \in Input
      BY <2>2, <3>1, <1>2 DEF Reference, blank, Input
    <3> QED
      BY <2>6, <3>1, <3>2, <3>3, <3>4, XorTwice
  <2>8. DOMAIN Decode(e, msg) = ff + d .. ff + c - 1
    BY <2>5 DEF Decode, new
  <2>9. Adds(ff, s, d, c, Decode(e, msg))
    BY <2>7, <2>8 DEF Adds
  <2>10. Max({msg.start_frame, last_recv_frame(e) + 1}) = ff + d
    <3>1. CASE d = 0
      <4>1. msg.start_frame = ff /\ last_recv_frame(e) + 1 = 0
        BY <1>1, <2>2, <3>1 DEF Top, NULL_FRAME
      <4>2. Max({ff, 0}) = ff
        BY MaxOfTwo
      <4>3. Max({msg.start_frame, last_recv_frame(e) + 1}) = ff
        BY <4>1, <4>2, Zenon
      <4> QED
        BY <3>1, <4>3
    <3>2. CASE d > 0
      BY <1>1, <2>2, <3>2, MaxOfTwo DEF Top, NULL_FRAME
    <3> QED
      BY <3>1, <3>2
  <2> QED
    BY <2>3, <2>5, <2>9, <2>10 DEF new, Brings
<1> QED
  BY <1>3, <1>4 DEF InputInv

\* The events of a packet are the next inputs of the stream.
LEMMA EventsAre ==
    ASSUME NEW ff \in Nat, NEW s \in Seq(Input), NEW d \in 0 .. Len(s), NEW c \in d .. Len(s),
           NEW e, NEW msg, Verdict(e, msg) = "decoded", Brings(ff, s, d, c, e, msg)
    PROVE  NextInputs(s, d, c, Events(e, msg))
<1> DEFINE first == Max({msg.start_frame, last_recv_frame(e) + 1})
           val(i) == Decode(e, msg)[first + i - 1]
<1>1. Cardinality(NewFrames(e, msg)) = c - d
  <2>1. ff + d \in Int /\ ff + c - 1 \in Int
    OBVIOUS
  <2>2. Cardinality(ff + d .. ff + c - 1) =
            IF ff + d > ff + c - 1 THEN 0 ELSE (ff + c - 1) - (ff + d) + 1
    BY <2>1, FS_Interval
  <2> QED
    BY <2>2 DEF Brings
<1>2. Events(e, msg) = [i \in 1 .. c - d |-> val(i)]
  BY <1>1 DEF Events
<1>3. ASSUME NEW i \in 1 .. c - d
      PROVE  val(i) = s[d + i] /\ s[d + i] \in Input
  <2>1. first = ff + d
    BY DEF Brings
  <2>2. ff + d + i - 1 \in ff + d .. ff + c - 1 /\ (ff + d + i - 1) - ff + 1 = d + i /\ d + i \in 1 .. Len(s)
    OBVIOUS
  <2>3. Decode(e, msg)[ff + d + i - 1] = s[d + i]
    BY <2>2 DEF Adds, Brings
  <2> QED
    BY <2>1, <2>2, <2>3
<1>4. c - d \in Nat
  OBVIOUS
<1> HIDE DEF val
<1> QED
  BY <1>2, <1>3, <1>4 DEF NextInputs

\* Keeping the newest History frames keeps what the receiver must know.
LEMMA StageInv ==
    ASSUME NEW ff \in Nat, NEW s \in Seq(Input), NEW d \in 0 .. Len(s), NEW c \in d .. Len(s),
           NEW e \in Endpoint, ReceiverInv(ff, s, d, e), NEW new, Adds(ff, s, d, c, new)
    PROVE  LET n == Stage(e, new)
           IN  /\ n \in Endpoint
               /\ ReceiverInv(ff, s, c, n)
               /\ SameLink(e, n)
               /\ n.pending_output = e.pending_output
               /\ n.last_acked_input = e.last_acked_input
<1> DEFINE dom == DOMAIN new \cup DOMAIN e.recv_inputs
           all == [f \in dom |-> IF f \in DOMAIN new THEN new[f] ELSE e.recv_inputs[f]]
           kept == {f \in dom : f >= Top(ff, c) - History}
           held == [f \in kept |-> all[f]]
<1>1. e.recv_inputs \in FrameMap
  BY DEF Endpoint
<1>2. DOMAIN e.recv_inputs \in SUBSET Int /\ \A f \in DOMAIN e.recv_inputs : e.recv_inputs[f] \in Input
  BY <1>1 DEF FrameMap
<1>3. dom \in SUBSET Int /\ Top(ff, c) \in Int
  BY <1>2 DEF Adds, Top, NULL_FRAME
<1>4. /\ Top(ff, c) \in dom
      /\ \A f \in dom : \/ f = NULL_FRAME /\ all[f] = blank
                        \/ f \in ff .. Top(ff, c) /\ all[f] = s[f - ff + 1]
  <2>1. Top(ff, c) \in dom
    <3>1. CASE c = d
      BY <3>1 DEF ReceiverInv
    <3>2. CASE c > d
      BY <3>2 DEF Adds, Top
    <3> QED
      BY <3>1, <3>2
  <2>2. ASSUME NEW f \in DOMAIN new
        PROVE  f \in ff .. Top(ff, c) /\ all[f] = s[f - ff + 1]
    <3>1. f \in ff + d .. ff + c - 1 /\ new[f] = s[f - ff + 1]
      BY DEF Adds
    <3>2. f \in ff .. Top(ff, c)
      BY <3>1 DEF Top
    <3> QED
      BY <3>1, <3>2
  <2>3. ASSUME NEW f \in DOMAIN e.recv_inputs, f \notin DOMAIN new
        PROVE  \/ f = NULL_FRAME /\ all[f] = blank
               \/ f \in ff .. Top(ff, c) /\ all[f] = s[f - ff + 1]
    <3>1. all[f] = e.recv_inputs[f]
      BY <2>3
    <3>2. \/ f = NULL_FRAME /\ e.recv_inputs[f] = blank
          \/ f \in ff .. Top(ff, d) /\ e.recv_inputs[f] = s[f - ff + 1]
      BY DEF ReceiverInv
    <3>3. f \in ff .. Top(ff, d) => f \in ff .. Top(ff, c)
      BY DEF Top, NULL_FRAME
    <3> QED
      BY <3>1, <3>2, <3>3
  <2> HIDE DEF all
  <2> QED
    BY <2>1, <2>2, <2>3
<1>5. Max(dom) = Top(ff, c)
  <2> HIDE DEF dom, all
  <2>1. Top(ff, c) >= NULL_FRAME
    BY DEF Top, NULL_FRAME
  <2>2. \A f \in dom : f <= Top(ff, c)
    BY <1>3, <1>4, <2>1 DEF NULL_FRAME
  <2> QED
    BY <1>3, <1>4, <2>2, MaxIs
<1>6. DOMAIN all = dom
  OBVIOUS
<1>7. Stage(e, new) = [e EXCEPT !.recv_inputs = held]
  BY <1>5, <1>6, Zenon DEF Stage, Restrict
<1>8. \A f \in dom : all[f] \in Input
  <2>1. \A f \in ff .. Top(ff, c) : s[f - ff + 1] \in Input
    BY DEF Top, NULL_FRAME
  <2> HIDE DEF all, dom
  <2> QED
    BY <1>4, <2>1 DEF Input, blank
<1> HIDE DEF all, dom
<1>9. held \in FrameMap /\ DOMAIN held = kept /\ \A f \in kept : held[f] = all[f]
  <2>1. kept \in SUBSET Int /\ \A f \in kept : all[f] \in Input
    BY <1>3, <1>8
  <2> HIDE DEF kept
  <2>2. held \in [kept -> Input]
    BY <2>1
  <2> QED
    BY <2>1, <2>2 DEF FrameMap
<1>10. Top(ff, c) \in kept
  BY <1>3, <1>4, LimitAssumption
<1> HIDE DEF held
<1>11. Stage(e, new) \in Endpoint /\ Stage(e, new).recv_inputs = held
       /\ SameLink(e, Stage(e, new))
       /\ Stage(e, new).pending_output = e.pending_output
       /\ Stage(e, new).last_acked_input = e.last_acked_input
  BY <1>7, <1>9 DEF Endpoint, SameLink
<1>12. ReceiverInv(ff, s, c, Stage(e, new))
  BY <1>4, <1>9, <1>10, <1>11 DEF ReceiverInv
<1> QED
  BY <1>11, <1>12

LEMMA MergeType ==
    ASSUME NEW old \in ConnectionStatus, NEW new \in ConnectionStatus
    PROVE  merge_peer_connect_status(old, new) \in ConnectionStatus
<1>1. old.last_frame \in Int /\ new.last_frame \in Int
  BY DEF ConnectionStatus
<1>2. Min({old.last_frame, new.last_frame}) \in Int /\ Max({old.last_frame, new.last_frame}) \in Int
  BY <1>1, MinOfTwo, MaxOfTwo
<1>3. /\ [old EXCEPT !.last_frame = Min({@, new.last_frame})] \in ConnectionStatus
      /\ [old EXCEPT !.last_frame = Max({@, new.last_frame})] \in ConnectionStatus
  BY <1>2 DEF ConnectionStatus
<1> QED
  BY <1>3 DEF merge_peer_connect_status

\* on_input, for an endpoint that sends the stream s1 and receives the stream s.
LEMMA ReceivedInv ==
    ASSUME NEW ff1 \in Nat, NEW s1 \in Seq(Input), NEW d1 \in Nat,
           NEW ff \in Nat, NEW s \in Seq(Input), NEW d \in 0 .. Len(s),
           NEW e \in Endpoint, SenderInv(ff1, s1, d1, e), ReceiverInv(ff, s, d, e),
           NEW msg, msg.bytes \in Seq(Input), msg.ack_frame \in Int, msg.status \in ConnectionStatus,
           InputInv(ff, s, d, msg), AckInv(ff1, d1, msg.ack_frame)
    PROVE  \E c \in d .. Len(s) :
               /\ Received(e, msg) \in Endpoint
               /\ SenderInv(ff1, s1, d1, Received(e, msg))
               /\ ReceiverInv(ff, s, c, Received(e, msg))
               /\ SameLink(e, Received(e, msg))
               /\ NextInputs(s, d, c, Events(e, msg))
<1> DEFINE merged == [e EXCEPT !.peer_connect_status = merge_peer_connect_status(@, msg.status)]
           acked == apply_ack_frame(merged, msg.ack_frame)
<1>1. /\ merged \in Endpoint
      /\ merged.pending_output = e.pending_output
      /\ merged.last_acked_input = e.last_acked_input
      /\ merged.recv_inputs = e.recv_inputs
      /\ SameLink(e, merged)
  <2>1. e.peer_connect_status \in ConnectionStatus
    BY DEF Endpoint
  <2>2. merge_peer_connect_status(e.peer_connect_status, msg.status) \in ConnectionStatus
    BY <2>1, MergeType
  <2> QED
    BY <2>2 DEF Endpoint, SameLink
<1> HIDE DEF merged
<1>2. SenderInv(ff1, s1, d1, merged) /\ ReceiverInv(ff, s, d, merged)
  BY <1>1 DEF SenderInv, SenderAt, ReceiverInv
<1>3. /\ acked \in Endpoint
      /\ SenderInv(ff1, s1, d1, acked)
      /\ SameLink(merged, acked)
      /\ acked.recv_inputs = merged.recv_inputs
  BY <1>1, <1>2, ApplyAck
<1> HIDE DEF acked
<1>4. SameLink(e, acked) /\ ReceiverInv(ff, s, d, acked)
  BY <1>1, <1>2, <1>3 DEF SameLink, ReceiverInv
<1>5. CASE Verdict(e, msg) = "decoded"
  <2>1. Received(e, msg) = Stage(acked, Decode(e, msg))
    BY <1>5 DEF Received, acked, merged
  <2>2. PICK c \in d .. Len(s) : Brings(ff, s, d, c, e, msg)
    BY <1>5, DecodeAdds
  <2>3. NextInputs(s, d, c, Events(e, msg))
    BY <1>5, <2>2, EventsAre
  <2> DEFINE n == Stage(acked, Decode(e, msg))
  <2>4. /\ n \in Endpoint
        /\ ReceiverInv(ff, s, c, n)
        /\ SameLink(acked, n)
        /\ n.pending_output = acked.pending_output
        /\ n.last_acked_input = acked.last_acked_input
    BY <1>3, <1>4, <2>2, StageInv DEF Brings
  <2> HIDE DEF n
  <2>5. SenderInv(ff1, s1, d1, n) /\ SameLink(e, n)
    BY <1>3, <1>4, <2>4 DEF SenderInv, SenderAt, SameLink
  <2> QED
    BY <2>1, <2>3, <2>4, <2>5 DEF n
<1>6. CASE Verdict(e, msg) # "decoded"
  <2>1. Received(e, msg) = acked \/ Received(e, msg) = merged
    BY <1>6 DEF Received, acked, merged
  <2>2. NextInputs(s, d, d, Events(e, msg))
    BY <1>6 DEF Events, NextInputs
  <2>3. d \in d .. Len(s)
    OBVIOUS
  <2> QED
    BY <1>1, <1>2, <1>3, <1>4, <2>1, <2>2, <2>3
<1> QED
  BY <1>5, <1>6

-----------------------------------------------------------------------------
(* The network.                                                            *)

LEMMA SetupFacts ==
    ASSUME setup \in Setups, NEW p \in Peers
    PROVE  /\ FirstFrame[p] \in Nat
           /\ Payload[p] \in Seq(Input)
           /\ Config[p] \in Seq(STRING)
           /\ setup.start[p] \in DOMAIN Config[p]
           /\ Views[p] \in Seq(ConnectionStatus) /\ Len(Views[p]) > 0
           /\ setup.others[p] \in Seq(Int) /\ Len(setup.others[p]) = Len(Views[p])
           /\ setup.num_sync \in Nat
BY SetupAssumption DEF FirstFrame, Payload, Config, Views, Input

\* At most the packet msg, to the peer q, is new under way.
Adds1(q, msg) ==
    /\ net' \in [Peers -> SUBSET Packet]
    /\ \A r \in Peers : \A m \in net'[r] : m \in net[r] \/ (r = q /\ m = msg)

LEMMA SendAdds ==
    ASSUME net \in [Peers -> SUBSET Packet], NEW p \in Peers, NEW msg \in Packet, Send(p, msg)
    PROVE  Adds1(Peer(p), msg)
<1>1. PICK packets \in Posted(net[Peer(p)], msg) : net' = [net EXCEPT ![Peer(p)] = packets]
  BY DEF Send
<1>2. packets \subseteq net[Peer(p)] \cup {msg}
  BY PostedPackets
<1> QED
  BY <1>1, <1>2, PeerFacts DEF Adds1

LEMMA ReplyAdds ==
    ASSUME net \in [Peers -> SUBSET Packet], NEW p \in Peers, NEW msg \in Packet,
           NEW packets \in SUBSET net[p], NEW replies \in Posted(net[Peer(p)], msg),
           net' = [net EXCEPT ![p] = packets, ![Peer(p)] = replies]
    PROVE  Adds1(Peer(p), msg)
<1>1. replies \subseteq net[Peer(p)] \cup {msg}
  BY PostedPackets
<1> QED
  BY <1>1, PeerFacts DEF Adds1

\* What a new packet must satisfy.
GoodPacket(p, msg) == PacketInv(p, msg) /\ HandshakePacket(msg)

NetGood ==
    /\ net' \in [Peers -> SUBSET Packet]
    /\ \A p \in Peers : \A msg \in net'[p] :
           msg \in net[p] \/ (PacketInv(p, msg)' /\ HandshakePacket(msg)')

\* Nothing of the history is taken back.
Grows ==
    /\ setup' = setup
    /\ sent' \in [Peers -> Seq(Input)] /\ delivered' \in [Peers -> Seq(Input)]
    /\ left \subseteq left'
    /\ \A p \in Peers :
           /\ Len(sent[p]) <= Len(sent'[p])
           /\ \A i \in 1 .. Len(sent[p]) : sent'[p][i] = sent[p][i]
           /\ Len(delivered[p]) <= Len(delivered'[p])

LEMMA PacketStable ==
    ASSUME TypeInv, TransportInv, HandshakePackets, Grows, NEW p \in Peers, NEW msg \in net[p]
    PROVE  PacketInv(p, msg)' /\ HandshakePacket(msg)'
<1> DEFINE q == Peer(p)
<1>1. q \in Peers /\ msg \in Packet
  BY PeerFacts DEF TypeInv
<1>2. /\ FirstFrame[p] \in Nat /\ FirstFrame[q] \in Nat
      /\ FirstFrame' = FirstFrame
  BY <1>1, SetupFacts DEF TypeInv, Grows, FirstFrame
<1>3. /\ sent[q] \in Seq(Input) /\ sent'[q] \in Seq(Input)
      /\ Len(delivered[q]) \in Nat /\ Len(delivered'[q]) \in Nat
      /\ Len(delivered[p]) \in Nat /\ Len(delivered'[p]) \in Nat
  BY <1>1 DEF TypeInv, Grows
<1>4. Len(delivered[q]) <= Len(sent[q])
  BY <1>1 DEF TransportInv, StreamInv, DeliveredInv
<1>5. PacketInv(p, msg) /\ HandshakePacket(msg)
  BY DEF TransportInv, HandshakePackets
<1>6. ASSUME msg.type = "Input"
      PROVE  InputInv(FirstFrame[q], sent'[q], Len(delivered'[q]), msg)
  <2>1. msg.bytes \in Seq(Input)
    BY <1>1, <1>6 DEF Packet
  <2>2. InputInv(FirstFrame[q], sent[q], Len(delivered[q]), msg)
    BY <1>5, <1>6 DEF PacketInv
  <2>3. /\ Len(sent[q]) <= Len(sent'[q])
        /\ \A i \in 1 .. Len(sent[q]) : sent'[q][i] = sent[q][i]
        /\ Len(delivered[q]) <= Len(delivered'[q])
    BY <1>1 DEF Grows
  <2> HIDE DEF q
  <2> QED
    BY <1>2, <1>3, <1>4, <2>1, <2>2, <2>3, InputStable
<1>7. ASSUME msg.type \in {"Input", "InputAck"}
      PROVE  AckInv(FirstFrame[p], Len(delivered'[p]), msg.ack_frame)
  <2>1. AckInv(FirstFrame[p], Len(delivered[p]), msg.ack_frame)
    BY <1>5, <1>7 DEF PacketInv
  <2>2. Len(delivered[p]) <= Len(delivered'[p])
    BY DEF Grows
  <2> QED
    BY <1>2, <1>3, <2>1, <2>2, AckStable
<1>8. PacketInv(p, msg)'
  BY <1>2, <1>6, <1>7 DEF PacketInv
<1>9. HandshakePacket(msg)'
  BY <1>5 DEF HandshakePacket, Grows, ConfigOf, Config
<1> QED
  BY <1>8, <1>9

\* A step whose streams, links and new packets are good preserves the invariant.
LEMMA StepInv ==
    ASSUME IInv, Grows, NetGood, ep' \in [Peers -> Endpoint], view' \in [Peers -> Nat],
           \A p \in Peers : view'[p] \in DOMAIN Views[p],
           \A p \in Peers : StreamInv(p)' /\ LinkInv(ep[p])'
    PROVE  IInv'
<1>1. TypeInv'
  BY DEF IInv, TypeInv, Grows, NetGood, Views
<1>2. \A p \in Peers : \A msg \in net'[p] : PacketInv(p, msg)' /\ HandshakePacket(msg)'
  BY PacketStable DEF IInv, HandshakeInv, NetGood
<1>3. RunningPeersAgree'
  BY DEF RunningPeersAgree, LinkInv
<1> QED
  BY <1>1, <1>2, <1>3 DEF IInv, HandshakeInv, HandshakePackets, TransportInv

\* A step of p that leaves the streams alone.
Quiet(e, n) ==
    /\ n.pending_output = e.pending_output
    /\ n.last_acked_input = e.last_acked_input
    /\ n.recv_inputs = e.recv_inputs

QuietNet ==
    /\ net' \in [Peers -> SUBSET Packet]
    /\ \A p \in Peers : \A msg \in net'[p] :
           \/ msg \in net[p]
           \/ PacketInv(p, msg) /\ HandshakePacket(msg)'

ViewGood == view' \in [Peers -> Nat] /\ \A p \in Peers : view'[p] \in DOMAIN Views[p]

LEMMA QuietStreams ==
    ASSUME NEW ff, NEW s, NEW d, NEW e, NEW n, Quiet(e, n)
    PROVE  /\ SenderInv(ff, s, d, e) => SenderInv(ff, s, d, n)
           /\ ReceiverInv(ff, s, d, e) => ReceiverInv(ff, s, d, n)
<1>1. \A k : SenderAt(ff, s, k, e) => SenderAt(ff, s, k, n)
  BY DEF SenderAt, Quiet
<1> QED
  BY <1>1 DEF SenderInv, ReceiverInv, Quiet

LEMMA QuietStep ==
    ASSUME IInv, NEW p \in Peers, NEW n \in Endpoint, ep' = [ep EXCEPT ![p] = n],
           Quiet(ep[p], n), LinkInv(n), setup' = setup, sent' = sent, delivered' = delivered,
           ViewGood, left \subseteq left', QuietNet
    PROVE  IInv'
<1>1. TypeInv /\ ep \in [Peers -> Endpoint]
  BY DEF IInv, TypeInv
<1>2. Grows
  <2>1. \A q \in Peers : Len(sent[q]) \in Nat /\ Len(delivered[q]) \in Nat
    BY <1>1 DEF TypeInv
  <2> QED
    BY <1>1, <2>1 DEF Grows, TypeInv
<1>3. FirstFrame' = FirstFrame /\ Config' = Config
  BY DEF FirstFrame, Config
<1>4. NetGood
  BY <1>3 DEF QuietNet, NetGood, PacketInv
<1>5. \A q \in Peers : Quiet(ep[q], ep'[q])
  BY <1>1 DEF Quiet
<1>6. ASSUME NEW q \in Peers
      PROVE  StreamInv(q)'
  <2>1. Peer(q) \in Peers
    BY PeerFacts
  <2>2. StreamInv(q)
    BY DEF IInv, TransportInv
  <2>3. SenderInv(FirstFrame[q], sent[q], Len(delivered[q]), ep'[q])
    BY <1>5, <2>2, QuietStreams DEF StreamInv
  <2>4. ReceiverInv(FirstFrame[q], sent[q], Len(delivered[q]), ep'[Peer(q)])
    BY <1>5, <2>1, <2>2, QuietStreams DEF StreamInv
  <2> QED
    BY <1>3, <2>2, <2>3, <2>4 DEF StreamInv
<1>7. ASSUME NEW q \in Peers
      PROVE  LinkInv(ep[q])'
  <2>1. LinkInv(ep[q]) /\ (ep'[q] = n \/ ep'[q] = ep[q])
    BY <1>1 DEF IInv, HandshakeInv, RunningPeersAgree, LinkInv
  <2>2. LinkInv(ep'[q])
    BY <2>1
  <2> QED
    BY <1>3, <2>2 DEF LinkInv, ConfigOf
<1>8. ep' \in [Peers -> Endpoint]
  BY <1>1
<1> QED
  BY <1>2, <1>4, <1>6, <1>7, <1>8, StepInv DEF ViewGood

\* The new packet of such a step, when there is one.
LEMMA QuietPacket ==
    ASSUME NEW q \in Peers, NEW msg, Adds1(q, msg), PacketInv(q, msg), HandshakePacket(msg)'
    PROVE  QuietNet
BY DEF Adds1, QuietNet

LEMMA NoPacket ==
    ASSUME net \in [Peers -> SUBSET Packet], NEW p \in Peers, NEW packets \in SUBSET net[p],
           net' = [net EXCEPT ![p] = packets]
    PROVE  QuietNet
BY DEF QuietNet

LEMMA LinkKept ==
    ASSUME IInv, NEW p \in Peers, NEW n, n.state = ep[p].state, n.conn_id = ep[p].conn_id,
           n.remote_conn_id = ep[p].remote_conn_id
    PROVE  LinkInv(n)
BY DEF IInv, HandshakeInv, RunningPeersAgree, LinkInv

LEMMA ViewKept ==
    ASSUME IInv, view' = view
    PROVE  ViewGood
BY DEF IInv, TypeInv, ViewGood

\* The invariants of one endpoint and of the packets to it.
LEMMA AtPeer ==
    ASSUME IInv, NEW p \in Peers
    PROVE  /\ ep \in [Peers -> Endpoint] /\ ep[p] \in Endpoint
           /\ net \in [Peers -> SUBSET Packet] /\ net[p] \in SUBSET Packet
           /\ Status(p) \in ConnectionStatus
           /\ LinkInv(ep[p])
           /\ last_recv_frame(ep[p]) = Top(FirstFrame[Peer(p)], Len(delivered[Peer(p)]))
           /\ last_recv_frame(ep[p]) \in Int
           /\ ConfigOf(ep[p].conn_id) \in Configs
<1>1. TypeInv /\ ep[p] \in Endpoint
  BY DEF IInv, TypeInv
<1>2. Peer(p) \in Peers /\ Peer(Peer(p)) = p
  BY PeerFacts
<1>3. Status(p) \in ConnectionStatus
  BY <1>1, SetupFacts DEF TypeInv, Status
<1>4. StreamInv(Peer(p))
  BY <1>2 DEF IInv, TransportInv
<1>5. FirstFrame[Peer(p)] \in Nat /\ sent[Peer(p)] \in Seq(Input) /\ Len(delivered[Peer(p)]) \in Nat
  BY <1>1, <1>2, SetupFacts DEF TypeInv
<1>6. ReceiverInv(FirstFrame[Peer(p)], sent[Peer(p)], Len(delivered[Peer(p)]), ep[p])
  BY <1>2, <1>4 DEF StreamInv
<1>7. ConfigOf(ep[p].conn_id) \in Configs
  BY <1>1 DEF TypeInv, Endpoint, ConfigOf, Config, Configs
<1>8. LinkInv(ep[p])
  BY DEF IInv, HandshakeInv, RunningPeersAgree, LinkInv
<1> QED
  BY <1>1, <1>3, <1>5, <1>6, <1>7, <1>8, LastRecvFrame DEF TypeInv

\* A step of p that sends at most msg and changes its endpoint to n.
LEMMA SendStep ==
    ASSUME IInv, NEW p \in Peers, NEW n \in Endpoint, ep' = [ep EXCEPT ![p] = n],
           Quiet(ep[p], n), LinkInv(n), setup' = setup, sent' = sent, delivered' = delivered,
           view' = view, left \subseteq left',
           NEW msg, Adds1(Peer(p), msg), PacketInv(Peer(p), msg), HandshakePacket(msg)'
    PROVE  IInv'
<1>1. QuietNet
  BY PeerFacts, QuietPacket
<1> QED
  BY <1>1, ViewKept, QuietStep

LEMMA RequestSyncInv ==
    ASSUME IInv, NEW p \in Peers, NEW random \in Randoms, NEW e \in Endpoint,
           Quiet(ep[p], e), e.state = "Synchronizing",
           ep' = [ep EXCEPT ![p] = RequestSync(e, random)],
           Adds1(Peer(p), SyncRequest(ep[p], random)),
           UNCHANGED <<setup, view, left, sent, delivered>>
    PROVE  IInv'
<1>1. PICK n, msg : n = RequestSync(e, random) /\ msg = SyncRequest(ep[p], random)
  OBVIOUS
<1>2. n \in Endpoint /\ Quiet(ep[p], n) /\ n.state = "Synchronizing"
  BY <1>1 DEF RequestSync, Endpoint, Quiet
<1>3. LinkInv(n)
  BY <1>2 DEF LinkInv
<1>4. PacketInv(Peer(p), msg) /\ HandshakePacket(msg)'
  BY <1>1 DEF SyncRequest, PacketInv, HandshakePacket, ConfigOf, Config
<1> QED
  BY <1>1, <1>2, <1>3, <1>4, SendStep

LEMMA SyncRequestPacket ==
    ASSUME IInv, NEW p \in Peers, NEW random \in Randoms, NEW e, e.conn_id = ep[p].conn_id
    PROVE  SyncRequest(e, random) \in Packet /\ SyncReply(e, random) \in Packet
<1>1. ep[p] \in Endpoint /\ ConfigOf(ep[p].conn_id) \in Configs
  BY AtPeer
<1> QED
  BY <1>1 DEF SyncRequest, SyncReply, Packet, Endpoint

LEMMA SynchronizeInv ==
    ASSUME IInv, NEW p \in Peers, NEW random \in Randoms,
           Synchronize(p, random) \/ RetrySync(p, random)
    PROVE  IInv'
<1>1. ep[p] \in Endpoint /\ net \in [Peers -> SUBSET Packet]
  BY AtPeer
<1>2. Adds1(Peer(p), SyncRequest(ep[p], random))
  BY <1>1, SyncRequestPacket, SendAdds DEF Synchronize, RetrySync
<1>3. UNCHANGED <<setup, view, left, sent, delivered>>
  BY DEF Synchronize, RetrySync
<1>4. CASE Synchronize(p, random)
  <2> DEFINE e == [ep[p] EXCEPT !.state = "Synchronizing"]
  <2>1. e \in Endpoint /\ Quiet(ep[p], e) /\ e.state = "Synchronizing"
    BY <1>1 DEF Endpoint, Quiet
  <2>2. ep' = [ep EXCEPT ![p] = RequestSync(e, random)]
    BY <1>4 DEF Synchronize
  <2> HIDE DEF e
  <2> QED
    BY <1>2, <1>3, <2>1, <2>2, RequestSyncInv
<1>5. CASE RetrySync(p, random)
  <2>1. Quiet(ep[p], ep[p]) /\ ep[p].state = "Synchronizing"
    BY <1>5 DEF Quiet, RetrySync
  <2>2. ep' = [ep EXCEPT ![p] = RequestSync(ep[p], random)]
    BY <1>5 DEF RetrySync
  <2> QED
    BY <1>1, <1>2, <1>3, <2>1, <2>2, RequestSyncInv
<1> QED
  BY <1>4, <1>5

\* Input packets, of a step that leaves the endpoint alone.
LEMMA InputPacketType ==
    ASSUME IInv, NEW p \in Peers, NEW e \in Endpoint, e.conn_id = ep[p].conn_id,
           e.recv_inputs = ep[p].recv_inputs
    PROVE  /\ e.pending_output # <<>> => InputPacket(e, Status(p)) \in Packet
           /\ NudgePacket(e, Status(p)) \in Packet
           /\ InputAck(e) \in Packet
<1>1. /\ Status(p) \in ConnectionStatus
      /\ last_recv_frame(e) \in Int
      /\ e.conn_id \in ConnId
  BY AtPeer DEF last_recv_frame, Endpoint
<1>2. /\ e.last_acked_input.input \in Input /\ e.last_acked_input.frame \in Int
      /\ e.pending_output \in Seq(Item)
      /\ \A i \in 1 .. Len(e.pending_output) :
             e.pending_output[i].input \in Input /\ e.pending_output[i].frame \in Int
  <2>1. e.last_acked_input \in Item /\ e.pending_output \in Seq(Item)
    BY DEF Endpoint
  <2>2. \A i \in 1 .. Len(e.pending_output) : e.pending_output[i] \in Item
    BY <2>1
  <2> QED
    BY <2>1, <2>2 DEF Item
<1>3. /\ xor(e.last_acked_input.input, e.last_acked_input.input) \in Input
      /\ \A i \in 1 .. Len(e.pending_output) :
             xor(e.last_acked_input.input, e.pending_output[i].input) \in Input
  BY <1>2, XorTwice
<1> DEFINE bytes == [i \in DOMAIN e.pending_output |->
                        xor(e.last_acked_input.input, e.pending_output[i].input)]
<1>4. bytes \in Seq(Input) /\ <<xor(e.last_acked_input.input, e.last_acked_input.input)>> \in Seq(Input)
  BY <1>2, <1>3
<1>5. e.pending_output # <<>> => Head(e.pending_output).frame \in Int
  BY <1>2
<1>6. e.pending_output # <<>> => InputPacket(e, Status(p)) \in Packet
  BY <1>1, <1>4, <1>5 DEF InputPacket, Packet
<1>7. NudgePacket(e, Status(p)) \in Packet
  BY <1>1, <1>2, <1>4 DEF NudgePacket, Packet
<1>8. InputAck(e) \in Packet
  BY <1>1 DEF InputAck, Packet
<1> QED
  BY <1>6, <1>7, <1>8

\* The acks an endpoint sends are for what the other's stream has delivered to it.
LEMMA OwnAck ==
    ASSUME IInv, NEW p \in Peers
    PROVE  AckInv(FirstFrame[Peer(p)], Len(delivered[Peer(p)]), last_recv_frame(ep[p]))
<1>1. FirstFrame[Peer(p)] \in Nat /\ Len(delivered[Peer(p)]) \in Nat
  BY PeerFacts, SetupFacts DEF IInv, TypeInv
<1>2. last_recv_frame(ep[p]) = Top(FirstFrame[Peer(p)], Len(delivered[Peer(p)]))
  BY AtPeer
<1> HIDE DEF FirstFrame
<1> QED
  BY <1>1, <1>2 DEF AckInv, Top, NULL_FRAME

LEMMA ResendInv ==
    ASSUME IInv, NEW p \in Peers, ResendPending(p) \/ Nudge(p)
    PROVE  IInv'
<1> DEFINE q == Peer(p)
<1>1. ep \in [Peers -> Endpoint] /\ ep[p] \in Endpoint /\ net \in [Peers -> SUBSET Packet] /\ LinkInv(ep[p])
  BY AtPeer
<1>2. q \in Peers /\ Peer(q) = p
  BY PeerFacts
<1>3. FirstFrame[p] \in Nat /\ sent[p] \in Seq(Input) /\ Len(delivered[p]) \in Nat
  BY SetupFacts DEF IInv, TypeInv
<1>4. SenderInv(FirstFrame[p], sent[p], Len(delivered[p]), ep[p])
  BY DEF IInv, TransportInv, StreamInv
<1>5. PICK msg : /\ Send(p, msg)
                 /\ \/ msg = InputPacket(ep[p], Status(p)) /\ ep[p].pending_output # <<>>
                    \/ msg = NudgePacket(ep[p], Status(p)) /\ ep[p].last_acked_input.frame # NULL_FRAME
  BY DEF ResendPending, Nudge
<1>6. msg \in Packet
  BY <1>1, <1>5, InputPacketType
<1>7. InputInv(FirstFrame[p], sent[p], Len(delivered[p]), msg)
  BY <1>1, <1>3, <1>4, <1>5, SendInputPacket, SendNudgePacket
<1>8. msg.type = "Input" /\ msg.ack_frame = last_recv_frame(ep[p])
  BY <1>5 DEF InputPacket, NudgePacket
<1>9. ep' = [ep EXCEPT ![p] = ep[p]] /\ Quiet(ep[p], ep[p])
      /\ setup' = setup /\ sent' = sent /\ delivered' = delivered /\ view' = view /\ left' = left
  BY <1>1 DEF ResendPending, Nudge, Quiet
<1>10. Adds1(q, msg)
  BY <1>1, <1>5, <1>6, SendAdds
<1>11. PacketInv(q, msg)
  BY <1>2, <1>7, <1>8, OwnAck DEF PacketInv
<1>12. HandshakePacket(msg)'
  BY <1>8 DEF HandshakePacket
<1> QED
  BY <1>1, <1>9, <1>10, <1>11, <1>12, SendStep

\* A longer stream says the same of what the receiver holds.
LEMMA ReceiverStable ==
    ASSUME NEW ff \in Nat, NEW s \in Seq(Input), NEW t \in Seq(Input), NEW d \in 0 .. Len(s),
           \A i \in 1 .. Len(s) : t[i] = s[i], NEW e, ReceiverInv(ff, s, d, e)
    PROVE  ReceiverInv(ff, t, d, e)
<1>1. \A f \in ff .. Top(ff, d) : t[f - ff + 1] = s[f - ff + 1]
  BY DEF Top, NULL_FRAME
<1> QED
  BY <1>1 DEF ReceiverInv

LEMMA SendInputInv ==
    ASSUME IInv, NEW p \in Peers, SendInput(p)
    PROVE  IInv'
<1>1. /\ ep \in [Peers -> Endpoint] /\ ep[p] \in Endpoint
      /\ net \in [Peers -> SUBSET Packet] /\ LinkInv(ep[p])
  BY AtPeer
<1> DEFINE q == Peer(p)
           x == Payload[p][Len(sent[p]) + 1]
           item == [frame |-> FirstFrame[p] + (Len(sent[p]) + 1) - 1, input |-> x]
           s == sent[p]
           t == Append(s, x)
           d == Len(delivered[p])
           ff == FirstFrame[p]
<1>2. q \in Peers /\ q # p /\ Peer(q) = p /\ \A r \in Peers : r = p \/ r = q
  BY PeerFacts
<1>3. TypeInv /\ StreamInv(p) /\ StreamInv(q)
  BY <1>2 DEF IInv, TransportInv
<1>4. CASE Len(ep[p].pending_output) >= PendingLimit
  <2>1. PICK n : n = [ep[p] EXCEPT !.disconnected_event = TRUE]
    OBVIOUS
  <2>2. n \in Endpoint /\ Quiet(ep[p], n) /\ n.state = ep[p].state /\ n.conn_id = ep[p].conn_id
        /\ n.remote_conn_id = ep[p].remote_conn_id
    BY <1>1, <2>1 DEF Endpoint, Quiet
  <2>3. ep' = [ep EXCEPT ![p] = n] /\ net' = net /\ sent' = sent
        /\ setup' = setup /\ delivered' = delivered /\ view' = view /\ left' = left
    BY <1>1, <1>4, <2>1 DEF SendInput
  <2>4. QuietNet
    BY <1>1, <2>3 DEF QuietNet
  <2>5. LinkInv(n)
    BY <2>2, LinkKept
  <2> QED
    BY <2>2, <2>3, <2>4, <2>5, ViewKept, QuietStep
<1>5. CASE ~(Len(ep[p].pending_output) >= PendingLimit)
  <2>1. PICK n : n = [ep[p] EXCEPT !.pending_output = Append(@, item)]
    OBVIOUS
  <2>2. PICK msg : msg = InputPacket(n, Status(p))
    OBVIOUS
  <2>3. /\ ep' = [ep EXCEPT ![p] = n]
        /\ sent' = [sent EXCEPT ![p] = t]
        /\ Send(p, msg)
        /\ setup' = setup /\ delivered' = delivered /\ view' = view /\ left' = left
        /\ Len(s) + 1 <= Len(Payload[p])
    BY <1>5, <2>1, <2>2 DEF SendInput
  <2>4. /\ ff \in Nat /\ s \in Seq(Input) /\ d \in Nat /\ x \in Input
        /\ d \in 0 .. Len(s)
        /\ ff + (Len(s) + 1) - 1 = ff + Len(s)
    <3>1. ff \in Nat /\ s \in Seq(Input) /\ d \in Nat /\ Payload[p] \in Seq(Input)
      BY <1>3, SetupFacts DEF TypeInv
    <3>2. d <= Len(s)
      BY <1>3 DEF StreamInv, DeliveredInv
    <3> QED
      BY <2>3, <3>1, <3>2
  <2>5. /\ t \in Seq(Input) /\ Len(t) = Len(s) + 1
        /\ \A i \in 1 .. Len(s) : t[i] = s[i]
    BY <2>4
  <2>6. /\ n \in Endpoint
        /\ n.pending_output = Append(ep[p].pending_output, [frame |-> ff + Len(s), input |-> x])
        /\ n.last_acked_input = ep[p].last_acked_input
        /\ n.recv_inputs = ep[p].recv_inputs
        /\ n.state = ep[p].state /\ n.conn_id = ep[p].conn_id
        /\ n.remote_conn_id = ep[p].remote_conn_id
    <3>1. item \in Item /\ item = [frame |-> ff + Len(s), input |-> x]
      BY <2>4 DEF Item
    <3>2. Append(ep[p].pending_output, item) \in Seq(Item)
      BY <1>1, <3>1 DEF Endpoint
    <3> HIDE DEF item
    <3>3. n \in Endpoint /\ n.pending_output = Append(ep[p].pending_output, item)
          /\ n.last_acked_input = ep[p].last_acked_input
          /\ n.recv_inputs = ep[p].recv_inputs
          /\ n.state = ep[p].state /\ n.conn_id = ep[p].conn_id
          /\ n.remote_conn_id = ep[p].remote_conn_id
      BY <1>1, <2>1, <3>2 DEF Endpoint
    <3> QED
      BY <3>1, <3>3
  <2> HIDE DEF t, s, d, x, item, ff
  <2>7. SenderInv(ff, s, d, ep[p]) /\ ReceiverInv(ff, s, d, ep[q])
    BY <1>3 DEF StreamInv, ff, s, d
  <2>8. SenderInv(ff, t, d, n)
    BY <1>1, <2>4, <2>6, <2>7, SendSender DEF t
  <2>9. ReceiverInv(ff, t, d, ep[q])
    BY <2>4, <2>5, <2>7, ReceiverStable
  <2>10. /\ ep'[p] = n /\ ep'[q] = ep[q] /\ sent'[p] = t /\ sent'[q] = sent[q]
         /\ FirstFrame' = FirstFrame /\ Config' = Config
    BY <1>1, <1>2, <1>3, <2>3 DEF TypeInv, FirstFrame, Config
  <2>11. StreamInv(p)'
    <3>1. DeliveredInv(t, delivered[p])
      BY <1>3, <2>4, <2>5 DEF StreamInv, DeliveredInv, s, d
    <3> QED
      BY <2>3, <2>8, <2>9, <2>10, <3>1 DEF StreamInv, ff, d
  <2>12. StreamInv(q)'
    <3>1. ReceiverInv(FirstFrame[q], sent[q], Len(delivered[q]), n)
      BY <1>2, <1>3, <2>6 DEF StreamInv, ReceiverInv
    <3> QED
      BY <1>2, <1>3, <2>3, <2>10, <3>1 DEF StreamInv
  <2>13. \A r \in Peers : LinkInv(ep[r])'
    <3>1. LinkInv(n) /\ LinkInv(ep[q])
      BY <1>2, <2>6, LinkKept, AtPeer
    <3> QED
      BY <1>2, <2>10, <3>1 DEF LinkInv, ConfigOf
  <2>14. Grows
    BY <1>2, <1>3, <2>3, <2>4, <2>5, <2>10 DEF Grows, TypeInv, s, d
  <2>15. n.pending_output # <<>>
    <3>1. ep[p].pending_output \in Seq(Item)
      BY <1>1 DEF Endpoint
    <3>2. [frame |-> ff + Len(s), input |-> x] \in Item
      BY <2>4 DEF Item
    <3> QED
      BY <2>6, <3>1, <3>2
  <2>16. msg \in Packet /\ msg.type = "Input" /\ msg.ack_frame = last_recv_frame(ep[p])
    BY <2>2, <2>6, <2>15, InputPacketType DEF InputPacket, last_recv_frame
  <2>17. Adds1(q, msg)
    BY <1>1, <2>3, <2>16, SendAdds
  <2>18. PacketInv(q, msg)'
    <3>1. InputInv(ff, t, d, msg)
      BY <2>2, <2>4, <2>5, <2>6, <2>8, <2>15, SendInputPacket
    <3>2. AckInv(FirstFrame[q], Len(delivered[q]), msg.ack_frame)
      BY <2>16, OwnAck
    <3> QED
      BY <1>2, <2>3, <2>10, <3>1, <3>2 DEF PacketInv, ff, d
  <2>19. NetGood
    BY <2>16, <2>17, <2>18 DEF Adds1, NetGood, HandshakePacket
  <2>20. ep' \in [Peers -> Endpoint] /\ ViewGood
    BY <1>1, <2>3, <2>6, ViewKept
  <2> QED
    BY <1>2, <2>11, <2>12, <2>13, <2>14, <2>19, <2>20, StepInv DEF ViewGood
<1> QED
  BY <1>4, <1>5

LEMMA ChangeViewInv ==
    ASSUME IInv, NEW p \in Peers, ChangeView(p)
    PROVE  IInv'
<1>1. ep \in [Peers -> Endpoint] /\ ep[p] \in Endpoint /\ net \in [Peers -> SUBSET Packet] /\ LinkInv(ep[p])
  BY AtPeer
<1>2. ViewGood
  <2>1. view \in [Peers -> Nat] /\ Views[p] \in Seq(ConnectionStatus) /\ \A q \in Peers : view[q] \in DOMAIN Views[q]
    BY SetupFacts DEF IInv, TypeInv
  <2>2. view[p] + 1 \in DOMAIN Views[p]
    BY <2>1 DEF ChangeView
  <2> QED
    BY <2>1, <2>2 DEF ChangeView, ViewGood
<1>3. ep' = [ep EXCEPT ![p] = ep[p]] /\ Quiet(ep[p], ep[p]) /\ net' = net
      /\ setup' = setup /\ sent' = sent /\ delivered' = delivered /\ left' = left
  BY <1>1 DEF ChangeView, Quiet
<1>4. QuietNet
  BY <1>1, <1>3 DEF QuietNet
<1> QED
  BY <1>1, <1>2, <1>3, <1>4, QuietStep

LEMMA LoseInv ==
    ASSUME IInv, NEW p \in Peers, NEW msg, Lose(p, msg)
    PROVE  IInv'
<1>1. ep \in [Peers -> Endpoint] /\ ep[p] \in Endpoint /\ net \in [Peers -> SUBSET Packet] /\ LinkInv(ep[p])
  BY AtPeer
<1>2. ep' = [ep EXCEPT ![p] = ep[p]] /\ Quiet(ep[p], ep[p]) /\ net' = [net EXCEPT ![p] = @ \ {msg}]
      /\ setup' = setup /\ sent' = sent /\ delivered' = delivered /\ left' = left /\ view' = view
  BY <1>1 DEF Lose, Quiet
<1>3. QuietNet
  BY <1>1, <1>2 DEF QuietNet
<1> QED
  BY <1>1, <1>2, <1>3, ViewKept, QuietStep

\* A step of p without a packet: the endpoint becomes n.
LEMMA LocalStep ==
    ASSUME IInv, NEW p \in Peers, NEW n \in Endpoint, ep' = [ep EXCEPT ![p] = n],
           Quiet(ep[p], n), LinkInv(n),
           setup' = setup, sent' = sent, delivered' = delivered, view' = view, left' = left,
           NEW packets \in SUBSET net[p], net' = [net EXCEPT ![p] = packets]
    PROVE  IInv'
<1>1. net \in [Peers -> SUBSET Packet]
  BY AtPeer
<1>2. QuietNet
  BY <1>1, NoPacket
<1> QED
  BY <1>2, ViewKept, QuietStep

\* Steps that change only what no invariant speaks of, or leave Running.
LEMMA LocalInv ==
    ASSUME IInv, NEW p \in Peers,
           \/ NoticePrune(p) \/ Interrupt(p) \/ DisconnectTimeout(p) \/ DisconnectRemote(p) \/ Shutdown(p)
    PROVE  IInv'
<1>1. ep \in [Peers -> Endpoint] /\ ep[p] \in Endpoint /\ net \in [Peers -> SUBSET Packet] /\ LinkInv(ep[p])
  BY AtPeer
<1>2. UNCHANGED <<setup, net, view, left, sent, delivered>>
  BY DEF NoticePrune, Interrupt, DisconnectTimeout, DisconnectRemote, Shutdown
<1>3. net' = [net EXCEPT ![p] = net[p]]
  BY <1>1, <1>2
<1>4. PICK n : n = ep'[p]
  OBVIOUS
<1>5. /\ ep' = [ep EXCEPT ![p] = n]
      /\ n \in Endpoint /\ Quiet(ep[p], n) /\ n.conn_id = ep[p].conn_id
      /\ n.remote_conn_id = ep[p].remote_conn_id /\ (n.state = ep[p].state \/ n.state # "Running")
  <2>1. CASE NoticePrune(p)
    BY <1>1, <1>4, <2>1 DEF NoticePrune, reset_floor_freshness, Endpoint, Quiet
  <2>2. CASE Interrupt(p)
    BY <1>1, <1>4, <2>2 DEF Interrupt, Endpoint, Quiet
  <2>3. CASE DisconnectTimeout(p)
    BY <1>1, <1>4, <2>3 DEF DisconnectTimeout, Endpoint, Quiet
  <2>4. CASE DisconnectRemote(p)
    BY <1>1, <1>4, <2>4 DEF DisconnectRemote, Endpoint, Quiet
  <2>5. CASE Shutdown(p)
    BY <1>1, <1>4, <2>5 DEF Shutdown, Endpoint, Quiet
  <2> QED
    BY <2>1, <2>2, <2>3, <2>4, <2>5
<1>6. LinkInv(n)
  BY <1>1, <1>5 DEF LinkInv
<1> QED
  BY <1>2, <1>3, <1>4, <1>5, <1>6, LocalStep

LEMMA DisconnectInv ==
    ASSUME IInv, NEW p \in Peers, Disconnect(p)
    PROVE  IInv'
<1>1. ep \in [Peers -> Endpoint] /\ ep[p] \in Endpoint /\ net \in [Peers -> SUBSET Packet]
  BY AtPeer
<1>2. PICK n, msg : n = [ep[p] EXCEPT !.state = "Disconnected"] /\ msg = Goodbye(ep[p])
  OBVIOUS
<1>3. n \in Endpoint /\ Quiet(ep[p], n) /\ n.state = "Disconnected"
  BY <1>1, <1>2 DEF Endpoint, Quiet
<1>4. LinkInv(n)
  BY <1>3 DEF LinkInv
<1>5. msg.type = "Goodbye" /\ msg.conn = ep[p].conn_id /\ msg \in Packet
  BY <1>1, <1>2 DEF Goodbye, Packet, Endpoint
<1>6. ep' = [ep EXCEPT ![p] = n] /\ Send(p, msg) /\ left' = left \cup {ep[p].conn_id}
      /\ setup' = setup /\ sent' = sent /\ delivered' = delivered /\ view' = view
  BY <1>2 DEF Disconnect
<1>7. PacketInv(Peer(p), msg) /\ HandshakePacket(msg)'
  BY <1>5, <1>6 DEF PacketInv, HandshakePacket
<1>8. Adds1(Peer(p), msg)
  BY <1>1, <1>5, <1>6, SendAdds
<1> QED
  BY <1>3, <1>4, <1>6, <1>7, <1>8, SendStep

-----------------------------------------------------------------------------
(* Floor rounds.                                                           *)

LEMMA FloorType ==
    ASSUME IInv, NEW p \in Peers
    PROVE  PessimisticFloor(p, view[p], ep[p].peer_connect_status) \in Int
<1> DEFINE status == ep[p].peer_connect_status
           S == {Views[p][view[p]].last_frame}
                    \cup {f \in {setup.others[p][view[p]]} : f # NULL_FRAME}
                    \cup {f \in {status.last_frame} : status.disconnected /\ f # NULL_FRAME}
           a == Views[p][view[p]].last_frame
           b == setup.others[p][view[p]]
           c == status.last_frame
<1>1. a \in Int /\ b \in Int /\ c \in Int
  <2>1. Views[p][view[p]] \in ConnectionStatus /\ b \in Int
    BY SetupFacts DEF IInv, TypeInv
  <2>2. status \in ConnectionStatus
    BY AtPeer DEF Endpoint
  <2> QED
    BY <2>1, <2>2 DEF ConnectionStatus
<1>2. S \subseteq {a, b, c} /\ a \in S
  OBVIOUS
<1> HIDE DEF S, a, b, c
<1>3. \E x \in S : \A y \in S : x =< y
  BY <1>1, <1>2
<1>4. Min(S) \in S
  BY <1>3, Zenon DEF Min
<1>5. Min(S) \in Int
  BY <1>1, <1>2, <1>4
<1> QED
  BY <1>5 DEF PessimisticFloor, S

LEMMA FloorSendInv ==
    ASSUME IInv, NEW p \in Peers, SendFloorRequest(p) \/ AnswerFloorRequest(p)
    PROVE  IInv'
<1>1. ep \in [Peers -> Endpoint] /\ ep[p] \in Endpoint /\ net \in [Peers -> SUBSET Packet] /\ LinkInv(ep[p])
  BY AtPeer
<1>2. UNCHANGED <<setup, view, left, sent, delivered>>
  BY DEF SendFloorRequest, AnswerFloorRequest
<1>3. PICK n : n = ep'[p]
  OBVIOUS
<1>4. /\ ep' = [ep EXCEPT ![p] = n]
      /\ n \in Endpoint /\ Quiet(ep[p], n) /\ n.conn_id = ep[p].conn_id
      /\ n.remote_conn_id = ep[p].remote_conn_id /\ n.state = ep[p].state
  <2>1. CASE SendFloorRequest(p)
    <3>1. PICK seq \in Nat : seq = ep[p].floor_request_seq + 1
      BY <1>1 DEF Endpoint
    <3>2. ep' = [ep EXCEPT ![p].floor_request_seq = seq]
      BY <2>1, <3>1 DEF SendFloorRequest
    <3> QED
      BY <1>1, <1>3, <3>2 DEF Endpoint, Quiet
  <2>2. CASE AnswerFloorRequest(p)
    BY <1>1, <1>3, <2>2 DEF AnswerFloorRequest, Endpoint, Quiet
  <2> QED
    BY <2>1, <2>2
<1>5. LinkInv(n)
  BY <1>4, LinkKept
<1>6. CASE \E msg : Send(p, msg) /\ msg \in Packet /\ msg.type \in {"FloorRequest", "FloorReply"}
  <2>1. PICK msg : Send(p, msg) /\ msg \in Packet /\ msg.type \in {"FloorRequest", "FloorReply"}
    BY <1>6
  <2>2. Adds1(Peer(p), msg)
    BY <1>1, <2>1, SendAdds
  <2>3. PacketInv(Peer(p), msg) /\ HandshakePacket(msg)'
    BY <2>1 DEF PacketInv, HandshakePacket
  <2> QED
    BY <1>2, <1>4, <1>5, <2>2, <2>3, SendStep
<1>7. CASE UNCHANGED net
  <2>1. net' = [net EXCEPT ![p] = net[p]]
    BY <1>1, <1>7
  <2> QED
    BY <1>2, <1>4, <1>5, <2>1, LocalStep
<1>8. \/ \E msg : Send(p, msg) /\ msg \in Packet /\ msg.type \in {"FloorRequest", "FloorReply"}
      \/ UNCHANGED net
  <2>1. CASE SendFloorRequest(p)
    <3>1. PICK msg : msg = FloorRequest(ep[p], ep[p].floor_request_seq + 1)
      OBVIOUS
    <3>2. msg \in Packet /\ msg.type = "FloorRequest"
      BY <1>1, <3>1 DEF FloorRequest, Packet, Endpoint
    <3>3. Send(p, msg)
      BY <2>1, <3>1 DEF SendFloorRequest
    <3> QED
      BY <3>2, <3>3
  <2>2. CASE AnswerFloorRequest(p) /\ ep[p].state = "Running"
    <3>1. PICK msg : msg = FloorReply(ep[p], PessimisticFloor(p, view[p], ep[p].peer_connect_status))
      OBVIOUS
    <3>2. msg \in Packet /\ msg.type = "FloorReply"
      BY <1>1, <3>1, FloorType DEF FloorReply, Packet, Endpoint
    <3>3. Send(p, msg)
      BY <2>2, <3>1 DEF AnswerFloorRequest
    <3> QED
      BY <3>2, <3>3
  <2>3. CASE AnswerFloorRequest(p) /\ ep[p].state # "Running"
    BY <2>3 DEF AnswerFloorRequest
  <2> QED
    BY <2>1, <2>2, <2>3
<1> QED
  BY <1>6, <1>7, <1>8

-----------------------------------------------------------------------------
(* Handling a packet: msg is under way to p, packets stay so.              *)

LEMMA ResumedFacts ==
    ASSUME NEW e \in Endpoint
    PROVE  Resumed(e) \in Endpoint /\ Quiet(e, Resumed(e)) /\ SameLink(e, Resumed(e))
BY DEF Resumed, Endpoint, Quiet, SameLink

LEMMA ObserveFacts ==
    ASSUME NEW e \in Endpoint, NEW config
    PROVE  LET n == observe_handshake(e, config)
           IN  /\ n \in Endpoint /\ Quiet(e, n) /\ SameLink(e, n)
               /\ ~n.handshake_failed => config = ConfigOf(e.conn_id)
BY DEF observe_handshake, Endpoint, Quiet, SameLink

LEMMA OnSyncRequestInv ==
    ASSUME IInv, NEW p \in Peers, NEW msg \in net[p], NEW packets \in SUBSET net[p],
           OnSyncRequest(p, msg, packets)
    PROVE  IInv'
<1>1. /\ ep \in [Peers -> Endpoint] /\ ep[p] \in Endpoint
      /\ net \in [Peers -> SUBSET Packet] /\ LinkInv(ep[p])
  BY AtPeer
<1>2. PICK n : n = IF ep[p].state = "Synchronizing" THEN observe_handshake(ep[p], msg.config)
                   ELSE Resumed(ep[p])
  OBVIOUS
<1>3. n \in Endpoint /\ Quiet(ep[p], n) /\ SameLink(ep[p], n)
  BY <1>1, <1>2, ResumedFacts, ObserveFacts
<1>4. LinkInv(n)
  BY <1>3, LinkKept DEF SameLink
<1>5. ep' = [ep EXCEPT ![p] = n] /\ UNCHANGED <<setup, view, left, sent, delivered>>
  BY <1>2 DEF OnSyncRequest
<1>6. PICK reply : reply = SyncReply(ep[p], msg.random)
  OBVIOUS
<1>7. msg.random \in Randoms
  BY <1>1 DEF OnSyncRequest, Packet
<1>8. reply \in Packet
  BY <1>6, <1>7, SyncRequestPacket
<1>9. Adds1(Peer(p), reply)
  BY <1>1, <1>6, <1>8, ReplyAdds DEF OnSyncRequest
<1>10. PacketInv(Peer(p), reply) /\ HandshakePacket(reply)'
  BY <1>5, <1>6 DEF SyncReply, PacketInv, HandshakePacket, ConfigOf, Config
<1> QED
  BY <1>3, <1>4, <1>5, <1>9, <1>10, SendStep

\* A reply ends the handshake only when it comes from the connection that is bound
\* and with the endpoint's own configuration.
LEMMA OnSyncReplyInv ==
    ASSUME IInv, NEW p \in Peers, NEW msg \in net[p], NEW packets \in SUBSET net[p],
           Accepts(ep[p], msg), OnSyncReply(p, msg, packets)
    PROVE  IInv'
<1>1. /\ ep \in [Peers -> Endpoint] /\ ep[p] \in Endpoint
      /\ net \in [Peers -> SUBSET Packet] /\ LinkInv(ep[p])
  BY AtPeer
<1>2. UNCHANGED <<setup, view, left, sent, delivered>> /\ msg.type = "SyncReply"
  BY DEF OnSyncReply
<1>3. msg \in Packet /\ msg.conn \in ConnId /\ msg.conn # NoConn /\ msg.config = ConfigOf(msg.conn)
  <2>1. msg \in Packet
    BY <1>1
  <2>2. msg.conn \in ConnId
    BY <2>1 DEF Packet
  <2>3. HandshakePacket(msg)
    BY DEF IInv, HandshakeInv, HandshakePackets
  <2>4. msg.conn # NoConn
    BY <2>2 DEF ConnId, NoConn, Peers
  <2> QED
    BY <1>2, <2>1, <2>2, <2>3, <2>4 DEF HandshakePacket
<1> DEFINE live == ep[p].state = "Synchronizing" /\ ~ep[p].handshake_failed
                       /\ msg.random \in ep[p].sync_random_requests
           rest == ep[p].sync_remaining_roundtrips - 1
<1>4. PICK r : r = [ep[p] EXCEPT !.sync_random_requests = @ \ {msg.random}]
  OBVIOUS
<1>5. PICK e : e = observe_handshake(r, msg.config)
  OBVIOUS
<1>6. PICK good : good = [e EXCEPT !.remote_conn_id = IF @ = NoConn THEN msg.conn ELSE @,
                                   !.sync_remaining_roundtrips = rest]
  OBVIOUS
<1>7. r \in Endpoint /\ Quiet(ep[p], r) /\ SameLink(ep[p], r)
  BY <1>1, <1>4 DEF Endpoint, Quiet, SameLink
<1>8. /\ e \in Endpoint /\ Quiet(ep[p], e) /\ SameLink(ep[p], e)
      /\ ~e.handshake_failed => msg.config = ConfigOf(ep[p].conn_id)
  BY <1>5, <1>7, ObserveFacts DEF Quiet, SameLink
<1>9. /\ good \in Endpoint /\ Quiet(ep[p], good) /\ good.state = ep[p].state
      /\ good.conn_id = ep[p].conn_id /\ good.remote_conn_id = msg.conn
  <2>1. rest \in Int
    BY <1>1 DEF Endpoint
  <2>2. (IF e.remote_conn_id = NoConn THEN msg.conn ELSE e.remote_conn_id) = msg.conn
    BY <1>8 DEF Accepts, SameLink
  <2> HIDE DEF rest
  <2> QED
    BY <1>3, <1>6, <1>8, <2>1, <2>2 DEF Endpoint, Quiet, SameLink
<1>10. CASE ~live /\ ep' = [ep EXCEPT ![p] = Resumed(ep[p])] /\ net' = [net EXCEPT ![p] = packets]
  <2>1. PICK n : n = Resumed(ep[p])
    OBVIOUS
  <2>2. n \in Endpoint /\ Quiet(ep[p], n) /\ LinkInv(n)
    BY <1>1, <2>1, ResumedFacts, LinkKept DEF SameLink
  <2> QED
    BY <1>2, <1>10, <2>1, <2>2, LocalStep
<1>11. CASE live /\ ep' = [ep EXCEPT ![p] = e] /\ net' = [net EXCEPT ![p] = packets]
  <2>1. LinkInv(e)
    BY <1>8, LinkKept DEF SameLink
  <2> QED
    BY <1>2, <1>8, <1>11, <2>1, LocalStep
<1>12. ASSUME live, NEW random \in Randoms, ep' = [ep EXCEPT ![p] = RequestSync(good, random)],
              NEW replies \in Posted(net[Peer(p)], SyncRequest(good, random)),
              net' = [net EXCEPT ![p] = packets, ![Peer(p)] = replies]
       PROVE  IInv'
  <2>1. SyncRequest(good, random) = SyncRequest(ep[p], random)
    BY <1>9 DEF SyncRequest
  <2>2. SyncRequest(ep[p], random) \in Packet
    BY SyncRequestPacket
  <2>3. Adds1(Peer(p), SyncRequest(ep[p], random))
    BY <1>1, <1>12, <2>1, <2>2, ReplyAdds
  <2> QED
    BY <1>2, <1>9, <1>12, <2>3, RequestSyncInv
<1>13. CASE live /\ ~e.handshake_failed /\ ep' = [ep EXCEPT ![p] = [good EXCEPT !.state = "Running"]]
            /\ net' = [net EXCEPT ![p] = packets]
  <2>1. PICK n : n = [good EXCEPT !.state = "Running"]
    OBVIOUS
  <2>2. /\ n \in Endpoint /\ Quiet(ep[p], n) /\ n.conn_id = ep[p].conn_id
        /\ n.remote_conn_id = msg.conn
    BY <1>9, <2>1 DEF Endpoint, Quiet
  <2>3. LinkInv(n)
    BY <1>3, <1>8, <1>13, <2>2 DEF LinkInv
  <2> QED
    BY <1>2, <1>13, <2>1, <2>2, <2>3, LocalStep
<1>14. \/ ~live /\ ep' = [ep EXCEPT ![p] = Resumed(ep[p])] /\ net' = [net EXCEPT ![p] = packets]
       \/ live /\ ep' = [ep EXCEPT ![p] = e] /\ net' = [net EXCEPT ![p] = packets]
       \/ live /\ \E random \in Randoms :
                    /\ ep' = [ep EXCEPT ![p] = RequestSync(good, random)]
                    /\ \E replies \in Posted(net[Peer(p)], SyncRequest(good, random)) :
                           net' = [net EXCEPT ![p] = packets, ![Peer(p)] = replies]
       \/ live /\ ~e.handshake_failed /\ ep' = [ep EXCEPT ![p] = [good EXCEPT !.state = "Running"]]
               /\ net' = [net EXCEPT ![p] = packets]
  BY <1>4, <1>5, <1>6, Zenon DEF OnSyncReply
<1> HIDE DEF live
<1> QED
  BY <1>10, <1>11, <1>12, <1>13, <1>14

LEMMA OnQuietPacketInv ==
    ASSUME IInv, NEW p \in Peers, NEW msg \in net[p], NEW packets \in SUBSET net[p],
           \/ OnGoodbye(p, msg, packets)
           \/ OnFloorRequest(p, msg, packets)
           \/ OnFloorReply(p, msg, packets)
    PROVE  IInv'
<1>1. /\ ep \in [Peers -> Endpoint] /\ ep[p] \in Endpoint /\ msg \in Packet
      /\ net \in [Peers -> SUBSET Packet]
  BY AtPeer
<1>2. /\ UNCHANGED <<setup, view, left, sent, delivered>>
      /\ net' = [net EXCEPT ![p] = packets]
  BY DEF OnGoodbye, OnFloorRequest, OnFloorReply
<1>3. PICK e : e = Resumed(ep[p])
  OBVIOUS
<1>4. e \in Endpoint /\ Quiet(ep[p], e) /\ SameLink(ep[p], e)
  BY <1>1, <1>3, ResumedFacts
<1>5. \E n \in Endpoint :
          /\ ep' = [ep EXCEPT ![p] = n] /\ Quiet(ep[p], n) /\ n.state = e.state
          /\ n.conn_id = e.conn_id /\ n.remote_conn_id = e.remote_conn_id
  <2>1. CASE OnGoodbye(p, msg, packets)
    <3>1. PICK n : n = [e EXCEPT !.disconnected_event = e.disconnected_event \/ ~e.disconnect_event_sent,
                                 !.disconnect_event_sent = TRUE]
      OBVIOUS
    <3>2. ep' = [ep EXCEPT ![p] = n]
      BY <1>3, <2>1, <3>1 DEF OnGoodbye
    <3>3. /\ n \in Endpoint /\ Quiet(ep[p], n) /\ n.state = e.state
          /\ n.conn_id = e.conn_id /\ n.remote_conn_id = e.remote_conn_id
      BY <1>4, <3>1 DEF Endpoint, Quiet
    <3> QED
      BY <3>2, <3>3
  <2>2. CASE OnFloorRequest(p, msg, packets)
    <3>1. PICK newest : newest = Max({e.pending_floor_request, msg.round_seq})
      OBVIOUS
    <3>2. newest \in Nat
      <4>1. e.pending_floor_request \in Nat
        BY <1>4 DEF Endpoint
      <4>2. msg.round_seq \in Nat
        BY <1>1, <2>2 DEF Packet, OnFloorRequest
      <4> QED
        BY <3>1, <4>1, <4>2, MaxOfTwo
    <3>3. PICK n : n = [e EXCEPT !.pending_floor_request = newest]
      OBVIOUS
    <3>4. ep' = [ep EXCEPT ![p] = n]
      BY <1>3, <2>2, <3>1, <3>3 DEF OnFloorRequest
    <3>5. /\ n \in Endpoint /\ Quiet(ep[p], n) /\ n.state = e.state
          /\ n.conn_id = e.conn_id /\ n.remote_conn_id = e.remote_conn_id
      BY <1>4, <3>2, <3>3 DEF Endpoint, Quiet
    <3> QED
      BY <3>4, <3>5
  <2>3. CASE OnFloorReply(p, msg, packets)
    <3>1. msg.round_seq \in Nat /\ msg.floor \in Int
      BY <1>1, <2>3 DEF Packet, OnFloorReply
    <3>2. PICK n : n = [e EXCEPT !.round_floor = msg.floor, !.floor_reply_seq = msg.round_seq]
      OBVIOUS
    <3>3. ep' = [ep EXCEPT ![p] = e] \/ ep' = [ep EXCEPT ![p] = n]
      BY <1>3, <2>3, <3>2 DEF OnFloorReply
    <3>4. /\ n \in Endpoint /\ Quiet(ep[p], n) /\ n.state = e.state
          /\ n.conn_id = e.conn_id /\ n.remote_conn_id = e.remote_conn_id
      BY <1>4, <3>1, <3>2 DEF Endpoint, Quiet
    <3> QED
      BY <1>4, <3>3, <3>4
  <2> QED
    BY <2>1, <2>2, <2>3
<1>6. PICK n \in Endpoint :
          /\ ep' = [ep EXCEPT ![p] = n] /\ Quiet(ep[p], n) /\ n.state = e.state
          /\ n.conn_id = e.conn_id /\ n.remote_conn_id = e.remote_conn_id
  BY <1>5
<1>7. LinkInv(n)
  BY <1>4, <1>6, LinkKept DEF SameLink
<1> QED
  BY <1>2, <1>6, <1>7, LocalStep

\* What StepInv asks, of a step of p that may deliver inputs of its peer.
LEMMA DeliverStep ==
    ASSUME IInv, NEW p \in Peers, NEW n \in Endpoint, ep' = [ep EXCEPT ![p] = n],
           SameLink(ep[p], n),
           SenderInv(FirstFrame[p], sent[p], Len(delivered[p]), n),
           NEW events \in Seq(Input), NEW c \in Len(delivered[Peer(p)]) .. Len(sent[Peer(p)]),
           delivered' = [delivered EXCEPT ![Peer(p)] = @ \o events],
           NextInputs(sent[Peer(p)], Len(delivered[Peer(p)]), c, events),
           ReceiverInv(FirstFrame[Peer(p)], sent[Peer(p)], c, n),
           setup' = setup, sent' = sent, view' = view, left' = left,
           NetGood
    PROVE  IInv' /\ delivered'[Peer(p)] = SubSeq(sent[Peer(p)], 1, c)
<1> DEFINE q == Peer(p)
           s == sent[q]
           d == Len(delivered[q])
<1>1. ep \in [Peers -> Endpoint] /\ TypeInv
  BY DEF IInv, TypeInv
<1>2. q \in Peers /\ q # p /\ Peer(q) = p /\ \A r \in Peers : r = p \/ r = q
  BY PeerFacts
<1>3. StreamInv(p) /\ StreamInv(q) /\ LinkInv(ep[q])
  BY <1>2, AtPeer DEF IInv, TransportInv
<1>4. /\ s \in Seq(Input) /\ delivered[q] \in Seq(Input) /\ d \in Nat /\ Len(s) \in Nat
      /\ delivered \in [Peers -> Seq(Input)] /\ sent \in [Peers -> Seq(Input)]
  BY <1>1, <1>2 DEF TypeInv
<1>5. d <= Len(s) /\ \A i \in 1 .. d : delivered[q][i] = s[i]
  BY <1>3 DEF StreamInv, DeliveredInv
<1>6. /\ delivered'[q] = delivered[q] \o events
      /\ delivered'[p] = delivered[p]
      /\ delivered' \in [Peers -> Seq(Input)]
  BY <1>2, <1>4
<1> DEFINE new == delivered[q] \o events
<1>7. Len(new) = c /\ \A i \in 1 .. c : new[i] = s[i]
  <2>1. Len(events) = c - d /\ \A i \in 1 .. c - d : events[i] = s[d + i]
    BY DEF NextInputs
  <2>2. Len(new) = c
    BY <1>4, <2>1
  <2>3. ASSUME NEW i \in 1 .. c
        PROVE  new[i] = s[i]
    <3>1. CASE i <= d
      BY <1>4, <1>5, <2>1, <3>1
    <3>2. CASE i > d
      <4>1. new[i] = events[i - d] /\ i - d \in 1 .. c - d /\ d + (i - d) = i
        BY <1>4, <2>1, <3>2
      <4> QED
        BY <2>1, <4>1
    <3>3. i <= d \/ i > d
      BY <1>4
    <3> QED
      BY <3>1, <3>2, <3>3
  <2> QED
    BY <2>2, <2>3
<1>8. new = SubSeq(s, 1, c) /\ new \in Seq(Input)
  <2>1. new \in Seq(Input)
    BY <1>4
  <2>2. SubSeq(s, 1, c) \in Seq(Input) /\ Len(SubSeq(s, 1, c)) = c
        /\ \A i \in 1 .. c : SubSeq(s, 1, c)[i] = s[i]
    BY <1>4, <1>5
  <2> HIDE DEF new
  <2> QED
    BY <1>7, <2>1, <2>2
<1> HIDE DEF new
<1>9. ep'[p] = n /\ ep'[q] = ep[q] /\ FirstFrame' = FirstFrame /\ Config' = Config
  BY <1>1, <1>2 DEF FirstFrame, Config
<1>10. StreamInv(q)'
  <2>1. DeliveredInv(s, new)
    <3>1. c <= Len(s)
      BY <1>4
    <3> HIDE DEF s
    <3> QED
      BY <1>7, <3>1 DEF DeliveredInv
  <2>2. SenderInv(FirstFrame[q], s, c, ep[q])
    <3>1. PICK k \in 0 .. d : SenderAt(FirstFrame[q], s, k, ep[q])
      BY <1>3 DEF StreamInv, SenderInv
    <3>2. k \in 0 .. c
      BY <1>4
    <3> QED
      BY <3>1, <3>2 DEF SenderInv
  <2>3. delivered'[q] = new
    BY <1>6 DEF new
  <2> QED
    BY <1>2, <1>7, <1>9, <2>1, <2>2, <2>3 DEF StreamInv
<1>11. StreamInv(p)'
  BY <1>2, <1>3, <1>6, <1>9 DEF StreamInv
<1>12. \A r \in Peers : LinkInv(ep[r])'
  <2>1. LinkInv(n)
    BY LinkKept DEF SameLink
  <2> QED
    BY <1>2, <1>3, <1>9, <2>1 DEF LinkInv, ConfigOf
<1>13. Grows
  <2>1. Len(delivered[q]) <= Len(delivered'[q]) /\ Len(delivered[p]) <= Len(delivered'[p])
    BY <1>4, <1>6, <1>7 DEF new
  <2>2. \A r \in Peers : Len(sent[r]) \in Nat
    BY <1>4
  <2> QED
    BY <1>2, <1>4, <1>6, <2>1, <2>2 DEF Grows
<1>14. ep' \in [Peers -> Endpoint] /\ ViewGood
  BY <1>1, ViewKept
<1>15. \A r \in Peers : StreamInv(r)' /\ LinkInv(ep[r])'
  BY <1>2, <1>10, <1>11, <1>12
<1>16. IInv'
  BY <1>13, <1>14, <1>15, StepInv DEF ViewGood
<1> QED
  BY <1>6, <1>8, <1>16 DEF new

\* on_input delivers the next inputs of the peer's stream, and nothing else.
LEMMA OnInputStep ==
    ASSUME IInv, NEW p \in Peers, NEW msg \in net[p], NEW packets \in SUBSET net[p],
           OnInput(p, msg, packets)
    PROVE  /\ IInv'
           /\ \E c \in Len(delivered[Peer(p)]) .. Len(sent[Peer(p)]) :
                  delivered' = [delivered EXCEPT ![Peer(p)] = SubSeq(sent[Peer(p)], 1, c)]
<1> DEFINE q == Peer(p)
           s == sent[q]
           d == Len(delivered[q])
           ff == FirstFrame[q]
<1>1. /\ ep \in [Peers -> Endpoint] /\ ep[p] \in Endpoint /\ msg \in Packet
      /\ net \in [Peers -> SUBSET Packet] /\ TypeInv
  BY AtPeer DEF IInv
<1>2. q \in Peers /\ q # p /\ Peer(q) = p
  BY PeerFacts
<1>3. StreamInv(p) /\ StreamInv(q) /\ PacketInv(p, msg)
  BY <1>2 DEF IInv, TransportInv
<1>4. /\ msg.type = "Input"
      /\ setup' = setup /\ sent' = sent /\ view' = view /\ left' = left
  BY DEF OnInput
<1>5. msg.bytes \in Seq(Input) /\ msg.ack_frame \in Int /\ msg.status \in ConnectionStatus
  BY <1>1, <1>4 DEF Packet
<1>6. /\ FirstFrame[p] \in Nat /\ sent[p] \in Seq(Input) /\ Len(delivered[p]) \in Nat
      /\ ff \in Nat /\ s \in Seq(Input) /\ d \in Nat /\ delivered[q] \in Seq(Input)
      /\ delivered \in [Peers -> Seq(Input)]
  BY <1>1, <1>2, SetupFacts DEF TypeInv
<1>7. d \in 0 .. Len(s)
  BY <1>3, <1>6 DEF StreamInv, DeliveredInv
<1>8. PICK e, n, events : e = Resumed(ep[p]) /\ n = Received(e, msg) /\ events = Events(e, msg)
  OBVIOUS
<1>9. e \in Endpoint /\ Quiet(ep[p], e) /\ SameLink(ep[p], e)
  BY <1>1, <1>8, ResumedFacts
<1>10. SenderInv(FirstFrame[p], sent[p], Len(delivered[p]), e) /\ ReceiverInv(ff, s, d, e)
  BY <1>2, <1>3, <1>9, QuietStreams DEF StreamInv
<1>11. InputInv(ff, s, d, msg) /\ AckInv(FirstFrame[p], Len(delivered[p]), msg.ack_frame)
  BY <1>3, <1>4 DEF PacketInv
<1> HIDE DEF q, s, d, ff
<1>12. PICK c \in d .. Len(s) :
               /\ n \in Endpoint
               /\ SenderInv(FirstFrame[p], sent[p], Len(delivered[p]), n)
               /\ ReceiverInv(ff, s, c, n)
               /\ SameLink(e, n)
               /\ NextInputs(s, d, c, events)
  BY <1>5, <1>6, <1>7, <1>8, <1>9, <1>10, <1>11, ReceivedInv
<1>13. /\ ep' = [ep EXCEPT ![p] = n]
       /\ delivered' = [delivered EXCEPT ![q] = @ \o events]
       /\ events \in Seq(Input)
       /\ \/ \E replies \in Posted(net[q], InputAck(n)) :
                  net' = [net EXCEPT ![p] = packets, ![q] = replies]
          \/ net' = [net EXCEPT ![p] = packets]
  BY <1>8, <1>12 DEF OnInput, NextInputs, q
<1>14. Len(delivered'[q]) = c /\ c \in Nat
  <2>1. delivered'[q] = delivered[q] \o events /\ Len(delivered[q]) = d
    BY <1>2, <1>6, <1>13 DEF d
  <2>2. Len(events) = c - d /\ Len(s) \in Nat
    BY <1>6, <1>12 DEF NextInputs
  <2>3. Len(delivered[q] \o events) = d + (c - d)
    BY <1>6, <1>13, <2>1, <2>2
  <2> QED
    BY <1>6, <2>1, <2>2, <2>3
<1>15. NetGood
  <2>1. CASE net' = [net EXCEPT ![p] = packets]
    BY <1>1, <2>1 DEF NetGood
  <2>2. CASE \E replies \in Posted(net[q], InputAck(n)) :
                  net' = [net EXCEPT ![p] = packets, ![q] = replies]
    <3>1. PICK ack : ack = InputAck(n)
      OBVIOUS
    <3>2. last_recv_frame(n) = Top(ff, c) /\ Top(ff, c) \in Int
      BY <1>6, <1>12, <1>14, LastRecvFrame
    <3>3. ack \in Packet /\ ack.type = "InputAck" /\ ack.ack_frame = Top(ff, c)
      BY <1>12, <3>1, <3>2 DEF InputAck, Packet, Endpoint
    <3>4. Adds1(q, ack)
      BY <1>1, <2>2, <3>1, <3>3, ReplyAdds DEF q
    <3>5. AckInv(ff, c, ack.ack_frame)
      BY <1>6, <1>14, <3>3 DEF AckInv, Top, NULL_FRAME
    <3>6. PacketInv(q, ack)' /\ HandshakePacket(ack)'
      BY <1>4, <1>14, <3>3, <3>5 DEF PacketInv, HandshakePacket, FirstFrame, ff
    <3> QED
      BY <3>4, <3>6 DEF Adds1, NetGood
  <2> QED
    BY <1>13, <2>1, <2>2
<1>16. SameLink(ep[p], n)
  BY <1>9, <1>12 DEF SameLink
<1>17. IInv' /\ delivered'[q] = SubSeq(s, 1, c)
  BY <1>4, <1>12, <1>13, <1>15, <1>16, DeliverStep DEF q, s, d, ff
<1>18. delivered' = [delivered EXCEPT ![q] = SubSeq(s, 1, c)]
  BY <1>2, <1>6, <1>13, <1>17
<1> QED
  BY <1>12, <1>17, <1>18 DEF q, s, d

LEMMA OnInputAckInv ==
    ASSUME IInv, NEW p \in Peers, NEW msg \in net[p], NEW packets \in SUBSET net[p],
           OnInputAck(p, msg, packets)
    PROVE  IInv'
<1> DEFINE q == Peer(p)
<1>1. /\ ep \in [Peers -> Endpoint] /\ ep[p] \in Endpoint /\ msg \in Packet
      /\ net \in [Peers -> SUBSET Packet] /\ TypeInv
  BY AtPeer DEF IInv
<1>2. q \in Peers /\ q # p /\ Peer(q) = p
  BY PeerFacts
<1>3. StreamInv(p) /\ StreamInv(q) /\ PacketInv(p, msg)
  BY <1>2 DEF IInv, TransportInv
<1>4. /\ msg.type = "InputAck" /\ net' = [net EXCEPT ![p] = packets]
      /\ setup' = setup /\ sent' = sent /\ delivered' = delivered /\ view' = view /\ left' = left
  BY DEF OnInputAck
<1>5. msg.ack_frame \in Int
  BY <1>1, <1>4 DEF Packet
<1>6. /\ FirstFrame[p] \in Nat /\ sent[p] \in Seq(Input) /\ Len(delivered[p]) \in Nat
      /\ sent[q] \in Seq(Input) /\ Len(delivered[q]) \in Nat /\ delivered[q] \in Seq(Input)
      /\ delivered \in [Peers -> Seq(Input)]
  BY <1>1, <1>2, SetupFacts DEF TypeInv
<1>7. PICK e, n : e = Resumed(ep[p]) /\ n = apply_ack_frame(e, msg.ack_frame)
  OBVIOUS
<1>8. e \in Endpoint /\ Quiet(ep[p], e) /\ SameLink(ep[p], e)
  BY <1>1, <1>7, ResumedFacts
<1>9. /\ SenderInv(FirstFrame[p], sent[p], Len(delivered[p]), e)
      /\ ReceiverInv(FirstFrame[q], sent[q], Len(delivered[q]), e)
  BY <1>2, <1>3, <1>8, QuietStreams DEF StreamInv
<1>10. AckInv(FirstFrame[p], Len(delivered[p]), msg.ack_frame)
  BY <1>3, <1>4 DEF PacketInv
<1>11. /\ n \in Endpoint
       /\ SenderInv(FirstFrame[p], sent[p], Len(delivered[p]), n)
       /\ SameLink(e, n)
       /\ n.recv_inputs = e.recv_inputs
  BY <1>5, <1>6, <1>7, <1>8, <1>9, <1>10, ApplyAck
<1>12. ReceiverInv(FirstFrame[q], sent[q], Len(delivered[q]), n) /\ SameLink(ep[p], n)
  BY <1>8, <1>9, <1>11 DEF ReceiverInv, SameLink
<1>13. NetGood
  BY <1>1, <1>4 DEF NetGood
<1>14. Len(delivered[q]) \in Len(delivered[q]) .. Len(sent[q])
  BY <1>3, <1>6 DEF StreamInv, DeliveredInv
<1>15. <<>> \in Seq(Input) /\ NextInputs(sent[q], Len(delivered[q]), Len(delivered[q]), <<>>)
  BY <1>6 DEF NextInputs
<1>16. delivered' = [delivered EXCEPT ![q] = delivered[q] \o <<>>]
  <2>1. delivered[q] \o <<>> = delivered[q]
    BY <1>6
  <2> QED
    BY <1>4, <1>6, <2>1
<1>17. ep' = [ep EXCEPT ![p] = n]
  BY <1>7 DEF OnInputAck
<1> QED
  BY <1>4, <1>11, <1>12, <1>13, <1>14, <1>15, <1>16, <1>17, DeliverStep

-----------------------------------------------------------------------------
(* Starting.                                                               *)

LEMMA NewEndpointFacts ==
    ASSUME setup \in Setups, NEW conn \in ConnId, NEW ff \in Nat
    PROVE  LET n == NewEndpoint(conn)
           IN  /\ n \in Endpoint
               /\ n.state = "Initializing"
               /\ SenderInv(ff, <<>>, 0, n)
               /\ ReceiverInv(ff, <<>>, 0, n)
<1>1. PICK n : n = NewEndpoint(conn)
  OBVIOUS
<1>2. setup.num_sync \in Int
  BY SetupAssumption
<1>3. [frame |-> NULL_FRAME, input |-> blank] \in Item
  BY DEF Item, NULL_FRAME, Input, blank
<1>4. [f \in {NULL_FRAME} |-> blank] \in FrameMap
  <2>1. {NULL_FRAME} \in SUBSET Int /\ blank \in Input
    BY DEF NULL_FRAME, Input, blank
  <2>2. [f \in {NULL_FRAME} |-> blank] \in [{NULL_FRAME} -> Input]
    BY <2>1
  <2> QED
    BY <2>1, <2>2 DEF FrameMap
<1>5. NewStatus \in ConnectionStatus
  BY DEF NewStatus, ConnectionStatus, NULL_FRAME
<1>6. <<>> \in Seq(Item) /\ {} \in SUBSET Randoms
  OBVIOUS
<1>7. n \in Endpoint
  BY <1>1, <1>2, <1>3, <1>4, <1>5, <1>6 DEF NewEndpoint, Endpoint, NULL_FRAME
<1>8. /\ n.state = "Initializing" /\ n.pending_output = <<>>
      /\ n.last_acked_input = [frame |-> NULL_FRAME, input |-> blank]
      /\ n.recv_inputs = [f \in {NULL_FRAME} |-> blank]
  BY <1>1 DEF NewEndpoint
<1>9. SenderAt(ff, <<>>, 0, n)
  BY <1>8 DEF SenderAt, Top, Reference
<1>10. ReceiverInv(ff, <<>>, 0, n)
  BY <1>8 DEF ReceiverInv, Top
<1> QED
  BY <1>1, <1>7, <1>8, <1>9, <1>10 DEF SenderInv

LEMMA EmptyDelivered ==
    ASSUME NEW s \in Seq(Input), NEW t \in Seq(Input), s = <<>>, DeliveredInv(s, t)
    PROVE  t = <<>> /\ Len(t) = 0
BY DEF DeliveredInv

LEMMA RestartInv ==
    ASSUME IInv, NEW p \in Peers, Restart(p)
    PROVE  IInv'
<1> DEFINE q == Peer(p)
<1>1. /\ ep \in [Peers -> Endpoint] /\ ep[p] \in Endpoint
      /\ net \in [Peers -> SUBSET Packet] /\ TypeInv /\ setup \in Setups
  BY AtPeer DEF IInv, TypeInv
<1>2. q \in Peers /\ q # p /\ Peer(q) = p /\ \A r \in Peers : r = p \/ r = q
  BY PeerFacts
<1>3. PICK n : n = NewEndpoint(<<p, ep[p].conn_id[2] + 1>>)
  OBVIOUS
<1>4. <<p, ep[p].conn_id[2] + 1>> \in ConnId
  BY <1>1 DEF Endpoint, ConnId
<1>5. \A r \in Peers : FirstFrame[r] \in Nat
  BY <1>1, SetupFacts
<1>6. /\ n \in Endpoint /\ n.state = "Initializing"
      /\ \A r \in Peers : /\ SenderInv(FirstFrame[r], <<>>, 0, n)
                           /\ ReceiverInv(FirstFrame[r], <<>>, 0, n)
  BY <1>1, <1>2, <1>3, <1>4, <1>5, NewEndpointFacts
<1>7. /\ ep' = [ep EXCEPT ![p] = n] /\ net' = net
      /\ setup' = setup /\ sent' = sent /\ delivered' = delivered /\ view' = view /\ left' = left
  BY <1>3 DEF Restart
<1>8. ASSUME NEW r \in Peers
      PROVE  /\ StreamInv(r) /\ sent[r] = <<>> /\ Len(delivered[r]) = 0
             /\ sent[r] \in Seq(Input) /\ delivered[r] \in Seq(Input)
  <2>1. StreamInv(r) /\ sent[r] \in Seq(Input) /\ delivered[r] \in Seq(Input) /\ sent[r] = <<>>
    BY <1>1 DEF IInv, TransportInv, TypeInv, Restart, BeforeInputs
  <2> QED
    BY <2>1, EmptyDelivered DEF StreamInv
<1>9. ep'[p] = n /\ ep'[q] = ep[q] /\ FirstFrame' = FirstFrame /\ Config' = Config
  BY <1>1, <1>2, <1>7 DEF FirstFrame, Config
<1>10. StreamInv(p)' /\ StreamInv(q)'
  <2>1. SenderInv(FirstFrame[p], sent[p], Len(delivered[p]), n)
        /\ ReceiverInv(FirstFrame[q], sent[q], Len(delivered[q]), n)
    BY <1>2, <1>6, <1>8
  <2> QED
    BY <1>2, <1>7, <1>8, <1>9, <2>1 DEF StreamInv
<1>11. \A r \in Peers : LinkInv(ep[r])'
  <2>1. LinkInv(n) /\ LinkInv(ep[q])
    BY <1>2, <1>6, AtPeer DEF LinkInv
  <2> QED
    BY <1>2, <1>9, <2>1 DEF LinkInv, ConfigOf
<1>12. Grows
  BY <1>1, <1>7, <1>8 DEF Grows, TypeInv
<1>13. NetGood
  BY <1>1, <1>7 DEF NetGood
<1>14. ep' \in [Peers -> Endpoint] /\ ViewGood
  BY <1>1, <1>6, <1>7, ViewKept
<1>15. \A r \in Peers : StreamInv(r)' /\ LinkInv(ep[r])'
  BY <1>2, <1>10, <1>11
<1> QED
  BY <1>12, <1>13, <1>14, <1>15, StepInv DEF ViewGood

LEMMA InitInv == Init => IInv
<1> SUFFICES ASSUME Init PROVE IInv
  OBVIOUS
<1>1. setup \in Setups
  BY DEF Init
<1>2. ASSUME NEW p \in Peers
      PROVE  /\ ep[p] = NewEndpoint(<<p, setup.start[p]>>)
             /\ net[p] = {} /\ view[p] = 1 /\ sent[p] = <<>> /\ delivered[p] = <<>>
  BY DEF Init
<1>3. ASSUME NEW p \in Peers
      PROVE  /\ ep[p] \in Endpoint /\ ep[p].state = "Initializing"
             /\ \A q \in Peers : /\ SenderInv(FirstFrame[q], <<>>, 0, ep[p])
                                  /\ ReceiverInv(FirstFrame[q], <<>>, 0, ep[p])
  <2>1. <<p, setup.start[p]>> \in ConnId
    BY <1>1, SetupFacts DEF ConnId
  <2>2. \A q \in Peers : FirstFrame[q] \in Nat
    BY <1>1, SetupFacts
  <2> QED
    BY <1>1, <1>2, <2>1, <2>2, NewEndpointFacts
<1>4. TypeInv
  <2>1. \A p \in Peers : 1 \in DOMAIN Views[p]
    BY <1>1, SetupFacts
  <2>2. ep \in [Peers -> Endpoint]
    BY <1>3 DEF Init
  <2> QED
    BY <1>1, <2>1, <2>2 DEF TypeInv, Init
<1>5. HandshakeInv
  BY <1>2, <1>3 DEF HandshakeInv, RunningPeersAgree, HandshakePackets
<1>6. TransportInv
  <2> SUFFICES ASSUME NEW p \in Peers
               PROVE  StreamInv(p)
    BY <1>2 DEF TransportInv
  <2>1. Peer(p) \in Peers
    BY PeerFacts
  <2>2. DeliveredInv(<<>>, <<>>) /\ Len(<<>>) = 0
    BY DEF DeliveredInv
  <2> QED
    BY <1>2, <1>3, <2>1, <2>2 DEF StreamInv
<1> QED
  BY <1>4, <1>5, <1>6 DEF IInv

-----------------------------------------------------------------------------
(* The invariant holds, and the theorems that follow from it.              *)

LEMMA HandleInv ==
    ASSUME IInv, NEW p \in Peers, NEW msg \in net[p], NEW packets \in SUBSET net[p],
           Handle(p, msg, packets)
    PROVE  IInv'
<1>1. CASE OnInput(p, msg, packets)
  BY <1>1, OnInputStep
<1>2. CASE OnInputAck(p, msg, packets)
  BY <1>2, OnInputAckInv
<1>3. CASE OnSyncRequest(p, msg, packets)
  BY <1>3, OnSyncRequestInv
<1>4. CASE OnSyncReply(p, msg, packets)
  BY <1>4, OnSyncReplyInv DEF Handle
<1>5. CASE OnGoodbye(p, msg, packets) \/ OnFloorRequest(p, msg, packets) \/ OnFloorReply(p, msg, packets)
  BY <1>5, OnQuietPacketInv
<1> QED
  BY <1>1, <1>2, <1>3, <1>4, <1>5 DEF Handle

\* Receive and ReceiveCopy, as a Handle of what stays under way.
LEMMA ReceiveHandles ==
    ASSUME NEW p \in Peers, NEW msg \in net[p], Receive(p, msg) \/ ReceiveCopy(p, msg)
    PROVE  \E packets \in SUBSET net[p] : Handle(p, msg, packets)
<1>1. net[p] \ {msg} \in SUBSET net[p] /\ net[p] \in SUBSET net[p]
  OBVIOUS
<1> QED
  BY <1>1 DEF Receive, ReceiveCopy

LEMMA NextInv == IInv /\ [Next]_vars => IInv'
<1> SUFFICES ASSUME IInv, [Next]_vars PROVE IInv'
  OBVIOUS
<1>1. CASE UNCHANGED vars
  BY <1>1 DEF vars, IInv, TypeInv, Views, HandshakeInv, RunningPeersAgree, ConfigOf, Config,
              HandshakePackets, HandshakePacket, TransportInv, StreamInv, PacketInv, FirstFrame
<1>2. CASE Next
  <2>1. PICK p \in Peers :
            \/ \E random \in Randoms : Synchronize(p, random) \/ RetrySync(p, random)
            \/ ResendPending(p) \/ Nudge(p)
            \/ SendInput(p)
            \/ ChangeView(p)
            \/ SendFloorRequest(p) \/ AnswerFloorRequest(p)
            \/ \E msg \in net[p] : Receive(p, msg) \/ ReceiveCopy(p, msg)
            \/ \E msg \in net[p] : Lose(p, msg)
            \/ NoticePrune(p) \/ Interrupt(p) \/ DisconnectTimeout(p) \/ DisconnectRemote(p) \/ Shutdown(p)
            \/ Disconnect(p)
            \/ Restart(p)
    BY <1>2 DEF Next
  <2>2. CASE \E random \in Randoms : Synchronize(p, random) \/ RetrySync(p, random)
    BY <2>2, SynchronizeInv
  <2>3. CASE ResendPending(p) \/ Nudge(p)
    BY <2>3, ResendInv
  <2>4. CASE SendInput(p)
    BY <2>4, SendInputInv
  <2>5. CASE ChangeView(p)
    BY <2>5, ChangeViewInv
  <2>6. CASE SendFloorRequest(p) \/ AnswerFloorRequest(p)
    BY <2>6, FloorSendInv
  <2>7. CASE \E msg \in net[p] : Receive(p, msg) \/ ReceiveCopy(p, msg)
    BY <2>7, ReceiveHandles, HandleInv
  <2>8. CASE \E msg \in net[p] : Lose(p, msg)
    BY <2>8, LoseInv
  <2>9. CASE NoticePrune(p) \/ Interrupt(p) \/ DisconnectTimeout(p) \/ DisconnectRemote(p) \/ Shutdown(p)
    BY <2>9, LocalInv
  <2>10. CASE Disconnect(p)
    BY <2>10, DisconnectInv
  <2>11. CASE Restart(p)
    BY <2>11, RestartInv
  <2> QED
    BY <2>1, <2>2, <2>3, <2>4, <2>5, <2>6, <2>7, <2>8, <2>9, <2>10, <2>11
<1> QED
  BY <1>1, <1>2

LEMMA IInvAlways == Spec => []IInv
BY InitInv, NextInv, PTL DEF Spec

\* Whatever starts and packets there are, an endpoint that runs is bound to a start
\* of its peer with its own configuration (on_sync_reply).
THEOREM RunningAgree == Spec => []RunningPeersAgree
<1>1. IInv => RunningPeersAgree
  BY DEF IInv, HandshakeInv
<1> QED
  BY <1>1, IInvAlways, PTL

LEMMA SenderAcked ==
    ASSUME NEW ff \in Nat, NEW s \in Seq(Input), NEW d \in Nat, NEW e \in Endpoint,
           SenderInv(ff, s, d, e)
    PROVE  LET acked == Len(s) - Len(e.pending_output)
           IN  /\ acked <= d
               /\ acked > 0 => e.last_acked_input = [frame |-> ff + acked - 1, input |-> s[acked]]
               /\ \A i \in DOMAIN e.pending_output :
                      e.pending_output[i] = [frame |-> ff + acked + i - 1, input |-> s[acked + i]]
<1>1. PICK k \in 0 .. d : SenderAt(ff, s, k, e)
  BY DEF SenderInv
<1> DEFINE po == e.pending_output
           last == e.last_acked_input
<1>2. po \in Seq(Item) /\ last \in Item
  BY DEF Endpoint
<1>3. /\ Len(s) = k + Len(po)
      /\ last.frame = Top(ff, k)
      /\ last.input = Reference(s, k)
      /\ \A i \in 1 .. Len(po) : po[i].frame = ff + k + i - 1 /\ po[i].input = s[k + i]
  BY <1>1 DEF SenderAt
<1> HIDE DEF po, last
<1>4. Len(s) - Len(po) = k /\ DOMAIN po = 1 .. Len(po)
  BY <1>2, <1>3
<1>5. k > 0 => last = [frame |-> ff + k - 1, input |-> s[k]]
  BY <1>2, <1>3 DEF Item, Top, Reference
<1>6. \A i \in 1 .. Len(po) : po[i] = [frame |-> ff + k + i - 1, input |-> s[k + i]]
  <2>1. \A i \in 1 .. Len(po) : po[i] \in Item
    BY <1>2
  <2> QED
    BY <1>3, <2>1 DEF Item
<1>7. k <= d
  OBVIOUS
<1> DEFINE acked == Len(s) - Len(po)
<1>8. acked = k
  BY <1>4
<1> HIDE DEF acked
<1>9. /\ acked <= d
      /\ acked > 0 => last = [frame |-> ff + acked - 1, input |-> s[acked]]
      /\ \A i \in DOMAIN po : po[i] = [frame |-> ff + acked + i - 1, input |-> s[acked + i]]
  BY <1>4, <1>5, <1>6, <1>7, <1>8, Zenon
<1> QED
  BY <1>9, Zenon DEF acked, po, last

\* Whatever is lost, repeated or reordered, an input leaves pending_output only when
\* it is delivered, and the reference of the next packet is the last such input
\* (apply_ack_frame, send_pending_output).
THEOREM AckedDelivered == Spec => []AckedIsDelivered
<1>1. IInv => AckedIsDelivered
  <2> SUFFICES ASSUME IInv, NEW p \in Peers
               PROVE  LET acked == Len(sent[p]) - Len(ep[p].pending_output)
                      IN  /\ acked <= Len(delivered[p])
                          /\ acked > 0 => ep[p].last_acked_input =
                                 [frame |-> FirstFrame[p] + acked - 1, input |-> sent[p][acked]]
                          /\ \A i \in DOMAIN ep[p].pending_output :
                                 ep[p].pending_output[i] =
                                     [frame |-> FirstFrame[p] + acked + i - 1, input |-> sent[p][acked + i]]
    BY DEF AckedIsDelivered
  <2>1. /\ FirstFrame[p] \in Nat /\ sent[p] \in Seq(Input) /\ Len(delivered[p]) \in Nat
        /\ ep[p] \in Endpoint
    BY SetupFacts DEF IInv, TypeInv
  <2>2. SenderInv(FirstFrame[p], sent[p], Len(delivered[p]), ep[p])
    BY DEF IInv, TransportInv, StreamInv
  <2> HIDE DEF FirstFrame
  <2> QED
    BY <2>1, <2>2, SenderAcked
<1> QED
  BY <1>1, IInvAlways, PTL

-----------------------------------------------------------------------------
(* The refinement of InputChannel.                                         *)

LEMMA SendRefines ==
    ASSUME IInv, NEW p \in Peers, SendInput(p)
    PROVE  Channel!Send(p) \/ UNCHANGED <<sent, delivered>>
<1> DEFINE x == Payload[p][Len(sent[p]) + 1]
<1>1. CASE Len(ep[p].pending_output) >= PendingLimit
  BY <1>1 DEF SendInput
<1>2. CASE ~(Len(ep[p].pending_output) >= PendingLimit)
  <2>1. sent' = [sent EXCEPT ![p] = Append(@, x)] /\ delivered' = delivered
        /\ Len(sent[p]) + 1 <= Len(Payload[p])
    BY <1>2 DEF SendInput
  <2>2. Payload[p] \in Seq(Input) /\ Len(sent[p]) \in Nat
    BY SetupFacts DEF IInv, TypeInv
  <2>3. x \in Input
    BY <2>1, <2>2
  <2> QED
    BY <2>1, <2>3 DEF Channel!Send
<1> QED
  BY <1>1, <1>2

LEMMA DeliverRefines ==
    ASSUME IInv, NEW p \in Peers, NEW msg \in net[p], NEW packets \in SUBSET net[p],
           OnInput(p, msg, packets)
    PROVE  Channel!Deliver(Peer(p)) \/ UNCHANGED <<sent, delivered>>
<1> DEFINE q == Peer(p)
<1>1. PICK c \in Len(delivered[q]) .. Len(sent[q]) :
          delivered' = [delivered EXCEPT ![q] = SubSeq(sent[q], 1, c)]
  BY OnInputStep
<1>2. sent' = sent
  BY DEF OnInput
<1>3. /\ q \in Peers /\ sent[q] \in Seq(Input) /\ delivered[q] \in Seq(Input)
      /\ delivered \in [Peers -> Seq(Input)]
  BY PeerFacts DEF IInv, TypeInv
<1>4. CASE c = Len(delivered[q])
  <2>1. DeliveredInv(sent[q], delivered[q])
    BY <1>3 DEF IInv, TransportInv, StreamInv
  <2>2. PICK s, d : s = sent[q] /\ d = delivered[q]
    OBVIOUS
  <2>3. s \in Seq(Input) /\ d \in Seq(Input) /\ Len(d) <= Len(s) /\ \A i \in 1 .. Len(d) : d[i] = s[i]
    BY <1>3, <2>1, <2>2 DEF DeliveredInv
  <2>4. /\ SubSeq(s, 1, Len(d)) \in Seq(Input) /\ Len(SubSeq(s, 1, Len(d))) = Len(d)
        /\ \A i \in 1 .. Len(d) : SubSeq(s, 1, Len(d))[i] = s[i]
    BY <2>3
  <2>5. SubSeq(s, 1, Len(d)) = d
    BY <2>3, <2>4
  <2>6. delivered' = delivered
    BY <1>1, <1>3, <1>4, <2>2, <2>5
  <2> QED
    BY <1>2, <2>6
<1>5. CASE c # Len(delivered[q])
  <2>1. c \in Len(delivered[q]) + 1 .. Len(sent[q])
    BY <1>3, <1>5
  <2> QED
    BY <1>1, <1>2, <2>1 DEF Channel!Deliver
<1> QED
  BY <1>4, <1>5

LEMMA StepRefines == IInv /\ [Next]_vars => [Channel!Next]_<<sent, delivered>>
<1> SUFFICES ASSUME IInv, [Next]_vars PROVE [Channel!Next]_<<sent, delivered>>
  OBVIOUS
<1>1. CASE UNCHANGED vars
  BY <1>1 DEF vars
<1>2. CASE Next
  <2>1. PICK p \in Peers :
            \/ SendInput(p)
            \/ \E msg \in net[p] : Receive(p, msg) \/ ReceiveCopy(p, msg)
            \/ UNCHANGED <<sent, delivered>>
    BY <1>2 DEF Next, Synchronize, RetrySync, ResendPending, Nudge, ChangeView, NoticePrune,
                SendFloorRequest, AnswerFloorRequest, Lose, Interrupt, DisconnectTimeout,
                DisconnectRemote, Disconnect, Shutdown, Restart
  <2>2. CASE SendInput(p)
    BY <2>2, SendRefines DEF Channel!Next
  <2>3. CASE \E msg \in net[p] : Receive(p, msg) \/ ReceiveCopy(p, msg)
    <3>1. PICK msg \in net[p], packets \in SUBSET net[p] : Handle(p, msg, packets)
      BY <2>3, ReceiveHandles
    <3>2. OnInput(p, msg, packets) \/ UNCHANGED <<sent, delivered>>
      BY <3>1 DEF Handle, OnInputAck, OnSyncRequest, OnSyncReply, OnGoodbye, OnFloorRequest, OnFloorReply
    <3>3. Peer(p) \in Peers
      BY PeerFacts
    <3> QED
      BY <3>2, <3>3, DeliverRefines DEF Channel!Next
  <2> QED
    BY <2>1, <2>2, <2>3
<1> QED
  BY <1>1, <1>2

\* Two endpoints and a network that loses, repeats and reorders are, to the two
\* sessions, a channel that hands over each input once and in order: no packet is
\* decoded with another reference than it was coded with, none is applied twice, and
\* no nudge passes for an input (on_input, send_pending_output).
THEOREM ChannelRefinement == Spec => ImplementsChannel
<1>1. Init => Channel!Init
  BY DEF Init, Channel!Init
<1> QED
  BY <1>1, StepRefines, IInvAlways, PTL DEF Spec, ImplementsChannel, Channel!Spec

-----------------------------------------------------------------------------
(* Goodbyes.                                                               *)

\* p, while it synchronises, reports a disconnect for a goodbye of its remote only.
LEMMA GoodbyeStep ==
    ASSUME IInv, [Next]_vars, NEW p \in Peers, ep[p].state = "Synchronizing",
           ep'[p].conn_id = ep[p].conn_id, ep'[p].disconnected_event, ~ep[p].disconnected_event
    PROVE  ep[p].remote_conn_id \in left
<1>1. ep \in [Peers -> Endpoint] /\ ep[p] \in Endpoint /\ net \in [Peers -> SUBSET Packet]
  BY AtPeer
<1>2. Next
  BY DEF vars
<1>3. PICK r \in Peers :
            \/ \E random \in Randoms : Synchronize(r, random) \/ RetrySync(r, random)
            \/ SendInput(r) \/ SendFloorRequest(r)
            \/ NoticePrune(r) \/ AnswerFloorRequest(r)
            \/ \E msg \in net[r] : Receive(r, msg) \/ ReceiveCopy(r, msg)
            \/ Interrupt(r) \/ DisconnectTimeout(r) \/ DisconnectRemote(r) \/ Disconnect(r) \/ Shutdown(r)
            \/ Restart(r)
            \/ UNCHANGED ep
  BY <1>2 DEF Next, ResendPending, Nudge, ChangeView, Lose
<1>4. r = p
  <2>1. r # p => ep'[p] = ep[p]
    <3> SUFFICES ASSUME r # p PROVE ep'[p] = ep[p]
      OBVIOUS
    <3>1. CASE \E msg \in net[r] : Receive(r, msg) \/ ReceiveCopy(r, msg)
      <4>1. PICK msg \in net[r], packets \in SUBSET net[r] : Handle(r, msg, packets)
        BY <3>1, ReceiveHandles
      <4> QED
        BY <1>1, <4>1 DEF Handle, OnInput, OnInputAck, OnSyncRequest, OnSyncReply, OnGoodbye,
                          OnFloorRequest, OnFloorReply
    <3>2. CASE \E random \in Randoms : Synchronize(r, random) \/ RetrySync(r, random)
      BY <1>1, <3>2 DEF Synchronize, RetrySync
    <3>3. CASE \/ SendInput(r) \/ SendFloorRequest(r) \/ NoticePrune(r) \/ AnswerFloorRequest(r)
               \/ Interrupt(r) \/ DisconnectTimeout(r) \/ DisconnectRemote(r) \/ Disconnect(r)
               \/ Shutdown(r) \/ Restart(r) \/ UNCHANGED ep
      BY <1>1, <3>3 DEF SendInput, SendFloorRequest, NoticePrune, AnswerFloorRequest, Interrupt,
                        DisconnectTimeout, DisconnectRemote, Disconnect, Shutdown, Restart
    <3> QED
      BY <1>3, <3>1, <3>2, <3>3
  <2> QED
    BY <2>1
<1>5. \E msg \in net[p] : Receive(p, msg) \/ ReceiveCopy(p, msg)
  <2>1. ASSUME NEW random \in Randoms, RetrySync(p, random)
        PROVE  FALSE
    BY <1>1, <2>1 DEF RetrySync, RequestSync, Endpoint
  <2>2. ~NoticePrune(p)
    BY <1>1 DEF NoticePrune, reset_floor_freshness, Endpoint
  <2>3. ~AnswerFloorRequest(p)
    BY <1>1 DEF AnswerFloorRequest, Endpoint
  <2>4. ~DisconnectRemote(p) /\ ~Disconnect(p)
    <3>1. ~DisconnectRemote(p)
      BY DEF DisconnectRemote
    <3>2. ASSUME Disconnect(p)
          PROVE  FALSE
      <4>1. PICK n : n = [ep[p] EXCEPT !.state = "Disconnected"]
        OBVIOUS
      <4>2. ep' = [ep EXCEPT ![p] = n]
        BY <3>2, <4>1 DEF Disconnect
      <4>3. ep'[p] = n
        BY <1>1, <4>2
      <4>4. n.disconnected_event = ep[p].disconnected_event
        BY <1>1, <4>1 DEF Endpoint
      <4> QED
        BY <4>3, <4>4, Zenon
    <3> QED
      BY <3>1, <3>2
  <2>5. ~Restart(p)
    BY <1>1 DEF Restart, NewEndpoint
  <2>6. /\ ~SendInput(p) /\ ~SendFloorRequest(p) /\ ~Interrupt(p) /\ ~DisconnectTimeout(p)
        /\ ~Shutdown(p) /\ \A random \in Randoms : ~Synchronize(p, random)
    BY DEF SendInput, SendFloorRequest, FloorRequestNeeded, Interrupt, DisconnectTimeout, Shutdown, Synchronize
  <2> QED
    BY <1>3, <1>4, <2>1, <2>2, <2>3, <2>4, <2>5, <2>6
<1>6. PICK msg \in net[p], packets \in SUBSET net[p] : Handle(p, msg, packets)
  BY <1>5, ReceiveHandles
<1>7. msg.type \in {"SyncRequest", "SyncReply", "Goodbye"} /\ Accepts(ep[p], msg)
  BY <1>6 DEF Handle, Accepts, MessageAllowed
<1>8. ~OnSyncRequest(p, msg, packets)
  <2> SUFFICES ASSUME OnSyncRequest(p, msg, packets) PROVE FALSE
    OBVIOUS
  <2>1. PICK n : n = IF ep[p].state = "Synchronizing" THEN observe_handshake(ep[p], msg.config)
                     ELSE Resumed(ep[p])
    OBVIOUS
  <2>2. SameLink(ep[p], n)
    BY <1>1, <2>1, ResumedFacts, ObserveFacts
  <2>3. ep' = [ep EXCEPT ![p] = n]
    BY <2>1 DEF OnSyncRequest
  <2>4. ep'[p] = n
    BY <1>1, <2>3
  <2> QED
    BY <2>2, <2>4, Zenon DEF SameLink
<1>9. ~OnSyncReply(p, msg, packets)
  <2> SUFFICES ASSUME OnSyncReply(p, msg, packets) PROVE FALSE
    OBVIOUS
  <2>1. PICK asked : asked = [ep[p] EXCEPT !.sync_random_requests = @ \ {msg.random}]
    OBVIOUS
  <2>2. PICK e : e = observe_handshake(asked, msg.config)
    OBVIOUS
  <2>3. PICK good : good = [e EXCEPT !.remote_conn_id = IF @ = NoConn THEN msg.conn ELSE @,
                                     !.sync_remaining_roundtrips = ep[p].sync_remaining_roundtrips - 1]
    OBVIOUS
  <2>4. asked \in Endpoint /\ SameLink(ep[p], asked)
    BY <1>1, <2>1 DEF Endpoint, SameLink
  <2>5. e \in Endpoint /\ SameLink(asked, e)
    BY <2>2, <2>4, ObserveFacts
  <2>6. e.disconnected_event = ep[p].disconnected_event
    BY <2>4, <2>5, Zenon DEF SameLink
  <2>7. good.disconnected_event = e.disconnected_event /\ DOMAIN good = DOMAIN e
    BY <2>3, <2>5 DEF Endpoint
  <2>8. \E n : /\ ep' = [ep EXCEPT ![p] = n]
               /\ \/ n = Resumed(ep[p])
                  \/ n = e
                  \/ \E random \in Randoms : n = RequestSync(good, random)
                  \/ n = [good EXCEPT !.state = "Running"]
    BY <2>1, <2>2, <2>3, Zenon DEF OnSyncReply
  <2>9. PICK n : /\ ep' = [ep EXCEPT ![p] = n]
                 /\ \/ n = Resumed(ep[p])
                    \/ n = e
                    \/ \E random \in Randoms : n = RequestSync(good, random)
                    \/ n = [good EXCEPT !.state = "Running"]
    BY <2>8
  <2>10. ep'[p] = n
    BY <1>1, <2>9
  <2>11. CASE n = Resumed(ep[p])
    <3>1. SameLink(ep[p], n)
      BY <1>1, <2>11, ResumedFacts
    <3> QED
      BY <2>10, <3>1, Zenon DEF SameLink
  <2>12. CASE n = e
    BY <2>6, <2>10, <2>12, Zenon
  <2>13. ASSUME NEW random \in Randoms, n = RequestSync(good, random)
         PROVE  FALSE
    <3>1. n.disconnected_event = good.disconnected_event
      BY <2>3, <2>5, <2>13 DEF RequestSync, Endpoint
    <3> QED
      BY <2>6, <2>7, <2>10, <3>1, Zenon
  <2>14. CASE n = [good EXCEPT !.state = "Running"]
    <3>1. n.disconnected_event = good.disconnected_event
      BY <2>3, <2>5, <2>14 DEF Endpoint
    <3> QED
      BY <2>6, <2>7, <2>10, <3>1, Zenon
  <2> QED
    BY <2>9, <2>11, <2>12, <2>13, <2>14
<1>10. msg.type = "Goodbye"
  BY <1>6, <1>7, <1>8, <1>9 DEF Handle, OnInput, OnInputAck, OnGoodbye, OnFloorRequest, OnFloorReply
<1>11. msg.conn \in left
  BY <1>10 DEF IInv, HandshakeInv, HandshakePackets, HandshakePacket
<1> QED
  BY <1>7, <1>10, <1>11 DEF Accepts

\* A goodbye disconnects a session that is still synchronising only if the very
\* connection it is bound to said it, however late other goodbyes arrive
\* (handle_message, on_goodbye).
THEOREM GoodbyesAreOwn == Spec => StaleGoodbyeIgnored
<1>1. IInv /\ [Next]_vars =>
          [\A p \in Peers :
               /\ ep[p].state = "Synchronizing"
               /\ ep'[p].conn_id = ep[p].conn_id
               /\ ep'[p].disconnected_event /\ ~ep[p].disconnected_event
               => ep[p].remote_conn_id \in left]_vars
  BY GoodbyeStep
<1> QED
  BY <1>1, IInvAlways, PTL DEF Spec, StaleGoodbyeIgnored

-----------------------------------------------------------------------------
(* Floor rounds, of sessions that are not started again: an observer p and *)
(* its relay, the peer.  The rounds of p are told apart by their numbers:  *)
(* whatever answers a request that p made after its last loss of a remote  *)
(* has a number above floor_prune_seq, and was computed after that loss.   *)

NotRestarted == \A p \in Peers : ep[p].conn_id = <<p, setup.start[p]>>

CurrentFloor(p, floor) ==
    /\ pruned[p] # <<>>
    /\ \E i \in Last(pruned[p]) .. view[Peer(p)] : \E reported \in ReportsOf(p) :
           floor = PessimisticFloor(Peer(p), i, reported)

\* A packet under way to p: requests and answers are numbered by requests made, an
\* answer of the current round has a current floor, a status is one the sender had.
RoundPacket(p, msg) ==
    /\ msg.type = "FloorRequest" => msg.round_seq <= ep[Peer(p)].floor_request_seq
    /\ msg.type = "FloorReply" =>
           /\ msg.round_seq <= ep[p].floor_request_seq
           /\ msg.round_seq > ep[p].floor_prune_seq => CurrentFloor(p, msg.floor)
    /\ msg.type = "Input" => msg.status \in ReportsOf(Peer(p))

\* The rounds of p, and what p knows as a relay of its peer's.
RoundInv(p) ==
    /\ \A i \in DOMAIN pruned[p] : pruned[p][i] <= view[Peer(p)]
    /\ ep[p].floor_request_seq > 0 => pruned[p] # <<>>
    /\ ep[p].floor_prune_seq <= ep[p].floor_request_seq
    /\ ep[p].floor_reply_seq <= ep[p].floor_request_seq
    /\ floor_round_is_fresh(ep[p]) => CurrentFloor(p, ep[p].round_floor)
    /\ ep[p].pending_floor_request <= ep[Peer(p)].floor_request_seq
    /\ ep[p].peer_connect_status.disconnected => ep[p].peer_connect_status \in ReportsOf(Peer(p))

FloorInv ==
    /\ pruned \in [Peers -> Seq(Nat)]
    /\ \A p \in Peers : RoundInv(p) /\ \A msg \in net[p] : RoundPacket(p, msg)

\* Views move on and requests are counted up; a loss that is noticed leaves the
\* requests made before it behind.
Ages ==
    /\ setup' = setup
    /\ \A p \in Peers :
           /\ view[p] <= view'[p]
           /\ ep[p].floor_request_seq <= ep'[p].floor_request_seq
           /\ \/ pruned'[p] = pruned[p] /\ ep'[p].floor_prune_seq = ep[p].floor_prune_seq
              \/ ep[p].floor_request_seq <= ep'[p].floor_prune_seq

\* The numbers of an endpoint, and the views.
LEMMA RoundTypes ==
    ASSUME IInv, NEW p \in Peers
    PROVE  /\ ep[p].floor_request_seq \in Nat /\ ep[p].floor_reply_seq \in Nat
           /\ ep[p].floor_prune_seq \in Nat /\ ep[p].pending_floor_request \in Nat
           /\ ep[p].peer_connect_status \in ConnectionStatus
           /\ view[p] \in Nat /\ view[p] \in DOMAIN Views[p] /\ view[p] >= 1
           /\ Views[p] \in Seq(ConnectionStatus)
<1>1. ep[p] \in Endpoint
  BY AtPeer
<1>2. Views[p] \in Seq(ConnectionStatus) /\ view[p] \in DOMAIN Views[p] /\ view[p] \in Nat
  BY SetupFacts DEF IInv, TypeInv
<1> QED
  BY <1>1, <1>2 DEF Endpoint

LEMMA ReportsGrow ==
    ASSUME IInv, IInv', setup' = setup, NEW p \in Peers, view[p] <= view'[p]
    PROVE  ReportsOf(p) \subseteq ReportsOf(p)'
<1>1. view[p] \in Nat /\ view'[p] \in Nat
  BY DEF IInv, TypeInv
<1>2. 1 .. view[p] \subseteq 1 .. view'[p]
  BY <1>1
<1>3. Views' = Views
  BY DEF Views
<1> QED
  BY <1>2, <1>3 DEF ReportsOf

LEMMA CurrentStays ==
    ASSUME IInv, IInv', setup' = setup, NEW p \in Peers, pruned \in [Peers -> Seq(Nat)],
           pruned'[p] = pruned[p], \A q \in Peers : view[q] <= view'[q],
           NEW floor, CurrentFloor(p, floor)
    PROVE  CurrentFloor(p, floor)'
<1>1. Peer(p) \in Peers
  BY PeerFacts
<1>2. PICK i \in Last(pruned[p]) .. view[Peer(p)], reported \in ReportsOf(p) :
          floor = PessimisticFloor(Peer(p), i, reported)
  BY DEF CurrentFloor
<1>3. view[Peer(p)] \in Nat /\ view'[Peer(p)] \in Nat
  BY <1>1 DEF IInv, TypeInv
<1>4. Last(pruned[p]) \in Nat /\ pruned[p] # <<>>
  BY DEF Last, CurrentFloor
<1>5. i \in Last(pruned'[p]) .. view'[Peer(p)]
  BY <1>1, <1>3, <1>4
<1>6. reported \in ReportsOf(p)'
  BY ReportsGrow
<1>7. floor = PessimisticFloor(Peer(p), i, reported)'
  BY <1>2 DEF PessimisticFloor, Views
<1> QED
  BY <1>4, <1>5, <1>6, <1>7 DEF CurrentFloor

\* A packet under way stays good.
LEMMA RoundPacketStable ==
    ASSUME IInv, IInv', FloorInv, Ages, NEW p \in Peers, NEW msg \in net[p]
    PROVE  RoundPacket(p, msg)'
<1>1. Peer(p) \in Peers /\ Peer(Peer(p)) = p
  BY PeerFacts
<1>2. RoundPacket(p, msg) /\ pruned \in [Peers -> Seq(Nat)]
  BY DEF FloorInv
<1>3. msg \in Packet
  BY AtPeer
<1>4. \A q \in Peers : /\ ep[q].floor_request_seq \in Nat /\ ep'[q].floor_request_seq \in Nat
                       /\ ep[q].floor_prune_seq \in Nat /\ ep'[q].floor_prune_seq \in Nat
  <2>1. \A q \in Peers : ep[q] \in Endpoint /\ ep'[q] \in Endpoint
    BY DEF IInv, TypeInv
  <2> QED
    BY <2>1 DEF Endpoint
<1>5. msg.type = "Input" => msg.status \in ReportsOf(Peer(p))'
  BY <1>1, <1>2, ReportsGrow DEF RoundPacket, Ages
<1>6. ASSUME msg.type = "FloorRequest"
      PROVE  msg.round_seq <= ep'[Peer(p)].floor_request_seq
  <2>1. msg.round_seq \in Nat
    BY <1>3, <1>6 DEF Packet
  <2> QED
    BY <1>1, <1>2, <1>4, <1>6, <2>1 DEF RoundPacket, Ages
<1>7. ASSUME msg.type = "FloorReply"
      PROVE  /\ msg.round_seq <= ep'[p].floor_request_seq
             /\ msg.round_seq > ep'[p].floor_prune_seq => CurrentFloor(p, msg.floor)'
  <2>1. msg.round_seq \in Nat
    BY <1>3, <1>7 DEF Packet
  <2>2. msg.round_seq <= ep[p].floor_request_seq /\ ep[p].floor_request_seq <= ep'[p].floor_request_seq
    BY <1>2, <1>7 DEF RoundPacket, Ages
  <2>3. msg.round_seq <= ep'[p].floor_request_seq
    BY <1>4, <2>1, <2>2
  <2>4. ASSUME msg.round_seq > ep'[p].floor_prune_seq
        PROVE  CurrentFloor(p, msg.floor)'
    <3>1. ~(ep[p].floor_request_seq <= ep'[p].floor_prune_seq)
      BY <1>4, <2>1, <2>2, <2>4
    <3>2. /\ pruned'[p] = pruned[p] /\ ep'[p].floor_prune_seq = ep[p].floor_prune_seq
          /\ setup' = setup /\ \A q \in Peers : view[q] <= view'[q]
      BY <3>1 DEF Ages
    <3>3. PICK floor : floor = msg.floor
      OBVIOUS
    <3>4. CurrentFloor(p, floor)
      BY <1>2, <1>7, <2>4, <3>2, <3>3 DEF RoundPacket
    <3>5. CurrentFloor(p, floor)'
      BY <1>2, <3>2, <3>4, CurrentStays
    <3> QED
      BY <3>3, <3>5
  <2> QED
    BY <2>3, <2>4
<1> QED
  BY <1>5, <1>6, <1>7 DEF RoundPacket

LEMMA RoundsStep ==
    ASSUME IInv, IInv', FloorInv, Ages, pruned' \in [Peers -> Seq(Nat)],
           \A p \in Peers : \A msg \in net'[p] : msg \in net[p] \/ RoundPacket(p, msg)',
           \A p \in Peers : RoundInv(p)'
    PROVE  FloorInv'
BY RoundPacketStable DEF FloorInv

-----------------------------------------------------------------------------
(* Steps that the rounds do not see.                                       *)

SameRounds(e, n) ==
    /\ n.round_floor = e.round_floor
    /\ n.floor_request_seq = e.floor_request_seq
    /\ n.floor_reply_seq = e.floor_reply_seq
    /\ n.floor_prune_seq = e.floor_prune_seq
    /\ n.pending_floor_request = e.pending_floor_request
    /\ n.peer_connect_status = e.peer_connect_status

\* A packet to p that starts or answers no round.
Uneventful(p, msg) ==
    \/ msg.type \in {"SyncRequest", "SyncReply", "Goodbye", "InputAck"}
    \/ msg.type = "Input" /\ msg.status = Status(Peer(p))
UneventfulNet == \A p \in Peers : \A msg \in net'[p] : msg \in net[p] \/ Uneventful(p, msg)

LEMMA UneventfulPacket ==
    ASSUME IInv, IInv', setup' = setup, \A q \in Peers : view[q] <= view'[q],
           NEW p \in Peers, NEW msg, Uneventful(p, msg)
    PROVE  RoundPacket(p, msg)'
<1>1. Peer(p) \in Peers
  BY PeerFacts
<1>2. view[Peer(p)] \in 1 .. view[Peer(p)]
  BY <1>1, RoundTypes
<1>3. Status(Peer(p)) \in ReportsOf(Peer(p))
  BY <1>2 DEF Status, ReportsOf
<1>4. ReportsOf(Peer(p)) \subseteq ReportsOf(Peer(p))'
  BY <1>1, ReportsGrow
<1> QED
  BY <1>3, <1>4 DEF Uneventful, RoundPacket

\* The rounds of p, when the endpoint's status and pending request are as good as they
\* were and its floor as it was.
LEMMA RoundInvKept ==
    ASSUME IInv, IInv', FloorInv, setup' = setup, NEW p \in Peers, pruned'[p] = pruned[p],
           \A q \in Peers : view[q] <= view'[q],
           \A q \in Peers : ep[q].floor_request_seq <= ep'[q].floor_request_seq,
           ep'[p].floor_request_seq > 0 => pruned[p] # <<>>,
           ep'[p].floor_prune_seq = ep[p].floor_prune_seq,
           \/ /\ ep'[p].floor_reply_seq = ep[p].floor_reply_seq
              /\ ep'[p].round_floor = ep[p].round_floor
           \/ /\ ep'[p].floor_reply_seq <= ep'[p].floor_request_seq
              /\ ep'[p].floor_reply_seq > ep'[p].floor_prune_seq => CurrentFloor(p, ep'[p].round_floor),
           \/ ep'[p].pending_floor_request = ep[p].pending_floor_request
           \/ ep'[p].pending_floor_request <= ep[Peer(p)].floor_request_seq,
           \/ ep'[p].peer_connect_status = ep[p].peer_connect_status
           \/ ep'[p].peer_connect_status.disconnected =>
                  ep'[p].peer_connect_status \in ReportsOf(Peer(p))
    PROVE  RoundInv(p)'
<1>1. Peer(p) \in Peers /\ Peer(Peer(p)) = p
  BY PeerFacts
<1>2. RoundInv(p) /\ pruned \in [Peers -> Seq(Nat)]
  BY DEF FloorInv
<1>3. \A q \in Peers : /\ ep[q].floor_request_seq \in Nat /\ ep'[q].floor_request_seq \in Nat
                       /\ ep[q].floor_prune_seq \in Nat /\ ep'[q].floor_prune_seq \in Nat
                       /\ ep[q].floor_reply_seq \in Nat /\ ep'[q].floor_reply_seq \in Nat
                       /\ ep[q].pending_floor_request \in Nat /\ ep'[q].pending_floor_request \in Nat
  <2>1. \A q \in Peers : ep[q] \in Endpoint /\ ep'[q] \in Endpoint
    BY DEF IInv, TypeInv
  <2> QED
    BY <2>1 DEF Endpoint
<1>4. view[Peer(p)] \in Nat /\ view'[Peer(p)] \in Nat
  BY <1>1 DEF IInv, TypeInv
<1>5. \A i \in DOMAIN pruned'[p] : pruned'[p][i] <= view'[Peer(p)]
  <2>1. \A i \in DOMAIN pruned[p] : pruned[p][i] \in Nat /\ pruned[p][i] <= view[Peer(p)]
    BY <1>2 DEF RoundInv
  <2>2. view[Peer(p)] <= view'[Peer(p)]
    BY <1>1
  <2> QED
    BY <1>4, <2>1, <2>2
<1>6. /\ ep[p].floor_prune_seq <= ep[p].floor_request_seq
      /\ ep[p].floor_reply_seq <= ep[p].floor_request_seq
      /\ ep[p].pending_floor_request <= ep[Peer(p)].floor_request_seq
  BY <1>2 DEF RoundInv
<1>7. /\ ep'[p].floor_prune_seq <= ep'[p].floor_request_seq
      /\ ep'[p].floor_reply_seq <= ep'[p].floor_request_seq
      /\ ep'[p].pending_floor_request <= ep'[Peer(p)].floor_request_seq
  BY <1>1, <1>3, <1>6
<1>8. ASSUME floor_round_is_fresh(ep'[p])
      PROVE  CurrentFloor(p, ep[p].round_floor)'
  <2>1. PICK floor : floor = ep'[p].round_floor
    OBVIOUS
  <2>2. CurrentFloor(p, floor)
    BY <1>2, <1>8, <2>1 DEF RoundInv, floor_round_is_fresh
  <2>3. CurrentFloor(p, floor)'
    BY <1>2, <2>2, CurrentStays
  <2> QED
    BY <2>1, <2>3 DEF CurrentFloor
<1>9. ep'[p].peer_connect_status.disconnected => ep'[p].peer_connect_status \in ReportsOf(Peer(p))'
  <2>1. ReportsOf(Peer(p)) \subseteq ReportsOf(Peer(p))'
    BY <1>1, ReportsGrow
  <2>2. ep[p].peer_connect_status.disconnected => ep[p].peer_connect_status \in ReportsOf(Peer(p))
    BY <1>2 DEF RoundInv
  <2> QED
    BY <2>1, <2>2
<1> QED
  BY <1>5, <1>7, <1>8, <1>9 DEF RoundInv

LEMMA QuietRounds ==
    ASSUME IInv, IInv', FloorInv, setup' = setup, pruned' = pruned,
           \A q \in Peers : view[q] <= view'[q],
           \A q \in Peers : SameRounds(ep[q], ep'[q]), UneventfulNet
    PROVE  FloorInv'
<1>1. pruned \in [Peers -> Seq(Nat)] /\ \A p \in Peers : RoundInv(p)
  BY DEF FloorInv
<1>2. \A q \in Peers : ep[q].floor_request_seq <= ep'[q].floor_request_seq
  BY RoundTypes DEF SameRounds
<1>3. Ages
  BY <1>1, <1>2 DEF Ages, SameRounds
<1>4. \A p \in Peers : \A msg \in net'[p] : msg \in net[p] \/ RoundPacket(p, msg)'
  BY UneventfulPacket DEF UneventfulNet
<1>5. ASSUME NEW p \in Peers
      PROVE  RoundInv(p)'
  <2>1. /\ ep'[p].floor_request_seq > 0 => pruned[p] # <<>>
        /\ ep'[p].floor_prune_seq = ep[p].floor_prune_seq
        /\ ep'[p].floor_reply_seq = ep[p].floor_reply_seq
        /\ ep'[p].round_floor = ep[p].round_floor
        /\ ep'[p].pending_floor_request = ep[p].pending_floor_request
        /\ ep'[p].peer_connect_status = ep[p].peer_connect_status
    BY <1>1 DEF SameRounds, RoundInv
  <2> QED
    BY <1>2, <2>1, RoundInvKept
<1> QED
  BY <1>1, <1>3, <1>4, <1>5, RoundsStep

LEMMA SendNews ==
    ASSUME IInv, NEW p \in Peers, NEW msg, Send(p, msg), Uneventful(Peer(p), msg)
    PROVE  UneventfulNet
<1>1. net \in [Peers -> SUBSET Packet] /\ Peer(p) \in Peers
  BY AtPeer, PeerFacts
<1>2. PICK packets \in Posted(net[Peer(p)], msg) : net' = [net EXCEPT ![Peer(p)] = packets]
  BY DEF Send
<1>3. packets \subseteq net[Peer(p)] \cup {msg}
  BY PostedPackets
<1> QED
  BY <1>1, <1>2, <1>3 DEF UneventfulNet

LEMMA ReplyNews ==
    ASSUME IInv, NEW p \in Peers, NEW msg, Uneventful(Peer(p), msg),
           NEW packets \in SUBSET net[p], NEW replies \in Posted(net[Peer(p)], msg),
           net' = [net EXCEPT ![p] = packets, ![Peer(p)] = replies]
    PROVE  UneventfulNet
<1>1. net \in [Peers -> SUBSET Packet] /\ Peer(p) \in Peers /\ Peer(p) # p
  BY AtPeer, PeerFacts
<1>2. replies \subseteq net[Peer(p)] \cup {msg}
  BY PostedPackets
<1> QED
  BY <1>1, <1>2 DEF UneventfulNet

LEMMA NoNews ==
    ASSUME IInv, NEW p \in Peers, NEW packets \in SUBSET net[p], net' = [net EXCEPT ![p] = packets]
    PROVE  UneventfulNet
<1>1. net \in [Peers -> SUBSET Packet]
  BY AtPeer
<1> QED
  BY <1>1 DEF UneventfulNet

\* A step of p, whose endpoint becomes n.
LEMMA QuietRoundsOf ==
    ASSUME IInv, IInv', FloorInv, setup' = setup, pruned' = pruned, view' = view,
           NEW p \in Peers, NEW n, ep' = [ep EXCEPT ![p] = n], SameRounds(ep[p], n), UneventfulNet
    PROVE  FloorInv'
<1>1. ep \in [Peers -> Endpoint]
  BY AtPeer
<1>2. \A q \in Peers : SameRounds(ep[q], ep'[q])
  BY <1>1 DEF SameRounds
<1>3. \A q \in Peers : view[q] <= view'[q]
  BY RoundTypes
<1> QED
  BY <1>2, <1>3, QuietRounds

LEMMA SyncRounds ==
    ASSUME IInv, IInv', FloorInv, NEW p \in Peers, NEW random \in Randoms,
           Synchronize(p, random) \/ RetrySync(p, random)
    PROVE  FloorInv'
<1>1. ep \in [Peers -> Endpoint] /\ ep[p] \in Endpoint
  BY AtPeer
<1>2. PICK n : n = ep'[p]
  OBVIOUS
<1>3. ep' = [ep EXCEPT ![p] = n] /\ SameRounds(ep[p], n)
  <2>1. CASE Synchronize(p, random)
    BY <1>1, <1>2, <2>1 DEF Synchronize, RequestSync, SameRounds, Endpoint
  <2>2. CASE RetrySync(p, random)
    BY <1>1, <1>2, <2>2 DEF RetrySync, RequestSync, SameRounds, Endpoint
  <2> QED
    BY <2>1, <2>2
<1>4. PICK msg : msg = SyncRequest(ep[p], random)
  OBVIOUS
<1>5. Send(p, msg) /\ Uneventful(Peer(p), msg)
  BY <1>4 DEF Synchronize, RetrySync, SyncRequest, Uneventful
<1>6. UneventfulNet
  BY <1>5, SendNews
<1>7. setup' = setup /\ pruned' = pruned /\ view' = view
  BY DEF Synchronize, RetrySync
<1> QED
  BY <1>3, <1>6, <1>7, QuietRoundsOf

\* ResendPending, Nudge and SendInput: the packet has the sender's status.
LEMMA InputRounds ==
    ASSUME IInv, IInv', FloorInv, NEW p \in Peers, ResendPending(p) \/ Nudge(p) \/ SendInput(p)
    PROVE  FloorInv'
<1>1. ep \in [Peers -> Endpoint] /\ ep[p] \in Endpoint /\ Peer(Peer(p)) = p
      /\ net \in [Peers -> SUBSET Packet] /\ net[p] \in SUBSET net[p]
  BY AtPeer, PeerFacts
<1>2. \A e : /\ Uneventful(Peer(p), InputPacket(e, Status(p)))
             /\ Uneventful(Peer(p), NudgePacket(e, Status(p)))
  BY <1>1 DEF Uneventful, InputPacket, NudgePacket
<1>3. setup' = setup /\ pruned' = pruned /\ view' = view
  BY DEF ResendPending, Nudge, SendInput
<1>4. CASE ResendPending(p) \/ Nudge(p)
  <2>1. UneventfulNet
    <3>1. PICK msg : Send(p, msg) /\ Uneventful(Peer(p), msg)
      BY <1>2, <1>4 DEF ResendPending, Nudge
    <3> QED
      BY <3>1, SendNews
  <2>2. ep' = [ep EXCEPT ![p] = ep[p]] /\ SameRounds(ep[p], ep[p])
    BY <1>1, <1>4 DEF ResendPending, Nudge, SameRounds
  <2> QED
    BY <1>3, <2>1, <2>2, QuietRoundsOf
<1>5. CASE SendInput(p)
  <2>1. PICK item : item = [frame |-> FirstFrame[p] + (Len(sent[p]) + 1) - 1,
                            input |-> Payload[p][Len(sent[p]) + 1]]
    OBVIOUS
  <2>2. PICK new : new = [ep[p] EXCEPT !.pending_output = Append(@, item)]
    OBVIOUS
  <2>3. PICK full : full = [ep[p] EXCEPT !.disconnected_event = TRUE]
    OBVIOUS
  <2>4. SameRounds(ep[p], new) /\ SameRounds(ep[p], full)
    BY <1>1, <2>2, <2>3 DEF SameRounds, Endpoint
  <2>5. \/ ep' = [ep EXCEPT ![p] = full] /\ net' = net
        \/ ep' = [ep EXCEPT ![p] = new] /\ Send(p, InputPacket(new, Status(p)))
    BY <1>5, <2>1, <2>2, <2>3 DEF SendInput
  <2>6. CASE ep' = [ep EXCEPT ![p] = full] /\ net' = net
    <3>1. UneventfulNet
      BY <2>6 DEF UneventfulNet
    <3> QED
      BY <1>3, <2>4, <2>6, <3>1, QuietRoundsOf
  <2>7. CASE ep' = [ep EXCEPT ![p] = new] /\ Send(p, InputPacket(new, Status(p)))
    <3>1. PICK msg : msg = InputPacket(new, Status(p))
      OBVIOUS
    <3>2. UneventfulNet
      BY <1>2, <2>7, <3>1, SendNews
    <3> QED
      BY <1>3, <2>4, <2>7, <3>2, QuietRoundsOf
  <2> QED
    BY <2>5, <2>6, <2>7
<1> QED
  BY <1>4, <1>5

LEMMA ChangeViewRounds ==
    ASSUME IInv, IInv', FloorInv, NEW p \in Peers, ChangeView(p)
    PROVE  FloorInv'
<1>1. view \in [Peers -> Nat]
  BY DEF IInv, TypeInv
<1>2. \A q \in Peers : view[q] <= view'[q]
  BY <1>1 DEF ChangeView
<1>3. UneventfulNet /\ \A q \in Peers : SameRounds(ep[q], ep'[q])
  BY DEF ChangeView, UneventfulNet, SameRounds
<1>4. setup' = setup /\ pruned' = pruned
  BY DEF ChangeView
<1> QED
  BY <1>2, <1>3, <1>4, QuietRounds

LEMMA LocalRounds ==
    ASSUME IInv, IInv', FloorInv, NEW p \in Peers,
           \/ Interrupt(p) \/ DisconnectTimeout(p) \/ DisconnectRemote(p) \/ Shutdown(p)
           \/ Disconnect(p) \/ \E msg \in net[p] : Lose(p, msg)
    PROVE  FloorInv'
<1>1. ep \in [Peers -> Endpoint] /\ ep[p] \in Endpoint /\ net \in [Peers -> SUBSET Packet]
  BY AtPeer
<1>2. setup' = setup /\ pruned' = pruned /\ view' = view
  BY DEF Interrupt, DisconnectTimeout, DisconnectRemote, Shutdown, Disconnect, Lose
<1>3. PICK n : n = ep'[p]
  OBVIOUS
<1>4. ep' = [ep EXCEPT ![p] = n] /\ SameRounds(ep[p], n)
  <2>1. CASE Interrupt(p)
    BY <1>1, <1>3, <2>1 DEF Interrupt, SameRounds, Endpoint
  <2>2. CASE DisconnectTimeout(p)
    BY <1>1, <1>3, <2>2 DEF DisconnectTimeout, SameRounds, Endpoint
  <2>3. CASE DisconnectRemote(p)
    BY <1>1, <1>3, <2>3 DEF DisconnectRemote, SameRounds, Endpoint
  <2>4. CASE Shutdown(p)
    BY <1>1, <1>3, <2>4 DEF Shutdown, SameRounds, Endpoint
  <2>5. CASE Disconnect(p)
    BY <1>1, <1>3, <2>5 DEF Disconnect, SameRounds, Endpoint
  <2>6. CASE \E msg \in net[p] : Lose(p, msg)
    BY <1>1, <1>3, <2>6 DEF Lose, SameRounds
  <2> QED
    BY <2>1, <2>2, <2>3, <2>4, <2>5, <2>6
<1>5. UneventfulNet
  <2>1. CASE Disconnect(p)
    <3>1. PICK msg : msg = Goodbye(ep[p])
      OBVIOUS
    <3>2. Send(p, msg) /\ Uneventful(Peer(p), msg)
      BY <2>1, <3>1 DEF Disconnect, Goodbye, Uneventful
    <3> QED
      BY <3>2, SendNews
  <2>2. CASE \E msg \in net[p] : Lose(p, msg)
    BY <1>1, <2>2 DEF Lose, UneventfulNet
  <2>3. CASE Interrupt(p) \/ DisconnectTimeout(p) \/ DisconnectRemote(p) \/ Shutdown(p)
    BY <2>3 DEF Interrupt, DisconnectTimeout, DisconnectRemote, Shutdown, UneventfulNet
  <2> QED
    BY <2>1, <2>2, <2>3
<1> QED
  BY <1>2, <1>4, <1>5, QuietRoundsOf

LEMMA ResumedRounds ==
    ASSUME NEW e \in Endpoint
    PROVE  SameRounds(e, Resumed(e))
BY DEF Resumed, SameRounds, Endpoint

LEMMA ObserveRounds ==
    ASSUME NEW e \in Endpoint, NEW config
    PROVE  SameRounds(e, observe_handshake(e, config))
BY DEF observe_handshake, SameRounds, Endpoint

LEMMA AckRounds ==
    ASSUME NEW e \in Endpoint, NEW ack
    PROVE  SameRounds(e, apply_ack_frame(e, ack))
<1> DEFINE k == AckedCount(e.pending_output, ack)
           pending == SubSeq(e.pending_output, k + 1, Len(e.pending_output))
           last == IF k = 0 THEN e.last_acked_input ELSE e.pending_output[k]
<1>1. apply_ack_frame(e, ack) = e
      \/ apply_ack_frame(e, ack) = [e EXCEPT !.pending_output = pending, !.last_acked_input = last]
  BY DEF apply_ack_frame
<1> HIDE DEF pending, last
<1>2. SameRounds(e, [e EXCEPT !.pending_output = pending, !.last_acked_input = last])
  BY DEF SameRounds, Endpoint
<1> QED
  BY <1>1, <1>2 DEF SameRounds

LEMMA HandshakeRounds ==
    ASSUME IInv, IInv', FloorInv, NEW p \in Peers, NEW msg \in net[p], NEW packets \in SUBSET net[p],
           \/ OnSyncRequest(p, msg, packets) \/ OnSyncReply(p, msg, packets)
           \/ OnGoodbye(p, msg, packets) \/ OnInputAck(p, msg, packets)
    PROVE  FloorInv'
<1>1. ep \in [Peers -> Endpoint] /\ ep[p] \in Endpoint
  BY AtPeer
<1>2. setup' = setup /\ pruned' = pruned /\ view' = view
  BY DEF OnSyncRequest, OnSyncReply, OnGoodbye, OnInputAck
<1>3. PICK resumed : resumed = Resumed(ep[p])
  OBVIOUS
<1>4. SameRounds(ep[p], resumed) /\ resumed \in Endpoint
  BY <1>1, <1>3, ResumedRounds, ResumedFacts
<1>5. CASE OnSyncRequest(p, msg, packets)
  <2>1. PICK n : n = IF ep[p].state = "Synchronizing" THEN observe_handshake(ep[p], msg.config)
                     ELSE Resumed(ep[p])
    OBVIOUS
  <2>2. SameRounds(ep[p], n)
    BY <1>1, <2>1, ResumedRounds, ObserveRounds
  <2>3. ep' = [ep EXCEPT ![p] = n]
    BY <1>5, <2>1 DEF OnSyncRequest
  <2>4. PICK reply : reply = SyncReply(ep[p], msg.random)
    OBVIOUS
  <2>5. Uneventful(Peer(p), reply)
    BY <2>4 DEF SyncReply, Uneventful
  <2>6. UneventfulNet
    BY <1>5, <2>4, <2>5, ReplyNews DEF OnSyncRequest
  <2> QED
    BY <1>2, <2>2, <2>3, <2>6, QuietRoundsOf
<1>6. CASE OnSyncReply(p, msg, packets)
  <2>1. PICK asked : asked = [ep[p] EXCEPT !.sync_random_requests = @ \ {msg.random}]
    OBVIOUS
  <2>2. PICK e : e = observe_handshake(asked, msg.config)
    OBVIOUS
  <2>3. PICK good : good = [e EXCEPT !.remote_conn_id = IF @ = NoConn THEN msg.conn ELSE @,
                                     !.sync_remaining_roundtrips = ep[p].sync_remaining_roundtrips - 1]
    OBVIOUS
  <2>4. asked \in Endpoint /\ SameRounds(ep[p], asked)
    BY <1>1, <2>1 DEF Endpoint, SameRounds
  <2>5. e \in Endpoint /\ SameRounds(ep[p], e)
    BY <2>2, <2>4, ObserveFacts, ObserveRounds DEF SameRounds
  <2>6. SameRounds(ep[p], good) /\ DOMAIN good = DOMAIN e
    BY <2>3, <2>5 DEF Endpoint, SameRounds
  <2>7. \E n : /\ ep' = [ep EXCEPT ![p] = n]
               /\ \/ /\ n = resumed \/ n = e \/ n = [good EXCEPT !.state = "Running"]
                     /\ net' = [net EXCEPT ![p] = packets]
                  \/ \E random \in Randoms :
                         /\ n = RequestSync(good, random)
                         /\ \E replies \in Posted(net[Peer(p)], SyncRequest(good, random)) :
                                net' = [net EXCEPT ![p] = packets, ![Peer(p)] = replies]
    BY <1>3, <1>6, <2>1, <2>2, <2>3, Zenon DEF OnSyncReply
  <2>8. PICK n : /\ ep' = [ep EXCEPT ![p] = n]
                 /\ \/ /\ n = resumed \/ n = e \/ n = [good EXCEPT !.state = "Running"]
                       /\ net' = [net EXCEPT ![p] = packets]
                    \/ \E random \in Randoms :
                           /\ n = RequestSync(good, random)
                           /\ \E replies \in Posted(net[Peer(p)], SyncRequest(good, random)) :
                                  net' = [net EXCEPT ![p] = packets, ![Peer(p)] = replies]
    BY <2>7
  <2>9. SameRounds(ep[p], n)
    <3>1. SameRounds(ep[p], [good EXCEPT !.state = "Running"])
      BY <2>3, <2>5, <2>6 DEF SameRounds, Endpoint
    <3>2. \A random : SameRounds(ep[p], RequestSync(good, random))
      BY <2>3, <2>5, <2>6 DEF SameRounds, Endpoint, RequestSync
    <3> QED
      BY <1>4, <2>5, <2>8, <3>1, <3>2
  <2>10. UneventfulNet
    <3>1. ASSUME NEW random \in Randoms, NEW replies \in Posted(net[Peer(p)], SyncRequest(good, random)),
                 net' = [net EXCEPT ![p] = packets, ![Peer(p)] = replies]
          PROVE  UneventfulNet
      <4>1. PICK request : request = SyncRequest(good, random)
        OBVIOUS
      <4>2. Uneventful(Peer(p), request)
        BY <4>1 DEF SyncRequest, Uneventful
      <4> QED
        BY <3>1, <4>1, <4>2, ReplyNews
    <3> QED
      BY <2>8, <3>1, NoNews
  <2> QED
    BY <1>2, <2>8, <2>9, <2>10, QuietRoundsOf
<1>7. CASE OnGoodbye(p, msg, packets)
  <2>1. PICK n : n = [resumed EXCEPT !.disconnected_event =
                                         resumed.disconnected_event \/ ~resumed.disconnect_event_sent,
                                     !.disconnect_event_sent = TRUE]
    OBVIOUS
  <2>2. ep' = [ep EXCEPT ![p] = n] /\ net' = [net EXCEPT ![p] = packets]
    BY <1>3, <1>7, <2>1 DEF OnGoodbye
  <2>3. SameRounds(ep[p], n)
    BY <1>4, <2>1 DEF SameRounds, Endpoint
  <2> QED
    BY <1>2, <2>2, <2>3, NoNews, QuietRoundsOf
<1>8. CASE OnInputAck(p, msg, packets)
  <2>1. PICK n : n = apply_ack_frame(resumed, msg.ack_frame)
    OBVIOUS
  <2>2. ep' = [ep EXCEPT ![p] = n] /\ net' = [net EXCEPT ![p] = packets]
    BY <1>3, <1>8, <2>1 DEF OnInputAck
  <2>3. SameRounds(ep[p], n)
    BY <1>4, <2>1, AckRounds DEF SameRounds
  <2> QED
    BY <1>2, <2>2, <2>3, NoNews, QuietRoundsOf
<1> QED
  BY <1>5, <1>6, <1>7, <1>8

-----------------------------------------------------------------------------
(* The steps of the rounds, and the status that an input packet brings.    *)

LEMMA MergeIsReported ==
    ASSUME NEW old \in ConnectionStatus, NEW new \in ConnectionStatus, NEW R,
           old.disconnected => old \in R, new \in R,
           merge_peer_connect_status(old, new).disconnected
    PROVE  merge_peer_connect_status(old, new) \in R
<1>1. old.last_frame \in Int /\ new.last_frame \in Int
      /\ old.disconnected \in BOOLEAN /\ new.disconnected \in BOOLEAN
  BY DEF ConnectionStatus
<1>2. CASE old.disconnected /\ new.disconnected
  <2>1. PICK m : m = Min({old.last_frame, new.last_frame})
    OBVIOUS
  <2>2. m = old.last_frame \/ m = new.last_frame
    <3>1. m \in {old.last_frame, new.last_frame}
      BY <1>1, <2>1, MinOfTwo
    <3> QED
      BY <3>1
  <2>3. merge_peer_connect_status(old, new) = [old EXCEPT !.last_frame = m]
    BY <1>2, <2>1 DEF merge_peer_connect_status
  <2>4. m = old.last_frame => [old EXCEPT !.last_frame = m] = old
    BY DEF ConnectionStatus
  <2>5. m = new.last_frame => [old EXCEPT !.last_frame = m] = new
    BY <1>1, <1>2 DEF ConnectionStatus
  <2> QED
    BY <1>2, <2>2, <2>3, <2>4, <2>5
<1>3. CASE new.disconnected /\ ~old.disconnected
  BY <1>3 DEF merge_peer_connect_status
<1>4. CASE old.disconnected /\ ~new.disconnected
  BY <1>4 DEF merge_peer_connect_status
<1>5. CASE ~old.disconnected /\ ~new.disconnected
  <2>1. PICK m : m = Max({old.last_frame, new.last_frame})
    OBVIOUS
  <2>2. merge_peer_connect_status(old, new) = [old EXCEPT !.last_frame = m]
    BY <1>5, <2>1 DEF merge_peer_connect_status
  <2>3. [old EXCEPT !.last_frame = m].disconnected = old.disconnected
    BY DEF ConnectionStatus
  <2> QED
    BY <1>5, <2>2, <2>3
<1> QED
  BY <1>1, <1>2, <1>3, <1>4, <1>5

\* The rounds' part of an endpoint, but for the connect status.
SameNumbers(e, n) ==
    /\ n.round_floor = e.round_floor
    /\ n.floor_request_seq = e.floor_request_seq
    /\ n.floor_reply_seq = e.floor_reply_seq
    /\ n.floor_prune_seq = e.floor_prune_seq
    /\ n.pending_floor_request = e.pending_floor_request

LEMMA ReceivedRounds ==
    ASSUME NEW e \in Endpoint, NEW msg, msg.status \in ConnectionStatus
    PROVE  /\ SameNumbers(e, Received(e, msg))
           /\ Received(e, msg).peer_connect_status =
                  merge_peer_connect_status(e.peer_connect_status, msg.status)
<1>1. PICK status : status = merge_peer_connect_status(e.peer_connect_status, msg.status)
  OBVIOUS
<1>2. status \in ConnectionStatus
  BY <1>1, MergeType DEF Endpoint
<1>3. PICK merged : merged = [e EXCEPT !.peer_connect_status = status]
  OBVIOUS
<1>4. merged \in Endpoint /\ SameNumbers(e, merged) /\ merged.peer_connect_status = status
  BY <1>2, <1>3 DEF Endpoint, SameNumbers
<1>5. PICK acked : acked = apply_ack_frame(merged, msg.ack_frame)
  OBVIOUS
<1>6. SameRounds(merged, acked) /\ DOMAIN acked = DOMAIN merged
  <2>1. DOMAIN acked = DOMAIN merged
    BY <1>5 DEF apply_ack_frame
  <2> QED
    BY <1>4, <1>5, <2>1, AckRounds
<1>7. \A new : SameRounds(acked, Stage(acked, new))
  <2>1. \A new : \E r : Stage(acked, new) = [acked EXCEPT !.recv_inputs = r]
    BY DEF Stage
  <2>2. \A r : SameRounds(acked, [acked EXCEPT !.recv_inputs = r])
    BY <1>4, <1>6 DEF SameRounds, Endpoint
  <2> QED
    BY <2>1, <2>2
<1>8. \/ Received(e, msg) = Stage(acked, Decode(e, msg))
      \/ Received(e, msg) = acked
      \/ Received(e, msg) = merged
  BY <1>1, <1>3, <1>5 DEF Received
<1>9. PICK n : n = Received(e, msg)
  OBVIOUS
<1>10. SameRounds(merged, n)
  BY <1>6, <1>7, <1>8, <1>9 DEF SameRounds
<1> QED
  BY <1>1, <1>4, <1>9, <1>10 DEF SameRounds, SameNumbers

LEMMA OnInputRounds ==
    ASSUME IInv, IInv', FloorInv, NEW p \in Peers, NEW msg \in net[p], NEW packets \in SUBSET net[p],
           OnInput(p, msg, packets)
    PROVE  FloorInv'
<1>1. /\ ep \in [Peers -> Endpoint] /\ ep[p] \in Endpoint /\ msg \in Packet
      /\ Peer(p) \in Peers /\ Peer(p) # p /\ \A q \in Peers : q = p \/ q = Peer(p)
  BY AtPeer, PeerFacts
<1>2. msg.type = "Input" /\ setup' = setup /\ pruned' = pruned /\ view' = view
  BY DEF OnInput
<1>3. msg.status \in ConnectionStatus /\ msg.status \in ReportsOf(Peer(p))
  BY <1>1, <1>2 DEF Packet, FloorInv, RoundPacket
<1>4. PICK e : e = Resumed(ep[p])
  OBVIOUS
<1>5. e \in Endpoint /\ SameRounds(ep[p], e)
  BY <1>1, <1>4, ResumedFacts, ResumedRounds
<1>6. PICK n : n = Received(e, msg)
  OBVIOUS
<1>7. SameNumbers(ep[p], n)
      /\ n.peer_connect_status = merge_peer_connect_status(ep[p].peer_connect_status, msg.status)
  BY <1>3, <1>5, <1>6, ReceivedRounds DEF SameRounds, SameNumbers
<1>8. ep' = [ep EXCEPT ![p] = n]
  BY <1>4, <1>6 DEF OnInput
<1>9. ep'[p] = n /\ ep'[Peer(p)] = ep[Peer(p)]
  BY <1>1, <1>8
<1>10. UneventfulNet
  <2>1. PICK ack : ack = InputAck(n)
    OBVIOUS
  <2>2. Uneventful(Peer(p), ack)
    BY <2>1 DEF InputAck, Uneventful
  <2>3. \/ \E replies \in Posted(net[Peer(p)], ack) : net' = [net EXCEPT ![p] = packets, ![Peer(p)] = replies]
        \/ net' = [net EXCEPT ![p] = packets]
    BY <1>4, <1>6, <2>1 DEF OnInput
  <2> QED
    BY <2>2, <2>3, ReplyNews, NoNews
<1>11. \A q \in Peers : SameNumbers(ep[q], ep'[q])
  BY <1>1, <1>7, <1>9 DEF SameNumbers
<1>12. n.peer_connect_status.disconnected => n.peer_connect_status \in ReportsOf(Peer(p))
  <2>1. ep[p].peer_connect_status.disconnected => ep[p].peer_connect_status \in ReportsOf(Peer(p))
    BY DEF FloorInv, RoundInv
  <2>2. ep[p].peer_connect_status \in ConnectionStatus
    BY RoundTypes
  <2> QED
    BY <1>3, <1>7, <2>1, <2>2, MergeIsReported
<1>13. \A q \in Peers : /\ ep[q].floor_request_seq <= ep'[q].floor_request_seq
                         /\ view[q] <= view'[q]
  BY <1>2, <1>11, RoundTypes DEF SameNumbers
<1>14. Ages
  BY <1>2, <1>11, <1>13 DEF Ages, SameNumbers
<1>15. ASSUME NEW q \in Peers
       PROVE  RoundInv(q)'
  <2>1. ep[q].floor_request_seq > 0 => pruned[q] # <<>>
    BY DEF FloorInv, RoundInv
  <2>2. \/ ep'[q].peer_connect_status = ep[q].peer_connect_status
        \/ ep'[q].peer_connect_status.disconnected => ep'[q].peer_connect_status \in ReportsOf(Peer(q))
    BY <1>1, <1>9, <1>12
  <2>3. SameNumbers(ep[q], ep'[q])
    BY <1>11
  <2> QED
    BY <1>2, <1>13, <2>1, <2>2, <2>3, RoundInvKept DEF SameNumbers
<1>16. \A q \in Peers : \A m \in net'[q] : m \in net[q] \/ RoundPacket(q, m)'
  BY <1>2, <1>10, <1>13, UneventfulPacket DEF UneventfulNet
<1>17. pruned' \in [Peers -> Seq(Nat)]
  BY <1>2 DEF FloorInv
<1> QED
  BY <1>14, <1>15, <1>16, <1>17, RoundsStep

\* drive_floor_round notices a loss: no answer under way is of the new round.
LEMMA NoticeRounds ==
    ASSUME IInv, IInv', FloorInv, NEW p \in Peers, NoticePrune(p)
    PROVE  FloorInv'
<1>1. /\ ep \in [Peers -> Endpoint] /\ ep[p] \in Endpoint
      /\ Peer(p) \in Peers /\ Peer(p) # p /\ \A q \in Peers : q = p \/ q = Peer(p)
  BY AtPeer, PeerFacts
<1>2. /\ setup' = setup /\ view' = view /\ net' = net
      /\ pruned' = [pruned EXCEPT ![p] = Append(@, view[Peer(p)])]
  BY DEF NoticePrune
<1>3. pruned \in [Peers -> Seq(Nat)] /\ \A q \in Peers : RoundInv(q)
  BY DEF FloorInv
<1>4. /\ view[Peer(p)] \in Nat
      /\ \A q \in Peers : ep[q].floor_request_seq \in Nat /\ ep[q].floor_reply_seq \in Nat /\ view[q] \in Nat
  BY <1>1, RoundTypes
<1>5. PICK n : n = [ep[p] EXCEPT !.floor_prune_seq = ep[p].floor_request_seq]
  OBVIOUS
<1>6. ep' = [ep EXCEPT ![p] = n]
  BY <1>5 DEF NoticePrune, reset_floor_freshness
<1>7. /\ n.floor_prune_seq = ep[p].floor_request_seq
      /\ n.floor_request_seq = ep[p].floor_request_seq
      /\ n.floor_reply_seq = ep[p].floor_reply_seq
      /\ n.pending_floor_request = ep[p].pending_floor_request
      /\ n.peer_connect_status = ep[p].peer_connect_status
  BY <1>1, <1>5 DEF Endpoint
<1>8. /\ ep'[p] = n /\ ep'[Peer(p)] = ep[Peer(p)] /\ pruned'[Peer(p)] = pruned[Peer(p)]
      /\ pruned'[p] = Append(pruned[p], view[Peer(p)]) /\ pruned' \in [Peers -> Seq(Nat)]
  BY <1>1, <1>2, <1>3, <1>4, <1>6
<1>9. \A q \in Peers : ep[q].floor_request_seq <= ep'[q].floor_request_seq /\ view[q] <= view'[q]
  <2>1. \A q \in Peers : ep'[q].floor_request_seq = ep[q].floor_request_seq
    BY <1>1, <1>7, <1>8
  <2> QED
    BY <1>2, <1>4, <2>1
<1>10. Ages
  <2>1. ep[p].floor_request_seq <= ep'[p].floor_prune_seq
    BY <1>4, <1>7, <1>8
  <2> QED
    BY <1>1, <1>2, <1>8, <1>9, <2>1 DEF Ages
<1>11. RoundInv(p)'
  <2>1. \A i \in DOMAIN pruned'[p] : pruned'[p][i] <= view'[Peer(p)]
    <3>1. pruned[p] \in Seq(Nat) /\ \A i \in DOMAIN pruned[p] : pruned[p][i] <= view[Peer(p)]
      BY <1>3 DEF RoundInv
    <3> QED
      BY <1>2, <1>4, <1>8, <3>1
  <2>2. pruned'[p] # <<>>
    <3>1. pruned[p] \in Seq(Nat)
      BY <1>3
    <3> QED
      BY <1>4, <1>8, <3>1
  <2>3. /\ ep'[p].floor_prune_seq <= ep'[p].floor_request_seq
        /\ ep'[p].floor_reply_seq <= ep'[p].floor_request_seq
        /\ ep'[p].pending_floor_request <= ep'[Peer(p)].floor_request_seq
    BY <1>3, <1>4, <1>7, <1>8 DEF RoundInv
  <2>4. ~floor_round_is_fresh(ep'[p])
    <3>1. ep[p].floor_reply_seq <= ep[p].floor_request_seq
      BY <1>3 DEF RoundInv
    <3> QED
      BY <1>4, <1>7, <1>8, <3>1 DEF floor_round_is_fresh
  <2>5. ep'[p].peer_connect_status.disconnected => ep'[p].peer_connect_status \in ReportsOf(Peer(p))'
    BY <1>1, <1>2, <1>3, <1>7, <1>8, <1>9, ReportsGrow DEF RoundInv
  <2> QED
    BY <2>1, <2>2, <2>3, <2>4, <2>5 DEF RoundInv
<1>12. RoundInv(Peer(p))'
  <2>1. ep[Peer(p)].floor_request_seq > 0 => pruned[Peer(p)] # <<>>
    BY <1>1, <1>3 DEF RoundInv
  <2> QED
    BY <1>1, <1>2, <1>8, <1>9, <2>1, RoundInvKept
<1> QED
  BY <1>1, <1>2, <1>8, <1>10, <1>11, <1>12, RoundsStep

\* A request is numbered above those that were made.
LEMMA RequestRounds ==
    ASSUME IInv, IInv', FloorInv, NEW p \in Peers, SendFloorRequest(p)
    PROVE  FloorInv'
<1>1. /\ ep \in [Peers -> Endpoint] /\ ep[p] \in Endpoint /\ net \in [Peers -> SUBSET Packet]
      /\ Peer(p) \in Peers /\ Peer(p) # p /\ Peer(Peer(p)) = p /\ \A q \in Peers : q = p \/ q = Peer(p)
  BY AtPeer, PeerFacts
<1>2. setup' = setup /\ view' = view /\ pruned' = pruned /\ pruned[p] # <<>>
  BY DEF SendFloorRequest, FloorRequestNeeded
<1>3. pruned \in [Peers -> Seq(Nat)] /\ \A q \in Peers : RoundInv(q)
  BY DEF FloorInv
<1>4. \A q \in Peers : ep[q].floor_request_seq \in Nat /\ view[q] \in Nat
  BY RoundTypes
<1>5. PICK seq : seq = ep[p].floor_request_seq + 1
  OBVIOUS
<1>6. PICK n : n = [ep[p] EXCEPT !.floor_request_seq = seq]
  OBVIOUS
<1>7. ep' = [ep EXCEPT ![p] = n] /\ Send(p, FloorRequest(ep[p], seq))
  BY <1>5, <1>6 DEF SendFloorRequest
<1>8. /\ n.floor_request_seq = seq
      /\ n.round_floor = ep[p].round_floor
      /\ n.floor_prune_seq = ep[p].floor_prune_seq
      /\ n.floor_reply_seq = ep[p].floor_reply_seq
      /\ n.pending_floor_request = ep[p].pending_floor_request
      /\ n.peer_connect_status = ep[p].peer_connect_status
  BY <1>1, <1>6 DEF Endpoint
<1>9. ep'[p] = n /\ ep'[Peer(p)] = ep[Peer(p)]
  BY <1>1, <1>7
<1>10. \A q \in Peers : ep[q].floor_request_seq <= ep'[q].floor_request_seq /\ view[q] <= view'[q]
  BY <1>1, <1>2, <1>4, <1>5, <1>8, <1>9
<1>11. Ages
  BY <1>1, <1>2, <1>8, <1>9, <1>10 DEF Ages
<1>12. RoundInv(p)'
  BY <1>2, <1>8, <1>9, <1>10, RoundInvKept
<1>13. RoundInv(Peer(p))'
  <2>1. ep[Peer(p)].floor_request_seq > 0 => pruned[Peer(p)] # <<>>
    BY <1>1, <1>3 DEF RoundInv
  <2> QED
    BY <1>1, <1>2, <1>9, <1>10, <2>1, RoundInvKept
<1>14. \A q \in Peers : \A msg \in net'[q] : msg \in net[q] \/ RoundPacket(q, msg)'
  <2>1. PICK request : request = FloorRequest(ep[p], seq)
    OBVIOUS
  <2>2. request.type = "FloorRequest" /\ request.round_seq = seq
    BY <2>1 DEF FloorRequest
  <2>3. seq <= ep'[p].floor_request_seq
    BY <1>4, <1>5, <1>8, <1>9
  <2>4. RoundPacket(Peer(p), request)'
    BY <1>1, <2>2, <2>3 DEF RoundPacket
  <2>5. PICK packets \in Posted(net[Peer(p)], request) : net' = [net EXCEPT ![Peer(p)] = packets]
    BY <1>7, <2>1 DEF Send
  <2>6. packets \subseteq net[Peer(p)] \cup {request}
    BY PostedPackets
  <2> QED
    BY <1>1, <2>4, <2>5, <2>6
<1> QED
  BY <1>1, <1>2, <1>3, <1>11, <1>12, <1>13, <1>14, RoundsStep

\* The floor a relay computes now is current for the observer.
LEMMA FloorNow ==
    ASSUME IInv, FloorInv, NEW p \in Peers, pruned[Peer(p)] # <<>>
    PROVE  CurrentFloor(Peer(p), PessimisticFloor(p, view[p], ep[p].peer_connect_status))
<1>1. Peer(p) \in Peers /\ Peer(Peer(p)) = p
  BY PeerFacts
<1>2. pruned[Peer(p)] \in Seq(Nat) /\ RoundInv(p) /\ RoundInv(Peer(p))
  BY <1>1 DEF FloorInv
<1>3. view[p] \in Nat
  BY RoundTypes
<1>4. Last(pruned[Peer(p)]) \in Nat /\ Last(pruned[Peer(p)]) <= view[p]
  BY <1>1, <1>2 DEF Last, RoundInv
<1>5. view[p] \in Last(pruned[Peer(p)]) .. view[p]
  BY <1>3, <1>4
<1>6. PICK status : status = ep[p].peer_connect_status
  OBVIOUS
<1>7. \E reported \in ReportsOf(Peer(p)) :
          PessimisticFloor(p, view[p], status) = PessimisticFloor(p, view[p], reported)
  <2>1. CASE status.disconnected
    BY <1>2, <1>6, <2>1 DEF RoundInv
  <2>2. CASE ~status.disconnected
    <3>1. NewStatus \in ReportsOf(Peer(p)) /\ ~NewStatus.disconnected
      BY DEF ReportsOf, NewStatus
    <3>2. \A reported : ~reported.disconnected =>
              {f \in {reported.last_frame} : reported.disconnected /\ f # NULL_FRAME} = {}
      OBVIOUS
    <3>3. PessimisticFloor(p, view[p], status) = PessimisticFloor(p, view[p], NewStatus)
      BY <2>2, <3>1, <3>2 DEF PessimisticFloor
    <3> QED
      BY <3>1, <3>3
  <2> QED
    BY <2>1, <2>2
<1> QED
  BY <1>1, <1>5, <1>6, <1>7 DEF CurrentFloor

LEMMA AnswerRounds ==
    ASSUME IInv, IInv', FloorInv, NEW p \in Peers, AnswerFloorRequest(p)
    PROVE  FloorInv'
<1>1. /\ ep \in [Peers -> Endpoint] /\ ep[p] \in Endpoint /\ net \in [Peers -> SUBSET Packet]
      /\ Peer(p) \in Peers /\ Peer(p) # p /\ Peer(Peer(p)) = p /\ \A q \in Peers : q = p \/ q = Peer(p)
  BY AtPeer, PeerFacts
<1>2. setup' = setup /\ view' = view /\ pruned' = pruned
  BY DEF AnswerFloorRequest
<1>3. pruned \in [Peers -> Seq(Nat)] /\ \A q \in Peers : RoundInv(q)
  BY DEF FloorInv
<1>4. \A q \in Peers : /\ ep[q].floor_request_seq \in Nat /\ view[q] \in Nat
                       /\ ep[q].floor_prune_seq \in Nat /\ ep[q].pending_floor_request \in Nat
  BY RoundTypes
<1>5. PICK n : n = [ep[p] EXCEPT !.pending_floor_request = 0]
  OBVIOUS
<1>6. ep' = [ep EXCEPT ![p] = n]
  BY <1>5 DEF AnswerFloorRequest
<1>7. /\ n.floor_request_seq = ep[p].floor_request_seq
      /\ n.round_floor = ep[p].round_floor
      /\ n.floor_prune_seq = ep[p].floor_prune_seq
      /\ n.floor_reply_seq = ep[p].floor_reply_seq
      /\ n.pending_floor_request = 0
      /\ n.peer_connect_status = ep[p].peer_connect_status
  BY <1>1, <1>5 DEF Endpoint
<1>8. ep'[p] = n /\ ep'[Peer(p)] = ep[Peer(p)]
  BY <1>1, <1>6
<1>9. \A q \in Peers : ep[q].floor_request_seq <= ep'[q].floor_request_seq /\ view[q] <= view'[q]
  BY <1>1, <1>2, <1>4, <1>7, <1>8
<1>10. Ages
  BY <1>1, <1>2, <1>7, <1>8, <1>9 DEF Ages
<1>11. RoundInv(p)' /\ RoundInv(Peer(p))'
  <2>1. \A q \in Peers : ep[q].floor_request_seq > 0 => pruned[q] # <<>>
    BY <1>3 DEF RoundInv
  <2>2. ep'[p].pending_floor_request <= ep[Peer(p)].floor_request_seq
    BY <1>1, <1>4, <1>7, <1>8
  <2>3. RoundInv(p)'
    BY <1>2, <1>7, <1>8, <1>9, <2>1, <2>2, RoundInvKept
  <2>4. RoundInv(Peer(p))'
    BY <1>1, <1>2, <1>8, <1>9, <2>1, RoundInvKept
  <2> QED
    BY <2>3, <2>4
<1>12. \A q \in Peers : \A msg \in net'[q] : msg \in net[q] \/ RoundPacket(q, msg)'
  <2>1. CASE ep[p].state # "Running"
    BY <2>1 DEF AnswerFloorRequest
  <2>2. CASE ep[p].state = "Running"
    <3>1. PICK floor : floor = PessimisticFloor(p, view[p], ep[p].peer_connect_status)
      OBVIOUS
    <3>2. PICK reply : reply = FloorReply(ep[p], floor)
      OBVIOUS
    <3>3. /\ reply.type = "FloorReply" /\ reply.floor = floor
          /\ reply.round_seq = ep[p].pending_floor_request
      BY <3>2 DEF FloorReply
    <3>4. reply.round_seq <= ep[Peer(p)].floor_request_seq
      BY <1>3, <3>3 DEF RoundInv
    <3>5. ASSUME reply.round_seq > ep[Peer(p)].floor_prune_seq
          PROVE  CurrentFloor(Peer(p), floor)'
      <4>1. ep[Peer(p)].floor_request_seq > 0
        BY <1>1, <1>4, <3>3, <3>4, <3>5
      <4>2. pruned[Peer(p)] # <<>>
        BY <1>1, <1>3, <4>1 DEF RoundInv
      <4>3. CurrentFloor(Peer(p), floor)
        BY <3>1, <4>2, FloorNow
      <4> QED
        BY <1>1, <1>2, <1>3, <1>9, <4>3, CurrentStays
    <3>6. RoundPacket(Peer(p), reply)'
      BY <1>8, <3>3, <3>4, <3>5 DEF RoundPacket
    <3>7. PICK packets \in Posted(net[Peer(p)], reply) : net' = [net EXCEPT ![Peer(p)] = packets]
      BY <2>2, <3>1, <3>2 DEF AnswerFloorRequest, Send
    <3>8. packets \subseteq net[Peer(p)] \cup {reply}
      BY PostedPackets
    <3> QED
      BY <1>1, <3>6, <3>7, <3>8
  <2> QED
    BY <2>1, <2>2
<1> QED
  BY <1>1, <1>2, <1>3, <1>10, <1>11, <1>12, RoundsStep

\* A request is remembered, or an answer of the round is taken.
LEMMA OnFloorRounds ==
    ASSUME IInv, IInv', FloorInv, NEW p \in Peers, NEW msg \in net[p], NEW packets \in SUBSET net[p],
           OnFloorRequest(p, msg, packets) \/ OnFloorReply(p, msg, packets)
    PROVE  FloorInv'
<1>1. /\ ep \in [Peers -> Endpoint] /\ ep[p] \in Endpoint /\ msg \in Packet
      /\ Peer(p) \in Peers /\ Peer(p) # p /\ \A q \in Peers : q = p \/ q = Peer(p)
  BY AtPeer, PeerFacts
<1>2. setup' = setup /\ view' = view /\ pruned' = pruned /\ net' = [net EXCEPT ![p] = packets]
  BY DEF OnFloorRequest, OnFloorReply
<1>3. pruned \in [Peers -> Seq(Nat)] /\ (\A q \in Peers : RoundInv(q)) /\ RoundPacket(p, msg)
  BY DEF FloorInv
<1>4. \A q \in Peers : /\ ep[q].floor_request_seq \in Nat /\ view[q] \in Nat
                       /\ ep[q].floor_prune_seq \in Nat /\ ep[q].pending_floor_request \in Nat
  BY RoundTypes
<1>5. PICK e : e = Resumed(ep[p])
  OBVIOUS
<1>6. e \in Endpoint /\ SameRounds(ep[p], e)
  BY <1>1, <1>5, ResumedFacts, ResumedRounds
<1>7. msg.round_seq \in Nat
  BY <1>1 DEF Packet, OnFloorRequest, OnFloorReply
<1>8. PICK n : n = ep'[p]
  OBVIOUS
<1>9. /\ ep' = [ep EXCEPT ![p] = n]
      /\ n.floor_request_seq = ep[p].floor_request_seq
      /\ n.floor_prune_seq = ep[p].floor_prune_seq
      /\ n.peer_connect_status = ep[p].peer_connect_status
      /\ \/ n.pending_floor_request = ep[p].pending_floor_request
         \/ n.pending_floor_request <= ep[Peer(p)].floor_request_seq
      /\ \/ n.floor_reply_seq = ep[p].floor_reply_seq /\ n.round_floor = ep[p].round_floor
         \/ /\ n.floor_reply_seq <= ep[p].floor_request_seq
            /\ n.floor_reply_seq > ep[p].floor_prune_seq => CurrentFloor(p, n.round_floor)
  <2>1. CASE OnFloorRequest(p, msg, packets)
    <3>1. PICK newest : newest = Max({e.pending_floor_request, msg.round_seq})
      OBVIOUS
    <3>2. e.pending_floor_request \in Nat /\ e.pending_floor_request = ep[p].pending_floor_request
      BY <1>4, <1>6 DEF SameRounds
    <3>3. newest = ep[p].pending_floor_request \/ newest = msg.round_seq
      BY <1>7, <3>1, <3>2, MaxOfTwo
    <3>4. msg.round_seq <= ep[Peer(p)].floor_request_seq
      BY <1>3, <2>1 DEF RoundPacket, OnFloorRequest
    <3>5. PICK m : m = [e EXCEPT !.pending_floor_request = newest]
      OBVIOUS
    <3>6. ep' = [ep EXCEPT ![p] = m]
      BY <1>5, <2>1, <3>1, <3>5 DEF OnFloorRequest
    <3>7. m = n
      BY <1>1, <1>8, <3>6
    <3>8. /\ m.pending_floor_request = newest
          /\ m.floor_request_seq = ep[p].floor_request_seq
          /\ m.floor_prune_seq = ep[p].floor_prune_seq
          /\ m.peer_connect_status = ep[p].peer_connect_status
          /\ m.floor_reply_seq = ep[p].floor_reply_seq /\ m.round_floor = ep[p].round_floor
      BY <1>6, <3>5 DEF Endpoint, SameRounds
    <3> QED
      BY <3>3, <3>4, <3>6, <3>7, <3>8
  <2>2. CASE OnFloorReply(p, msg, packets)
    <3>1. PICK m : m = [e EXCEPT !.round_floor = msg.floor, !.floor_reply_seq = msg.round_seq]
      OBVIOUS
    <3>2. \/ ep' = [ep EXCEPT ![p] = e]
          \/ ep' = [ep EXCEPT ![p] = m] /\ msg.round_seq <= e.floor_request_seq
      BY <1>5, <2>2, <3>1 DEF OnFloorReply
    <3>3. CASE ep' = [ep EXCEPT ![p] = e]
      BY <1>1, <1>6, <1>8, <3>3 DEF SameRounds
    <3>4. CASE ep' = [ep EXCEPT ![p] = m] /\ msg.round_seq <= e.floor_request_seq
      <4>1. m = n
        BY <1>1, <1>8, <3>4
      <4>2. /\ m.floor_reply_seq = msg.round_seq /\ m.round_floor = msg.floor
            /\ m.floor_request_seq = ep[p].floor_request_seq
            /\ m.floor_prune_seq = ep[p].floor_prune_seq
            /\ m.peer_connect_status = ep[p].peer_connect_status
            /\ m.pending_floor_request = ep[p].pending_floor_request
        BY <1>6, <3>1 DEF Endpoint, SameRounds
      <4>3. /\ msg.round_seq <= ep[p].floor_request_seq
            /\ msg.round_seq > ep[p].floor_prune_seq => CurrentFloor(p, msg.floor)
        BY <1>3, <2>2 DEF RoundPacket, OnFloorReply
      <4> QED
        BY <3>4, <4>1, <4>2, <4>3
    <3> QED
      BY <3>2, <3>3, <3>4
  <2> QED
    BY <2>1, <2>2
<1>10. ep'[p] = n /\ ep'[Peer(p)] = ep[Peer(p)]
  BY <1>1, <1>9
<1>11. \A q \in Peers : ep[q].floor_request_seq <= ep'[q].floor_request_seq /\ view[q] <= view'[q]
  BY <1>1, <1>2, <1>4, <1>9, <1>10
<1>12. Ages
  BY <1>1, <1>2, <1>9, <1>10, <1>11 DEF Ages
<1>13. RoundInv(p)' /\ RoundInv(Peer(p))'
  <2>1. \A q \in Peers : ep[q].floor_request_seq > 0 => pruned[q] # <<>>
    BY <1>3 DEF RoundInv
  <2>2. RoundInv(p)'
    BY <1>2, <1>9, <1>10, <1>11, <2>1, RoundInvKept
  <2>3. RoundInv(Peer(p))'
    BY <1>1, <1>2, <1>10, <1>11, <2>1, RoundInvKept
  <2> QED
    BY <2>2, <2>3
<1>14. net \in [Peers -> SUBSET Packet]
  BY AtPeer
<1>15. \A q \in Peers : net'[q] \subseteq net[q]
  BY <1>2, <1>14
<1> QED
  BY <1>1, <1>2, <1>3, <1>12, <1>13, <1>15, RoundsStep

-----------------------------------------------------------------------------

LEMMA InitRounds == Init => FloorInv
<1> SUFFICES ASSUME Init PROVE FloorInv
  OBVIOUS
<1>1. IInv
  BY InitInv
<1>2. ASSUME NEW p \in Peers
      PROVE  RoundInv(p) /\ net[p] = {} /\ pruned[p] = <<>>
  <2>1. /\ ep[p] = NewEndpoint(<<p, setup.start[p]>>) /\ net[p] = {} /\ pruned[p] = <<>>
        /\ Peer(p) \in Peers
    BY PeerFacts DEF Init
  <2>2. ep[Peer(p)].floor_request_seq \in Nat
    BY <1>1, <2>1, RoundTypes
  <2>3. /\ ep[p].floor_request_seq = 0 /\ ep[p].floor_reply_seq = 0 /\ ep[p].floor_prune_seq = 0
        /\ ep[p].pending_floor_request = 0 /\ ep[p].peer_connect_status = NewStatus
    BY <2>1 DEF NewEndpoint
  <2> QED
    BY <2>1, <2>2, <2>3 DEF RoundInv, floor_round_is_fresh, NewStatus
<1>3. pruned \in [Peers -> Seq(Nat)]
  BY DEF Init
<1> QED
  BY <1>2, <1>3 DEF FloorInv

LEMMA NextRounds == IInv /\ FloorInv /\ [Next]_vars /\ NotRestarted /\ NotRestarted' => FloorInv'
<1> SUFFICES ASSUME IInv, FloorInv, [Next]_vars, NotRestarted, NotRestarted' PROVE FloorInv'
  OBVIOUS
<1>1. IInv'
  BY NextInv
<1>2. CASE UNCHANGED vars
  <2>1. \A q \in Peers : SameRounds(ep[q], ep'[q]) /\ view[q] <= view'[q]
    BY <1>2, RoundTypes DEF vars, SameRounds
  <2>2. UneventfulNet /\ setup' = setup /\ pruned' = pruned
    BY <1>2 DEF vars, UneventfulNet
  <2> QED
    BY <1>1, <2>1, <2>2, QuietRounds
<1>3. CASE Next
  <2>1. PICK p \in Peers :
            \/ \E random \in Randoms : Synchronize(p, random) \/ RetrySync(p, random)
            \/ ResendPending(p) \/ Nudge(p) \/ SendInput(p)
            \/ ChangeView(p)
            \/ NoticePrune(p)
            \/ SendFloorRequest(p)
            \/ AnswerFloorRequest(p)
            \/ \E msg \in net[p] : Receive(p, msg) \/ ReceiveCopy(p, msg)
            \/ \/ Interrupt(p) \/ DisconnectTimeout(p) \/ DisconnectRemote(p) \/ Shutdown(p)
               \/ Disconnect(p) \/ \E msg \in net[p] : Lose(p, msg)
            \/ Restart(p)
    BY <1>3 DEF Next
  <2>2. CASE \E msg \in net[p] : Receive(p, msg) \/ ReceiveCopy(p, msg)
    <3>1. PICK msg \in net[p], packets \in SUBSET net[p] : Handle(p, msg, packets)
      BY <2>2, ReceiveHandles
    <3> QED
      BY <1>1, <3>1, OnInputRounds, HandshakeRounds, OnFloorRounds DEF Handle
  <2>3. ~Restart(p)
    <3> SUFFICES ASSUME Restart(p) PROVE FALSE
      OBVIOUS
    <3>1. ep[p] \in Endpoint /\ ep \in [Peers -> Endpoint] /\ setup' = setup
      BY AtPeer DEF Restart
    <3>2. ep[p].conn_id = <<p, setup.start[p]>> /\ ep'[p].conn_id = <<p, setup.start[p]>>
      BY <3>1 DEF NotRestarted
    <3>3. setup.start[p] \in Nat
      <4>1. setup.start[p] \in DOMAIN Config[p] /\ Config[p] \in Seq(STRING)
        BY SetupFacts DEF IInv, TypeInv
      <4> QED
        BY <4>1
    <3>4. ep'[p].conn_id = <<p, setup.start[p] + 1>>
      BY <3>1, <3>2 DEF Restart, NewEndpoint
    <3> QED
      BY <3>2, <3>3, <3>4
  <2>4. CASE \E random \in Randoms : Synchronize(p, random) \/ RetrySync(p, random)
    BY <1>1, <2>4, SyncRounds
  <2>5. CASE ResendPending(p) \/ Nudge(p) \/ SendInput(p)
    BY <1>1, <2>5, InputRounds
  <2>6. CASE ChangeView(p)
    BY <1>1, <2>6, ChangeViewRounds
  <2>7. CASE NoticePrune(p)
    BY <1>1, <2>7, NoticeRounds
  <2>8. CASE SendFloorRequest(p)
    BY <1>1, <2>8, RequestRounds
  <2>9. CASE AnswerFloorRequest(p)
    BY <1>1, <2>9, AnswerRounds
  <2>10. CASE \/ Interrupt(p) \/ DisconnectTimeout(p) \/ DisconnectRemote(p) \/ Shutdown(p)
              \/ Disconnect(p) \/ \E msg \in net[p] : Lose(p, msg)
    BY <1>1, <2>10, LocalRounds
  <2> QED
    BY <2>1, <2>2, <2>3, <2>4, <2>5, <2>6, <2>7, <2>8, <2>9, <2>10
<1> QED
  BY <1>2, <1>3

\* While neither process has been started again, a floor that the observer trusts is
\* one that the relay had after the observer's last loss of a remote, however late,
\* often and out of order answers to earlier requests arrive (on_floor_reply,
\* reset_floor_freshness).
THEOREM FreshFloors == Spec /\ []NotRestarted => []FreshFloorIsCurrent
<1>1. FloorInv => FreshFloorIsCurrent
  BY DEF FloorInv, RoundInv, CurrentFloor, FreshFloorIsCurrent
<1> QED
  BY <1>1, InitRounds, NextRounds, IInvAlways, PTL DEF Spec
=============================================================================
