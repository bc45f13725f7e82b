----------------------- MODULE CoordinatedDropProofs -----------------------
(***************************************************************************)
(* What the survivors of a mesh can rely on in a coordinated drop          *)
(* (CoordinatedDrop), proved for every mesh, with every number of peers,   *)
(* inputs and messages.                                                    *)
(*                                                                         *)
(* The invariant is DropInv.  For every mesh it says that every record has *)
(* its type and that what anybody holds of a target, or sends of it, is    *)
(* what that target submitted (PeerOK, Messages).  For a mesh with one     *)
(* target (IsSole) it says in addition what survivors say of each other    *)
(* (SoleNet) and how each one keeps to what it has said (SolePeer): its    *)
(* one inventory is its word, below which it holds confirmation until it   *)
(* has dropped the player.                                                 *)
(*                                                                         *)
(* A handler is shown to turn good work (Good) into good work, operator by *)
(* operator, and each step then keeps the invariant (StepInv, QuietStep).  *)
(***************************************************************************)
EXTENDS CoordinatedDrop, TLAPS, FiniteSetTheorems, WellFoundedInduction

-----------------------------------------------------------------------------
(* Induction, and the ends of sets of integers.                            *)

\* A set that holds 0 and is closed under successors up to N holds 0 .. N.
LEMMA RoundInduction ==
    ASSUME NEW N \in Nat, NEW G, 0 \in G, \A n \in 1 .. N : n - 1 \in G => n \in G
    PROVE  \A n \in 0 .. N : n \in G
<1> DEFINE R == OpToRel(<, Nat)
           T == (0 .. N) \ G
<1>1. SUFFICES ASSUME T # {} PROVE FALSE
  OBVIOUS
<1>2. IsWellFoundedOn(R, Nat)
  BY NatLessThanWellFounded, Zenon
<1>3. PICK m \in T : \A k \in T : <<k, m>> \notin R
  <2>1. T \subseteq Nat
    OBVIOUS
  <2> HIDE DEF R, T
  <2> QED BY <1>1, <1>2, <2>1, WFMin, Zenon
<1>4. \A k \in Nat : k < m => <<k, m>> \in R
  BY DEF OpToRel
<1>5. m \in 0 .. N /\ m # 0
  OBVIOUS
<1>6. m - 1 \in T /\ m - 1 \in Nat /\ m - 1 < m
  BY <1>5
<1> HIDE DEF R, T
<1> QED BY <1>3, <1>4, <1>6

\* A nonempty set of naturals has a least element.
LEMMA LeastNatural ==
    ASSUME NEW S \in SUBSET Nat, S # {}
    PROVE  \E m \in S : \A k \in S : m <= k
<1> DEFINE R == OpToRel(<, Nat)
<1>1. IsWellFoundedOn(R, Nat)
  BY NatLessThanWellFounded, Zenon
<1>2. PICK m \in S : \A k \in S : <<k, m>> \notin R
  <2> HIDE DEF R
  <2> QED BY <1>1, WFMin, Zenon
<1>3. \A k \in Nat : k < m => <<k, m>> \in R
  BY DEF OpToRel
<1> HIDE DEF R
<1>4. ASSUME NEW k \in S PROVE m <= k
  <2>1. <<k, m>> \notin R /\ k \in Nat /\ m \in Nat
    BY <1>2
  <2>2. ~(k < m)
    BY <1>3, <2>1
  <2> QED BY <2>1, <2>2
<1> QED BY <1>4

\* The least element of a set of integers that is bounded below.
LEMMA MinIsLeast ==
    ASSUME NEW b \in Int, NEW S \in SUBSET Int, S # {}, \A x \in S : x >= b
    PROVE  Min(S) \in S /\ \A y \in S : Min(S) <= y
<1> DEFINE T == {x - b : x \in S}
<1>1. T \in SUBSET Nat /\ T # {}
  <2>1. ASSUME NEW x \in S PROVE x - b \in Nat
    OBVIOUS
  <2>2. \E x \in S : TRUE
    OBVIOUS
  <2> QED BY <2>1, <2>2
<1>2. PICK m \in T : \A k \in T : m <= k
  <2> HIDE DEF T
  <2> QED BY <1>1, LeastNatural
<1>3. m + b \in S /\ \A y \in S : m + b <= y
  <2>1. PICK x \in S : m = x - b
    BY <1>2
  <2>2. m + b = x
    BY <2>1
  <2>3. ASSUME NEW y \in S PROVE m + b <= y
    <3>1. y - b \in T
      OBVIOUS
    <3>2. m <= y - b
      BY <1>2, <3>1
    <3> QED BY <3>2, <2>1
  <2> QED BY <2>2, <2>3
<1>4. \E x \in S : \A y \in S : x =< y
  BY <1>3
<1> HIDE DEF T
<1> QED BY <1>4, Zenon DEF Min

\* The greatest element of a set of integers that is bounded above.
LEMMA MaxIsGreatest ==
    ASSUME NEW b \in Int, NEW S \in SUBSET Int, S # {}, \A x \in S : x <= b
    PROVE  Max(S) \in S /\ \A y \in S : y <= Max(S)
<1> DEFINE T == {b - x : x \in S}
<1>1. T \in SUBSET Nat /\ T # {}
  <2>1. ASSUME NEW x \in S PROVE b - x \in Nat
    OBVIOUS
  <2>2. \E x \in S : TRUE
    OBVIOUS
  <2> QED BY <2>1, <2>2
<1>2. PICK m \in T : \A k \in T : m <= k
  <2> HIDE DEF T
  <2> QED BY <1>1, LeastNatural
<1>3. b - m \in S /\ \A y \in S : b - m >= y
  <2>1. PICK x \in S : m = b - x
    BY <1>2
  <2>2. b - m = x
    BY <2>1
  <2>3. ASSUME NEW y \in S PROVE b - m >= y
    <3>1. b - y \in T
      OBVIOUS
    <3>2. m <= b - y
      BY <1>2, <3>1
    <3> QED BY <3>2, <2>1
  <2> QED BY <2>2, <2>3
<1>4. \E x \in S : \A y \in S : x >= y
  BY <1>3
<1> HIDE DEF T
<1>5. Max(S) \in S /\ \A y \in S : Max(S) >= y
  BY <1>4, Zenon DEF Max
<1> QED BY <1>5

\* A finite set of integers is bounded.
LEMMA FiniteBounded ==
    ASSUME NEW S \in SUBSET Int, IsFiniteSet(S)
    PROVE  \E b \in Int : \A x \in S : x <= b
<1> DEFINE N == Cardinality(S)
<1>1. N \in Nat /\ ExistsBijection(1 .. N, S)
  BY FS_CardinalityType
<1>2. PICK f \in Bijection(1 .. N, S) : TRUE
  BY <1>1 DEF ExistsBijection
<1>3. f \in [1 .. N -> S] /\ \A x \in S : \E i \in 1 .. N : f[i] = x
  BY <1>2 DEF Bijection, Surjection, Injection
<1>3a. \A i \in 1 .. N : f[i] \in Int
  BY <1>3
<1> HIDE DEF N
<1> DEFINE G == {n \in 0 .. N : \E b \in Int : \A i \in 1 .. n : f[i] <= b}
<1>4. 0 \in G
  BY <1>1
<1>5. ASSUME NEW n \in 1 .. N, n - 1 \in G PROVE n \in G
  <2>1. PICK b \in Int : \A i \in 1 .. n - 1 : f[i] <= b
    BY <1>5
  <2>2. f[n] \in Int
    BY <1>3a
  <2> DEFINE c == IF f[n] <= b THEN b ELSE f[n]
  <2>3. c \in Int /\ \A i \in 1 .. n : f[i] <= c
    <3>1. ASSUME NEW i \in 1 .. n PROVE f[i] <= c
      <4>1. f[i] \in Int
        BY <1>1, <1>3a
      <4>2. i = n \/ i \in 1 .. n - 1
        OBVIOUS
      <4> QED BY <2>1, <2>2, <4>1, <4>2
    <3> QED BY <2>2, <3>1
  <2> HIDE DEF c
  <2> QED BY <2>3, <1>1
<1>6. \A n \in 0 .. N : n \in G
  <2> HIDE DEF G
  <2> QED BY <1>1, <1>4, <1>5, RoundInduction
<1>6a. N \in G
  <2>1. N \in 0 .. N
    BY <1>1
  <2> QED BY <1>6, <2>1
<1>7. PICK b \in Int : \A i \in 1 .. N : f[i] <= b
  BY <1>6a
<1> QED BY <1>3, <1>7

-----------------------------------------------------------------------------
(* A mesh and its frames.  What follows is stated for a mesh M, so that it *)
(* can be used before and after a step alike: no step changes the mesh.    *)

IsMesh(M) ==
    /\ M.peers \subseteq Nat /\ IsFiniteSet(M.peers)
    /\ DOMAIN M.stream \subseteq M.peers
    /\ \A t \in DOMAIN M.stream : M.stream[t] \in Seq(Input) /\ Len(M.stream[t]) >= Known
    /\ M.requests \subseteq {r \in M.peers \X DOMAIN M.stream : r[1] # r[2]}

LEMMA ScenariosAreMeshes == \A M \in Scenarios : IsMesh(M)
  BY ScenarioAssumption DEF IsMesh

OthersOf(M, p) == DOMAIN M.stream \ {p}
LastOf(M) == Max({0} \cup {Len(M.stream[t]) - 1 : t \in DOMAIN M.stream})
FrameOf(M) == 0 .. LastOf(M)
FrameOrNullOf(M) == FrameOf(M) \cup {NULL_FRAME}

LEMMA LastOfMesh ==
    ASSUME NEW M, IsMesh(M)
    PROVE  /\ LastOf(M) \in Nat
           /\ \A t \in DOMAIN M.stream : Len(M.stream[t]) \in Nat /\ Len(M.stream[t]) <= LastOf(M) + 1
           /\ 0 \in FrameOf(M)
<1> DEFINE T == DOMAIN M.stream
           f == [t \in T |-> Len(M.stream[t]) - 1]
           S == {f[t] : t \in T}
           F == {0} \cup S
<1>1. IsFiniteSet(T)
  BY FS_Subset DEF IsMesh
<1>2. f \in Surjection(T, S)
  BY DEF Surjection
<1>3. IsFiniteSet(S)
  BY <1>1, <1>2, FS_Surjection
<1>4. \A t \in T : Len(M.stream[t]) \in Nat
  <2> TAKE t \in T
  <2>1. M.stream[t] \in Seq(Input)
    BY DEF IsMesh
  <2> QED BY <2>1
<1>5. F \in SUBSET Int /\ F # {} /\ IsFiniteSet(F)
  <2>1. IsFiniteSet(S \cup {0})
    BY <1>3, FS_AddElement
  <2>2. F = S \cup {0}
    OBVIOUS
  <2>3. \A t \in T : f[t] \in Int
    BY <1>4
  <2>4. S \in SUBSET Int
    BY <2>3
  <2> HIDE DEF S
  <2>5. F \in SUBSET Int /\ F # {}
    BY <2>4
  <2> HIDE DEF F
  <2> QED BY <2>1, <2>2, <2>5
<1>6. PICK b \in Int : \A x \in F : x <= b
  <2> HIDE DEF F
  <2> QED BY <1>5, FiniteBounded
<1>7. Max(F) \in F /\ \A y \in F : y <= Max(F)
  <2> HIDE DEF F
  <2> QED BY <1>5, <1>6, MaxIsGreatest
<1>8. F = {0} \cup {Len(M.stream[t]) - 1 : t \in DOMAIN M.stream}
  <2>1. \A t \in T : f[t] = Len(M.stream[t]) - 1
    OBVIOUS
  <2> QED BY <2>1
<1>9. LastOf(M) = Max(F)
  BY <1>8 DEF LastOf
<1>10. 0 \in F /\ \A t \in T : Len(M.stream[t]) - 1 \in F
  BY <1>8
<1> HIDE DEF F, S, f
<1>11. LastOf(M) \in Int /\ 0 <= LastOf(M)
  BY <1>5, <1>7, <1>9, <1>10
<1>12. ASSUME NEW t \in T PROVE Len(M.stream[t]) \in Nat /\ Len(M.stream[t]) <= LastOf(M) + 1
  <2>1. Len(M.stream[t]) - 1 <= LastOf(M)
    BY <1>7, <1>9, <1>10
  <2> QED BY <1>4, <1>11, <2>1
<1> QED BY <1>11, <1>12 DEF FrameOf

-----------------------------------------------------------------------------
(* What is said in a mesh, and what a peer keeps.                          *)

Ops(M) == [target : DOMAIN M.stream, coordinator : M.peers]

\* The input of the target at a frame is the one it submitted.
IsReal(M, t, frame, value) ==
    frame < Len(M.stream[t]) /\ value = M.stream[t][frame + 1]

Prepares(M) == [type : {"Prepare"}, op : Ops(M), participants : SUBSET M.peers]
Reports(M) == [type : {"Inventory"}, op : Ops(M), participant : M.peers, exposed : FrameOf(M),
               available_from : FrameOrNullOf(M), through : FrameOrNullOf(M)]
Certificates(M, type) == [type : {type}, op : Ops(M), participant : M.peers,
                          cut : FrameOf(M) \cup {None}, digest : Input \cup {None}]
Commits(M) == [type : {"Commit"}, op : Ops(M), cut : FrameOf(M) \cup {None}, digest : Input \cup {None}]
Chunks(M) == {c \in [type : {"Backfill"}, op : Ops(M), index : Int, count : Int,
                     frame : FrameOf(M), value : Input] :
                  Known >= 1 => IsReal(M, c.op.target, c.frame, c.value)}
Aborts(M) == [type : {"Abort"}, op : Ops(M), reason : Reasons]
Bodies(M) == Prepares(M) \cup Reports(M) \cup Certificates(M, "Ready") \cup Certificates(M, "Committed")
                 \cup Commits(M) \cup Chunks(M) \cup Aborts(M)
Messages(M) == [from : M.peers, to : M.peers, body : Bodies(M)]

Attempts(M, p) ==
    [op : Ops(M), participants : SUBSET M.peers, held_at : FrameOf(M), phase : Phases,
     reports : SUBSET Reports(M), ready : SUBSET M.peers,
     transcripts : SUBSET Certificates(M, "Ready"), committed_acks : SUBSET M.peers,
     cut : FrameOf(M) \cup {None}, cut_digest : Input \cup {None},
     pending_commit : Commits(M) \cup {None},
     backfill_chunks : SUBSET Chunks(M), relayed_backfill : SUBSET Chunks(M),
     next_backfill_chunk : Int]

\* An attempt of peer p: it takes part, the target is another one, something has
\* been reported, and the cut is known from the second phase on.
AttemptOK(M, p, a) ==
    /\ a \in Attempts(M, p)
    /\ p \in a.participants
    /\ a.op.target # p
    /\ a.reports # {}
    /\ a.phase = "Inventory" <=> a.cut = None
    /\ \A c \in a.backfill_chunks : c.op.target = a.op.target

\* The prepares a peer puts off: of the drop of another one.
Deferrable(M, p) == {m \in Prepares(M) : m.op.target # p}

PeerRecords(M, p) ==
    [values   : [OthersOf(M, p) -> Seq(Input)],
     first    : [OthersOf(M, p) -> FrameOf(M)],
     receipt  : [OthersOf(M, p) -> FrameOrNullOf(M)],
     dropped  : [OthersOf(M, p) -> FrameOrNullOf(M)],
     running  : SUBSET (M.peers \ {p}),
     exposed  : FrameOrNullOf(M),
     ceiling  : FrameOrNullOf(M) \cup {None},
     active   : Attempts(M, p) \cup {None},
     queued   : SUBSET OthersOf(M, p),
     deferred : Seq(Deferrable(M, p)),
     closed   : SUBSET Ops(M),
     failure  : Reasons \cup {None}]

\* The inputs held of target t: no more than there are frames, and, if everyone
\* starts with an input of it, those it submitted.
ValuesOK(M, t, v) ==
    /\ Len(v) <= LastOf(M) + 1
    /\ Known >= 1 => Len(v) >= 1 /\ Len(v) <= Len(M.stream[t])
                        /\ \A i \in 1 .. Len(v) : v[i] = M.stream[t][i]

PeerOK(M, p, s) ==
    /\ s \in PeerRecords(M, p)
    /\ \A t \in OthersOf(M, p) : ValuesOK(M, t, s.values[t]) /\ s.dropped[t] < Len(s.values[t])
    /\ s.active # None => AttemptOK(M, p, s.active)

Works(M, p) == [s : PeerRecords(M, p), out : SUBSET Messages(M), error : Reasons \cup {None}]

WorkOK(M, p, w) == w \in Works(M, p) /\ PeerOK(M, p, w.s)

-----------------------------------------------------------------------------
(* Updates of a record.                                                    *)

LEMMA WithActive ==
    ASSUME NEW M, NEW p, NEW s, PeerOK(M, p, s), NEW a, a = None \/ AttemptOK(M, p, a)
    PROVE  /\ PeerOK(M, p, [s EXCEPT !.active = a])
           /\ [s EXCEPT !.active = a].active = a
           /\ [s EXCEPT !.active = a].values = s.values
           /\ [s EXCEPT !.active = a].first = s.first
           /\ [s EXCEPT !.active = a].receipt = s.receipt
           /\ [s EXCEPT !.active = a].dropped = s.dropped
           /\ [s EXCEPT !.active = a].running = s.running
           /\ [s EXCEPT !.active = a].exposed = s.exposed
           /\ [s EXCEPT !.active = a].ceiling = s.ceiling
           /\ [s EXCEPT !.active = a].queued = s.queued
           /\ [s EXCEPT !.active = a].deferred = s.deferred
           /\ [s EXCEPT !.active = a].closed = s.closed
           /\ [s EXCEPT !.active = a].failure = s.failure
<1> DEFINE u == [s EXCEPT !.active = a]
<1>1. s \in PeerRecords(M, p) /\ (a \in Attempts(M, p) \/ a = None)
  BY DEF PeerOK, AttemptOK
<1>2. u \in PeerRecords(M, p)
  BY <1>1 DEF PeerRecords
<1>3. /\ u.active = a
      /\ u.values = s.values
      /\ u.first = s.first
      /\ u.receipt = s.receipt
      /\ u.dropped = s.dropped
      /\ u.running = s.running
      /\ u.exposed = s.exposed
      /\ u.ceiling = s.ceiling
      /\ u.queued = s.queued
      /\ u.deferred = s.deferred
      /\ u.closed = s.closed
      /\ u.failure = s.failure
  BY <1>1 DEF PeerRecords
<1> HIDE DEF u
<1>4. PeerOK(M, p, u)
  BY <1>2, <1>3 DEF PeerOK
<1> QED BY <1>3, <1>4 DEF u

-----------------------------------------------------------------------------
(* Reading a peer.                                                         *)

LEMMA ThroughType ==
    ASSUME NEW M, IsMesh(M), NEW p, NEW s, PeerOK(M, p, s), NEW t \in OthersOf(M, p)
    PROVE  /\ s.values[t] \in Seq(Input)
           /\ Len(s.values[t]) \in Nat
           /\ Through(s, t) = Len(s.values[t]) - 1
           /\ Through(s, t) \in FrameOrNullOf(M)
           /\ Through(s, t) \in Int
           /\ Through(s, t) <= LastOf(M)
<1>1. s.values[t] \in Seq(Input)
  BY DEF PeerOK, PeerRecords
<1>2. Len(s.values[t]) \in Nat
  BY <1>1
<1>3. Len(s.values[t]) <= LastOf(M) + 1 /\ LastOf(M) \in Nat
  BY LastOfMesh DEF PeerOK, ValuesOK
<1> QED BY <1>1, <1>2, <1>3 DEF Through, FrameOrNullOf, FrameOf, NULL_FRAME

LEMMA HeldType ==
    ASSUME NEW M, IsMesh(M), NEW p, NEW s, PeerOK(M, p, s), NEW t \in OthersOf(M, p),
           NEW f \in Int, Held(s, t, f) # None
    PROVE  /\ f \in FrameOf(M)
           /\ s.first[t] <= f /\ f <= Through(s, t)
           /\ Held(s, t, f) \in Input
           /\ Known >= 1 => IsReal(M, t, f, Held(s, t, f))
<1>1. /\ s.values[t] \in Seq(Input) /\ Len(s.values[t]) \in Nat
      /\ Through(s, t) = Len(s.values[t]) - 1 /\ Through(s, t) <= LastOf(M)
  BY ThroughType
<1>2. s.first[t] \in FrameOf(M)
  BY DEF PeerOK, PeerRecords
<1>3. LastOf(M) \in Nat /\ (t \in DOMAIN M.stream => Len(M.stream[t]) \in Nat)
  BY LastOfMesh
<1>4. s.first[t] \in Int /\ s.first[t] >= 0
  BY <1>2, <1>3 DEF FrameOf
<1>5. s.first[t] <= f /\ f <= Through(s, t) /\ Held(s, t, f) = s.values[t][f + 1]
  <2>1. ~(f < s.first[t] \/ f > Through(s, t))
    BY DEF Held
  <2> QED BY <1>1, <1>4, <2>1 DEF Held
<1>6. f + 1 \in 1 .. Len(s.values[t]) /\ f \in FrameOf(M)
  BY <1>1, <1>3, <1>4, <1>5 DEF FrameOf
<1>7. s.values[t][f + 1] \in Input
  BY <1>1, <1>6
<1>8. ASSUME Known >= 1 PROVE IsReal(M, t, f, Held(s, t, f))
  <2>1. Len(s.values[t]) <= Len(M.stream[t]) /\ s.values[t][f + 1] = M.stream[t][f + 1]
    BY <1>6, <1>8 DEF PeerOK, ValuesOK
  <2>2. t \in DOMAIN M.stream
    BY DEF OthersOf
  <2>3. f < Len(M.stream[t])
    BY <1>1, <1>3, <1>6, <2>1, <2>2
  <2> QED BY <1>5, <2>1, <2>3 DEF IsReal
<1> QED BY <1>5, <1>6, <1>7, <1>8

LEMMA OpTarget ==
    ASSUME NEW M, NEW p, NEW a, AttemptOK(M, p, a)
    PROVE  a.op \in Ops(M) /\ a.op.target \in OthersOf(M, p) /\ a.participants \subseteq M.peers
  BY DEF AttemptOK, Attempts, Ops, OthersOf

-----------------------------------------------------------------------------
(* Sending.                                                                *)

Sent(s, p, t, bodies) == {[from |-> p, to |-> q, body |-> b] : q \in s.running \ {t}, b \in bodies}
Told(w, p, t, bodies) == w.out \cup Sent(w.s, p, t, bodies)

LEMMA BroadcastOK ==
    ASSUME NEW M, NEW p \in M.peers, NEW w, WorkOK(M, p, w), NEW t,
           NEW bodies \in SUBSET Bodies(M)
    PROVE  /\ WorkOK(M, p, Broadcast(w, p, t, bodies))
           /\ Broadcast(w, p, t, bodies).s = w.s
           /\ Broadcast(w, p, t, bodies).error = w.error
           /\ Broadcast(w, p, t, bodies).out = Told(w, p, t, bodies)
<1> DEFINE u == Broadcast(w, p, t, bodies)
<1>1. u.s = w.s /\ u.error = w.error /\ u.out = Told(w, p, t, bodies)
  BY DEF WorkOK, Works, Broadcast, Sent, Told
<1>2. w.s.running \subseteq M.peers
  BY DEF WorkOK, Works, PeerRecords
<1>3. Sent(w.s, p, t, bodies) \subseteq Messages(M)
  BY <1>2 DEF Sent, Messages
<1>4. u = [s |-> u.s, out |-> u.out, error |-> u.error]
  BY DEF WorkOK, Works, Broadcast
<1> HIDE DEF u
<1>5. u \in Works(M, p)
  BY <1>1, <1>3, <1>4 DEF WorkOK, Works, Told
<1>6. WorkOK(M, p, u)
  BY <1>1, <1>5 DEF WorkOK
<1> QED BY <1>1, <1>6 DEF u

\* A handler's result with another peer, or another error.
LEMMA WithPeer ==
    ASSUME NEW M, NEW p, NEW w, WorkOK(M, p, w), NEW s, PeerOK(M, p, s)
    PROVE  /\ WorkOK(M, p, [w EXCEPT !.s = s])
           /\ [w EXCEPT !.s = s].s = s
           /\ [w EXCEPT !.s = s].out = w.out
           /\ [w EXCEPT !.s = s].error = w.error
<1> DEFINE u == [w EXCEPT !.s = s]
<1>1. u.s = s /\ u.out = w.out /\ u.error = w.error
  BY DEF WorkOK, Works
<1>2. u \in Works(M, p)
  BY DEF WorkOK, Works, PeerOK
<1> HIDE DEF u
<1>3. WorkOK(M, p, u)
  BY <1>1, <1>2 DEF WorkOK
<1> QED BY <1>1, <1>3 DEF u

LEMMA WithError ==
    ASSUME NEW M, NEW p, NEW w, WorkOK(M, p, w), NEW e \in Reasons \cup {None}
    PROVE  /\ WorkOK(M, p, [w EXCEPT !.error = e])
           /\ [w EXCEPT !.error = e].s = w.s
           /\ [w EXCEPT !.error = e].out = w.out
           /\ [w EXCEPT !.error = e].error = e
<1> DEFINE u == [w EXCEPT !.error = e]
<1>1. u.s = w.s /\ u.out = w.out /\ u.error = e
  BY DEF WorkOK, Works
<1>2. u \in Works(M, p)
  BY DEF WorkOK, Works
<1> HIDE DEF u
<1>3. WorkOK(M, p, u)
  BY <1>1, <1>2 DEF WorkOK
<1> QED BY <1>1, <1>3 DEF u

LEMMA FailsOK ==
    ASSUME NEW M, NEW p, NEW w, WorkOK(M, p, w), NEW reason \in Reasons
    PROVE  /\ WorkOK(M, p, Fails(w, reason))
           /\ Fails(w, reason).s = w.s /\ Fails(w, reason).out = w.out
           /\ Fails(w, reason).error = reason
  BY WithError DEF Fails

\* The attempt of a handler's result is replaced.
LEMMA WithAttempt ==
    ASSUME NEW M, NEW p, NEW w, WorkOK(M, p, w), NEW a, a = None \/ AttemptOK(M, p, a)
    PROVE  /\ WorkOK(M, p, [w EXCEPT !.s.active = a])
           /\ [w EXCEPT !.s.active = a].s = [w.s EXCEPT !.active = a]
           /\ [w EXCEPT !.s.active = a].s.active = a
           /\ [w EXCEPT !.s.active = a].out = w.out
           /\ [w EXCEPT !.s.active = a].error = w.error
<1> DEFINE s == [w.s EXCEPT !.active = a]
<1>1. PeerOK(M, p, s) /\ s.active = a
  BY WithActive DEF WorkOK
<1>2. [w EXCEPT !.s.active = a] = [w EXCEPT !.s = s]
  BY DEF WorkOK, Works
<1> HIDE DEF s
<1> DEFINE u == [w EXCEPT !.s = s]
<1>3. WorkOK(M, p, u) /\ u.s = s /\ u.out = w.out /\ u.error = w.error
  BY <1>1, WithPeer
<1> HIDE DEF u
<1>4. [w EXCEPT !.s.active = a] = u
  BY <1>2 DEF u
<1> QED BY <1>1, <1>3, <1>4 DEF s

-----------------------------------------------------------------------------
(* Ending an attempt.                                                      *)

Closed(s, reason) ==
    [FailClosedAt(Close(s), s.active.held_at) EXCEPT !.failure = reason]

LEMMA CloseOK ==
    ASSUME NEW M, NEW p, NEW s, PeerOK(M, p, s), s.active # None
    PROVE  /\ PeerOK(M, p, Close(s))
           /\ Close(s).active = None
           /\ Close(s).closed = s.closed \cup {s.active.op}
           /\ Close(s).values = s.values
           /\ Close(s).first = s.first
           /\ Close(s).receipt = s.receipt
           /\ Close(s).dropped = s.dropped
           /\ Close(s).running = s.running
           /\ Close(s).exposed = s.exposed
           /\ Close(s).ceiling = s.ceiling
           /\ Close(s).queued = s.queued
           /\ Close(s).deferred = s.deferred
           /\ Close(s).failure = s.failure
<1> DEFINE u == Close(s)
<1>1. s \in PeerRecords(M, p) /\ s.active.op \in Ops(M)
  BY OpTarget DEF PeerOK
<1>2. u \in PeerRecords(M, p)
  BY <1>1 DEF PeerRecords, Close
<1>3. /\ u.active = None
      /\ u.closed = s.closed \cup {s.active.op}
      /\ u.values = s.values
      /\ u.first = s.first
      /\ u.receipt = s.receipt
      /\ u.dropped = s.dropped
      /\ u.running = s.running
      /\ u.exposed = s.exposed
      /\ u.ceiling = s.ceiling
      /\ u.queued = s.queued
      /\ u.deferred = s.deferred
      /\ u.failure = s.failure
  BY <1>1 DEF PeerRecords, Close
<1> HIDE DEF u
<1>4. PeerOK(M, p, u)
  BY <1>2, <1>3 DEF PeerOK
<1> QED BY <1>3, <1>4 DEF u

LEMMA MinPair ==
    ASSUME NEW x \in Int, NEW y \in Int
    PROVE  /\ Min({x, y}) \in {x, y} /\ Min({x, y}) <= x /\ Min({x, y}) <= y
           /\ Max({x, y}) \in {x, y} /\ Max({x, y}) >= x /\ Max({x, y}) >= y
<1> DEFINE b == IF x <= y THEN x ELSE y
           c == IF x <= y THEN y ELSE x
           S == {x, y}
<1>1. b \in Int /\ c \in Int /\ S \in SUBSET Int /\ S # {} /\ \A z \in S : z >= b /\ z <= c
  OBVIOUS
<1>2. x \in S /\ y \in S
  OBVIOUS
<1> HIDE DEF b, c, S
<1>3. Min(S) \in S /\ \A z \in S : Min(S) <= z
  BY <1>1, MinIsLeast
<1>4. Max(S) \in S /\ \A z \in S : z <= Max(S)
  BY <1>1, MaxIsGreatest
<1>5. Min(S) \in S /\ Min(S) <= x /\ Min(S) <= y /\ Max(S) \in S /\ Max(S) >= x /\ Max(S) >= y
  BY <1>1, <1>2, <1>3, <1>4
<1> QED BY <1>5 DEF S

LEMMA FrameInt ==
    ASSUME NEW M, IsMesh(M)
    PROVE  /\ FrameOf(M) \subseteq Int /\ FrameOf(M) \subseteq Nat /\ FrameOrNullOf(M) \subseteq Int
           /\ None \notin FrameOrNullOf(M) /\ FrameOf(M) \subseteq FrameOrNullOf(M)
           /\ \A f \in FrameOf(M) : f >= 0 /\ f <= LastOf(M)
           /\ \A f \in FrameOrNullOf(M) : f >= -1 /\ f <= LastOf(M)
  BY LastOfMesh, NoneAssumption DEF FrameOf, FrameOrNullOf, NULL_FRAME

LEMMA FailClosedAtOK ==
    ASSUME NEW M, IsMesh(M), NEW p, NEW s, PeerOK(M, p, s), NEW frame \in FrameOrNullOf(M)
    PROVE  /\ PeerOK(M, p, FailClosedAt(s, frame))
           /\ FailClosedAt(s, frame).ceiling \in FrameOrNullOf(M)
           /\ FailClosedAt(s, frame).ceiling <= frame
           /\ s.ceiling # None => FailClosedAt(s, frame).ceiling <= s.ceiling
           /\ FailClosedAt(s, frame).active = s.active
           /\ FailClosedAt(s, frame).closed = s.closed
           /\ FailClosedAt(s, frame).values = s.values
           /\ FailClosedAt(s, frame).first = s.first
           /\ FailClosedAt(s, frame).receipt = s.receipt
           /\ FailClosedAt(s, frame).dropped = s.dropped
           /\ FailClosedAt(s, frame).running = s.running
           /\ FailClosedAt(s, frame).exposed = s.exposed
           /\ FailClosedAt(s, frame).queued = s.queued
           /\ FailClosedAt(s, frame).deferred = s.deferred
           /\ FailClosedAt(s, frame).failure = s.failure
<1> DEFINE c == IF s.ceiling = None THEN frame ELSE Min({s.ceiling, frame})
           u == [s EXCEPT !.ceiling = c]
<1>1. s \in PeerRecords(M, p) /\ s.ceiling \in FrameOrNullOf(M) \cup {None}
  BY DEF PeerOK, PeerRecords
<1>2. c \in FrameOrNullOf(M) /\ c <= frame /\ (s.ceiling # None => c <= s.ceiling)
  <2>1. CASE s.ceiling = None
    BY <2>1, FrameInt
  <2>2. CASE s.ceiling # None
    <3>1. s.ceiling \in FrameOrNullOf(M) /\ s.ceiling \in Int /\ frame \in Int
      BY <1>1, <2>2, FrameInt
    <3>2. Min({s.ceiling, frame}) \in {s.ceiling, frame} /\ Min({s.ceiling, frame}) <= s.ceiling
          /\ Min({s.ceiling, frame}) <= frame
      BY <3>1, MinPair
    <3> QED BY <2>2, <3>1, <3>2
  <2> QED BY <2>1, <2>2
<1> HIDE DEF c
<1>3. u \in PeerRecords(M, p)
  BY <1>1, <1>2 DEF PeerRecords
<1>4. /\ u.ceiling = c
      /\ u.active = s.active
      /\ u.closed = s.closed
      /\ u.values = s.values
      /\ u.first = s.first
      /\ u.receipt = s.receipt
      /\ u.dropped = s.dropped
      /\ u.running = s.running
      /\ u.exposed = s.exposed
      /\ u.queued = s.queued
      /\ u.deferred = s.deferred
      /\ u.failure = s.failure
  BY <1>1 DEF PeerRecords
<1>5. FailClosedAt(s, frame) = u
  BY DEF FailClosedAt, c
<1> HIDE DEF u
<1>6. PeerOK(M, p, u)
  BY <1>3, <1>4 DEF PeerOK
<1> QED BY <1>2, <1>4, <1>5, <1>6

LEMMA ClosedOK ==
    ASSUME NEW M, IsMesh(M), NEW p, NEW s, PeerOK(M, p, s), s.active # None,
           NEW reason \in Reasons
    PROVE  /\ PeerOK(M, p, Closed(s, reason))
           /\ Closed(s, reason).ceiling \in FrameOrNullOf(M)
           /\ Closed(s, reason).ceiling <= s.active.held_at
           /\ Closed(s, reason).active = None
           /\ Closed(s, reason).closed = s.closed \cup {s.active.op}
           /\ Closed(s, reason).values = s.values
           /\ Closed(s, reason).first = s.first
           /\ Closed(s, reason).receipt = s.receipt
           /\ Closed(s, reason).dropped = s.dropped
           /\ Closed(s, reason).running = s.running
           /\ Closed(s, reason).exposed = s.exposed
           /\ Closed(s, reason).queued = s.queued
           /\ Closed(s, reason).deferred = s.deferred
           /\ Closed(s, reason).failure = reason
<1> DEFINE c == Close(s)
           f == FailClosedAt(c, s.active.held_at)
           u == [f EXCEPT !.failure = reason]
<1>1. s.active.held_at \in FrameOrNullOf(M)
  BY FrameInt DEF PeerOK, AttemptOK, Attempts
<1>2. PeerOK(M, p, c)
  BY CloseOK
<1>3. PeerOK(M, p, f) /\ f.ceiling \in FrameOrNullOf(M) /\ f.ceiling <= s.active.held_at
  <2> HIDE DEF c
  <2> QED BY <1>1, <1>2, FailClosedAtOK
<1>4. /\ f.active = None
      /\ f.closed = s.closed \cup {s.active.op}
      /\ f.values = s.values
      /\ f.first = s.first
      /\ f.receipt = s.receipt
      /\ f.dropped = s.dropped
      /\ f.running = s.running
      /\ f.exposed = s.exposed
      /\ f.queued = s.queued
      /\ f.deferred = s.deferred
  <2>1. /\ c.active = None
        /\ c.closed = s.closed \cup {s.active.op}
        /\ c.values = s.values
        /\ c.first = s.first
        /\ c.receipt = s.receipt
        /\ c.dropped = s.dropped
        /\ c.running = s.running
        /\ c.exposed = s.exposed
        /\ c.queued = s.queued
        /\ c.deferred = s.deferred
    BY DEF PeerOK, PeerRecords, Close
  <2> HIDE DEF c
  <2> QED BY <1>1, <1>2, <2>1, FailClosedAtOK
<1> HIDE DEF f
<1>5. u \in PeerRecords(M, p)
  BY <1>3 DEF PeerOK, PeerRecords
<1>6. /\ u.failure = reason
      /\ u.ceiling = f.ceiling
      /\ u.active = f.active
      /\ u.closed = f.closed
      /\ u.values = f.values
      /\ u.first = f.first
      /\ u.receipt = f.receipt
      /\ u.dropped = f.dropped
      /\ u.running = f.running
      /\ u.exposed = f.exposed
      /\ u.queued = f.queued
      /\ u.deferred = f.deferred
  BY <1>3 DEF PeerOK, PeerRecords
<1>7. Closed(s, reason) = u
  BY DEF Closed, f
<1> HIDE DEF u
<1>8. PeerOK(M, p, u)
  BY <1>3, <1>5, <1>6 DEF PeerOK
<1> QED BY <1>3, <1>4, <1>6, <1>7, <1>8

LEMMA AbortType ==
    ASSUME NEW M, NEW op \in Ops(M), NEW reason \in Reasons
    PROVE  Abort(op, reason) \in Bodies(M) /\ {Abort(op, reason)} \in SUBSET Bodies(M)
  BY DEF Abort, Aborts, Bodies

\* The attempt of a handler's result is closed for a reason, which is or is not told.
Ended(w, reason) == [w EXCEPT !.s = Closed(w.s, reason), !.error = None]
FailTold(w, p, reason) == FailClosed(w, p, reason, TRUE)
ToldAbort(w, p, reason) == Told(w, p, w.s.active.op.target, {Abort(w.s.active.op, reason)})
FailQuiet(w, p, reason) == FailClosed(w, p, reason, FALSE)

LEMMA EndedOK ==
    ASSUME NEW M, IsMesh(M), NEW p, NEW w, WorkOK(M, p, w), w.s.active # None, NEW reason \in Reasons
    PROVE  /\ WorkOK(M, p, Ended(w, reason))
           /\ Ended(w, reason).s = Closed(w.s, reason)
           /\ Ended(w, reason).out = w.out
           /\ Ended(w, reason).error = None
<1> DEFINE c == Closed(w.s, reason)
           u == [w EXCEPT !.s = c]
           n == None
           v == [u EXCEPT !.error = n]
<1>1. PeerOK(M, p, w.s)
  BY DEF WorkOK
<1>2. PeerOK(M, p, c)
  BY <1>1, ClosedOK
<1>3. Ended(w, reason) = v
  BY DEF Ended, WorkOK, Works
<1> HIDE DEF c
<1>4. WorkOK(M, p, u) /\ u.s = c /\ u.out = w.out
  BY <1>2, WithPeer
<1>5. n \in Reasons \cup {None}
  OBVIOUS
<1> HIDE DEF u, n
<1>6. WorkOK(M, p, v) /\ v.s = u.s /\ v.out = u.out /\ v.error = n
  BY <1>4, <1>5, WithError
<1> HIDE DEF v
<1> QED BY <1>3, <1>4, <1>6 DEF c, n

LEMMA FailToldIdle ==
    ASSUME NEW M, IsMesh(M), NEW p \in M.peers, NEW w, WorkOK(M, p, w), w.s.active = None,
           NEW reason \in Reasons
    PROVE  /\ WorkOK(M, p, FailTold(w, p, reason))
           /\ FailTold(w, p, reason).s = w.s
           /\ FailTold(w, p, reason).out = w.out
           /\ FailTold(w, p, reason).error = None
<1> DEFINE r == FailTold(w, p, reason)
           n == None
           v == [w EXCEPT !.error = n]
<1>1. r = v
  BY DEF FailTold, FailClosed
<1>2. n \in Reasons \cup {None}
  OBVIOUS
<1> HIDE DEF r, n
<1>3. WorkOK(M, p, v) /\ v.s = w.s /\ v.out = w.out /\ v.error = n
  BY <1>2, WithError
<1> HIDE DEF v
<1> QED BY <1>1, <1>3 DEF r, n

LEMMA FailToldActive ==
    ASSUME NEW M, IsMesh(M), NEW p \in M.peers, NEW w, WorkOK(M, p, w), w.s.active # None,
           NEW reason \in Reasons
    PROVE  /\ WorkOK(M, p, FailTold(w, p, reason))
           /\ FailTold(w, p, reason).s = Closed(w.s, reason)
           /\ FailTold(w, p, reason).out = ToldAbort(w, p, reason)
           /\ FailTold(w, p, reason).error = None
<1> DEFINE r == FailTold(w, p, reason)
           a == w.s.active
           told == Broadcast(w, p, a.op.target, {Abort(a.op, reason)})
<1>1. AttemptOK(M, p, a)
  BY DEF WorkOK, PeerOK
<1>2. {Abort(a.op, reason)} \in SUBSET Bodies(M)
  <2>1. a.op \in Ops(M)
    BY <1>1, OpTarget
  <2> QED BY <2>1, AbortType
<1>3. /\ WorkOK(M, p, told) /\ told.s = w.s
      /\ told.out = Told(w, p, a.op.target, {Abort(a.op, reason)})
  BY <1>2, BroadcastOK
<1>4. r = Ended(told, reason)
  BY <1>3 DEF FailTold, FailClosed, Ended, Closed
<1>5. told.s.active # None
  BY <1>3
<1> HIDE DEF told, r
<1>6. /\ WorkOK(M, p, Ended(told, reason)) /\ Ended(told, reason).s = Closed(told.s, reason)
      /\ Ended(told, reason).out = told.out /\ Ended(told, reason).error = None
  BY <1>3, <1>5, EndedOK
<1> QED BY <1>3, <1>4, <1>6 DEF r, ToldAbort

LEMMA FailToldOK ==
    ASSUME NEW M, IsMesh(M), NEW p \in M.peers, NEW w, WorkOK(M, p, w), NEW reason \in Reasons
    PROVE  /\ WorkOK(M, p, FailTold(w, p, reason))
           /\ FailTold(w, p, reason).error = None
<1>1. CASE w.s.active = None
  BY <1>1, FailToldIdle
<1>2. CASE w.s.active # None
  BY <1>2, FailToldActive
<1> QED BY <1>1, <1>2

LEMMA FailQuietOK ==
    ASSUME NEW M, IsMesh(M), NEW p \in M.peers, NEW w, WorkOK(M, p, w), w.s.active # None,
           NEW reason \in Reasons
    PROVE  /\ WorkOK(M, p, FailQuiet(w, p, reason))
           /\ FailQuiet(w, p, reason).error = None
           /\ FailQuiet(w, p, reason).s = Closed(w.s, reason)
           /\ FailQuiet(w, p, reason).out = w.out
<1>1. FailQuiet(w, p, reason) = Ended(w, reason)
  BY DEF FailQuiet, FailClosed, Ended, Closed
<1> QED BY <1>1, EndedOK

LEMMA OrFailOK ==
    ASSUME NEW M, IsMesh(M), NEW p \in M.peers, NEW w, WorkOK(M, p, w)
    PROVE  /\ WorkOK(M, p, OrFail(w, p))
           /\ OrFail(w, p).error = None
           /\ w.error = None => OrFail(w, p) = w
           /\ w.error # None => w.error \in Reasons /\ OrFail(w, p) = FailTold(w, p, w.error)
<1>1. CASE w.error = None
  BY <1>1 DEF OrFail
<1>2. CASE w.error # None
  <2>1. w.error \in Reasons
    BY <1>2 DEF WorkOK, Works
  <2>2. OrFail(w, p) = FailTold(w, p, w.error)
    BY <1>2 DEF OrFail, FailTold
  <2>3. ASSUME NEW e, e = w.error
        PROVE  WorkOK(M, p, FailTold(w, p, e)) /\ FailTold(w, p, e).error = None
    <3>1. e \in Reasons
      BY <2>1, <2>3
    <3> HIDE <2>3
    <3> QED BY <3>1, FailToldOK
  <2> QED BY <1>2, <2>1, <2>2, <2>3
<1> QED BY <1>1, <1>2

-----------------------------------------------------------------------------
(* Entering an attempt.                                                    *)

LEMMA HoldAtType ==
    ASSUME NEW M, IsMesh(M), NEW p, NEW s, PeerOK(M, p, s)
    PROVE  HoldAt(s) \in FrameOf(M) /\ HoldAt(s) >= s.exposed /\ s.exposed \in Int
<1>1. s.exposed \in FrameOrNullOf(M)
  BY DEF PeerOK, PeerRecords
<1>2. s.exposed \in Int /\ LastOf(M) \in Nat /\ 0 \in FrameOf(M)
  BY <1>1, FrameInt, LastOfMesh
<1>3. Max({s.exposed, 0}) \in {s.exposed, 0} /\ Max({s.exposed, 0}) >= s.exposed /\ Max({s.exposed, 0}) >= 0
  <2>1. 0 \in Int
    OBVIOUS
  <2> QED BY <1>2, <2>1, MinPair, Zenon
<1> QED BY <1>1, <1>2, <1>3 DEF HoldAt, FrameOrNullOf, NULL_FRAME

LEMMA MaterialisedOK ==
    ASSUME NEW M, IsMesh(M), NEW p, NEW s, PeerOK(M, p, s), NEW t \in OthersOf(M, p), NEW held
    PROVE  /\ PeerOK(M, p, Materialised(s, t, held))
           /\ Materialised(s, t, held).running = s.running
           /\ Known >= 1 => Materialised(s, t, held) = s
<1> DEFINE v == [s.values EXCEPT ![t] = <<DefaultInput>>]
           u == [s EXCEPT !.values = v]
<1>1. CASE s.values[t] = <<>> /\ held = 0
  <2>1. Materialised(s, t, held) = u
    BY <1>1 DEF Materialised
  <2>2. s \in PeerRecords(M, p) /\ s.values \in [OthersOf(M, p) -> Seq(Input)]
    BY DEF PeerOK, PeerRecords
  <2>3. <<DefaultInput>> \in Seq(Input) /\ Len(<<DefaultInput>>) = 1
    BY InputAssumption
  <2>4. ~(Known >= 1)
    <3>1. Known >= 1 => Len(s.values[t]) >= 1
      BY DEF PeerOK, ValuesOK
    <3>2. Len(s.values[t]) = 0
      BY <1>1
    <3> QED BY <3>1, <3>2
  <2>5. v \in [OthersOf(M, p) -> Seq(Input)]
    BY <2>2, <2>3
  <2>6. ASSUME NEW x \in OthersOf(M, p) PROVE ValuesOK(M, x, v[x])
    <3>1. CASE x = t
      <4>1. v[x] = <<DefaultInput>> /\ LastOf(M) \in Nat
        BY <2>2, <3>1, LastOfMesh
      <4> HIDE DEF v
      <4> QED BY <2>3, <2>4, <4>1 DEF ValuesOK
    <3>2. CASE x # t
      <4>1. v[x] = s.values[x]
        BY <2>2, <3>2
      <4> HIDE DEF v
      <4> QED BY <4>1 DEF PeerOK
    <3> QED BY <3>1, <3>2
  <2>6a. ASSUME NEW x \in OthersOf(M, p) PROVE s.dropped[x] < Len(v[x])
    <3>1. s.dropped[x] < Len(s.values[x])
      BY DEF PeerOK
    <3>2. CASE x = t
      <4>1. v[x] = <<DefaultInput>> /\ Len(s.values[x]) = 0
        BY <1>1, <2>2, <3>2
      <4> HIDE DEF v
      <4>2. s.dropped[x] \in FrameOrNullOf(M)
        BY DEF PeerOK, PeerRecords
      <4>3. s.dropped[x] \in Int
        BY <4>2, FrameInt
      <4> QED BY <2>3, <3>1, <4>1, <4>3
    <3>3. CASE x # t
      <4>1. v[x] = s.values[x]
        BY <2>2, <3>3
      <4> HIDE DEF v
      <4> QED BY <3>1, <4>1
    <3> QED BY <3>2, <3>3
  <2>7. u \in PeerRecords(M, p) /\ u.values = v /\ u.active = s.active /\ u.running = s.running
        /\ u.dropped = s.dropped
    BY <2>2, <2>5 DEF PeerRecords
  <2> HIDE DEF u
  <2>8. PeerOK(M, p, u)
    BY <2>6, <2>6a, <2>7 DEF PeerOK
  <2> QED BY <2>1, <2>4, <2>7, <2>8
<1>2. CASE ~(s.values[t] = <<>> /\ held = 0)
  BY <1>2 DEF Materialised
<1> QED BY <1>1, <1>2

LEMMA InventoryType ==
    ASSUME NEW M, IsMesh(M), NEW p \in M.peers, NEW s, PeerOK(M, p, s), NEW op \in Ops(M),
           op.target \in OthersOf(M, p), NEW held \in FrameOf(M)
    PROVE  /\ InventoryOf(s, p, op, held) \in Reports(M)
           /\ InventoryOf(s, p, op, held).participant = p
           /\ InventoryOf(s, p, op, held).op = op
           /\ InventoryOf(s, p, op, held).exposed = held
           /\ InventoryOf(s, p, op, held).through = Through(s, op.target)
           /\ Through(s, op.target) >= 0 =>
                 InventoryOf(s, p, op, held).available_from = s.first[op.target]
<1>0. s.first[op.target] \in FrameOf(M)
  BY DEF PeerOK, PeerRecords
<1>1. Through(s, op.target) \in FrameOrNullOf(M) /\ s.first[op.target] \in FrameOf(M)
      /\ s.values[op.target] \in Seq(Input) /\ Through(s, op.target) = Len(s.values[op.target]) - 1
  BY <1>0, ThroughType
<1>2. NULL_FRAME \in FrameOrNullOf(M) /\ FrameOf(M) \subseteq FrameOrNullOf(M)
  BY DEF FrameOrNullOf
<1>3. s.values[op.target] = <<>> => Through(s, op.target) = NULL_FRAME
  BY <1>1 DEF NULL_FRAME
<1> QED BY <1>1, <1>2, <1>3 DEF InventoryOf, Inventory, Reports, NULL_FRAME

LEMMA AttemptType ==
    ASSUME NEW M, IsMesh(M), NEW p, NEW op \in Ops(M), op.target # p,
           NEW participants \in SUBSET M.peers, p \in participants,
           NEW held \in FrameOf(M), NEW report \in Reports(M)
    PROVE  AttemptOK(M, p, Attempt(op, participants, held, report))
           /\ Attempt(op, participants, held, report) # None
<1> DEFINE a == Attempt(op, participants, held, report)
<1>1. a \in Attempts(M, p)
  BY DEF Attempt, Attempts, Phases
<1>2. AttemptOK(M, p, a)
  BY <1>1 DEF AttemptOK, Attempt
<1>3. op \in Operation /\ report \in Report /\ participants \subseteq Nat /\ held \in Int
  <2>1. M.peers \subseteq Nat /\ DOMAIN M.stream \subseteq Nat /\ FrameOf(M) \subseteq Int
        /\ FrameOrNullOf(M) \subseteq Int
    BY FrameInt DEF IsMesh
  <2>2. op \in Operation /\ report.op \in Operation
    BY <2>1 DEF Ops, Operation, Reports
  <2> QED BY <2>1, <2>2 DEF Reports, Report
<1>4. a \in CoordinatedDropAttempt
  BY <1>3 DEF Attempt, CoordinatedDropAttempt, Phases
<1> QED BY <1>2, <1>4, NoneAssumption

\* What Enter makes of the peer.
Entered(s, p, op, participants) ==
    LET held == HoldAt(s)
        m    == Materialised(s, op.target, held)
    IN  [m EXCEPT !.active = Attempt(op, participants, held, InventoryOf(m, p, op, held))]

LEMMA EnterOK ==
    ASSUME NEW M, IsMesh(M), NEW p \in M.peers, NEW w, WorkOK(M, p, w),
           NEW op \in Ops(M), op.target \in OthersOf(M, p),
           NEW participants \in SUBSET M.peers, p \in participants
    PROVE  /\ WorkOK(M, p, Enter(w, p, op, participants))
           /\ Enter(w, p, op, participants).s = Entered(w.s, p, op, participants)
           /\ Enter(w, p, op, participants).error = w.error
           /\ Enter(w, p, op, participants).out
                = Told(w, p, op.target,
                       {InventoryOf(Materialised(w.s, op.target, HoldAt(w.s)), p, op, HoldAt(w.s))})
           /\ Enter(w, p, op, participants).s.active # None
           /\ Enter(w, p, op, participants).s.active.op = op
           /\ Enter(w, p, op, participants).s.active.participants = participants
           /\ Enter(w, p, op, participants).s.running = w.s.running
<1> DEFINE held == HoldAt(w.s)
           m == Materialised(w.s, op.target, held)
           report == InventoryOf(m, p, op, held)
           a == Attempt(op, participants, held, report)
           e == [m EXCEPT !.active = a]
           u == [w EXCEPT !.s = e]
           b == Broadcast(u, p, op.target, {report})
<1>1. PeerOK(M, p, w.s) /\ held \in FrameOf(M)
  BY HoldAtType DEF WorkOK
<1> HIDE DEF held
<1>2. PeerOK(M, p, m) /\ m.running = w.s.running
  BY <1>1, MaterialisedOK
<1> HIDE DEF m
<1>3. report \in Reports(M)
  BY <1>1, <1>2, InventoryType
<1>4. {report} \in SUBSET Bodies(M)
  BY <1>3 DEF Bodies
<1> HIDE DEF report
<1>5. AttemptOK(M, p, a) /\ a # None
  BY <1>1, <1>3, AttemptType DEF OthersOf
<1>5a. a.op = op /\ a.participants = participants
  BY DEF Attempt
<1> HIDE DEF a
<1>6. PeerOK(M, p, e) /\ e.running = w.s.running /\ e.active = a
  BY <1>2, <1>5, WithActive
<1> HIDE DEF e
<1>7. WorkOK(M, p, u) /\ u.s = e /\ u.out = w.out /\ u.error = w.error
  BY <1>6, WithPeer
<1> HIDE DEF u
<1>8. /\ WorkOK(M, p, b) /\ b.s = u.s /\ b.error = u.error
      /\ b.out = Told(u, p, op.target, {report})
  BY <1>4, <1>7, BroadcastOK
<1>9. Told(u, p, op.target, {report}) = Told(w, p, op.target, {report})
  BY <1>6, <1>7 DEF Told, Sent
<1> HIDE DEF b
<1>10. Enter(w, p, op, participants) = b
  BY DEF Enter, b, u, e, a, report, m, held
<1>11. Entered(w.s, p, op, participants) = e
  BY DEF Entered, e, a, report, m, held
<1>12. {report} = {InventoryOf(Materialised(w.s, op.target, HoldAt(w.s)), p, op, HoldAt(w.s))}
  BY DEF report, m, held
<1> QED BY <1>5, <1>5a, <1>6, <1>7, <1>8, <1>9, <1>10, <1>11, <1>12

-----------------------------------------------------------------------------
(* A mesh with one target.  N is what has been said: the bodies of the     *)
(* messages sent so far.                                                   *)

IsSole(M) == Known >= 1 /\ \E t \in DOMAIN M.stream : DOMAIN M.stream = {t}
TargetOf(M) == CHOOSE t \in DOMAIN M.stream : TRUE
RestOf(M) == M.peers \ {TargetOf(M)}
TheOp(M) == [target |-> TargetOf(M), coordinator |-> Min(RestOf(M))]
Alone(M, p) == RestOf(M) = {p}

Inventories(N) == {b \in N : b.type = "Inventory"}

\* Every survivor has said what it holds; the cut that follows from it; somebody who
\* can fill in what the others miss.
AllSaid(M, N) == \A q \in RestOf(M) : \E r \in Inventories(N) : r.participant = q
CutOfAll(M, N, cut) ==
    /\ AllSaid(M, N)
    /\ \A r \in Inventories(N) : r.through <= cut
    /\ \E r \in Inventories(N) : r.through = cut
HasDonor(N) ==
    \E d \in Inventories(N) : \A r \in Inventories(N) :
        r.through <= d.through /\ (r.through < d.through => d.available_from <= r.through + 1)
NoDonor(M, N) == AllSaid(M, N) /\ ~HasDonor(N)

Agreed(M, p, N, cut) == Alone(M, p) \/ CutOfAll(M, N, cut)
Fillable(M, p, N) == Alone(M, p) \/ (AllSaid(M, N) /\ HasDonor(N))

\* An inventory that can be reconciled.
SoundReport(M, r) ==
    /\ r.op = TheOp(M) /\ r.participant \in RestOf(M)
    /\ r.exposed <= r.through /\ r.available_from <= r.through /\ r.available_from >= 0
\* A chunk is numbered from the first frame that somebody misses.
SoundChunk(M, N, c) ==
    /\ AllSaid(M, N)
    /\ \A b \in Inventories(N) : (\A r \in Inventories(N) : b.through <= r.through)
                                     => c.index = c.frame - (b.through + 1)
SoundBody(M, N, b) ==
    /\ b.type = "Prepare" => b.op = TheOp(M) /\ b.participants = RestOf(M)
    /\ b.type = "Inventory" => SoundReport(M, b)
    /\ b.type = "Backfill" => SoundChunk(M, N, b)
    /\ b.type = "Abort" => b.reason # "Superseded"
OneReportEach(R) == \A r1, r2 \in R : r1.participant = r2.participant => r1 = r2
SoleNet(M, N) ==
    /\ \A b \in N : SoundBody(M, N, b)
    /\ OneReportEach(Inventories(N))
    /\ \A p \in RestOf(M) : Alone(M, p) => N = {}

-----------------------------------------------------------------------------
(* The attempt of survivor p, and its state.                               *)

OwnReport(p, s, a, own) ==
    /\ own \in a.reports /\ own.participant = p
    /\ a.phase # "Committed" =>
           /\ own.exposed = a.held_at
           /\ s.exposed = a.held_at
           /\ own.available_from <= s.first[a.op.target]
           /\ own.through <= Through(s, a.op.target)

\* The cut follows from the reports of all.
SoundCut(M, a) ==
    /\ \A q \in RestOf(M) : \E r \in a.reports : r.participant = q
    /\ \A r \in a.reports : r.through <= a.cut
    /\ \E r \in a.reports : r.through = a.cut

\* What has been filled in: the chunks so far.
SoundFill(s, a) ==
    /\ a.next_backfill_chunk >= 0
    /\ \A b \in a.reports : (\A r \in a.reports : b.through <= r.through) =>
           b.through + a.next_backfill_chunk <= Through(s, a.op.target)

SoleAttempt(M, p, s, a, N) ==
    /\ a.op = TheOp(M) /\ a.participants = RestOf(M)
    /\ \A r \in a.reports : SoundReport(M, r)
    /\ OneReportEach(a.reports)
    /\ \E own \in a.reports : OwnReport(p, s, a, own)
    /\ Alone(M, p) \/ (a.reports \subseteq N /\ a.backfill_chunks \subseteq N /\ a.relayed_backfill \subseteq N)
    /\ a.cut = None => a.next_backfill_chunk = 0
    /\ a.cut # None => SoundCut(M, a) /\ SoundFill(s, a)
    /\ a.phase = "Ready" => Held(s, a.op.target, a.cut) # None /\ Fillable(M, p, N)

\* A survivor that holds what has been said in its own inventory.
KeepsWord(p, s, t, N) ==
    \A r \in Inventories(N) : r.participant = p =>
        /\ s.active # None \/ s.closed # {}
        /\ r.available_from <= s.first[t]
        /\ s.active # None => r \in s.active.reports
        /\ s.dropped[t] = NULL_FRAME =>
               /\ s.exposed <= r.exposed
               /\ s.active = None => s.ceiling # None /\ s.ceiling <= r.exposed

SolePeer(M, p, s, N) ==
    LET t == TargetOf(M)
    IN  /\ s.running \ {t} = RestOf(M) \ {p}
        /\ s.queued = {} /\ s.deferred = <<>>
        /\ s.closed \subseteq {TheOp(M)}
        /\ s.exposed >= 0 /\ s.first[t] <= Through(s, t) /\ s.receipt[t] <= Through(s, t)
        /\ s.dropped[t] = NULL_FRAME => s.exposed <= s.receipt[t]
        /\ s.active # None =>
               /\ s.closed = {}
               /\ SoleAttempt(M, p, s, s.active, N)
               /\ s.active.phase = "Committed" <=> s.dropped[t] # NULL_FRAME
        /\ s.dropped[t] # NULL_FRAME =>
               /\ s.active # None \/ s.closed # {}
               /\ Agreed(M, p, N, s.dropped[t]) /\ Fillable(M, p, N)
        /\ KeepsWord(p, s, t, N)

\* A survivor that has given up, and has discarded what another one's inventory
\* still needs; whom a failure for missing history goes back to.
Late(M, s, N) ==
    /\ s.dropped[TargetOf(M)] = NULL_FRAME
    /\ \E b \in Inventories(N) : s.first[TargetOf(M)] > b.through + 1
Overrun(M, s, N) == s.active = None /\ s.closed # {} /\ Late(M, s, N)
Elsewhere(M, P, p, N) == \E q \in RestOf(M) \ {p} : Overrun(M, P[q], N)
Blame(M, P, p, s, N) == NoDonor(M, N) \/ Overrun(M, s, N) \/ Elsewhere(M, P, p, N)

MissingSaid(N) == \E b \in N : b.type = "Abort" /\ b.reason = "MissingHistory"

-----------------------------------------------------------------------------
(* A handler's result.                                                     *)

Said(out) == {m.body : m \in out}
Now(N, w) == N \cup Said(w.out)

SoleWork(M, P, p, N, w) ==
    /\ p \in RestOf(M)
    /\ SolePeer(M, p, w.s, Now(N, w))
    /\ SoleNet(M, Now(N, w))
    /\ \A m \in w.out : m.to \in RestOf(M)
    /\ \A r \in Inventories(Now(N, w)) : r.participant # p => r \in N
    /\ w.s.failure = "MissingHistory" \/ MissingSaid(Now(N, w)) => Blame(M, P, p, w.s, Now(N, w))
    /\ w.error = "MissingHistory" =>
           /\ w.s.active # None
           /\ Blame(M, P, p, w.s, Now(N, w)) \/ Late(M, w.s, Now(N, w))
    /\ w.error # "Superseded"

Good(M, P, p, N, w) == WorkOK(M, p, w) /\ (IsSole(M) => SoleWork(M, P, p, N, w))

-----------------------------------------------------------------------------
(* The invariant of the specification.                                     *)

SoleInv(M, P, N) ==
    /\ SoleNet(M, Said(N))
    /\ \A m \in N : m.to \in RestOf(M)
    /\ \A p \in RestOf(M) :
           /\ SolePeer(M, p, P[p], Said(N))
           /\ P[p].failure = "MissingHistory" => Blame(M, P, p, P[p], Said(N))
    /\ MissingSaid(Said(N)) => \A p \in RestOf(M) : Blame(M, P, p, P[p], Said(N))

DropInv ==
    /\ mesh \in Scenarios
    /\ busy \in [Peers -> BOOLEAN]
    /\ DOMAIN peer = Peers
    /\ \A p \in Peers : PeerOK(mesh, p, peer[p])
    /\ net \subseteq Messages(mesh)
    /\ IsSole(mesh) => SoleInv(mesh, peer, net)

LEMMA SoleFacts ==
    ASSUME NEW M, IsMesh(M), IsSole(M)
    PROVE  /\ DOMAIN M.stream = {TargetOf(M)}
           /\ TargetOf(M) \in M.peers
           /\ RestOf(M) \subseteq M.peers
           /\ TargetOf(M) \notin RestOf(M)
           /\ Known >= 1
           /\ \A p \in RestOf(M) : OthersOf(M, p) = {TargetOf(M)}
           /\ \A p \in M.peers : OthersOf(M, p) # {} => p \in RestOf(M)
<1>1. PICK t \in DOMAIN M.stream : DOMAIN M.stream = {t}
  BY DEF IsSole
<1>2. TargetOf(M) = t
  <2>1. TargetOf(M) \in DOMAIN M.stream
    BY <1>1, Zenon DEF TargetOf
  <2> QED BY <1>1, <2>1
<1> QED BY <1>1, <1>2 DEF IsSole, IsMesh, RestOf, OthersOf

-----------------------------------------------------------------------------
(* What has been said is not unsaid.                                       *)

\* Once all have said what they hold, nobody says anything else.
LEMMA AllSaidIsAll ==
    ASSUME NEW M, NEW N, NEW N2, N \subseteq N2, SoleNet(M, N2), AllSaid(M, N)
    PROVE  Inventories(N2) = Inventories(N)
<1>1. ASSUME NEW r \in Inventories(N2) PROVE r \in Inventories(N)
  <2>1. r \in N2 /\ r.type = "Inventory"
    BY <1>1 DEF Inventories
  <2>2. r.participant \in RestOf(M)
    BY <2>1 DEF SoleNet, SoundBody, SoundReport
  <2>3. PICK o \in Inventories(N) : o.participant = r.participant
    BY <2>2 DEF AllSaid
  <2>4. o \in Inventories(N2)
    BY <2>3 DEF Inventories
  <2>5. o = r
    BY <1>1, <2>3, <2>4 DEF SoleNet, OneReportEach
  <2> QED BY <2>3, <2>5
<1>2. Inventories(N) \subseteq Inventories(N2)
  BY DEF Inventories
<1> QED BY <1>1, <1>2

LEMMA SaidGrows ==
    ASSUME NEW M, NEW N, NEW N2, N \subseteq N2, SoleNet(M, N2)
    PROVE  /\ \A p, cut : Agreed(M, p, N, cut) => Agreed(M, p, N2, cut)
           /\ \A p : Fillable(M, p, N) => Fillable(M, p, N2)
           /\ NoDonor(M, N) => NoDonor(M, N2)
           /\ \A s : Late(M, s, N) => Late(M, s, N2)
           /\ \A s : Overrun(M, s, N) => Overrun(M, s, N2)
           /\ \A P, p : Elsewhere(M, P, p, N) => Elsewhere(M, P, p, N2)
           /\ \A P, p, s : Blame(M, P, p, s, N) => Blame(M, P, p, s, N2)
<1>1. Inventories(N) \subseteq Inventories(N2)
  BY DEF Inventories
<1>4. \A s : Late(M, s, N) => Late(M, s, N2)
  BY <1>1 DEF Late
<1>5. \A s : Overrun(M, s, N) => Overrun(M, s, N2)
  BY <1>4 DEF Overrun
<1>6. \A P, p : Elsewhere(M, P, p, N) => Elsewhere(M, P, p, N2)
  BY <1>5 DEF Elsewhere
<1>7. /\ \A p, cut : Agreed(M, p, N, cut) => Agreed(M, p, N2, cut)
      /\ \A p : Fillable(M, p, N) => Fillable(M, p, N2)
      /\ NoDonor(M, N) => NoDonor(M, N2)
  <2>1. CASE AllSaid(M, N)
    <3>1. Inventories(N2) = Inventories(N)
      BY <2>1, AllSaidIsAll
    <3>2. AllSaid(M, N2) /\ (HasDonor(N) <=> HasDonor(N2))
          /\ \A cut : CutOfAll(M, N, cut) => CutOfAll(M, N2, cut)
      BY <2>1, <3>1 DEF AllSaid, HasDonor, CutOfAll
    <3> QED BY <2>1, <3>2 DEF Agreed, Fillable, NoDonor
  <2>2. CASE ~AllSaid(M, N)
    BY <2>2 DEF Agreed, Fillable, NoDonor, CutOfAll
  <2> QED BY <2>1, <2>2
<1>8. \A P, p, s : Blame(M, P, p, s, N) => Blame(M, P, p, s, N2)
  BY <1>5, <1>6, <1>7 DEF Blame
<1> QED BY <1>4, <1>5, <1>6, <1>7, <1>8

LEMMA SolePeerGrows ==
    ASSUME NEW M, NEW p, NEW s, NEW N, NEW N2, N \subseteq N2, SoleNet(M, N2), SolePeer(M, p, s, N),
           \A r \in Inventories(N2) : r.participant = p => r \in N
    PROVE  SolePeer(M, p, s, N2)
<1>1. /\ \A cut : Agreed(M, p, N, cut) => Agreed(M, p, N2, cut)
      /\ Fillable(M, p, N) => Fillable(M, p, N2)
  BY SaidGrows
<1>2. KeepsWord(p, s, TargetOf(M), N2)
  <2>1. \A r \in Inventories(N2) : r.participant = p => r \in Inventories(N)
    BY DEF Inventories
  <2>2. KeepsWord(p, s, TargetOf(M), N)
    BY DEF SolePeer
  <2> QED BY <2>1, <2>2 DEF KeepsWord
<1>3. s.active # None => SoleAttempt(M, p, s, s.active, N2)
  <2>1. s.active # None => SoleAttempt(M, p, s, s.active, N)
    BY DEF SolePeer
  <2> QED BY <1>1, <2>1 DEF SoleAttempt
<1> QED BY <1>1, <1>2, <1>3 DEF SolePeer

\* An attempt is judged by what the peer holds and what has been exposed.
LEMMA SameHoldings ==
    ASSUME NEW M, NEW p, NEW s, NEW s2, NEW a, NEW N, SoleAttempt(M, p, s, a, N),
           s2.values = s.values, s2.first = s.first, s2.exposed = s.exposed
    PROVE  SoleAttempt(M, p, s2, a, N)
<1>1. \A t : Through(s2, t) = Through(s, t)
  BY DEF Through
<1>2. \A t, f : Held(s2, t, f) = Held(s, t, f)
  BY <1>1 DEF Held
<1>3. \A own : OwnReport(p, s, a, own) => OwnReport(p, s2, a, own)
  BY <1>1 DEF OwnReport
<1>4. SoundFill(s, a) => SoundFill(s2, a)
  BY <1>1 DEF SoundFill
<1> QED BY <1>2, <1>3, <1>4 DEF SoleAttempt

-----------------------------------------------------------------------------
(* Handlers keep a result good: sending, replacing the attempt, failing.   *)

Speakable(M, N, b) == SoundBody(M, N, b) /\ (b.type = "Inventory" => b \in N)
Sayable(M, N, b) ==
    /\ Speakable(M, N, b)
    /\ ~(b.type = "Abort" /\ b.reason = "MissingHistory")

LEMMA SaySole ==
    ASSUME NEW M, NEW X, NEW B, NEW Y, SoleNet(M, X), X \subseteq Y, Y \subseteq X \cup B,
           \A b \in Y : b \notin X => Speakable(M, X, b),
           \A p \in RestOf(M) : Alone(M, p) => Y = {}
    PROVE  Inventories(Y) = Inventories(X) /\ SoleNet(M, Y)
<1>1. Inventories(Y) = Inventories(X)
  BY DEF Inventories, Speakable
<1>2. ASSUME NEW b \in Y PROVE SoundBody(M, Y, b)
  <2>1. SoundBody(M, X, b)
    BY <1>2 DEF SoleNet, Speakable
  <2> QED BY <1>1, <2>1 DEF SoundBody, SoundChunk, AllSaid
<1>3. OneReportEach(Inventories(Y))
  BY <1>1 DEF SoleNet
<1> QED BY <1>1, <1>2, <1>3 DEF SoleNet

\* To whom a survivor speaks.
LEMMA SentTo ==
    ASSUME NEW M, NEW p, NEW s, NEW bodies, NEW N, SolePeer(M, p, s, N)
    PROVE  /\ Said(Sent(s, p, TargetOf(M), bodies)) \subseteq bodies
           /\ \A m \in Sent(s, p, TargetOf(M), bodies) : m.to \in RestOf(M)
           /\ Alone(M, p) => Sent(s, p, TargetOf(M), bodies) = {}
           /\ ~Alone(M, p) /\ p \in RestOf(M) => Said(Sent(s, p, TargetOf(M), bodies)) = bodies
<1>1. s.running \ {TargetOf(M)} = RestOf(M) \ {p}
  BY DEF SolePeer
<1>2. \A m \in Sent(s, p, TargetOf(M), bodies) : m.to \in RestOf(M) /\ m.body \in bodies
  BY <1>1 DEF Sent
<1>3. Alone(M, p) => Sent(s, p, TargetOf(M), bodies) = {}
  BY <1>1 DEF Sent, Alone
<1>4. ASSUME ~Alone(M, p), p \in RestOf(M) PROVE bodies \subseteq Said(Sent(s, p, TargetOf(M), bodies))
  <2>1. PICK q \in RestOf(M) \ {p} : TRUE
    BY <1>4 DEF Alone
  <2>2. ASSUME NEW b \in bodies PROVE b \in Said(Sent(s, p, TargetOf(M), bodies))
    <3>1. [from |-> p, to |-> q, body |-> b] \in Sent(s, p, TargetOf(M), bodies)
      BY <1>1, <2>1 DEF Sent
    <3> QED BY <3>1 DEF Said
  <2> QED BY <2>2
<1> QED BY <1>2, <1>3, <1>4 DEF Said

LEMMA BroadcastGood ==
    ASSUME NEW M, IsMesh(M), NEW P, NEW p \in M.peers, NEW N, NEW w, Good(M, P, p, N, w),
           NEW t, NEW bodies \in SUBSET Bodies(M),
           IsSole(M) => /\ t = TargetOf(M)
                        /\ Alone(M, p) \/ \A b \in bodies : Sayable(M, Now(N, w), b)
    PROVE  /\ Good(M, P, p, N, Broadcast(w, p, t, bodies))
           /\ Broadcast(w, p, t, bodies).s = w.s
           /\ Broadcast(w, p, t, bodies).error = w.error
           /\ Now(N, w) \subseteq Now(N, Broadcast(w, p, t, bodies))
           /\ IsSole(M) => Inventories(Now(N, Broadcast(w, p, t, bodies))) = Inventories(Now(N, w))
<1> DEFINE u == Broadcast(w, p, t, bodies)
           X == Now(N, w)
           Y == Now(N, u)
<1>1. /\ WorkOK(M, p, u) /\ u.s = w.s /\ u.error = w.error
      /\ u.out = Told(w, p, t, bodies)
  BY BroadcastOK DEF Good
<1>2. X \subseteq Y
  BY <1>1 DEF Now, Said, Told
<1> HIDE DEF u
<1>3. ASSUME IsSole(M) PROVE SoleWork(M, P, p, N, u) /\ Inventories(Y) = Inventories(X)
  <2>1. SoleWork(M, P, p, N, w) /\ t = TargetOf(M)
        /\ (Alone(M, p) \/ \A b \in bodies : Sayable(M, X, b))
    BY <1>3 DEF Good
  <2>2. SolePeer(M, p, w.s, X) /\ p \in RestOf(M) /\ SoleNet(M, X)
    BY <2>1 DEF SoleWork
  <2>3. Y = X \cup Said(Sent(w.s, p, t, bodies))
    BY <1>1 DEF Now, Said, Told
  <2>4. /\ Said(Sent(w.s, p, t, bodies)) \subseteq bodies
        /\ \A m \in Sent(w.s, p, t, bodies) : m.to \in RestOf(M)
        /\ Alone(M, p) => Sent(w.s, p, t, bodies) = {}
    BY <2>1, <2>2, SentTo
  <2>5. \A b \in Y : b \notin X => Sayable(M, X, b)
    BY <2>1, <2>3, <2>4 DEF Said
  <2>6. ASSUME NEW q \in RestOf(M), Alone(M, q) PROVE Y = {}
    <3>1. q = p
      BY <2>2, <2>6 DEF Alone
    <3>2. X = {} /\ Said(Sent(w.s, p, t, bodies)) = {}
      BY <2>2, <2>4, <2>6, <3>1 DEF SoleNet, Said
    <3> QED BY <2>3, <3>2
  <2> DEFINE B == bodies
  <2>7. Y \subseteq X \cup B
    BY <2>3, <2>4
  <2> HIDE DEF X, Y, B
  <2>8. Inventories(Y) = Inventories(X) /\ SoleNet(M, Y) /\ (MissingSaid(Y) => MissingSaid(X))
    <3>1. \A b \in Y : b \notin X => Speakable(M, X, b)
      BY <2>5 DEF Sayable
    <3>2. MissingSaid(Y) => MissingSaid(X)
      BY <2>5 DEF MissingSaid, Sayable
    <3> QED BY <1>2, <2>2, <2>6, <2>7, <3>1, <3>2, SaySole
  <2>9. SolePeer(M, p, w.s, Y)
    <3>1. \A r \in Inventories(Y) : r.participant = p => r \in X
      BY <2>8 DEF Inventories
    <3> QED BY <1>2, <2>2, <2>8, <3>1, SolePeerGrows
  <2>10. /\ \A s : Blame(M, P, p, s, X) => Blame(M, P, p, s, Y)
         /\ \A s : Late(M, s, X) => Late(M, s, Y)
    BY <1>2, <2>8, SaidGrows
  <2>11. \A m \in u.out : m.to \in RestOf(M)
    BY <1>1, <2>1, <2>4 DEF Told, SoleWork
  <2>12. \A r \in Inventories(Y) : r.participant # p => r \in N
    BY <2>1, <2>8 DEF SoleWork, X
  <2>13. /\ w.s.failure = "MissingHistory" \/ MissingSaid(X) => Blame(M, P, p, w.s, X)
         /\ w.error = "MissingHistory" =>
              w.s.active # None /\ (Blame(M, P, p, w.s, X) \/ Late(M, w.s, X))
         /\ w.error # "Superseded"
    BY <2>1 DEF SoleWork, X
  <2>14. /\ u.s.failure = "MissingHistory" \/ MissingSaid(Y) => Blame(M, P, p, u.s, Y)
         /\ u.error = "MissingHistory" =>
              u.s.active # None /\ (Blame(M, P, p, u.s, Y) \/ Late(M, u.s, Y))
         /\ u.error # "Superseded"
    BY <1>1, <2>8, <2>10, <2>13
  <2>15. SolePeer(M, p, u.s, Y)
    BY <1>1, <2>9
  <2> QED BY <2>2, <2>8, <2>11, <2>12, <2>14, <2>15 DEF SoleWork, Y
<1> QED BY <1>1, <1>2, <1>3 DEF Good, u

Trying(w, a) == [w EXCEPT !.s.active = a]
TryingPeer(s, a) == [s EXCEPT !.active = a]
GoesOn(M, p, N, w, a) ==
    IsSole(M) => /\ SoleAttempt(M, p, w.s, a, Now(N, w))
                 /\ a.phase = "Committed" <=> w.s.active.phase = "Committed"
                 /\ w.s.active.reports \subseteq a.reports

LEMMA AttemptGood ==
    ASSUME NEW M, IsMesh(M), NEW P, NEW p, NEW N, NEW w, Good(M, P, p, N, w), w.s.active # None,
           NEW a, a # None, AttemptOK(M, p, a),
           GoesOn(M, p, N, w, a)
    PROVE  /\ Good(M, P, p, N, Trying(w, a))
           /\ Trying(w, a).s = TryingPeer(w.s, a)
           /\ Trying(w, a).s.active = a
           /\ Trying(w, a).error = w.error
           /\ Now(N, Trying(w, a)) = Now(N, w)
<1> DEFINE u == Trying(w, a)
           s2 == TryingPeer(w.s, a)
<1>1. WorkOK(M, p, u) /\ u.s = s2 /\ u.s.active = a /\ u.out = w.out /\ u.error = w.error
  BY WithAttempt DEF Good, Trying, TryingPeer
<1>2. /\ s2.active = a /\ s2.values = w.s.values /\ s2.first = w.s.first /\ s2.receipt = w.s.receipt
      /\ s2.dropped = w.s.dropped /\ s2.running = w.s.running /\ s2.exposed = w.s.exposed
      /\ s2.ceiling = w.s.ceiling /\ s2.queued = w.s.queued /\ s2.deferred = w.s.deferred
      /\ s2.closed = w.s.closed /\ s2.failure = w.s.failure
  BY WithActive DEF Good, WorkOK, TryingPeer
<1> HIDE DEF u, s2
<1>3. Now(N, u) = Now(N, w)
  BY <1>1 DEF Now
<1>4. ASSUME IsSole(M) PROVE SoleWork(M, P, p, N, u)
  <2> DEFINE X == Now(N, w)
  <2>1. SoleWork(M, P, p, N, w)
    BY <1>4 DEF Good
  <2>2. SolePeer(M, p, w.s, X)
    BY <2>1 DEF SoleWork
  <2> HIDE DEF X
  <2>3. SoleAttempt(M, p, s2, a, X)
    BY <1>2, <1>4, SameHoldings DEF X, GoesOn
  <2>4. KeepsWord(p, s2, TargetOf(M), X)
    <3>1. KeepsWord(p, w.s, TargetOf(M), X)
      BY <2>2 DEF SolePeer
    <3>2. w.s.active.reports \subseteq a.reports
      BY <1>4 DEF GoesOn
    <3> QED BY <1>2, <3>1, <3>2 DEF KeepsWord
  <2>5. \A t : Through(s2, t) = Through(w.s, t)
    BY <1>2 DEF Through
  <2>6. a.phase = "Committed" <=> w.s.active.phase = "Committed"
    BY <1>4 DEF GoesOn
  <2>7. SolePeer(M, p, s2, X)
    BY <1>2, <2>2, <2>3, <2>4, <2>5, <2>6 DEF SolePeer
  <2>8. /\ \A Q : Late(M, s2, Q) <=> Late(M, w.s, Q)
        /\ ~Overrun(M, w.s, X)
    BY <1>2 DEF Late, Overrun
  <2>9. Blame(M, P, p, w.s, X) => Blame(M, P, p, s2, X)
    BY <2>8 DEF Blame
  <2> QED BY <1>1, <1>2, <1>3, <2>1, <2>7, <2>8, <2>9 DEF SoleWork, X
<1> QED BY <1>1, <1>3, <1>4 DEF Good, u, s2

LEMMA FailsGood ==
    ASSUME NEW M, IsMesh(M), NEW P, NEW p, NEW N, NEW w, Good(M, P, p, N, w), NEW reason \in Reasons,
           IsSole(M) => reason # "Superseded",
           IsSole(M) /\ reason = "MissingHistory" =>
               w.s.active # None /\ (Blame(M, P, p, w.s, Now(N, w)) \/ Late(M, w.s, Now(N, w)))
    PROVE  Good(M, P, p, N, Fails(w, reason)) /\ Fails(w, reason).s = w.s
<1> DEFINE u == Fails(w, reason)
<1>1. WorkOK(M, p, u) /\ u.s = w.s /\ u.out = w.out /\ u.error = reason
  BY FailsOK DEF Good
<1> HIDE DEF u
<1>2. Now(N, u) = Now(N, w)
  BY <1>1 DEF Now
<1>3. ASSUME IsSole(M) PROVE SoleWork(M, P, p, N, u)
  BY <1>1, <1>2, <1>3 DEF Good, SoleWork
<1> QED BY <1>1, <1>3 DEF Good, u

LEMMA NoneReason == None # "MissingHistory" /\ None # "Superseded" /\ None \notin Reasons
  BY NoneAssumption DEF Reasons

\* A survivor that gives up stays within what it has said.
LEMMA ClosedSole ==
    ASSUME NEW M, IsMesh(M), IsSole(M), NEW p, NEW s, PeerOK(M, p, s), s.active # None, NEW reason \in Reasons,
           NEW X, SolePeer(M, p, s, X)
    PROVE  /\ SolePeer(M, p, Closed(s, reason), X)
           /\ Late(M, s, X) => Overrun(M, Closed(s, reason), X)
           /\ \A P : Blame(M, P, p, s, X) => Blame(M, P, p, Closed(s, reason), X)
           /\ Closed(s, reason).active = None
           /\ Closed(s, reason).failure = reason
<1> DEFINE c == Closed(s, reason)
           t == TargetOf(M)
<1>1. /\ c.ceiling \in FrameOrNullOf(M) /\ c.ceiling <= s.active.held_at
      /\ c.active = None /\ c.closed = s.closed \cup {s.active.op}
      /\ c.values = s.values /\ c.first = s.first /\ c.receipt = s.receipt /\ c.dropped = s.dropped
      /\ c.running = s.running /\ c.exposed = s.exposed /\ c.queued = s.queued
      /\ c.deferred = s.deferred /\ c.failure = reason
  BY ClosedOK
<1>2. c.ceiling # None
  BY <1>1, FrameInt
<1> HIDE DEF c
<1>3. /\ s.closed = {} /\ SoleAttempt(M, p, s, s.active, X)
      /\ s.active.phase = "Committed" <=> s.dropped[t] # NULL_FRAME
  BY DEF SolePeer
<1>4. c.closed = {TheOp(M)}
  BY <1>1, <1>3 DEF SoleAttempt
<1>5. KeepsWord(p, c, t, X)
  <2>1. SUFFICES ASSUME NEW r \in Inventories(X), r.participant = p
                 PROVE  /\ r.available_from <= s.first[t]
                        /\ s.dropped[t] = NULL_FRAME => s.exposed <= r.exposed /\ c.ceiling <= r.exposed
    BY <1>1, <1>2, <1>4 DEF KeepsWord
  <2>2. /\ r.available_from <= s.first[t] /\ r \in s.active.reports
        /\ s.dropped[t] = NULL_FRAME => s.exposed <= r.exposed
    BY <2>1 DEF SolePeer, KeepsWord
  <2>3. s.dropped[t] = NULL_FRAME => r.exposed = s.active.held_at
    <3>1. PICK own \in s.active.reports : OwnReport(p, s, s.active, own)
      BY <1>3 DEF SoleAttempt
    <3>2. own = r
      BY <1>3, <2>1, <2>2, <3>1 DEF SoleAttempt, OneReportEach, OwnReport
    <3> QED BY <1>3, <3>1, <3>2 DEF OwnReport
  <2> QED BY <1>1, <2>2, <2>3
<1>6. \A x : Through(c, x) = Through(s, x)
  BY <1>1 DEF Through
<1>7. SolePeer(M, p, c, X)
  BY <1>1, <1>4, <1>5, <1>6 DEF SolePeer
<1>8. Late(M, s, X) => Overrun(M, c, X)
  BY <1>1, <1>4 DEF Late, Overrun
<1>9. ~Overrun(M, s, X)
  BY DEF Overrun
<1>10. \A P : Blame(M, P, p, s, X) => Blame(M, P, p, c, X)
  BY <1>9 DEF Blame
<1> QED BY <1>1, <1>7, <1>8, <1>10 DEF c

\* A result good but for the reason it fails with, which is then told.
LEMMA FailToldGood ==
    ASSUME NEW M, IsMesh(M), NEW P, NEW p \in M.peers, NEW N, NEW w, Good(M, P, p, N, w), NEW reason \in Reasons,
           IsSole(M) => reason # "Superseded",
           IsSole(M) /\ reason = "MissingHistory" =>
               w.s.active # None /\ (Blame(M, P, p, w.s, Now(N, w)) \/ Late(M, w.s, Now(N, w)))
    PROVE  /\ Good(M, P, p, N, FailTold(w, p, reason))
           /\ FailTold(w, p, reason).error = None
           /\ FailTold(w, p, reason).s.active = None
<1> DEFINE u == FailTold(w, p, reason)
           X == Now(N, w)
           Y == Now(N, u)
<1>0. WorkOK(M, p, w) /\ PeerOK(M, p, w.s)
  BY DEF Good, WorkOK
<1>1. CASE w.s.active = None
  <2>1. WorkOK(M, p, u) /\ u.s = w.s /\ u.out = w.out /\ u.error = None
    BY <1>0, <1>1, FailToldIdle
  <2> HIDE DEF u
  <2>2. Y = X
    BY <2>1 DEF Now
  <2>3. ASSUME IsSole(M) PROVE SoleWork(M, P, p, N, u)
    <3>1. SoleWork(M, P, p, N, w)
      BY <2>3 DEF Good
    <3> QED BY <1>1, <2>1, <2>2, <3>1, NoneReason DEF SoleWork, X, Y
  <2> QED BY <1>1, <2>1, <2>3 DEF Good, u
<1>2. CASE w.s.active # None
  <2> DEFINE c == Closed(w.s, reason)
             a == w.s.active
             B == {Abort(a.op, reason)}
  <2>1. WorkOK(M, p, u) /\ u.s = c /\ u.out = ToldAbort(w, p, reason) /\ u.error = None
    BY <1>0, <1>2, FailToldActive
  <2>2. c.active = None
    BY <1>0, <1>2, ClosedOK
  <2> HIDE DEF u, c
  <2>3. ASSUME IsSole(M) PROVE SoleWork(M, P, p, N, u)
    <3>1. SoleWork(M, P, p, N, w)
      BY <2>3 DEF Good
    <3>2. SolePeer(M, p, w.s, X) /\ SoleNet(M, X) /\ p \in RestOf(M)
      BY <3>1 DEF SoleWork
    <3> HIDE DEF X
    <3>3. a.op = TheOp(M) /\ a.op.target = TargetOf(M)
      BY <1>2, <3>2 DEF SolePeer, SoleAttempt, TheOp
    <3> DEFINE D == Sent(w.s, p, TargetOf(M), B)
    <3>4. u.out = w.out \cup D
      BY <2>1, <3>3 DEF ToldAbort, Told
    <3>5. /\ Said(D) \subseteq B
          /\ \A m \in D : m.to \in RestOf(M)
          /\ Alone(M, p) => D = {}
      <4> HIDE DEF B
      <4> QED BY <3>2, SentTo
    <3> HIDE DEF D
    <3>6. Y = X \cup Said(D)
      BY <3>4 DEF Now, Said, X
    <3>7. \A b \in B : b.type = "Abort" /\ b.reason = reason
      BY DEF Abort
    <3> HIDE DEF Y, B
    <3>8. \A b \in Y : b \notin X => Speakable(M, X, b)
      BY <2>3, <3>5, <3>6, <3>7 DEF Speakable, SoundBody
    <3>9. ASSUME NEW q \in RestOf(M), Alone(M, q) PROVE Y = {}
      <4>1. q = p
        BY <3>2, <3>9 DEF Alone
      <4>2. X = {} /\ Said(D) = {}
        BY <3>2, <3>5, <3>9, <4>1 DEF SoleNet, Said
      <4> QED BY <3>6, <4>2
    <3>10. Inventories(Y) = Inventories(X) /\ SoleNet(M, Y) /\ X \subseteq Y
      <4>1. X \subseteq Y /\ Y \subseteq X \cup B
        BY <3>5, <3>6
      <4> QED BY <3>2, <3>8, <3>9, <4>1, SaySole
    <3>11. /\ SolePeer(M, p, c, X)
           /\ Late(M, w.s, X) => Overrun(M, c, X)
           /\ Blame(M, P, p, w.s, X) => Blame(M, P, p, c, X)
           /\ c.failure = reason
      BY <1>0, <1>2, <2>3, <3>2, ClosedSole DEF c
    <3>12. SolePeer(M, p, c, Y)
      <4>1. \A r \in Inventories(Y) : r.participant = p => r \in X
        BY <3>10 DEF Inventories
      <4> QED BY <3>10, <3>11, <4>1, SolePeerGrows
    <3>13. Blame(M, P, p, c, X) => Blame(M, P, p, c, Y)
      BY <3>10, SaidGrows
    <3>14. reason = "MissingHistory" => Blame(M, P, p, c, X)
      BY <2>3, <3>11 DEF Blame, X
    <3>15. MissingSaid(Y) => MissingSaid(X) \/ reason = "MissingHistory"
      BY <3>5, <3>6, <3>7 DEF MissingSaid
    <3>16. MissingSaid(X) => Blame(M, P, p, w.s, X)
      BY <3>1 DEF SoleWork, X
    <3>17. c.failure = "MissingHistory" \/ MissingSaid(Y) => Blame(M, P, p, c, Y)
      BY <3>11, <3>13, <3>14, <3>15, <3>16
    <3>18. \A m \in u.out : m.to \in RestOf(M)
      BY <3>1, <3>4, <3>5 DEF SoleWork
    <3>19. \A r \in Inventories(Y) : r.participant # p => r \in N
      BY <3>1, <3>10 DEF SoleWork, X
    <3> QED BY <2>1, <3>2, <3>10, <3>12, <3>17, <3>18, <3>19, NoneReason DEF SoleWork, Y
  <2> QED BY <1>2, <2>1, <2>2, <2>3 DEF Good, u
<1> QED BY <1>1, <1>2

LEMMA FailQuietGood ==
    ASSUME NEW M, IsMesh(M), NEW P, NEW p \in M.peers, NEW N, NEW w, Good(M, P, p, N, w),
           w.s.active # None, NEW reason \in Reasons,
           IsSole(M) /\ reason = "MissingHistory" => Blame(M, P, p, w.s, Now(N, w))
    PROVE  Good(M, P, p, N, FailQuiet(w, p, reason))
<1> DEFINE u == FailQuiet(w, p, reason)
           c == Closed(w.s, reason)
           X == Now(N, w)
<1>0. WorkOK(M, p, w) /\ PeerOK(M, p, w.s)
  BY DEF Good, WorkOK
<1>1. WorkOK(M, p, u) /\ u.s = c /\ u.out = w.out /\ u.error = None
  BY <1>0, FailQuietOK
<1> HIDE DEF u
<1>2. Now(N, u) = X
  BY <1>1 DEF Now
<1>3. ASSUME IsSole(M) PROVE SoleWork(M, P, p, N, u)
  <2>1. SoleWork(M, P, p, N, w)
    BY <1>3 DEF Good
  <2>2. SolePeer(M, p, w.s, X)
    BY <2>1 DEF SoleWork
  <2> HIDE DEF X
  <2>3. /\ SolePeer(M, p, c, X) /\ c.failure = reason
        /\ Blame(M, P, p, w.s, X) => Blame(M, P, p, c, X)
    BY <1>0, <1>3, <2>2, ClosedSole
  <2> HIDE DEF c
  <2> QED BY <1>1, <1>2, <1>3, <2>1, <2>3, NoneReason DEF SoleWork, X
<1> QED BY <1>1, <1>3 DEF Good, u

LEMMA OrFailGood ==
    ASSUME NEW M, IsMesh(M), NEW P, NEW p \in M.peers, NEW N, NEW w, Good(M, P, p, N, w)
    PROVE  /\ Good(M, P, p, N, OrFail(w, p))
           /\ OrFail(w, p).error = None
           /\ w.error = None => OrFail(w, p) = w
           /\ w.error # None => OrFail(w, p).s.active = None
<1>1. CASE w.error = None
  BY <1>1 DEF OrFail
<1>2. CASE w.error # None
  <2>1. w.error \in Reasons /\ OrFail(w, p) = FailTold(w, p, w.error)
    BY <1>2, OrFailOK DEF Good
  <2>2. IsSole(M) => w.error # "Superseded"
    BY DEF Good, SoleWork
  <2>3. IsSole(M) /\ w.error = "MissingHistory" =>
            w.s.active # None /\ (Blame(M, P, p, w.s, Now(N, w)) \/ Late(M, w.s, Now(N, w)))
    BY DEF Good, SoleWork
  <2>4. ASSUME NEW e, e = w.error
        PROVE  /\ Good(M, P, p, N, FailTold(w, p, e)) /\ FailTold(w, p, e).error = None
               /\ FailTold(w, p, e).s.active = None
    <3>1. /\ e \in Reasons /\ (IsSole(M) => e # "Superseded")
          /\ IsSole(M) /\ e = "MissingHistory" =>
                w.s.active # None /\ (Blame(M, P, p, w.s, Now(N, w)) \/ Late(M, w.s, Now(N, w)))
      BY <2>1, <2>2, <2>3, <2>4
    <3> HIDE <2>4
    <3> QED BY <3>1, FailToldGood
  <2> QED BY <1>2, <2>1, <2>4
<1> QED BY <1>1, <1>2

-----------------------------------------------------------------------------
(* Entering.                                                               *)

\* What a survivor says when it enters, in a mesh with one target.
LEMMA EnteredReport ==
    ASSUME NEW M, IsMesh(M), IsSole(M), NEW p \in RestOf(M), NEW s, PeerOK(M, p, s), NEW X,
           SolePeer(M, p, s, X), s.dropped[TargetOf(M)] = NULL_FRAME, TheOp(M) \in Ops(M),
           NEW r, r = InventoryOf(Materialised(s, TargetOf(M), HoldAt(s)), p, TheOp(M), HoldAt(s))
    PROVE  /\ SoundReport(M, r) /\ r.participant = p /\ r.type = "Inventory"
           /\ r.exposed = s.exposed /\ HoldAt(s) = s.exposed
           /\ r.through = Through(s, TargetOf(M)) /\ r.available_from = s.first[TargetOf(M)]
           /\ Materialised(s, TargetOf(M), HoldAt(s)) = s
<1> DEFINE t == TargetOf(M)
           h == HoldAt(s)
<1>1. t \in OthersOf(M, p) /\ Known >= 1 /\ p \in M.peers
  BY SoleFacts
<1>2. h \in FrameOf(M) /\ h >= s.exposed /\ s.exposed \in Int
  BY HoldAtType
<1>3. /\ s.exposed >= 0 /\ s.first[t] <= Through(s, t) /\ s.receipt[t] <= Through(s, t)
      /\ s.exposed <= s.receipt[t]
  BY DEF SolePeer
<1>4. h = s.exposed
  <2>1. Max({s.exposed, 0}) \in {s.exposed, 0} /\ Max({s.exposed, 0}) >= s.exposed
    <3>1. 0 \in Int
      OBVIOUS
    <3> QED BY <1>2, <3>1, MinPair, Zenon
  <2> QED BY <1>2, <1>3, <2>1 DEF HoldAt
<1> HIDE DEF h
<1>5. Materialised(s, t, h) = s
  BY <1>1, MaterialisedOK
<1>6. /\ Through(s, t) \in Int /\ s.first[t] \in FrameOf(M) /\ s.receipt[t] \in FrameOrNullOf(M)
  <2>1. s.first[t] \in FrameOf(M) /\ s.receipt[t] \in FrameOrNullOf(M)
    BY <1>1 DEF PeerOK, PeerRecords
  <2> QED BY <1>1, <2>1, ThroughType
<1>7. s.first[t] \in Int /\ s.first[t] >= 0 /\ s.receipt[t] \in Int
  BY <1>6, FrameInt
<1>8. Through(s, t) >= 0 /\ s.exposed <= Through(s, t)
  BY <1>2, <1>3, <1>6, <1>7
<1>9. TheOp(M).target = t
  BY DEF TheOp
<1> DEFINE op == TheOp(M)
           i == InventoryOf(s, p, op, h)
<1>10. r = i
  BY <1>5 DEF h
<1> HIDE DEF op
<1>11. /\ i.participant = p /\ i.op = op /\ i.exposed = h /\ i.through = Through(s, op.target)
       /\ i.available_from = s.first[op.target] /\ i \in Reports(M)
  <2>1. op \in Ops(M) /\ op.target \in OthersOf(M, p) /\ Through(s, op.target) >= 0
    BY <1>1, <1>8, <1>9 DEF op
  <2> QED BY <1>1, <1>2, <2>1, InventoryType
<1>12. i.type = "Inventory"
  BY <1>11 DEF Reports
<1> HIDE DEF i
<1>13. SoundReport(M, r)
  BY <1>3, <1>4, <1>7, <1>8, <1>9, <1>10, <1>11 DEF SoundReport, op
<1> QED BY <1>4, <1>5, <1>9, <1>10, <1>11, <1>12, <1>13 DEF op, h

LEMMA EnteredSole ==
    ASSUME NEW M, IsMesh(M), IsSole(M), NEW p \in RestOf(M), NEW s, PeerOK(M, p, s), NEW X,
           SolePeer(M, p, s, X), s.active = None, s.closed = {}, s.dropped[TargetOf(M)] = NULL_FRAME,
           TheOp(M) \in Ops(M),
           NEW r, r = InventoryOf(Materialised(s, TargetOf(M), HoldAt(s)), p, TheOp(M), HoldAt(s)),
           NEW Y, X \subseteq Y, Y \subseteq X \cup {r}, Alone(M, p) \/ r \in Y
    PROVE  SolePeer(M, p, Entered(s, p, TheOp(M), RestOf(M)), Y)
           /\ Entered(s, p, TheOp(M), RestOf(M)).failure = s.failure
<1> DEFINE t == TargetOf(M)
           a == Attempt(TheOp(M), RestOf(M), s.exposed, r)
           e == [s EXCEPT !.active = a]
<1>1. /\ SoundReport(M, r) /\ r.participant = p /\ r.type = "Inventory"
      /\ r.exposed = s.exposed /\ HoldAt(s) = s.exposed
      /\ r.through = Through(s, t) /\ r.available_from = s.first[t]
      /\ Materialised(s, t, HoldAt(s)) = s
  BY EnteredReport
<1>2. Entered(s, p, TheOp(M), RestOf(M)) = e
  <2>1. TheOp(M).target = t
    BY DEF TheOp
  <2>2. r = InventoryOf(s, p, TheOp(M), s.exposed)
    BY <1>1
  <2> QED BY <1>1, <2>1, <2>2 DEF Entered
<1>3. AttemptOK(M, p, a) /\ a # None
  <2>1. s.exposed \in FrameOf(M)
    BY <1>1, HoldAtType
  <2>2. r \in Reports(M)
    <3>1. t \in OthersOf(M, p) /\ p \in M.peers
      BY SoleFacts
    <3>2. r = InventoryOf(s, p, TheOp(M), s.exposed) /\ TheOp(M).target = t
      BY <1>1 DEF TheOp
    <3> DEFINE op == TheOp(M)
    <3>3. op \in Ops(M) /\ op.target \in OthersOf(M, p)
      BY <3>1, <3>2
    <3> HIDE DEF op
    <3>4. InventoryOf(s, p, op, s.exposed) \in Reports(M)
      BY <2>1, <3>1, <3>3, InventoryType
    <3> QED BY <3>2, <3>4 DEF op
  <2>3. TheOp(M).target # p /\ RestOf(M) \in SUBSET M.peers
    BY SoleFacts DEF TheOp
  <2> QED BY <2>1, <2>2, <2>3, AttemptType
<1>4. /\ a.op = TheOp(M) /\ a.participants = RestOf(M) /\ a.held_at = s.exposed /\ a.reports = {r}
      /\ a.phase = "Inventory" /\ a.cut = None /\ a.next_backfill_chunk = 0
      /\ a.backfill_chunks = {} /\ a.relayed_backfill = {}
  BY DEF Attempt
<1> HIDE DEF a
<1>5. /\ e.active = a /\ e.values = s.values /\ e.first = s.first /\ e.receipt = s.receipt
      /\ e.dropped = s.dropped /\ e.running = s.running /\ e.exposed = s.exposed
      /\ e.ceiling = s.ceiling /\ e.queued = s.queued /\ e.deferred = s.deferred
      /\ e.closed = s.closed /\ e.failure = s.failure
  BY <1>3, WithActive
<1> HIDE DEF e
<1>6. \A x : Through(e, x) = Through(s, x)
  BY <1>5 DEF Through
<1>7. Through(s, t) \in Int /\ TheOp(M).target = t /\ t \in OthersOf(M, p)
  <2>1. t \in OthersOf(M, p)
    BY SoleFacts
  <2> QED BY <2>1, ThroughType DEF TheOp
<1>8. SoleAttempt(M, p, e, a, Y)
  <2>1. OwnReport(p, e, a, r)
    <3>1. s.first[t] \in FrameOf(M)
      BY <1>7 DEF PeerOK, PeerRecords
    <3>2. s.first[t] \in Int /\ r.available_from = s.first[t]
      BY <1>1, <3>1, FrameInt
    <3> QED BY <1>1, <1>4, <1>5, <1>6, <1>7, <3>2 DEF OwnReport
  <2>2. OneReportEach(a.reports)
    BY <1>4 DEF OneReportEach
  <2> QED BY <1>1, <1>4, <2>1, <2>2 DEF SoleAttempt
<1>9. KeepsWord(p, e, t, Y)
  <2>1. SUFFICES ASSUME NEW o \in Inventories(Y), o.participant = p PROVE o = r
    <3>1. r.exposed \in Int /\ r.available_from \in Int
      <4>1. r.available_from \in FrameOf(M) /\ s.exposed \in FrameOrNullOf(M)
        BY <1>1, <1>7 DEF PeerOK, PeerRecords
      <4> QED BY <1>1, <4>1, FrameInt
    <3> QED BY <1>1, <1>3, <1>4, <1>5, <2>1, <3>1 DEF KeepsWord
  <2>2. o \in X => FALSE
    <3>1. KeepsWord(p, s, t, X)
      BY DEF SolePeer
    <3> QED BY <2>1, <3>1 DEF KeepsWord, Inventories
  <2> QED BY <2>1, <2>2 DEF Inventories
<1>10. SolePeer(M, p, e, Y)
  BY <1>3, <1>4, <1>5, <1>6, <1>8, <1>9 DEF SolePeer
<1> QED BY <1>2, <1>5, <1>10

LEMMA EnterGood ==
    ASSUME NEW M, IsMesh(M), NEW P, NEW p \in M.peers, NEW N, NEW w, Good(M, P, p, N, w),
           NEW op \in Ops(M), op.target \in OthersOf(M, p),
           NEW participants \in SUBSET M.peers, p \in participants,
           IsSole(M) => /\ op = TheOp(M) /\ participants = RestOf(M)
                        /\ w.s.active = None /\ w.s.closed = {}
                        /\ w.s.dropped[TargetOf(M)] = NULL_FRAME
    PROVE  /\ Good(M, P, p, N, Enter(w, p, op, participants))
           /\ Enter(w, p, op, participants).error = w.error
           /\ Enter(w, p, op, participants).s.active # None
           /\ Enter(w, p, op, participants).s.active.op = op
           /\ Enter(w, p, op, participants).s.active.participants = participants
           /\ Enter(w, p, op, participants).s.running = w.s.running
<1> DEFINE u == Enter(w, p, op, participants)
           r == InventoryOf(Materialised(w.s, op.target, HoldAt(w.s)), p, op, HoldAt(w.s))
           X == Now(N, w)
           Y == Now(N, u)
<1>0. WorkOK(M, p, w) /\ PeerOK(M, p, w.s)
  BY DEF Good, WorkOK
<1>1. /\ WorkOK(M, p, u) /\ u.s = Entered(w.s, p, op, participants) /\ u.error = w.error
      /\ u.out = Told(w, p, op.target, {r})
      /\ u.s.active # None /\ u.s.active.op = op /\ u.s.active.participants = participants
      /\ u.s.running = w.s.running
  BY <1>0, EnterOK
<1> HIDE DEF u, r
<1>2. ASSUME IsSole(M) PROVE SoleWork(M, P, p, N, u)
  <2> DEFINE t == TargetOf(M)
  <2>1. SoleWork(M, P, p, N, w) /\ op = TheOp(M) /\ participants = RestOf(M) /\ w.s.active = None
        /\ w.s.closed = {} /\ w.s.dropped[t] = NULL_FRAME /\ op.target = t
    BY <1>2 DEF Good, TheOp
  <2>2. SolePeer(M, p, w.s, X) /\ SoleNet(M, X) /\ p \in RestOf(M)
    BY <2>1 DEF SoleWork
  <2> DEFINE D == Sent(w.s, p, TargetOf(M), {r})
  <2>3. u.out = w.out \cup D
    BY <1>1, <2>1 DEF Told
  <2>4. /\ Said(D) \subseteq {r}
        /\ \A m \in D : m.to \in RestOf(M)
        /\ Alone(M, p) => D = {}
        /\ ~Alone(M, p) => Said(D) = {r}
    BY <2>2, SentTo
  <2>5. Y = X \cup Said(D)
    BY <2>3 DEF Now, Said
  <2> HIDE DEF D, X, Y
  <2>6. X \subseteq Y /\ Y \subseteq X \cup {r} /\ (Alone(M, p) \/ r \in Y)
    BY <2>4, <2>5
  <2>7. r = InventoryOf(Materialised(w.s, TargetOf(M), HoldAt(w.s)), p, TheOp(M), HoldAt(w.s))
        /\ TheOp(M) \in Ops(M)
    BY <2>1 DEF r
  <2>8. SoundReport(M, r) /\ r.participant = p /\ r.type = "Inventory"
    BY <1>0, <1>2, <2>1, <2>2, <2>7, EnteredReport
  <2>9. SolePeer(M, p, u.s, Y) /\ u.s.failure = w.s.failure
    <3>1. /\ SolePeer(M, p, Entered(w.s, p, TheOp(M), RestOf(M)), Y)
          /\ Entered(w.s, p, TheOp(M), RestOf(M)).failure = w.s.failure
      BY <1>0, <1>2, <2>1, <2>2, <2>6, <2>7, EnteredSole
    <3> QED BY <1>1, <2>1, <3>1
  <2>10. \A o \in Inventories(X) : o.participant # p
    <3>1. KeepsWord(p, w.s, t, X)
      BY <2>2 DEF SolePeer
    <3> QED BY <2>1, <3>1 DEF KeepsWord
  <2>11. ~AllSaid(M, X)
    BY <2>2, <2>10 DEF AllSaid
  <2>12. SoleNet(M, Y)
    <3>1. ASSUME NEW b \in Y PROVE SoundBody(M, Y, b)
      <4>1. CASE b \in X
        <5>1. SoundBody(M, X, b)
          BY <2>2, <4>1 DEF SoleNet
        <5>2. b.type # "Backfill"
          BY <2>11, <5>1 DEF SoundBody, SoundChunk
        <5> QED BY <5>1, <5>2 DEF SoundBody
      <4>2. CASE b = r
        BY <2>8, <4>2 DEF SoundBody
      <4> QED BY <2>6, <4>1, <4>2
    <3>2. OneReportEach(Inventories(Y))
      <4>1. OneReportEach(Inventories(X))
        BY <2>2 DEF SoleNet
      <4>2. \A o \in Inventories(Y) : o \in Inventories(X) \/ o = r
        BY <2>6 DEF Inventories
      <4> QED BY <2>8, <2>10, <4>1, <4>2 DEF OneReportEach
    <3>3. ASSUME NEW q \in RestOf(M), Alone(M, q) PROVE Y = {}
      <4>1. q = p
        BY <2>2, <3>3 DEF Alone
      <4>2. X = {} /\ Said(D) = {}
        BY <2>2, <2>4, <3>3, <4>1 DEF SoleNet, Said
      <4> QED BY <2>5, <4>2
    <3> QED BY <3>1, <3>2, <3>3 DEF SoleNet
  <2>13. \A m \in u.out : m.to \in RestOf(M)
    BY <2>1, <2>3, <2>4 DEF SoleWork
  <2>14. \A o \in Inventories(Y) : o.participant # p => o \in N
    <3>1. \A o \in Inventories(X) : o.participant # p => o \in N
      BY <2>1 DEF SoleWork, X
    <3> QED BY <2>6, <2>8, <3>1 DEF Inventories
  <2>15. w.s.failure = "MissingHistory" \/ MissingSaid(Y) => Blame(M, P, p, u.s, Y)
    <3>1. MissingSaid(Y) => MissingSaid(X)
      BY <2>6, <2>8 DEF MissingSaid
    <3>2. w.s.failure = "MissingHistory" \/ MissingSaid(X) => Blame(M, P, p, w.s, X)
      BY <2>1 DEF SoleWork, X
    <3>3. Blame(M, P, p, w.s, X) => Elsewhere(M, P, p, X)
      BY <2>1, <2>11 DEF Blame, NoDonor, Overrun
    <3>4. Elsewhere(M, P, p, X) => Elsewhere(M, P, p, Y)
      BY <2>6, <2>12, SaidGrows
    <3> QED BY <3>1, <3>2, <3>3, <3>4 DEF Blame
  <2>16. w.error # "MissingHistory" /\ w.error # "Superseded"
    BY <2>1 DEF SoleWork
  <2> QED BY <1>1, <2>2, <2>9, <2>12, <2>13, <2>14, <2>15, <2>16 DEF SoleWork, Y
<1> QED BY <1>1, <1>2 DEF Good, u

-----------------------------------------------------------------------------
(* The cut, what is missing below it, and who can fill it in.              *)

LEMMA ReportType ==
    ASSUME NEW M, IsMesh(M), NEW p, NEW a, AttemptOK(M, p, a), NEW r \in a.reports
    PROVE  /\ r.exposed \in FrameOf(M) /\ r.exposed \in Int /\ r.exposed >= 0 /\ r.exposed <= LastOf(M)
           /\ r.through \in Int /\ r.through >= -1 /\ r.through <= LastOf(M)
           /\ r.available_from \in Int /\ r.participant \in M.peers
<1>1. r \in Reports(M)
  BY DEF AttemptOK, Attempts
<1>2. /\ r.exposed \in FrameOf(M) /\ r.through \in FrameOrNullOf(M)
      /\ r.available_from \in FrameOrNullOf(M) /\ r.participant \in M.peers
  BY <1>1 DEF Reports
<1> QED BY <1>2, FrameInt

LEMMA CutFacts ==
    ASSUME NEW M, IsMesh(M), NEW p, NEW a, AttemptOK(M, p, a)
    PROVE  /\ Cut(a) \in FrameOf(M)
           /\ \A r \in a.reports : r.exposed <= Cut(a) /\ r.through <= Cut(a)
           /\ \E r \in a.reports : Cut(a) = r.exposed \/ Cut(a) = r.through
<1> DEFINE S == {r.exposed : r \in a.reports} \cup {r.through : r \in a.reports}
<1>1. LastOf(M) \in Int
  BY LastOfMesh
<1>2. S \in SUBSET Int /\ \A x \in S : x <= LastOf(M)
  BY ReportType
<1>3. PICK r0 \in a.reports : TRUE
  BY DEF AttemptOK
<1>4. r0.exposed \in S /\ S # {}
  BY <1>3
<1>5. Max(S) \in S /\ \A y \in S : y <= Max(S)
  <2> HIDE DEF S
  <2> QED BY <1>1, <1>2, <1>4, MaxIsGreatest
<1>6. Cut(a) = Max(S)
  BY DEF Cut
<1>7. \A r \in a.reports : r.exposed <= Max(S) /\ r.through <= Max(S)
  BY <1>5
<1>8. \E r \in a.reports : Max(S) = r.exposed \/ Max(S) = r.through
  <2>1. \A x \in S : \E r \in a.reports : x = r.exposed \/ x = r.through
    OBVIOUS
  <2> HIDE DEF S
  <2> QED BY <1>5, <2>1
<1>9. Max(S) \in Int /\ Max(S) <= LastOf(M)
  <2> HIDE DEF S
  <2> QED BY <1>2, <1>5
<1> HIDE DEF S
<1>10. Max(S) >= 0
  <2>1. r0.exposed >= 0 /\ r0.exposed \in Int /\ r0.exposed <= Max(S)
    BY <1>3, <1>7, ReportType
  <2> QED BY <1>9, <2>1
<1>11. Max(S) \in FrameOf(M)
  BY <1>1, <1>9, <1>10 DEF FrameOf
<1> QED BY <1>6, <1>7, <1>8, <1>11

LEMMA MissingFacts ==
    ASSUME NEW M, IsMesh(M), NEW p, NEW a, AttemptOK(M, p, a), a.cut # None
    PROVE  /\ a.cut \in FrameOf(M) /\ a.cut \in Int
           /\ \A r \in a.reports : r.through < a.cut => r.through + 1 \in Missing(a)
           /\ Missing(a) # {} =>
                 /\ Min(Missing(a)) \in FrameOf(M) /\ Min(Missing(a)) \in Int
                 /\ Min(Missing(a)) <= a.cut /\ Min(Missing(a)) >= 0
                 /\ \E r \in a.reports : r.through < a.cut /\ Min(Missing(a)) = r.through + 1
                 /\ \A r \in a.reports : r.through < a.cut => Min(Missing(a)) <= r.through + 1
<1>1. a.cut \in FrameOf(M)
  BY DEF AttemptOK, Attempts
<1>2. a.cut \in Int /\ a.cut >= 0 /\ a.cut <= LastOf(M) /\ LastOf(M) \in Int
  BY <1>1, FrameInt, LastOfMesh
<1>3. \A r \in a.reports : r.through < a.cut => r.through + 1 \in Missing(a)
  BY DEF Missing
<1>4. \A x \in Missing(a) : \E r \in a.reports : r.through < a.cut /\ x = r.through + 1
  BY DEF Missing
<1>5. \A x \in Missing(a) : x \in Int /\ x >= 0 /\ x <= a.cut
  <2> TAKE x \in Missing(a)
  <2>1. PICK r \in a.reports : r.through < a.cut /\ x = r.through + 1
    BY <1>4
  <2>2. r.through \in Int /\ r.through >= -1
    BY <2>1, ReportType
  <2> QED BY <1>2, <2>1, <2>2
<1>6. ASSUME Missing(a) # {}
      PROVE  Min(Missing(a)) \in Missing(a) /\ \A x \in Missing(a) : Min(Missing(a)) <= x
  <2> DEFINE S == Missing(a)
             z == 0
  <2>1. S \in SUBSET Int /\ S # {} /\ z \in Int /\ \A x \in S : x >= z
    BY <1>5, <1>6
  <2> HIDE DEF S, z
  <2>2. Min(S) \in S /\ \A x \in S : Min(S) <= x
    BY <2>1, MinIsLeast
  <2> QED BY <2>2 DEF S
<1>7. ASSUME Missing(a) # {}
      PROVE  Min(Missing(a)) \in FrameOf(M)
  <2>1. Min(Missing(a)) \in Int /\ Min(Missing(a)) >= 0 /\ Min(Missing(a)) <= a.cut
    BY <1>5, <1>6, <1>7
  <2> QED BY <1>2, <2>1 DEF FrameOf
<1> QED BY <1>1, <1>2, <1>3, <1>4, <1>5, <1>6, <1>7

LEMMA DonorFacts ==
    ASSUME NEW M, IsMesh(M), NEW p, NEW a, AttemptOK(M, p, a)
    PROVE  /\ \A q \in Donors(a) : \E r \in a.reports :
                  r.participant = q /\ r.available_from <= Min(Missing(a)) /\ r.through >= a.cut
           /\ \A r \in a.reports :
                  r.available_from <= Min(Missing(a)) /\ r.through >= a.cut => r.participant \in Donors(a)
           /\ Donors(a) # {} => Min(Donors(a)) \in Donors(a)
<1>1. /\ \A q \in Donors(a) : \E r \in a.reports :
             r.participant = q /\ r.available_from <= Min(Missing(a)) /\ r.through >= a.cut
      /\ \A r \in a.reports :
             r.available_from <= Min(Missing(a)) /\ r.through >= a.cut => r.participant \in Donors(a)
  BY DEF Donors
<1>2. ASSUME Donors(a) # {} PROVE Min(Donors(a)) \in Donors(a)
  <2> DEFINE S == Donors(a)
             z == 0
  <2>1. S \subseteq M.peers /\ M.peers \subseteq Nat
    BY <1>1, ReportType DEF IsMesh
  <2>2. S \in SUBSET Int /\ S # {} /\ z \in Int /\ \A x \in S : x >= z
    BY <1>2, <2>1
  <2> HIDE DEF S, z
  <2>3. Min(S) \in S
    BY <2>2, MinIsLeast
  <2> QED BY <2>3 DEF S
<1> QED BY <1>1, <1>2

\* Someone has it all, or nobody does, as what has been said tells.
LEMMA DonorIsSaid ==
    ASSUME NEW M, IsMesh(M), NEW p \in RestOf(M), NEW a, AttemptOK(M, p, a), a.cut # None, NEW s, NEW X,
           SoleNet(M, X), SoleAttempt(M, p, s, a, X), ~Alone(M, p)
    PROVE  /\ AllSaid(M, X) /\ Inventories(X) = a.reports
           /\ Missing(a) = {} \/ Donors(a) # {} => HasDonor(X)
           /\ Missing(a) # {} /\ Donors(a) = {} => ~HasDonor(X)
<1>1. SoundCut(M, a) /\ a.reports \subseteq X /\ OneReportEach(a.reports)
      /\ \A r \in a.reports : SoundReport(M, r)
  BY DEF SoleAttempt
<1>2. a.reports \subseteq Inventories(X)
  BY <1>1 DEF Inventories, AttemptOK, Attempts, Reports
<1>3. AllSaid(M, X)
  BY <1>1, <1>2 DEF AllSaid, SoundCut
<1>4. ASSUME NEW r \in Inventories(X) PROVE r \in a.reports
  <2>1. r.participant \in RestOf(M)
    BY <1>4 DEF Inventories, SoleNet, SoundBody, SoundReport
  <2>2. PICK o \in a.reports : o.participant = r.participant
    BY <1>1, <2>1 DEF SoundCut
  <2>3. o = r
    BY <1>2, <1>4, <2>2 DEF SoleNet, OneReportEach
  <2> QED BY <2>2, <2>3
<1>5. Inventories(X) = a.reports
  BY <1>2, <1>4
<1>6. /\ a.cut \in Int
      /\ \A r \in a.reports : r.through < a.cut => r.through + 1 \in Missing(a)
      /\ Missing(a) # {} =>
            /\ Min(Missing(a)) \in Int
            /\ \E r \in a.reports : r.through < a.cut /\ Min(Missing(a)) = r.through + 1
            /\ \A r \in a.reports : r.through < a.cut => Min(Missing(a)) <= r.through + 1
  BY MissingFacts
<1>7. /\ \A r \in a.reports : r.through <= a.cut
      /\ \E r \in a.reports : r.through = a.cut
  BY <1>1 DEF SoundCut
<1>8. \A r \in a.reports : r.through \in Int /\ r.available_from \in Int
  BY ReportType
<1>9. ASSUME Missing(a) = {} PROVE HasDonor(X)
  <2>1. PICK d \in a.reports : d.through = a.cut
    BY <1>7
  <2>2. \A r \in a.reports : ~(r.through < a.cut)
    BY <1>6, <1>9
  <2>3. \A r \in a.reports : r.through <= d.through /\ (r.through < d.through => d.available_from <= r.through + 1)
    BY <1>7, <2>1, <2>2
  <2> QED BY <1>5, <2>3 DEF HasDonor
<1>10. ASSUME Missing(a) # {}, Donors(a) # {} PROVE HasDonor(X)
  <2>1. PICK d \in a.reports : d.available_from <= Min(Missing(a)) /\ d.through >= a.cut
    BY <1>10, DonorFacts
  <2>2. d.through = a.cut
    BY <1>6, <1>7, <1>8, <2>1
  <2>3. ASSUME NEW r \in a.reports
        PROVE  r.through <= d.through /\ (r.through < d.through => d.available_from <= r.through + 1)
    <3>1. r.through <= a.cut /\ r.through \in Int /\ d.available_from \in Int
      BY <1>7, <1>8
    <3>2. r.through < a.cut => Min(Missing(a)) <= r.through + 1
      BY <1>6, <1>10
    <3>3. Min(Missing(a)) \in Int
      BY <1>6, <1>10
    <3> QED BY <1>6, <2>1, <2>2, <3>1, <3>2, <3>3
  <2> QED BY <1>5, <2>3 DEF HasDonor
<1>11. ASSUME Missing(a) # {}, Donors(a) = {}, HasDonor(X) PROVE FALSE
  <2>1. PICK d \in a.reports : \A r \in a.reports :
            r.through <= d.through /\ (r.through < d.through => d.available_from <= r.through + 1)
    BY <1>5, <1>11 DEF HasDonor
  <2>2. d.through = a.cut
    BY <1>6, <1>7, <1>8, <2>1
  <2>3. PICK r \in a.reports : r.through < a.cut /\ Min(Missing(a)) = r.through + 1
    BY <1>6, <1>11
  <2>4. d.available_from <= Min(Missing(a)) /\ d.through >= a.cut
    BY <1>6, <2>1, <2>2, <2>3
  <2>5. d.participant \in Donors(a)
    BY <2>4, DonorFacts
  <2> QED BY <1>11, <2>5
<1> QED BY <1>3, <1>5, <1>9, <1>10, <1>11

LEMMA SameAttempt ==
    ASSUME NEW M, NEW p, NEW s, NEW X, NEW a, SoleAttempt(M, p, s, a, X), NEW b,
           b.op = a.op, b.participants = a.participants, b.held_at = a.held_at, b.phase = a.phase,
           b.reports = a.reports, b.cut = a.cut, b.next_backfill_chunk = a.next_backfill_chunk,
           b.backfill_chunks = a.backfill_chunks, b.relayed_backfill = a.relayed_backfill
    PROVE  SoleAttempt(M, p, s, b, X)
<1>1. \A own : OwnReport(p, s, a, own) => OwnReport(p, s, b, own)
  BY DEF OwnReport
<1>2. (SoundCut(M, a) => SoundCut(M, b)) /\ (SoundFill(s, a) => SoundFill(s, b))
  BY DEF SoundCut, SoundFill
<1> QED BY <1>1, <1>2 DEF SoleAttempt

\* As many reports as participants, one each: everyone has reported.
LEMMA AllReported ==
    ASSUME NEW M, IsMesh(M), NEW R, OneReportEach(R), \A r \in R : r.participant \in RestOf(M),
           Cardinality(R) = Cardinality(RestOf(M))
    PROVE  \A q \in RestOf(M) : \E r \in R : r.participant = q
<1> DEFINE S == RestOf(M)
           f == [r \in R |-> r.participant]
<1>1. IsFiniteSet(S)
  BY FS_Subset DEF IsMesh, RestOf
<1>2. f \in Injection(R, S)
  BY DEF Injection, IsInjective, OneReportEach
<1>3. f \in Surjection(R, S)
  <2> HIDE DEF f, S
  <2>1. Cardinality(R) = Cardinality(S)
    BY DEF S
  <2> QED BY <1>1, <1>2, <2>1, FS_Injection
<1> QED BY <1>3 DEF Surjection

LEMMA ChosenCutType ==
    ASSUME NEW M, IsMesh(M), NEW p, NEW a, AttemptOK(M, p, a)
    PROVE  /\ AttemptOK(M, p, ChosenCut(a))
           /\ ChosenCut(a).op = a.op
           /\ ChosenCut(a).phase = "Committed" <=> a.phase = "Committed"
           /\ ChosenCut(a).reports = a.reports
<1> DEFINE b == [a EXCEPT !.cut = Cut(a), !.phase = "Backfill"]
<1>1. CASE a.cut = None /\ Cardinality(a.reports) = Cardinality(a.participants)
  <2>1. ChosenCut(a) = b
    BY <1>1 DEF ChosenCut
  <2>2. Cut(a) \in FrameOf(M) /\ Cut(a) # None
    BY CutFacts, FrameInt
  <2>3. a \in Attempts(M, p)
    BY DEF AttemptOK
  <2> DEFINE cut == Cut(a)
             d == [a EXCEPT !.cut = cut, !.phase = "Backfill"]
  <2>4. b = d /\ cut \in FrameOf(M) /\ cut # None
    BY <2>2
  <2> HIDE DEF cut, b
  <2>5. d \in Attempts(M, p) /\ d.op = a.op /\ d.phase = "Backfill" /\ d.cut = cut
        /\ d.reports = a.reports /\ d.participants = a.participants
        /\ d.backfill_chunks = a.backfill_chunks
    BY <2>3, <2>4 DEF Attempts, Phases
  <2> HIDE DEF d
  <2>6. AttemptOK(M, p, d) /\ a.phase = "Inventory"
    BY <1>1, <2>4, <2>5 DEF AttemptOK
  <2> QED BY <2>1, <2>4, <2>5, <2>6
<1>2. CASE ~(a.cut = None /\ Cardinality(a.reports) = Cardinality(a.participants))
  BY <1>2 DEF ChosenCut
<1> QED BY <1>1, <1>2

LEMMA ChosenCutSole ==
    ASSUME NEW M, IsMesh(M), IsSole(M), NEW p \in RestOf(M), NEW a, AttemptOK(M, p, a), NEW s, PeerOK(M, p, s), NEW X,
           SoleAttempt(M, p, s, a, X), a.phase # "Committed"
    PROVE  SoleAttempt(M, p, s, ChosenCut(a), X)
<1> DEFINE b == [a EXCEPT !.cut = Cut(a), !.phase = "Backfill"]
<1>1. CASE a.cut = None /\ Cardinality(a.reports) = Cardinality(a.participants)
  <2>1. ChosenCut(a) = b
    BY <1>1 DEF ChosenCut
  <2>2. /\ b.op = a.op /\ b.participants = a.participants /\ b.held_at = a.held_at
        /\ b.phase = "Backfill" /\ b.reports = a.reports /\ b.cut = Cut(a)
        /\ b.next_backfill_chunk = a.next_backfill_chunk
        /\ b.backfill_chunks = a.backfill_chunks /\ b.relayed_backfill = a.relayed_backfill
    BY DEF AttemptOK, Attempts
  <2> HIDE DEF b
  <2>3. \A r \in a.reports : SoundReport(M, r) /\ r.exposed \in Int /\ r.through \in Int
    BY ReportType DEF SoleAttempt
  <2>4. a.op = TheOp(M) /\ a.participants = RestOf(M) /\ OneReportEach(a.reports) /\ a.next_backfill_chunk = 0
    BY <1>1 DEF SoleAttempt
  <2>5. \A q \in RestOf(M) : \E r \in a.reports : r.participant = q
    <3>1. \A r \in a.reports : r.participant \in RestOf(M)
      BY <2>3 DEF SoundReport
    <3>2. Cardinality(a.reports) = Cardinality(RestOf(M))
      BY <1>1, <2>4
    <3> DEFINE R == a.reports
    <3>3. OneReportEach(R) /\ (\A r \in R : r.participant \in RestOf(M)) /\ Cardinality(R) = Cardinality(RestOf(M))
      BY <2>4, <3>1, <3>2
    <3> HIDE DEF R
    <3>4. \A q \in RestOf(M) : \E r \in R : r.participant = q
      BY <3>3, AllReported
    <3> QED BY <3>4 DEF R
  <2>6. /\ Cut(a) \in Int
        /\ \A r \in a.reports : r.exposed <= Cut(a) /\ r.through <= Cut(a)
        /\ \E r \in a.reports : Cut(a) = r.exposed \/ Cut(a) = r.through
    BY CutFacts, FrameInt
  <2>7. \E r \in a.reports : r.through = Cut(a)
    <3>1. PICK r \in a.reports : Cut(a) = r.exposed \/ Cut(a) = r.through
      BY <2>6
    <3>2. r.exposed <= r.through /\ r.through <= Cut(a) /\ r.exposed \in Int /\ r.through \in Int
      BY <2>3, <2>6 DEF SoundReport
    <3> QED BY <2>6, <3>1, <3>2
  <2>8. SoundCut(M, b)
    BY <2>2, <2>5, <2>6, <2>7 DEF SoundCut
  <2>9. PICK own \in a.reports : OwnReport(p, s, a, own)
    BY DEF SoleAttempt
  <2>10. OwnReport(p, s, b, own)
    BY <2>2, <2>9 DEF OwnReport
  <2>11. SoundFill(s, b)
    <3>1. own.through <= Through(s, a.op.target)
      BY <2>9 DEF OwnReport
    <3>2. Through(s, a.op.target) \in Int
      <4>1. a.op.target \in OthersOf(M, p)
        BY OpTarget
      <4> QED BY <4>1, ThroughType
    <3>3. ASSUME NEW r \in a.reports, \A o \in a.reports : r.through <= o.through
          PROVE  r.through + 0 <= Through(s, a.op.target)
      <4>1. r.through <= own.through /\ r.through \in Int /\ own.through \in Int
        BY <2>3, <2>9, <3>3
      <4> QED BY <3>1, <3>2, <4>1
    <3> QED BY <2>2, <2>4, <3>3 DEF SoundFill
  <2>12. b.cut # None
    BY <2>2, <2>6, NoneAssumption
  <2>13. SoleAttempt(M, p, s, b, X)
    BY <2>2, <2>8, <2>9, <2>10, <2>11, <2>12 DEF SoleAttempt
  <2> QED BY <2>1, <2>13
<1>2. CASE ~(a.cut = None /\ Cardinality(a.reports) = Cardinality(a.participants))
  BY <1>2 DEF ChosenCut
<1> QED BY <1>1, <1>2

LEMMA CountReadyOK ==
    ASSUME NEW M, NEW p, NEW a, AttemptOK(M, p, a)
    PROVE  /\ AttemptOK(M, p, CountReady(a))
           /\ CountReady(a).op = a.op /\ CountReady(a).cut = a.cut /\ CountReady(a).phase = a.phase
           /\ CountReady(a).reports = a.reports
           /\ \A s, X : SoleAttempt(M, p, s, a, X) => SoleAttempt(M, p, s, CountReady(a), X)
<1> DEFINE d == (CHOOSE r \in a.transcripts : TRUE).digest
           y == a.ready \cup {r.participant : r \in a.transcripts}
           b == [a EXCEPT !.cut_digest = d, !.ready = y]
<1>1. CASE a.cut = None \/ a.transcripts = {}
  BY <1>1 DEF CountReady
<1>2. CASE ~(a.cut = None \/ a.transcripts = {})
  <2>1. CountReady(a) = b
    BY <1>2 DEF CountReady
  <2>2. a \in Attempts(M, p)
    BY DEF AttemptOK
  <2>3. \A r \in a.transcripts : r.digest \in Input \cup {None} /\ r.participant \in M.peers
    BY <2>2 DEF Attempts, Certificates
  <2>4. d \in Input \cup {None}
    <3>1. (CHOOSE r \in a.transcripts : TRUE) \in a.transcripts
      BY <1>2, Zenon
    <3> QED BY <2>3, <3>1
  <2>5. y \in SUBSET M.peers
    BY <2>2, <2>3 DEF Attempts
  <2> HIDE DEF d, y
  <2>6. /\ b \in Attempts(M, p) /\ b.op = a.op /\ b.cut = a.cut /\ b.phase = a.phase /\ b.reports = a.reports
        /\ b.participants = a.participants /\ b.held_at = a.held_at
        /\ b.next_backfill_chunk = a.next_backfill_chunk
        /\ b.backfill_chunks = a.backfill_chunks /\ b.relayed_backfill = a.relayed_backfill
    BY <2>2, <2>4, <2>5 DEF Attempts
  <2> HIDE DEF b
  <2>7. AttemptOK(M, p, b)
    BY <2>6 DEF AttemptOK
  <2>8. \A s, X : SoleAttempt(M, p, s, a, X) => SoleAttempt(M, p, s, b, X)
    BY <2>6, SameAttempt
  <2> QED BY <2>1, <2>6, <2>7, <2>8
<1> QED BY <1>1, <1>2

LEMMA SoleActive ==
    ASSUME NEW M, NEW P, NEW p, NEW N, NEW w, Good(M, P, p, N, w), w.s.active # None
    PROVE  /\ WorkOK(M, p, w) /\ PeerOK(M, p, w.s) /\ AttemptOK(M, p, w.s.active)
           /\ w.s.active.op \in Ops(M) /\ w.s.active.op.target \in OthersOf(M, p)
           /\ IsSole(M) =>
                 /\ p \in RestOf(M) /\ SoleNet(M, Now(N, w)) /\ SolePeer(M, p, w.s, Now(N, w))
                 /\ SoleAttempt(M, p, w.s, w.s.active, Now(N, w))
                 /\ w.s.active.op = TheOp(M) /\ w.s.active.op.target = TargetOf(M)
                 /\ w.s.active.phase = "Committed" <=> w.s.dropped[TargetOf(M)] # NULL_FRAME
<1>1. WorkOK(M, p, w) /\ PeerOK(M, p, w.s) /\ AttemptOK(M, p, w.s.active)
  BY DEF Good, WorkOK, PeerOK
<1>2. w.s.active.op \in Ops(M) /\ w.s.active.op.target \in OthersOf(M, p)
  BY <1>1, OpTarget
<1>3. ASSUME IsSole(M)
      PROVE /\ p \in RestOf(M) /\ SoleNet(M, Now(N, w)) /\ SolePeer(M, p, w.s, Now(N, w))
            /\ SoleAttempt(M, p, w.s, w.s.active, Now(N, w))
            /\ w.s.active.phase = "Committed" <=> w.s.dropped[TargetOf(M)] # NULL_FRAME
  BY <1>3 DEF Good, SoleWork, SolePeer
<1>4. IsSole(M) => w.s.active.op = TheOp(M) /\ w.s.active.op.target = TargetOf(M)
  BY <1>3 DEF SoleAttempt, TheOp
<1> QED BY <1>1, <1>2, <1>3, <1>4

LEMMA PlainSayable ==
    ASSUME NEW M, NEW X, NEW b, b.type \in {"Ready", "Committed", "Commit"}
    PROVE  Sayable(M, X, b)
  BY DEF Sayable, Speakable, SoundBody

LEMMA CertificateType ==
    ASSUME NEW M, IsMesh(M), NEW p \in M.peers, NEW a, AttemptOK(M, p, a), NEW d \in Input \cup {None}
    PROVE  /\ Certificate("Ready", a.op, p, a.cut, d) \in Certificates(M, "Ready")
           /\ Certificate("Committed", a.op, p, a.cut, d) \in Certificates(M, "Committed")
           /\ Commit(a.op, a.cut, d) \in Commits(M)
  BY DEF AttemptOK, Attempts, Certificate, Certificates, Commit, Commits

-----------------------------------------------------------------------------
(* Backfill.                                                               *)

LEMMA HeldSome ==
    ASSUME NEW M, IsMesh(M), NEW p, NEW s, PeerOK(M, p, s), NEW t \in OthersOf(M, p),
           NEW f \in Int, s.first[t] <= f, f <= Through(s, t)
    PROVE  Held(s, t, f) # None /\ Held(s, t, f) = s.values[t][f + 1]
<1> DEFINE v == s.values[t]
           L == Len(v)
<1>1. v \in Seq(Input) /\ L \in Nat /\ Through(s, t) = L - 1
  BY ThroughType
<1>2. s.first[t] \in FrameOf(M)
  BY DEF PeerOK, PeerRecords
<1>3. s.first[t] \in Int /\ s.first[t] >= 0
  BY <1>2, FrameInt
<1>4. Held(s, t, f) = v[f + 1]
  BY <1>1, <1>3 DEF Held
<1> HIDE DEF v
<1>5. f + 1 \in 1 .. L
  <2> HIDE DEF L
  <2> QED BY <1>1, <1>3
<1>6. v[f + 1] \in Input
  BY <1>1, <1>5
<1> QED BY <1>4, <1>6, InputAssumption DEF v

\* Who is alone misses nothing.
LEMMA AloneMissesNothing ==
    ASSUME NEW M, IsMesh(M), NEW p \in RestOf(M), NEW a, AttemptOK(M, p, a), a.cut # None, NEW s, NEW X,
           SoleAttempt(M, p, s, a, X), Alone(M, p)
    PROVE  Missing(a) = {}
<1>1. /\ \A r \in a.reports : r.participant = p
      /\ OneReportEach(a.reports) /\ SoundCut(M, a)
  BY DEF SoleAttempt, SoundReport, Alone
<1>2. PICK r \in a.reports : r.through = a.cut
  BY <1>1 DEF SoundCut
<1>3. \A q \in a.reports : q = r
  BY <1>1, <1>2 DEF OneReportEach
<1>4. a.cut \in Int
  BY MissingFacts
<1>5. \A q \in a.reports : ~(q.through < a.cut)
  BY <1>2, <1>3, <1>4
<1> QED BY <1>5 DEF Missing

LEMMA SendBackfillGood ==
    ASSUME NEW M, IsMesh(M), NEW P, NEW p \in M.peers, NEW N, NEW w, Good(M, P, p, N, w), w.s.active # None,
           w.s.active.cut # None, Missing(w.s.active) # {}, w.s.active.phase # "Committed",
           Donors(w.s.active) # {}, p = Min(Donors(w.s.active))
    PROVE  /\ Good(M, P, p, N, SendBackfill(w, p))
           /\ SendBackfill(w, p).s = w.s
           /\ Now(N, w) \subseteq Now(N, SendBackfill(w, p))
<1> DEFINE a == w.s.active
           t == a.op.target
           start == Min(Missing(a))
           frames == start .. a.cut
           chunk(f) == Backfill(a.op, f - start, Cardinality(frames), f, BackfillValue(w.s, a, f))
           X == Now(N, w)
<1>1. /\ WorkOK(M, p, w) /\ PeerOK(M, p, w.s) /\ AttemptOK(M, p, a) /\ a.op \in Ops(M) /\ t \in OthersOf(M, p)
      /\ IsSole(M) => /\ p \in RestOf(M) /\ SoleNet(M, X) /\ SolePeer(M, p, w.s, X)
                      /\ SoleAttempt(M, p, w.s, a, X) /\ a.op = TheOp(M) /\ t = TargetOf(M)
  BY SoleActive
<1>2. /\ a.cut \in FrameOf(M) /\ a.cut \in Int /\ start \in FrameOf(M) /\ start \in Int
      /\ start <= a.cut /\ start >= 0
      /\ \E r \in a.reports : r.through < a.cut /\ start = r.through + 1
      /\ \A r \in a.reports : r.through < a.cut => start <= r.through + 1
  BY <1>1, MissingFacts
<1>3. IsSole(M) /\ w.s.first[t] <= start => \A f \in frames : BackfillValue(w.s, a, f) # None
  <2>1. SUFFICES ASSUME IsSole(M), w.s.first[t] <= start, NEW f \in frames PROVE Held(w.s, t, f) # None
    BY DEF BackfillValue
  <2>2. PICK own \in a.reports : OwnReport(p, w.s, a, own)
    BY <1>1, <2>1 DEF SoleAttempt
  <2>3. PICK r \in a.reports : r.participant = p /\ r.available_from <= start /\ r.through >= a.cut
    <3>1. p \in Donors(a)
      BY <1>1, DonorFacts
    <3> QED BY <1>1, <3>1, DonorFacts
  <2>4. r = own
    BY <1>1, <2>1, <2>2, <2>3 DEF SoleAttempt, OneReportEach, OwnReport
  <2>5. own.available_from <= w.s.first[t] /\ own.through <= Through(w.s, t)
    BY <2>2 DEF OwnReport
  <2>6. /\ own.available_from \in Int /\ own.through \in Int
    BY <1>1, <2>2, ReportType
  <2>7. /\ w.s.values[t] \in Seq(Input) /\ Len(w.s.values[t]) \in Nat
        /\ Through(w.s, t) = Len(w.s.values[t]) - 1
    <3>1. PeerOK(M, p, w.s) /\ t \in OthersOf(M, p)
      BY <1>1
    <3> HIDE DEF t
    <3> QED BY <3>1, ThroughType
  <2>8. f \in Int /\ start <= f /\ f <= a.cut
    BY <1>2, <2>1
  <2> HIDE DEF start
  <2>9. w.s.first[t] <= f /\ f <= Through(w.s, t) /\ f + 1 \in 1 .. Len(w.s.values[t])
    <3>1. w.s.first[t] <= start /\ w.s.first[t] \in Int
      <4>1. w.s.first[t] \in FrameOf(M)
        BY <1>1 DEF PeerOK, PeerRecords
      <4> QED BY <2>1, <4>1, FrameInt DEF start
    <3> DEFINE L == Len(w.s.values[t])
               x == Through(w.s, t)
               c == a.cut
               y == w.s.first[t]
    <3>2. L \in Nat /\ x = L - 1
      BY <2>7
    <3>3. start \in Int /\ start >= 0 /\ c \in Int /\ own.through >= c /\ own.through <= x /\ own.through \in Int
          /\ y <= start /\ y \in Int /\ f \in Int /\ start <= f /\ f <= c
      BY <1>2, <2>3, <2>4, <2>5, <2>6, <2>8, <3>1
    <3> HIDE DEF L, x, c, y
    <3>4. y <= f /\ f <= x /\ f + 1 \in 1 .. L
      BY <3>2, <3>3
    <3> QED BY <3>4 DEF L, x, y
  <2> QED BY <1>1, <2>8, <2>9, HeldSome
<1>4. CASE \E f \in frames : BackfillValue(w.s, a, f) = None
  <2>1. IsSole(M) => Late(M, w.s, X)
    <3> SUFFICES ASSUME IsSole(M) PROVE Late(M, w.s, X)
      OBVIOUS
    <3>1. ~(w.s.first[t] <= start)
      <4> HIDE DEF frames, start
      <4> QED BY <1>3, <1>4
    <3>2. PICK r \in a.reports : r.through < a.cut /\ start = r.through + 1
      BY <1>2
    <3>3. ~Alone(M, p)
      BY <1>1, AloneMissesNothing
    <3>4. w.s.dropped[t] = NULL_FRAME /\ t = TargetOf(M)
      BY SoleActive
    <3>7. r \in X
      BY <1>1, <3>2, <3>3 DEF SoleAttempt
    <3>8. r.type = "Inventory"
      <4>1. a.reports \subseteq Reports(M)
        BY <1>1 DEF AttemptOK, Attempts
      <4> QED BY <3>2, <4>1 DEF Reports
    <3>5. w.s.first[t] \in Int
      <4>1. w.s.first[t] \in FrameOf(M)
        BY <1>1 DEF PeerOK, PeerRecords
      <4> QED BY <4>1, FrameInt
    <3>6. w.s.first[t] > r.through + 1
      BY <1>2, <3>1, <3>2, <3>5
    <3> HIDE DEF X
    <3> QED BY <3>4, <3>6, <3>7, <3>8 DEF Late, Inventories
  <2> DEFINE e == "MissingHistory"
  <2>2. SendBackfill(w, p) = Fails(w, e)
    BY <1>4 DEF SendBackfill
  <2>3. e \in Reasons /\ e # "Superseded"
    BY DEF Reasons
  <2> HIDE DEF e
  <2>4. Good(M, P, p, N, Fails(w, e)) /\ Fails(w, e).s = w.s
    BY <2>1, <2>3, FailsGood
  <2>5. Now(N, Fails(w, e)) = Now(N, w)
    BY <1>1 DEF Now, Fails, WorkOK, Works
  <2> QED BY <2>2, <2>4, <2>5
<1>5. CASE ~\E f \in frames : BackfillValue(w.s, a, f) = None
  <2> DEFINE bodies == {chunk(f) : f \in frames}
  <2>1. SendBackfill(w, p) = Broadcast(w, p, t, bodies)
    BY <1>5 DEF SendBackfill
  <2>2. Cardinality(frames) \in Nat
    BY <1>2, FS_Interval, FS_CardinalityType
  <2>3. ASSUME NEW f \in frames PROVE chunk(f) \in Chunks(M)
    <3>1. f \in Int /\ f - start \in Int
      BY <1>2, <2>3
    <3>2. Held(w.s, t, f) # None
      BY <1>5, <2>3 DEF BackfillValue
    <3>3. f \in FrameOf(M) /\ Held(w.s, t, f) \in Input /\ (Known >= 1 => IsReal(M, t, f, Held(w.s, t, f)))
      BY <1>1, <3>1, <3>2, HeldType
    <3> HIDE DEF frames, start
    <3> QED BY <1>1, <2>2, <3>1, <3>3 DEF Backfill, BackfillValue, Chunks
  <2>4. bodies \in SUBSET Bodies(M)
    BY <2>3 DEF Bodies
  <2>5. ASSUME IsSole(M), ~Alone(M, p), NEW b \in bodies PROVE Sayable(M, X, b)
    <3>1. PICK f \in frames : b = chunk(f)
      BY <2>5
    <3>2. b.type = "Backfill" /\ b.index = f - start /\ b.frame = f
      BY <3>1 DEF Backfill
    <3>3. AllSaid(M, X) /\ Inventories(X) = a.reports
      BY <1>1, <2>5, DonorIsSaid
    <3>4. ASSUME NEW r \in a.reports, \A o \in a.reports : r.through <= o.through
          PROVE  start = r.through + 1
      <4>1. PICK o \in a.reports : o.through < a.cut /\ start = o.through + 1
        BY <1>2
      <4>2. r.through <= o.through /\ r.through \in Int /\ o.through \in Int
        BY <1>1, <3>4, <4>1, ReportType
      <4>3. start <= r.through + 1
        BY <1>2, <4>1, <4>2
      <4> QED BY <1>2, <4>1, <4>2, <4>3
    <3>5. SoundChunk(M, X, b)
      BY <3>2, <3>3, <3>4 DEF SoundChunk
    <3> QED BY <3>2, <3>5 DEF Sayable, Speakable, SoundBody
  <2>6. IsSole(M) => t = TargetOf(M) /\ (Alone(M, p) \/ \A b \in bodies : Sayable(M, X, b))
    BY <1>1, <2>5
  <2> HIDE DEF bodies
  <2>7. /\ Good(M, P, p, N, Broadcast(w, p, t, bodies)) /\ Broadcast(w, p, t, bodies).s = w.s
        /\ Now(N, w) \subseteq Now(N, Broadcast(w, p, t, bodies))
    BY <2>4, <2>6, BroadcastGood
  <2> QED BY <2>1, <2>7
<1> QED BY <1>4, <1>5

LEMMA AttemptIsSome ==
    ASSUME NEW M, IsMesh(M), NEW p, NEW a, AttemptOK(M, p, a)
    PROVE  a # None
<1>1. a \in Attempts(M, p)
  BY DEF AttemptOK
<1>2. /\ M.peers \subseteq Nat /\ DOMAIN M.stream \subseteq Nat /\ FrameOf(M) \subseteq Int
      /\ FrameOrNullOf(M) \subseteq Int
  BY FrameInt DEF IsMesh
<1>3. Ops(M) \subseteq Operation
  BY <1>2 DEF Ops, Operation
<1>4. Reports(M) \subseteq Report
  BY <1>2, <1>3 DEF Reports, Report
<1>5. Certificates(M, "Ready") \subseteq CertificateOf("Ready")
  BY <1>2, <1>3 DEF Certificates, CertificateOf
<1>6. Commits(M) \subseteq CommitOrder
  BY <1>2, <1>3 DEF Commits, CommitOrder
<1>7. Chunks(M) \subseteq Chunk
  BY <1>2, <1>3 DEF Chunks, Chunk
<1>8. a \in CoordinatedDropAttempt
  BY <1>1, <1>2, <1>3, <1>4, <1>5, <1>6, <1>7 DEF Attempts, CoordinatedDropAttempt
<1> QED BY <1>8, NoneAssumption

-----------------------------------------------------------------------------
(* Ready and commit.                                                       *)

LEMMA MarkReadyGood ==
    ASSUME NEW M, IsMesh(M), NEW P, NEW p \in M.peers, NEW N, NEW w, Good(M, P, p, N, w), w.s.active # None,
           w.s.active.phase = "Backfill", Held(w.s, w.s.active.op.target, w.s.active.cut) # None,
           IsSole(M) => Fillable(M, p, Now(N, w))
    PROVE  Good(M, P, p, N, MarkReady(w, p))
<1> DEFINE a == w.s.active
           t == a.op.target
           digest == Held(w.s, t, a.cut)
           cert == Certificate("Ready", a.op, p, a.cut, digest)
           X == Now(N, w)
           e == "ConflictingHistory"
<1>1. /\ WorkOK(M, p, w) /\ PeerOK(M, p, w.s) /\ AttemptOK(M, p, a) /\ a.op \in Ops(M) /\ t \in OthersOf(M, p)
      /\ IsSole(M) => SoleAttempt(M, p, w.s, a, X) /\ t = TargetOf(M)
  BY SoleActive
<1>2. a.cut # None /\ a.cut \in FrameOf(M) /\ a.cut \in Int
  <2>1. a.cut # None
    BY <1>1 DEF AttemptOK
  <2> QED BY <1>1, <2>1, MissingFacts
<1>3. digest \in Input /\ digest # None
  BY <1>1, <1>2, HeldType
<1> HIDE DEF digest
<1>4. CASE a.cut_digest \notin {None, digest}
  <2>1. MarkReady(w, p) = Fails(w, e)
    BY <1>4 DEF MarkReady, digest
  <2>2. e \in Reasons /\ e # "Superseded" /\ e # "MissingHistory"
    BY DEF Reasons
  <2> HIDE DEF e
  <2>3. Good(M, P, p, N, Fails(w, e))
    BY <2>2, FailsGood
  <2> QED BY <2>1, <2>3
<1>5. CASE a.cut_digest \in {None, digest}
  <2> DEFINE b == [a EXCEPT !.cut_digest = digest, !.phase = "Ready", !.ready = @ \cup {p},
                            !.transcripts = @ \cup {cert}]
             u == Trying(w, b)
  <2>1. MarkReady(w, p) = Broadcast(u, p, t, {cert})
    BY <1>5 DEF MarkReady, digest, Trying
  <2>2. cert \in Certificates(M, "Ready")
    BY <1>1, <1>3, CertificateType
  <2>3. cert.type = "Ready"
    BY DEF Certificate
  <2> HIDE DEF cert
  <2>4. /\ b \in Attempts(M, p) /\ b.op = a.op /\ b.phase = "Ready" /\ b.cut = a.cut /\ b.reports = a.reports
        /\ b.participants = a.participants /\ b.held_at = a.held_at
        /\ b.next_backfill_chunk = a.next_backfill_chunk
        /\ b.backfill_chunks = a.backfill_chunks /\ b.relayed_backfill = a.relayed_backfill
    BY <1>1, <1>3, <2>2 DEF AttemptOK, Attempts, Phases
  <2> HIDE DEF b
  <2>5. AttemptOK(M, p, b) /\ b # None
    <3>1. AttemptOK(M, p, b)
      BY <1>1, <1>2, <2>4 DEF AttemptOK
    <3> QED BY <3>1, AttemptIsSome
  <2>6. ASSUME IsSole(M) PROVE SoleAttempt(M, p, w.s, b, X)
    <3>1. SoleAttempt(M, p, w.s, a, X)
      BY <1>1, <2>6
    <3>2. \A own : OwnReport(p, w.s, a, own) => OwnReport(p, w.s, b, own)
      BY <2>4 DEF OwnReport
    <3>3. (SoundCut(M, a) => SoundCut(M, b)) /\ (SoundFill(w.s, a) => SoundFill(w.s, b))
      BY <2>4 DEF SoundCut, SoundFill
    <3>4. Held(w.s, b.op.target, b.cut) # None /\ Fillable(M, p, X)
      BY <1>3, <2>4, <2>6 DEF digest
    <3> QED BY <1>2, <2>4, <3>1, <3>2, <3>3, <3>4 DEF SoleAttempt
  <2>7. Good(M, P, p, N, u) /\ Now(N, u) = X
    <3>1. GoesOn(M, p, N, w, b)
      BY <2>4, <2>6 DEF GoesOn
    <3> QED BY <2>5, <3>1, AttemptGood
  <2> HIDE DEF u
  <2> DEFINE B == {cert}
  <2>8. B \in SUBSET Bodies(M)
    BY <2>2 DEF Bodies
  <2>9. IsSole(M) => t = TargetOf(M) /\ (Alone(M, p) \/ \A c \in B : Sayable(M, Now(N, u), c))
    BY <1>1, <2>3, PlainSayable
  <2>10. MarkReady(w, p) = Broadcast(u, p, t, B)
    BY <2>1
  <2> HIDE DEF B, t
  <2>11. Good(M, P, p, N, Broadcast(u, p, t, B))
    BY <2>7, <2>8, <2>9, BroadcastGood
  <2> QED BY <2>10, <2>11
<1> QED BY <1>4, <1>5

\* The peer that commits: its typing, and its place in a mesh with one target.
Committing(s, p, a, t, commit) ==
    [s EXCEPT !.dropped[t] = a.cut, !.receipt[t] = a.cut, !.running = @ \ {t},
              !.active = [a EXCEPT !.phase = "Committed", !.pending_commit = commit,
                                   !.committed_acks = @ \cup {p}]]

LEMMA CommittingOK ==
    ASSUME NEW M, IsMesh(M), NEW p \in M.peers, NEW s, PeerOK(M, p, s), NEW a, a = s.active, a # None,
           NEW t, t = a.op.target, a.cut # None, Held(s, t, a.cut) # None, NEW commit \in Commits(M)
    PROVE  LET c == Committing(s, p, a, t, commit)
           IN  /\ PeerOK(M, p, c)
               /\ c.values = s.values /\ c.first = s.first /\ c.exposed = s.exposed /\ c.ceiling = s.ceiling
               /\ c.queued = s.queued /\ c.deferred = s.deferred /\ c.closed = s.closed /\ c.failure = s.failure
               /\ c.running = s.running \ {t} /\ c.dropped[t] = a.cut /\ c.receipt[t] = a.cut
               /\ c.active # None /\ AttemptOK(M, p, c.active) /\ c.active.phase = "Committed"
               /\ c.active.op = a.op /\ c.active.participants = a.participants /\ c.active.reports = a.reports
               /\ c.active.held_at = a.held_at /\ c.active.cut = a.cut
               /\ c.active.next_backfill_chunk = a.next_backfill_chunk
               /\ c.active.backfill_chunks = a.backfill_chunks
               /\ c.active.relayed_backfill = a.relayed_backfill
<1> DEFINE c == Committing(s, p, a, t, commit)
           b == [a EXCEPT !.phase = "Committed", !.pending_commit = commit, !.committed_acks = @ \cup {p}]
           d == [s.dropped EXCEPT ![t] = a.cut]
           e == [s.receipt EXCEPT ![t] = a.cut]
           r == s.running \ {t}
<1>1. AttemptOK(M, p, a) /\ a.op \in Ops(M) /\ t \in OthersOf(M, p) /\ s \in PeerRecords(M, p)
  BY OpTarget DEF PeerOK
<1>2. a.cut \in FrameOf(M) /\ a.cut \in Int
  BY <1>1, MissingFacts
<1>3. /\ b \in Attempts(M, p) /\ b.op = a.op /\ b.phase = "Committed" /\ b.cut = a.cut /\ b.reports = a.reports
      /\ b.participants = a.participants /\ b.held_at = a.held_at
      /\ b.next_backfill_chunk = a.next_backfill_chunk
      /\ b.backfill_chunks = a.backfill_chunks /\ b.relayed_backfill = a.relayed_backfill
  BY <1>1 DEF AttemptOK, Attempts, Phases
<1>4. s.dropped \in [OthersOf(M, p) -> FrameOrNullOf(M)] /\ s.receipt \in [OthersOf(M, p) -> FrameOrNullOf(M)]
      /\ s.running \in SUBSET (M.peers \ {p})
  BY <1>1 DEF PeerRecords
<1>5. /\ d \in [OthersOf(M, p) -> FrameOrNullOf(M)] /\ e \in [OthersOf(M, p) -> FrameOrNullOf(M)]
      /\ r \in SUBSET (M.peers \ {p}) /\ d[t] = a.cut /\ e[t] = a.cut
      /\ \A x \in OthersOf(M, p) : x # t => d[x] = s.dropped[x]
  BY <1>1, <1>2, <1>4 DEF FrameOrNullOf
<1>6. c = [s EXCEPT !.dropped = d, !.receipt = e, !.running = r, !.active = b]
  BY DEF Committing
<1> HIDE DEF b, d, e, r, c
<1>7. /\ c \in PeerRecords(M, p)
      /\ c.values = s.values /\ c.first = s.first /\ c.exposed = s.exposed /\ c.ceiling = s.ceiling
      /\ c.queued = s.queued /\ c.deferred = s.deferred /\ c.closed = s.closed /\ c.failure = s.failure
      /\ c.running = r /\ c.dropped = d /\ c.receipt = e /\ c.active = b
  BY <1>1, <1>3, <1>5, <1>6 DEF PeerRecords
<1>8. AttemptOK(M, p, b) /\ b # None
  <2>1. AttemptOK(M, p, b)
    BY <1>1, <1>3 DEF AttemptOK
  <2> QED BY <2>1, AttemptIsSome
<1>9. a.cut < Len(s.values[t])
  <2>1. a.cut <= Through(s, t)
    BY <1>1, <1>2, HeldType
  <2>2. Through(s, t) = Len(s.values[t]) - 1 /\ Len(s.values[t]) \in Nat
    BY <1>1, ThroughType
  <2> QED BY <1>2, <2>1, <2>2
<1>10. \A x \in OthersOf(M, p) : ValuesOK(M, x, c.values[x]) /\ c.dropped[x] < Len(c.values[x])
  BY <1>5, <1>7, <1>9 DEF PeerOK
<1>11. PeerOK(M, p, c)
  BY <1>7, <1>8, <1>10 DEF PeerOK
<1> QED BY <1>3, <1>5, <1>7, <1>8, <1>11 DEF c, r

LEMMA CommittingSole ==
    ASSUME NEW M, IsMesh(M), IsSole(M), NEW p \in RestOf(M), NEW s, PeerOK(M, p, s), NEW X,
           SolePeer(M, p, s, X), SoleNet(M, X), NEW a, a = s.active, a # None, a.phase = "Ready",
           NEW commit \in Commits(M)
    PROVE  /\ SolePeer(M, p, Committing(s, p, a, a.op.target, commit), X)
           /\ Held(s, a.op.target, a.cut) # None
<1> DEFINE t == a.op.target
           c == Committing(s, p, a, t, commit)
<1>1. AttemptOK(M, p, a) /\ p \in M.peers /\ t \in OthersOf(M, p)
  BY SoleFacts, OpTarget DEF PeerOK
<1>2. SoleAttempt(M, p, s, a, X) /\ s.closed = {}
  BY DEF SolePeer
<1>3. t = TargetOf(M) /\ a.cut # None /\ Held(s, t, a.cut) # None /\ Fillable(M, p, X) /\ SoundCut(M, a)
  <2>1. a.cut # None
    BY <1>1 DEF AttemptOK
  <2> QED BY <1>2, <2>1 DEF SoleAttempt, TheOp
<1>4. a.cut \in Int /\ a.cut >= 0 /\ a.cut \in FrameOf(M)
  BY <1>1, <1>3, MissingFacts, FrameInt
<1>5. /\ PeerOK(M, p, c)
      /\ c.values = s.values /\ c.first = s.first /\ c.exposed = s.exposed /\ c.ceiling = s.ceiling
      /\ c.queued = s.queued /\ c.deferred = s.deferred /\ c.closed = s.closed /\ c.failure = s.failure
      /\ c.running = s.running \ {t} /\ c.dropped[t] = a.cut /\ c.receipt[t] = a.cut
      /\ c.active # None /\ AttemptOK(M, p, c.active) /\ c.active.phase = "Committed"
      /\ c.active.op = a.op /\ c.active.participants = a.participants /\ c.active.reports = a.reports
      /\ c.active.held_at = a.held_at /\ c.active.cut = a.cut
      /\ c.active.next_backfill_chunk = a.next_backfill_chunk
      /\ c.active.backfill_chunks = a.backfill_chunks
      /\ c.active.relayed_backfill = a.relayed_backfill
  BY <1>1, <1>3, CommittingOK
<1> HIDE DEF c
<1>6. \A x : Through(c, x) = Through(s, x)
  BY <1>5 DEF Through
<1>7. SoleAttempt(M, p, c, c.active, X)
  <2>1. PICK own \in a.reports : OwnReport(p, s, a, own)
    BY <1>2 DEF SoleAttempt
  <2>2. OwnReport(p, c, c.active, own)
    BY <1>5, <2>1 DEF OwnReport
  <2>3. SoundCut(M, c.active)
    BY <1>3, <1>5 DEF SoundCut
  <2>4. SoundFill(c, c.active)
    <3>1. SoundFill(s, a)
      BY <1>2, <1>3 DEF SoleAttempt
    <3> QED BY <1>5, <1>6, <3>1 DEF SoundFill
  <2> QED BY <1>2, <1>5, <2>1, <2>2, <2>3, <2>4 DEF SoleAttempt
<1>8. Agreed(M, p, X, a.cut)
  <2>1. CASE Alone(M, p)
    BY <2>1 DEF Agreed
  <2>2. CASE ~Alone(M, p)
    <3>1. AllSaid(M, X) /\ Inventories(X) = a.reports
      BY <1>1, <1>2, <1>3, <2>2, DonorIsSaid
    <3> QED BY <1>3, <3>1 DEF Agreed, CutOfAll, SoundCut
  <2> QED BY <2>1, <2>2
<1>9. KeepsWord(p, c, t, X)
  <2>1. KeepsWord(p, s, t, X)
    BY <1>3 DEF SolePeer
  <2>2. c.dropped[t] # NULL_FRAME
    BY <1>4, <1>5 DEF NULL_FRAME
  <2> QED BY <1>5, <2>1, <2>2 DEF KeepsWord
<1>10. a.cut <= Through(s, t)
  BY <1>1, <1>3, <1>4, HeldType
<1>11. SolePeer(M, p, c, X)
  <2>1. c.dropped[t] # NULL_FRAME
    BY <1>4, <1>5 DEF NULL_FRAME
  <2>2. c.running \ {t} = RestOf(M) \ {p}
    <3>1. s.running \ {t} = RestOf(M) \ {p}
      BY <1>3 DEF SolePeer
    <3> QED BY <1>5, <3>1
  <2>3. c.exposed >= 0 /\ c.first[t] <= Through(c, t) /\ c.receipt[t] <= Through(c, t)
    BY <1>3, <1>5, <1>6, <1>10 DEF SolePeer
  <2>4. c.queued = {} /\ c.deferred = <<>> /\ c.closed = {}
    BY <1>2, <1>5 DEF SolePeer
  <2> QED BY <1>3, <1>5, <1>7, <1>8, <1>9, <2>1, <2>2, <2>3, <2>4 DEF SolePeer
<1> QED BY <1>3, <1>11 DEF c

LEMMA ApplyCommitGood ==
    ASSUME NEW M, IsMesh(M), NEW P, NEW p \in M.peers, NEW N, NEW w, Good(M, P, p, N, w), w.s.active # None,
           w.s.active.phase = "Ready", IsSole(M) => w.error = None, NEW commit \in Commits(M)
    PROVE  Good(M, P, p, N, ApplyCommit(w, p, commit))
<1> DEFINE a == w.s.active
           t == a.op.target
           c == Committing(w.s, p, a, t, commit)
           u == [w EXCEPT !.s = c]
           cert == Certificate("Committed", a.op, p, a.cut, a.cut_digest)
           B == {commit, cert}
           X == Now(N, w)
           e == IF commit # Commit(a.op, a.cut, a.cut_digest) THEN "ConflictingHistory"
                ELSE IF w.s.dropped[t] # NULL_FRAME THEN "GenerationChanged" ELSE "MissingHistory"
<1>1. /\ WorkOK(M, p, w) /\ PeerOK(M, p, w.s) /\ AttemptOK(M, p, a) /\ t \in OthersOf(M, p)
      /\ IsSole(M) => /\ p \in RestOf(M) /\ SoleNet(M, X) /\ SolePeer(M, p, w.s, X) /\ t = TargetOf(M)
  BY SoleActive
<1>2. a.cut # None
  BY <1>1 DEF AttemptOK
<1>3. IsSole(M) => SolePeer(M, p, c, X) /\ Held(w.s, t, a.cut) # None
  <2> SUFFICES ASSUME IsSole(M) PROVE SolePeer(M, p, c, X) /\ Held(w.s, t, a.cut) # None
    OBVIOUS
  <2>1. p \in RestOf(M) /\ PeerOK(M, p, w.s) /\ SoleNet(M, X) /\ SolePeer(M, p, w.s, X)
    BY <1>1
  <2> HIDE DEF X
  <2> QED BY <2>1, CommittingSole
<1>4. CASE commit # Commit(a.op, a.cut, a.cut_digest) \/ w.s.dropped[t] # NULL_FRAME
           \/ Held(w.s, t, a.cut) = None
  <2>1. ApplyCommit(w, p, commit) = Fails(w, e)
    BY <1>4 DEF ApplyCommit
  <2>2. e \in Reasons /\ e # "Superseded" /\ (IsSole(M) => e # "MissingHistory")
    BY <1>3, <1>4 DEF Reasons
  <2> HIDE DEF e
  <2>3. Good(M, P, p, N, Fails(w, e))
    BY <2>2, FailsGood
  <2> QED BY <2>1, <2>3
<1>5. CASE ~(commit # Commit(a.op, a.cut, a.cut_digest) \/ w.s.dropped[t] # NULL_FRAME
             \/ Held(w.s, t, a.cut) = None)
  <2>1. ApplyCommit(w, p, commit) = Broadcast(u, p, t, B)
    BY <1>5 DEF ApplyCommit, Committing
  <2>2. PeerOK(M, p, c) /\ c.active # None /\ c.failure = w.s.failure
    BY <1>1, <1>2, <1>5, CommittingOK
  <2> HIDE DEF c
  <2>3. WorkOK(M, p, u) /\ u.s = c /\ u.out = w.out /\ u.error = w.error
    BY <1>1, <2>2, WithPeer
  <2> HIDE DEF u
  <2>4. Now(N, u) = X
    BY <2>3 DEF Now
  <2>5. ASSUME IsSole(M) PROVE SoleWork(M, P, p, N, u)
    <3>1. SoleWork(M, P, p, N, w) /\ SolePeer(M, p, c, X)
      BY <1>3, <2>5 DEF Good
    <3>2. ~Overrun(M, w.s, X)
      BY DEF Overrun
    <3>3. Blame(M, P, p, w.s, X) => Blame(M, P, p, c, X)
      BY <3>2 DEF Blame
    <3>4. u.error # "MissingHistory"
      BY <2>3, <2>5, NoneReason
    <3> QED BY <2>2, <2>3, <2>4, <3>1, <3>3, <3>4 DEF SoleWork
  <2>6. Good(M, P, p, N, u)
    BY <2>3, <2>5 DEF Good
  <2>7. a.cut_digest \in Input \cup {None}
    BY <1>1 DEF AttemptOK, Attempts
  <2>8. cert \in Certificates(M, "Committed")
    BY <1>1, <2>7, CertificateType
  <2>9. B \in SUBSET Bodies(M)
    BY <2>8 DEF Bodies
  <2>10. \A b \in B : b.type \in {"Ready", "Committed", "Commit"}
    BY <2>8 DEF Certificates, Commits
  <2> HIDE DEF B
  <2>11. \A b \in B : Sayable(M, Now(N, u), b)
    BY <2>10, PlainSayable
  <2>12. Good(M, P, p, N, Broadcast(u, p, t, B))
    BY <1>1, <2>6, <2>9, <2>11, BroadcastGood
  <2> QED BY <2>1, <2>12
<1> QED BY <1>4, <1>5

LEMMA CommitWhenReadyGood ==
    ASSUME NEW M, IsMesh(M), NEW P, NEW p \in M.peers, NEW N, NEW w, Good(M, P, p, N, w), w.s.active # None,
           IsSole(M) => w.error = None
    PROVE  Good(M, P, p, N, CommitWhenReady(w, p))
<1> DEFINE a == w.s.active
           t == a.op.target
           d == a.cut_digest
           commit == IF a.pending_commit # None THEN a.pending_commit ELSE Commit(a.op, a.cut, d)
           B == {commit}
           u == Broadcast(w, p, t, B)
           v == ApplyCommit(u, p, commit)
<1>1. /\ AttemptOK(M, p, a) /\ t \in OthersOf(M, p)
      /\ IsSole(M) => t = TargetOf(M)
  BY SoleActive
<1>2. CASE ~AllReady(a)
  BY <1>2 DEF CommitWhenReady
<1>3. CASE AllReady(a)
  <2>1. CommitWhenReady(w, p) = OrFail(v, p)
    BY <1>3 DEF CommitWhenReady
  <2>2. commit \in Commits(M)
    <3>1. a.pending_commit \in Commits(M) \cup {None} /\ d \in Input \cup {None}
      BY <1>1 DEF AttemptOK, Attempts
    <3> HIDE DEF d
    <3>2. Commit(a.op, a.cut, d) \in Commits(M)
      BY <1>1, <3>1, CertificateType
    <3> QED BY <3>1, <3>2
  <2> HIDE DEF commit
  <2>3. B \in SUBSET Bodies(M)
    BY <2>2 DEF Bodies
  <2>4. \A b \in B : b.type \in {"Ready", "Committed", "Commit"}
    BY <2>2 DEF Commits
  <2> HIDE DEF B
  <2>5. \A b \in B : Sayable(M, Now(N, w), b)
    BY <2>4, PlainSayable
  <2>a. IsSole(M) => t = TargetOf(M) /\ (Alone(M, p) \/ \A b \in B : Sayable(M, Now(N, w), b))
    BY <1>1, <2>5
  <2> HIDE DEF t
  <2>6. Good(M, P, p, N, u) /\ u.s = w.s /\ u.error = w.error
    BY <2>a, <2>3, BroadcastGood
  <2> HIDE DEF u
  <2>7. u.s.active # None /\ u.s.active.phase = "Ready" /\ (IsSole(M) => u.error = None)
    BY <1>3, <2>6 DEF AllReady
  <2>8. Good(M, P, p, N, v)
    BY <2>2, <2>6, <2>7, ApplyCommitGood
  <2> HIDE DEF v
  <2> QED BY <2>1, <2>8, OrFailGood
<1> QED BY <1>2, <1>3

LEMMA ReadyWhenCompleteGood ==
    ASSUME NEW M, IsMesh(M), NEW P, NEW p \in M.peers, NEW N, NEW w, Good(M, P, p, N, w), w.s.active # None,
           IsSole(M) => w.error = None /\ Fillable(M, p, Now(N, w))
    PROVE  /\ Good(M, P, p, N, ReadyWhenComplete(w, p))
           /\ IsSole(M) => ReadyWhenComplete(w, p).error = None
<1> DEFINE a == w.s.active
           v == MarkReady(w, p)
<1>1. CASE ~(a.phase = "Backfill" /\ Held(w.s, a.op.target, a.cut) # None)
  BY <1>1 DEF ReadyWhenComplete
<1>2. CASE a.phase = "Backfill" /\ Held(w.s, a.op.target, a.cut) # None
  <2>1. ReadyWhenComplete(w, p) = OrFail(v, p)
    BY <1>2 DEF ReadyWhenComplete
  <2>2. Good(M, P, p, N, v)
    BY <1>2, MarkReadyGood
  <2> HIDE DEF v
  <2> QED BY <2>1, <2>2, OrFailGood
<1> QED BY <1>1, <1>2

\* A committed attempt, or any that is closed without a failure.
LEMMA CloseGood ==
    ASSUME NEW M, IsMesh(M), NEW P, NEW p \in M.peers, NEW N, NEW w, Good(M, P, p, N, w), w.s.active # None,
           w.s.active.phase = "Committed", IsSole(M) => w.error = None
    PROVE  Good(M, P, p, N, [w EXCEPT !.s = Close(w.s)])
<1> DEFINE c == Close(w.s)
           u == [w EXCEPT !.s = c]
           X == Now(N, w)
           t == TargetOf(M)
<1>1. /\ WorkOK(M, p, w) /\ PeerOK(M, p, w.s)
      /\ IsSole(M) => /\ p \in RestOf(M) /\ SoleNet(M, X) /\ SolePeer(M, p, w.s, X)
                      /\ w.s.active.op = TheOp(M) /\ w.s.dropped[t] # NULL_FRAME
  BY SoleActive
<1>2. /\ PeerOK(M, p, c)
      /\ c.active = None
      /\ c.closed = w.s.closed \cup {w.s.active.op}
      /\ c.values = w.s.values /\ c.first = w.s.first /\ c.receipt = w.s.receipt
      /\ c.dropped = w.s.dropped /\ c.running = w.s.running /\ c.exposed = w.s.exposed
      /\ c.ceiling = w.s.ceiling /\ c.queued = w.s.queued /\ c.deferred = w.s.deferred
      /\ c.failure = w.s.failure
  <2> DEFINE s == w.s
  <2>1. PeerOK(M, p, s) /\ s.active # None
    BY <1>1
  <2> HIDE DEF s
  <2> QED BY <2>1, CloseOK DEF s
<1> HIDE DEF c
<1>3. WorkOK(M, p, u) /\ u.s = c /\ u.out = w.out /\ u.error = w.error
  BY <1>1, <1>2, WithPeer
<1> HIDE DEF u
<1>4. Now(N, u) = X
  BY <1>3 DEF Now
<1>5. ASSUME IsSole(M) PROVE SoleWork(M, P, p, N, u)
  <2>1. SoleWork(M, P, p, N, w)
    BY <1>5 DEF Good
  <2>2. c.closed = {TheOp(M)} /\ c.closed # {}
    <3>1. w.s.closed \subseteq {TheOp(M)}
      BY <1>1, <1>5 DEF SolePeer
    <3> QED BY <1>1, <1>2, <1>5, <3>1
  <2>3. KeepsWord(p, c, t, X)
    <3>1. KeepsWord(p, w.s, t, X)
      BY <1>1, <1>5 DEF SolePeer
    <3> QED BY <1>1, <1>2, <1>5, <2>2, <3>1 DEF KeepsWord
  <2>4. SolePeer(M, p, c, X)
    <3>1. Through(c, t) = Through(w.s, t)
      BY <1>2 DEF Through
    <3> QED BY <1>1, <1>2, <1>5, <2>2, <2>3, <3>1 DEF SolePeer
  <2>5. Blame(M, P, p, w.s, X) => Blame(M, P, p, c, X)
    BY DEF Blame, Overrun
  <2>6. u.error # "MissingHistory" /\ u.error # "Superseded"
    BY <1>3, <1>5, NoneReason
  <2>7. p \in RestOf(M) /\ SoleNet(M, X) /\ u.s.failure = w.s.failure
    BY <1>1, <1>2, <1>3, <1>5
  <2>8. \A m \in u.out : m.to \in RestOf(M)
    BY <1>3, <2>1 DEF SoleWork
  <2>9. \A r \in Inventories(X) : r.participant # p => r \in N
    BY <2>1 DEF SoleWork
  <2>10. w.s.failure = "MissingHistory" \/ MissingSaid(X) => Blame(M, P, p, w.s, X)
    BY <2>1 DEF SoleWork
  <2> HIDE DEF X
  <2> QED BY <1>3, <1>4, <2>4, <2>5, <2>6, <2>7, <2>8, <2>9, <2>10 DEF SoleWork
<1> QED BY <1>3, <1>5 DEF Good, u, c

LEMMA RebroadcastGood ==
    ASSUME NEW M, IsMesh(M), NEW P, NEW p \in M.peers, NEW N, NEW w, Good(M, P, p, N, w), w.s.active # None
    PROVE  /\ Good(M, P, p, N, Rebroadcast(w, p))
           /\ Rebroadcast(w, p).s = w.s
           /\ Rebroadcast(w, p).error = w.error
<1> DEFINE a == w.s.active
           t == a.op.target
           d == a.cut_digest
           X == Now(N, w)
           own == CASE a.phase = "Ready" -> {Certificate("Ready", a.op, p, a.cut, d)}
                 [] a.phase = "Committed" -> {Commit(a.op, a.cut, d), Certificate("Committed", a.op, p, a.cut, d)}
                 [] OTHER -> {}
           B == {Prepare(a.op, a.participants)} \cup a.reports \cup a.transcripts \cup a.relayed_backfill \cup own
<1>1. /\ AttemptOK(M, p, a) /\ a.op \in Ops(M) /\ t \in OthersOf(M, p)
      /\ IsSole(M) => /\ t = TargetOf(M) /\ SoleNet(M, X) /\ SoleAttempt(M, p, w.s, a, X) /\ a.op = TheOp(M)
  BY SoleActive
<1>2. Rebroadcast(w, p) = Broadcast(w, p, t, B)
  BY DEF Rebroadcast
<1>3. own \subseteq Certificates(M, "Ready") \cup Certificates(M, "Committed") \cup Commits(M)
  <2>1. d \in Input \cup {None}
    BY <1>1 DEF AttemptOK, Attempts
  <2> HIDE DEF d, a
  <2>2. /\ Certificate("Ready", a.op, p, a.cut, d) \in Certificates(M, "Ready")
        /\ Certificate("Committed", a.op, p, a.cut, d) \in Certificates(M, "Committed")
        /\ Commit(a.op, a.cut, d) \in Commits(M)
    BY <1>1, <2>1, CertificateType
  <2>3. CASE a.phase = "Ready"
    BY <2>2, <2>3
  <2>4. CASE a.phase = "Committed"
    BY <2>2, <2>4
  <2>5. CASE a.phase \notin {"Ready", "Committed"}
    BY <2>5
  <2> QED BY <2>3, <2>4, <2>5
<1> HIDE DEF own
<1>4. /\ a.reports \subseteq Reports(M) /\ a.transcripts \subseteq Certificates(M, "Ready")
      /\ a.relayed_backfill \subseteq Chunks(M) /\ a.participants \subseteq M.peers
  BY <1>1 DEF AttemptOK, Attempts
<1>5. Prepare(a.op, a.participants) \in Prepares(M)
  BY <1>1, <1>4 DEF Prepare, Prepares
<1>6. B \in SUBSET Bodies(M)
  BY <1>3, <1>4, <1>5 DEF Bodies
<1>7. ASSUME IsSole(M), ~Alone(M, p), NEW b \in B PROVE Sayable(M, X, b)
  <2>1. CASE b = Prepare(a.op, a.participants)
    <3>1. a.op = TheOp(M) /\ a.participants = RestOf(M)
      BY <1>1, <1>7 DEF SoleAttempt
    <3>2. b.type = "Prepare" /\ b.op = TheOp(M) /\ b.participants = RestOf(M)
      BY <2>1, <3>1 DEF Prepare
    <3> QED BY <3>2 DEF Sayable, Speakable, SoundBody
  <2>2. CASE b \in a.reports \cup a.relayed_backfill
    <3>1. b \in X
      BY <1>1, <1>7, <2>2 DEF SoleAttempt
    <3>2. b.type # "Abort"
      BY <1>4, <2>2 DEF Reports, Chunks
    <3>3. SoundBody(M, X, b)
      BY <1>1, <1>7, <3>1 DEF SoleNet
    <3> QED BY <3>1, <3>2, <3>3 DEF Sayable, Speakable
  <2>3. CASE b \in a.transcripts \cup own
    <3>1. b.type \in {"Ready", "Committed", "Commit"}
      BY <1>3, <1>4, <2>3 DEF Certificates, Commits
    <3> QED BY <3>1, PlainSayable
  <2> QED BY <1>7, <2>1, <2>2, <2>3
<1> HIDE DEF B
<1>8. IsSole(M) => t = TargetOf(M) /\ (Alone(M, p) \/ \A b \in B : Sayable(M, Now(N, w), b))
  BY <1>1, <1>7
<1> HIDE DEF t
<1>9. /\ Good(M, P, p, N, Broadcast(w, p, t, B))
      /\ Broadcast(w, p, t, B).s = w.s /\ Broadcast(w, p, t, B).error = w.error
  BY <1>6, <1>8, BroadcastGood
<1> QED BY <1>2, <1>9

\* What is missing, and who has it, as the reports and the cut tell.
LEMMA SameMissing ==
    ASSUME NEW a, NEW b, b.reports = a.reports, b.cut = a.cut
    PROVE  Missing(b) = Missing(a) /\ Donors(b) = Donors(a)
<1>1. Missing(b) = Missing(a)
  BY DEF Missing
<1> QED BY <1>1 DEF Donors

LEMMA ReconcileGood ==
    ASSUME NEW M, IsMesh(M), NEW P, NEW p \in M.peers, NEW N, NEW w, Good(M, P, p, N, w), w.s.active # None,
           w.s.active.phase # "Committed", IsSole(M) => w.error = None
    PROVE  Good(M, P, p, N, Reconcile(w, p))
<1> DEFINE a == w.s.active
           chosen == ChosenCut(a)
           c == CountReady(chosen)
           counted == Trying(w, c)
           sent == SendBackfill(counted, p)
           filled == IF Missing(chosen) # {} /\ p = Min(Donors(chosen)) THEN OrFail(sent, p) ELSE counted
           ready == IF filled.s.active = None THEN filled ELSE ReadyWhenComplete(filled, p)
           X == Now(N, w)
<1>1. /\ WorkOK(M, p, w) /\ PeerOK(M, p, w.s) /\ AttemptOK(M, p, a)
      /\ IsSole(M) => p \in RestOf(M) /\ SoleNet(M, X) /\ SoleAttempt(M, p, w.s, a, X)
  BY SoleActive
<1>2. /\ AttemptOK(M, p, chosen) /\ chosen.phase # "Committed" /\ chosen.reports = a.reports
      /\ IsSole(M) => SoleAttempt(M, p, w.s, chosen, X)
  <2>1. AttemptOK(M, p, chosen) /\ chosen.phase # "Committed" /\ chosen.reports = a.reports
    BY <1>1, ChosenCutType
  <2>2. ASSUME IsSole(M) PROVE SoleAttempt(M, p, w.s, chosen, X)
    <3>1. p \in RestOf(M) /\ SoleAttempt(M, p, w.s, a, X)
      BY <1>1, <2>2
    <3> HIDE DEF X, a
    <3> QED BY <1>1, <2>2, <3>1, ChosenCutSole DEF a
  <2> QED BY <2>1, <2>2
<1> HIDE DEF chosen
<1>3. /\ AttemptOK(M, p, c) /\ c.phase = chosen.phase /\ c.cut = chosen.cut /\ c.reports = chosen.reports
      /\ IsSole(M) => SoleAttempt(M, p, w.s, c, X)
  BY <1>2, CountReadyOK
<1> HIDE DEF c
<1>4. chosen # None /\ c # None
  BY <1>2, <1>3, AttemptIsSome
<1>5. CASE ReadyConflict(chosen)
  <2> DEFINE u == Trying(w, chosen)
             e == "ConflictingHistory"
  <2>1. Reconcile(w, p) = FailTold(u, p, e)
    BY <1>5 DEF Reconcile, FailTold, Trying, chosen
  <2>2. GoesOn(M, p, N, w, chosen)
    BY <1>2 DEF GoesOn
  <2>3. Good(M, P, p, N, u)
    BY <1>2, <1>4, <2>2, AttemptGood
  <2> HIDE DEF u
  <2>4. e \in Reasons /\ e # "Superseded" /\ e # "MissingHistory"
    BY DEF Reasons
  <2> HIDE DEF e
  <2>5. Good(M, P, p, N, FailTold(u, p, e))
    BY <2>3, <2>4, FailToldGood
  <2> QED BY <2>1, <2>5
<1>6. /\ Good(M, P, p, N, counted) /\ counted.s.active = c /\ counted.error = w.error /\ Now(N, counted) = X
  <2>1. GoesOn(M, p, N, w, c)
    BY <1>2, <1>3 DEF GoesOn
  <2> QED BY <1>3, <1>4, <2>1, AttemptGood
<1>7. Reconcile(w, p) = IF ReadyConflict(chosen) THEN FailTold(Trying(w, chosen), p, "ConflictingHistory")
                        ELSE IF chosen.cut = None THEN counted
                        ELSE IF Missing(chosen) # {} /\ Donors(chosen) = {}
                        THEN FailTold(counted, p, "MissingHistory")
                        ELSE IF ready.s.active = None THEN ready ELSE CommitWhenReady(ready, p)
  BY DEF Reconcile, FailTold, Trying, chosen, c
<1> HIDE DEF counted
<1>8. CASE ~ReadyConflict(chosen) /\ chosen.cut = None
  BY <1>6, <1>7, <1>8
<1>9. ASSUME chosen.cut # None, IsSole(M), ~Alone(M, p)
      PROVE  /\ Missing(chosen) # {} /\ Donors(chosen) = {} => NoDonor(M, X)
             /\ ~(Missing(chosen) # {} /\ Donors(chosen) = {}) => Fillable(M, p, X)
  <2>1. p \in RestOf(M) /\ SoleNet(M, X) /\ SoleAttempt(M, p, w.s, chosen, X)
    BY <1>1, <1>2, <1>9
  <2> HIDE DEF X
  <2>2. /\ AllSaid(M, X)
        /\ Missing(chosen) = {} \/ Donors(chosen) # {} => HasDonor(X)
        /\ Missing(chosen) # {} /\ Donors(chosen) = {} => ~HasDonor(X)
    BY <1>2, <1>9, <2>1, DonorIsSaid
  <2> QED BY <2>2 DEF NoDonor, Fillable
<1>10. ASSUME chosen.cut # None, IsSole(M), Alone(M, p)
       PROVE  Missing(chosen) = {} /\ Fillable(M, p, X)
  <2>1. p \in RestOf(M) /\ SoleAttempt(M, p, w.s, chosen, X)
    BY <1>1, <1>2, <1>10
  <2> HIDE DEF X
  <2>2. Missing(chosen) = {}
    BY <1>2, <1>10, <2>1, AloneMissesNothing
  <2> QED BY <1>10, <2>2 DEF Fillable
<1>11. CASE ~ReadyConflict(chosen) /\ chosen.cut # None /\ Missing(chosen) # {} /\ Donors(chosen) = {}
  <2> DEFINE e == "MissingHistory"
  <2>1. e \in Reasons /\ e # "Superseded"
    BY DEF Reasons
  <2>2. IsSole(M) => Blame(M, P, p, counted.s, Now(N, counted))
    BY <1>6, <1>9, <1>10, <1>11 DEF Blame
  <2>3. Reconcile(w, p) = FailTold(counted, p, e)
    BY <1>7, <1>11
  <2> HIDE DEF e
  <2>4. Good(M, P, p, N, FailTold(counted, p, e))
    BY <1>4, <1>6, <2>1, <2>2, FailToldGood
  <2> QED BY <2>3, <2>4
<1>12. CASE ~ReadyConflict(chosen) /\ chosen.cut # None /\ ~(Missing(chosen) # {} /\ Donors(chosen) = {})
  <2>1. IsSole(M) => Fillable(M, p, X)
    BY <1>9, <1>10, <1>12
  <2>2. /\ Good(M, P, p, N, filled)
        /\ IsSole(M) => filled.error = None
        /\ IsSole(M) => Fillable(M, p, Now(N, filled)) \/ filled.s.active = None
    <3>1. CASE ~(Missing(chosen) # {} /\ p = Min(Donors(chosen)))
      BY <1>6, <2>1, <3>1
    <3>2. CASE Missing(chosen) # {} /\ p = Min(Donors(chosen))
      <4>1. Missing(c) # {} /\ Donors(c) # {} /\ p = Min(Donors(c)) /\ c.cut # None /\ c.phase # "Committed"
        BY <1>2, <1>3, <1>12, <3>2, SameMissing
      <4>2. Good(M, P, p, N, sent) /\ sent.s = counted.s /\ X \subseteq Now(N, sent)
        <5>1. /\ counted.s.active # None /\ counted.s.active.cut # None /\ Missing(counted.s.active) # {}
              /\ counted.s.active.phase # "Committed" /\ Donors(counted.s.active) # {}
              /\ p = Min(Donors(counted.s.active))
          BY <1>4, <1>6, <4>1
        <5> QED BY <1>6, <5>1, SendBackfillGood
      <4> HIDE DEF sent
      <4>3. /\ Good(M, P, p, N, OrFail(sent, p)) /\ OrFail(sent, p).error = None
            /\ sent.error = None => OrFail(sent, p) = sent
            /\ sent.error # None => OrFail(sent, p).s.active = None
        BY <4>2, OrFailGood
      <4>4. IsSole(M) => Fillable(M, p, Now(N, sent))
        <5> SUFFICES ASSUME IsSole(M) PROVE Fillable(M, p, Now(N, sent))
          OBVIOUS
        <5> DEFINE Y == Now(N, sent)
        <5>1. SoleNet(M, Y) /\ X \subseteq Y /\ Fillable(M, p, X)
          BY <2>1, <4>2 DEF Good, SoleWork
        <5> HIDE DEF X, Y
        <5>2. Fillable(M, p, Y)
          BY <5>1, SaidGrows
        <5> QED BY <5>2 DEF Y
      <4> QED BY <3>2, <4>3, <4>4
    <3> QED BY <3>1, <3>2
  <2> HIDE DEF filled
  <2>3. Good(M, P, p, N, ready) /\ (IsSole(M) => ready.error = None)
    <3>1. CASE filled.s.active = None
      BY <2>2, <3>1
    <3>2. CASE filled.s.active # None
      BY <2>2, <3>2, ReadyWhenCompleteGood
    <3> QED BY <3>1, <3>2
  <2>4. Reconcile(w, p) = IF ready.s.active = None THEN ready ELSE CommitWhenReady(ready, p)
    BY <1>7, <1>12
  <2> HIDE DEF ready
  <2>5. CASE ready.s.active = None
    BY <2>3, <2>4, <2>5
  <2>6. CASE ready.s.active # None
    BY <2>3, <2>4, <2>6, CommitWhenReadyGood
  <2> QED BY <2>5, <2>6
<1> QED BY <1>5, <1>8, <1>11, <1>12

LEMMA DriveActiveGood ==
    ASSUME NEW M, IsMesh(M), NEW P, NEW p \in M.peers, NEW N, NEW w, Good(M, P, p, N, w), w.s.active # None,
           IsSole(M) => w.error = None, NEW timeout \in BOOLEAN
    PROVE  Good(M, P, p, N, DriveActive(w, p, timeout))
<1> DEFINE a == w.s.active
           r == Rebroadcast(w, p)
<1>1. /\ Good(M, P, p, N, r) /\ r.s = w.s /\ r.error = w.error
  BY RebroadcastGood
<1>2. DriveActive(w, p, timeout)
        = IF timeout /\ a.phase = "Committed" THEN [w EXCEPT !.s = Close(w.s)]
          ELSE IF timeout THEN FailTold(w, p, "Timeout")
          ELSE IF a.phase # "Committed" /\ ParticipantLost(w.s, p) THEN FailTold(w, p, "ParticipantLost")
          ELSE IF a.phase # "Committed" THEN Reconcile(r, p)
          ELSE IF a.committed_acks = a.participants THEN [r EXCEPT !.s = Close(r.s)]
          ELSE r
  BY DEF DriveActive, FailTold
<1> HIDE DEF r
<1>3. ASSUME a.phase = "Committed"
      PROVE  Good(M, P, p, N, [w EXCEPT !.s = Close(w.s)]) /\ Good(M, P, p, N, [r EXCEPT !.s = Close(r.s)])
  BY <1>1, <1>3, CloseGood
<1>4. ASSUME NEW e \in {"Timeout", "ParticipantLost"}
      PROVE  Good(M, P, p, N, FailTold(w, p, e))
  <2>1. e \in Reasons /\ e # "Superseded" /\ e # "MissingHistory"
    BY <1>4 DEF Reasons
  <2> QED BY <2>1, FailToldGood
<1>5. Good(M, P, p, N, FailTold(w, p, "Timeout")) /\ Good(M, P, p, N, FailTold(w, p, "ParticipantLost"))
  BY <1>4
<1>6. ASSUME a.phase # "Committed" PROVE Good(M, P, p, N, Reconcile(r, p))
  BY <1>1, <1>6, ReconcileGood
<1> QED BY <1>1, <1>2, <1>3, <1>5, <1>6

-----------------------------------------------------------------------------
(* Beginning an operation, and the prepare of another one's.               *)

LEMMA WithWaiting ==
    ASSUME NEW M, NEW p, NEW s, PeerOK(M, p, s), NEW q \in SUBSET OthersOf(M, p),
           NEW d \in Seq(Deferrable(M, p)), NEW c \in SUBSET Ops(M)
    PROVE  /\ PeerOK(M, p, [s EXCEPT !.queued = q])
           /\ PeerOK(M, p, [s EXCEPT !.deferred = d])
           /\ PeerOK(M, p, [s EXCEPT !.deferred = d, !.queued = q, !.closed = c])
<1>1. s \in PeerRecords(M, p)
  BY DEF PeerOK
<1>2. ASSUME NEW u, u \in PeerRecords(M, p), u.values = s.values, u.dropped = s.dropped, u.active = s.active
      PROVE  PeerOK(M, p, u)
  BY <1>2 DEF PeerOK
<1>3. PeerOK(M, p, [s EXCEPT !.queued = q])
  <2> DEFINE u == [s EXCEPT !.queued = q]
  <2>1. u \in PeerRecords(M, p) /\ u.values = s.values /\ u.dropped = s.dropped /\ u.active = s.active
    BY <1>1 DEF PeerRecords
  <2> HIDE DEF u
  <2>2. PeerOK(M, p, u)
    BY <1>2, <2>1
  <2> QED BY <2>2 DEF u
<1>4. PeerOK(M, p, [s EXCEPT !.deferred = d])
  <2> DEFINE u == [s EXCEPT !.deferred = d]
  <2>1. u \in PeerRecords(M, p) /\ u.values = s.values /\ u.dropped = s.dropped /\ u.active = s.active
    BY <1>1 DEF PeerRecords
  <2> HIDE DEF u
  <2>2. PeerOK(M, p, u)
    BY <1>2, <2>1
  <2> QED BY <2>2 DEF u
<1>5. PeerOK(M, p, [s EXCEPT !.deferred = d, !.queued = q, !.closed = c])
  <2> DEFINE u == [s EXCEPT !.deferred = d, !.queued = q, !.closed = c]
  <2>1. u \in PeerRecords(M, p) /\ u.values = s.values /\ u.dropped = s.dropped /\ u.active = s.active
    BY <1>1 DEF PeerRecords
  <2> HIDE DEF u
  <2>2. PeerOK(M, p, u)
    BY <1>2, <2>1
  <2> QED BY <2>2 DEF u
<1> QED BY <1>3, <1>4, <1>5

LEMMA SurvivorsType ==
    ASSUME NEW M, IsMesh(M), NEW p \in M.peers, NEW s, PeerOK(M, p, s), NEW t \in OthersOf(M, p)
    PROVE  /\ SurvivorsOf(s, p, t) \in SUBSET M.peers
           /\ p \in SurvivorsOf(s, p, t)
           /\ [target |-> t, coordinator |-> Min(SurvivorsOf(s, p, t))] \in Ops(M)
           /\ \A N : IsSole(M) /\ p \in RestOf(M) /\ SolePeer(M, p, s, N) =>
                 /\ t = TargetOf(M) /\ SurvivorsOf(s, p, t) = RestOf(M)
                 /\ [target |-> t, coordinator |-> Min(SurvivorsOf(s, p, t))] = TheOp(M)
<1> DEFINE R == SurvivorsOf(s, p, t)
<1>1. s.running \in SUBSET (M.peers \ {p}) /\ t \in DOMAIN M.stream /\ t # p
  BY DEF PeerOK, PeerRecords, OthersOf
<1>2. R \in SUBSET M.peers /\ p \in R
  BY <1>1 DEF SurvivorsOf
<1>3. ASSUME NEW N, IsSole(M), p \in RestOf(M), SolePeer(M, p, s, N)
      PROVE  t = TargetOf(M) /\ R = RestOf(M)
  <2>1. t = TargetOf(M) /\ t \notin RestOf(M)
    BY <1>3, SoleFacts
  <2>2. s.running \ {t} = RestOf(M) \ {p}
    BY <1>3, <2>1 DEF SolePeer
  <2>3. R = (s.running \ {t}) \cup {p}
    BY <1>1 DEF SurvivorsOf
  <2> QED BY <1>3, <2>1, <2>2, <2>3
<1> HIDE DEF R
<1>4. Min(R) \in M.peers
  <2>1. M.peers \subseteq Nat
    BY DEF IsMesh
  <2>2. R \in SUBSET Int /\ R # {} /\ 0 \in Int /\ \A x \in R : x >= 0
    BY <1>2, <2>1
  <2>3. Min(R) \in R
    BY <2>2, MinIsLeast
  <2> QED BY <1>2, <2>3
<1>5. [target |-> t, coordinator |-> Min(R)] \in Ops(M)
  BY <1>1, <1>4 DEF Ops
<1> QED BY <1>2, <1>3, <1>5 DEF R, TheOp

LEMMA BeginGood ==
    ASSUME NEW M, IsMesh(M), NEW P, NEW p \in M.peers, NEW N, NEW w, Good(M, P, p, N, w),
           NEW t \in OthersOf(M, p),
           IsSole(M) => /\ w.error = None /\ w.s.closed = {}
                        /\ w.s.dropped[TargetOf(M)] = NULL_FRAME
    PROVE  Good(M, P, p, N, Begin(w, p, t))
<1> DEFINE R == SurvivorsOf(w.s, p, t)
           op == [target |-> t, coordinator |-> Min(R)]
           e == Enter(w, p, op, R)
           b == Prepare(op, R)
           B == {b}
           v == Broadcast(e, p, t, B)
           no == FALSE
<1>1. WorkOK(M, p, w) /\ PeerOK(M, p, w.s) /\ (IsSole(M) => p \in RestOf(M) /\ SolePeer(M, p, w.s, Now(N, w)))
  BY DEF Good, WorkOK, SoleWork
<1>2. /\ R \in SUBSET M.peers /\ p \in R /\ op \in Ops(M) /\ op.target = t
      /\ IsSole(M) => t = TargetOf(M) /\ R = RestOf(M) /\ op = TheOp(M)
  BY <1>1, SurvivorsType
<1>3. Begin(w, p, t) = IF w.s.active # None
                       THEN IF w.s.active.op.target = t THEN w ELSE [w EXCEPT !.s.queued = @ \cup {t}]
                       ELSE IF R = {p} THEN DriveActive(v, p, no) ELSE v
  BY DEF Begin
<1> HIDE DEF R, op, no
<1>4. CASE w.s.active # None /\ w.s.active.op.target = t
  BY <1>3, <1>4
<1>5. CASE w.s.active # None /\ w.s.active.op.target # t
  <2>1. ~IsSole(M)
    BY <1>2, <1>5, SoleActive
  <2> DEFINE q == w.s.queued \cup {t}
             s == [w.s EXCEPT !.queued = q]
             u == [w EXCEPT !.s = s]
  <2>2. q \in SUBSET OthersOf(M, p)
    BY <1>1 DEF PeerOK, PeerRecords
  <2>3. Begin(w, p, t) = u
    BY <1>1, <1>3, <1>5 DEF WorkOK, Works
  <2> HIDE DEF q
  <2>4. PeerOK(M, p, s)
    <3>1. <<>> \in Seq(Deferrable(M, p)) /\ {} \in SUBSET Ops(M)
      OBVIOUS
    <3> QED BY <1>1, <2>2, <3>1, WithWaiting
  <2> HIDE DEF s
  <2>5. WorkOK(M, p, u)
    BY <1>1, <2>4, WithPeer
  <2> QED BY <2>1, <2>3, <2>5 DEF Good
<1>6. CASE w.s.active = None
  <2>1. Good(M, P, p, N, e) /\ e.error = w.error /\ e.s.active # None
    <3>1. op.target \in OthersOf(M, p)
      BY <1>2
    <3>2. IsSole(M) => /\ op = TheOp(M) /\ R = RestOf(M)
                       /\ w.s.active = None /\ w.s.closed = {}
                       /\ w.s.dropped[TargetOf(M)] = NULL_FRAME
      BY <1>2, <1>6
    <3>3. op \in Ops(M) /\ R \in SUBSET M.peers /\ p \in R
      BY <1>2
    <3> QED BY <3>1, <3>2, <3>3, EnterGood
  <2> HIDE DEF e
  <2>2. b \in Prepares(M) /\ b.type = "Prepare" /\ b.op = op /\ b.participants = R
    BY <1>2 DEF Prepare, Prepares
  <2> HIDE DEF b
  <2>3. B \in SUBSET Bodies(M)
    BY <2>2 DEF Bodies
  <2>4. IsSole(M) => t = TargetOf(M) /\ (Alone(M, p) \/ \A x \in B : Sayable(M, Now(N, e), x))
    BY <1>2, <2>2 DEF Sayable, Speakable, SoundBody
  <2> HIDE DEF B
  <2>5. Good(M, P, p, N, v) /\ v.s = e.s /\ v.error = e.error
    <3>1. Good(M, P, p, N, e)
      BY <2>1
    <3> QED BY <2>3, <2>4, <3>1, BroadcastGood
  <2> HIDE DEF v
  <2>6. no \in BOOLEAN
    BY DEF no
  <2>7. Good(M, P, p, N, DriveActive(v, p, no))
    BY <2>1, <2>5, <2>6, DriveActiveGood
  <2> QED BY <1>3, <1>6, <2>5, <2>7
<1> QED BY <1>4, <1>5, <1>6

\* A result that need only be well typed: there are several targets.
LEMMA SeveralGood ==
    ASSUME NEW M, NEW P, NEW p, NEW N, NEW w, ~IsSole(M)
    PROVE  Good(M, P, p, N, w) <=> WorkOK(M, p, w)
BY DEF Good

LEMMA RequeueOK ==
    ASSUME NEW M, NEW p, NEW s, PeerOK(M, p, s), s.active # None
    PROVE  PeerOK(M, p, Requeue(s))
<1> DEFINE c == Close(s)
           q == s.queued \cup {s.active.op.target}
           u == [c EXCEPT !.queued = q]
<1>1. PeerOK(M, p, c) /\ c.queued = s.queued
  BY CloseOK
<1>2. q \in SUBSET OthersOf(M, p)
  <2>1. AttemptOK(M, p, s.active) /\ s.queued \in SUBSET OthersOf(M, p)
    BY DEF PeerOK, PeerRecords
  <2> QED BY <2>1, OpTarget
<1>3. Requeue(s) = u
  BY <1>1 DEF Requeue
<1> HIDE DEF c, q
<1>4. <<>> \in Seq(Deferrable(M, p)) /\ {} \in SUBSET Ops(M)
  OBVIOUS
<1>5. PeerOK(M, p, u)
  BY <1>1, <1>2, <1>4, WithWaiting
<1> QED BY <1>3, <1>5

\* A prepare that crosses another attempt.
LEMMA CrossedPrepareOK ==
    ASSUME NEW M, IsMesh(M), NEW p \in M.peers, NEW w, WorkOK(M, p, w), w.s.active # None,
           NEW m \in Prepares(M), m.op.target # p, p \in m.participants
    PROVE  /\ WorkOK(M, p, [w EXCEPT !.s.deferred = Append(@, m)])
           /\ WorkOK(M, p, Broadcast(w, p, m.op.target, {Abort(m.op, "Superseded")}))
           /\ WorkOK(M, p, Enter([Broadcast(w, p, w.s.active.op.target, {Abort(w.s.active.op, "Superseded")})
                                     EXCEPT !.s = Requeue(@)], p, m.op, m.participants))
<1> DEFINE a == w.s.active
           r == "Superseded"
<1>1. PeerOK(M, p, w.s) /\ AttemptOK(M, p, a) /\ r \in Reasons
  BY DEF WorkOK, PeerOK, Reasons
<1>2. m.op \in Ops(M) /\ m.participants \in SUBSET M.peers /\ m.op.target \in OthersOf(M, p)
  BY DEF Prepares, Ops, OthersOf
<1>3. a.op \in Ops(M)
  BY <1>1, OpTarget
<1>4. WorkOK(M, p, [w EXCEPT !.s.deferred = Append(@, m)])
  <2> DEFINE d == Append(w.s.deferred, m)
             s == [w.s EXCEPT !.deferred = d]
             u == [w EXCEPT !.s = s]
  <2>1. d \in Seq(Deferrable(M, p))
    <3>1. w.s.deferred \in Seq(Deferrable(M, p)) /\ m \in Deferrable(M, p)
      BY <1>1 DEF PeerOK, PeerRecords, Deferrable
    <3> QED BY <3>1
  <2>2. [w EXCEPT !.s.deferred = Append(@, m)] = u
    BY DEF WorkOK, Works
  <2> HIDE DEF d
  <2>3. PeerOK(M, p, s)
    <3>1. {} \in SUBSET OthersOf(M, p) /\ {} \in SUBSET Ops(M)
      OBVIOUS
    <3> QED BY <1>1, <2>1, <3>1, WithWaiting
  <2> HIDE DEF s
  <2>4. WorkOK(M, p, u)
    BY <2>3, WithPeer
  <2> QED BY <2>2, <2>4
<1> HIDE DEF r
<1>5. WorkOK(M, p, Broadcast(w, p, m.op.target, {Abort(m.op, r)}))
  <2> DEFINE B == {Abort(m.op, r)}
             t == m.op.target
  <2>1. B \in SUBSET Bodies(M)
    BY <1>1, <1>2, AbortType
  <2> HIDE DEF B, t
  <2>2. WorkOK(M, p, Broadcast(w, p, t, B))
    BY <2>1, BroadcastOK
  <2> QED BY <2>2 DEF B, t
<1>6. WorkOK(M, p, Enter([Broadcast(w, p, a.op.target, {Abort(a.op, r)}) EXCEPT !.s = Requeue(@)],
                         p, m.op, m.participants))
  <2> DEFINE B == {Abort(a.op, r)}
             t == a.op.target
             b == Broadcast(w, p, t, B)
             s == Requeue(w.s)
             u == [b EXCEPT !.s = s]
             v == Enter(u, p, m.op, m.participants)
  <2>1. B \in SUBSET Bodies(M)
    BY <1>1, <1>3, AbortType
  <2> HIDE DEF B, t
  <2>2. WorkOK(M, p, b) /\ b.s = w.s
    BY <2>1, BroadcastOK
  <2>3. [b EXCEPT !.s = Requeue(@)] = u
    BY <2>2
  <2> HIDE DEF b
  <2>4. PeerOK(M, p, s)
    BY <1>1, RequeueOK
  <2> HIDE DEF s
  <2>5. WorkOK(M, p, u)
    BY <2>2, <2>4, WithPeer
  <2> HIDE DEF u
  <2>6. WorkOK(M, p, v)
    BY <1>2, <2>5, EnterOK
  <2> QED BY <2>3, <2>6 DEF b, B, t, v
<1> QED BY <1>4, <1>5, <1>6 DEF r

LEMMA AcceptPrepareGood ==
    ASSUME NEW M, IsMesh(M), NEW P, NEW p \in M.peers, NEW N, NEW w, Good(M, P, p, N, w),
           NEW m \in Prepares(M), IsSole(M) => m.op = TheOp(M) /\ m.participants = RestOf(M)
    PROVE  Good(M, P, p, N, AcceptPrepare(w, p, m))
<1> DEFINE s == w.s
           a == s.active
           t == m.op.target
           deferred == [w EXCEPT !.s.deferred = Append(@, m)]
           refused == Broadcast(w, p, t, {Abort(m.op, "Superseded")})
           crossed == Enter([Broadcast(w, p, a.op.target, {Abort(a.op, "Superseded")}) EXCEPT !.s = Requeue(@)],
                            p, m.op, m.participants)
<1>1. WorkOK(M, p, w) /\ PeerOK(M, p, s) /\ (IsSole(M) => p \in RestOf(M) /\ SolePeer(M, p, s, Now(N, w)))
  BY DEF Good, WorkOK, SoleWork
<1>2. m.op \in Ops(M) /\ m.participants \in SUBSET M.peers /\ t \in DOMAIN M.stream
  BY DEF Prepares, Ops
<1>3. AcceptPrepare(w, p, m)
        = IF m.op \in s.closed \/ (a # None /\ a.op = m.op) \/ t = p THEN w
          ELSE IF s.dropped[t] # NULL_FRAME \/ p \notin m.participants \/ t \in m.participants
          THEN Fails(w, "GenerationChanged")
          ELSE IF a = None THEN Enter(w, p, m.op, m.participants)
          ELSE IF a.phase = "Committed"
          THEN IF \E i \in DOMAIN s.deferred : s.deferred[i].op = m.op THEN w
               ELSE IF Len(s.deferred) >= Cardinality(Peers) THEN Fails(w, "ResourceLimit")
               ELSE deferred
          ELSE IF ~Precedes(m.op, a.op) THEN refused
          ELSE IF a.phase # "Inventory" THEN Fails(w, "ParticipantLost")
          ELSE crossed
  BY DEF AcceptPrepare
<1>4. ASSUME NEW e \in {"GenerationChanged", "ResourceLimit", "ParticipantLost"}
      PROVE  Good(M, P, p, N, Fails(w, e))
  <2>1. e \in Reasons /\ e # "Superseded" /\ e # "MissingHistory"
    BY <1>4 DEF Reasons
  <2> QED BY <2>1, FailsGood
<1>5. /\ Good(M, P, p, N, Fails(w, "GenerationChanged")) /\ Good(M, P, p, N, Fails(w, "ResourceLimit"))
      /\ Good(M, P, p, N, Fails(w, "ParticipantLost"))
  BY <1>4
<1>6. ASSUME ~(m.op \in s.closed \/ (a # None /\ a.op = m.op) \/ t = p), s.dropped[t] = NULL_FRAME,
             p \in m.participants, a = None
      PROVE  Good(M, P, p, N, Enter(w, p, m.op, m.participants))
  <2>1. t \in OthersOf(M, p)
    BY <1>2, <1>6 DEF OthersOf
  <2>2. IsSole(M) => /\ m.op = TheOp(M) /\ m.participants = RestOf(M)
                     /\ w.s.active = None /\ w.s.closed = {}
                     /\ w.s.dropped[TargetOf(M)] = NULL_FRAME
    <3> SUFFICES ASSUME IsSole(M)
                 PROVE  w.s.closed = {} /\ t = TargetOf(M)
      BY <1>6
    <3>1. w.s.closed \subseteq {TheOp(M)}
      BY <1>1 DEF SolePeer
    <3> QED BY <1>6, <3>1 DEF TheOp
  <2> QED BY <1>2, <1>6, <2>1, <2>2, EnterGood
<1>7. ASSUME ~(m.op \in s.closed \/ (a # None /\ a.op = m.op) \/ t = p), p \in m.participants, a # None
      PROVE  Good(M, P, p, N, deferred) /\ Good(M, P, p, N, refused) /\ Good(M, P, p, N, crossed)
  <2>1. ~IsSole(M)
    BY <1>7, SoleActive
  <2>2. WorkOK(M, p, deferred) /\ WorkOK(M, p, refused) /\ WorkOK(M, p, crossed)
    BY <1>1, <1>7, CrossedPrepareOK
  <2> QED BY <2>1, <2>2, SeveralGood
<1> HIDE DEF deferred, refused, crossed, s, a, t
<1> QED BY <1>3, <1>5, <1>6, <1>7

-----------------------------------------------------------------------------
(* Reports: inventories and certificates.                                  *)

\* What is heard, in a mesh with one target, has been said.
Heard(M, N, w, m) == IsSole(M) => m \in Now(N, w)

LEMMA HeardFacts ==
    ASSUME NEW M, NEW P, NEW p, NEW N, NEW w, Good(M, P, p, N, w), NEW m, Heard(M, N, w, m), IsSole(M)
    PROVE  m \in Now(N, w) /\ SoundBody(M, Now(N, w), m) /\ ~Alone(M, p) /\ p \in RestOf(M)
BY DEF Heard, Good, SoleWork, SoleNet

\* The attempt is changed in what only counts votes.
LEMMA VoteGood ==
    ASSUME NEW M, IsMesh(M), NEW P, NEW p, NEW N, NEW w, Good(M, P, p, N, w), w.s.active # None,
           NEW b, AttemptOK(M, p, b), NEW a, a = w.s.active,
           b.op = a.op, b.participants = a.participants, b.held_at = a.held_at, b.phase = a.phase,
           b.reports = a.reports, b.cut = a.cut, b.next_backfill_chunk = a.next_backfill_chunk,
           b.backfill_chunks = a.backfill_chunks, b.relayed_backfill = a.relayed_backfill
    PROVE  /\ Good(M, P, p, N, Trying(w, b))
           /\ Trying(w, b).s.active = b
           /\ Trying(w, b).error = w.error
           /\ Now(N, Trying(w, b)) = Now(N, w)
<1> DEFINE X == Now(N, w)
<1>1. IsSole(M) => SoleAttempt(M, p, w.s, a, X)
  BY SoleActive
<1> HIDE DEF X
<1>2. IsSole(M) => SoleAttempt(M, p, w.s, b, X)
  BY <1>1, SameAttempt
<1>3. GoesOn(M, p, N, w, b)
  BY <1>2 DEF GoesOn, X
<1>4. b # None
  BY AttemptIsSome
<1> QED BY <1>3, <1>4, AttemptGood

Say(u, p, m) == Broadcast(u, p, m.op.target, {m})

LEMMA SayGood ==
    ASSUME NEW M, IsMesh(M), NEW P, NEW p \in M.peers, NEW N, NEW u,
           Good(M, P, p, N, u), NEW m \in Bodies(M),
           IsSole(M) => m.op.target = TargetOf(M) /\ (Alone(M, p) \/ Sayable(M, Now(N, u), m))
    PROVE  /\ Good(M, P, p, N, Say(u, p, m))
           /\ Say(u, p, m).s = u.s
           /\ Say(u, p, m).error = u.error
           /\ Now(N, u) \subseteq Now(N, Say(u, p, m))
           /\ IsSole(M) => Inventories(Now(N, Say(u, p, m))) = Inventories(Now(N, u))
<1> DEFINE B == {m}
           t == m.op.target
           v == Broadcast(u, p, t, B)
<1>1. Say(u, p, m) = v
  BY DEF Say
<1>2. B \in SUBSET Bodies(M)
  OBVIOUS
<1>3. IsSole(M) => t = TargetOf(M) /\ (Alone(M, p) \/ \A x \in B : Sayable(M, Now(N, u), x))
  OBVIOUS
<1> HIDE DEF B, t
<1>4. /\ Good(M, P, p, N, v)
      /\ v.s = u.s
      /\ v.error = u.error
      /\ Now(N, u) \subseteq Now(N, v)
      /\ IsSole(M) => Inventories(Now(N, v)) = Inventories(Now(N, u))
  BY <1>2, <1>3, BroadcastGood
<1> HIDE DEF v
<1> QED BY <1>1, <1>4

LEMMA AcceptInventoryGood ==
    ASSUME NEW M, IsMesh(M), NEW P, NEW p \in M.peers, NEW N, NEW w, Good(M, P, p, N, w), w.s.active # None,
           NEW m \in Reports(M), Heard(M, N, w, m), w.s.active.op = m.op
    PROVE  Good(M, P, p, N, AcceptInventory(w, p, m))
<1> DEFINE a == w.s.active
           X == Now(N, w)
           b == [a EXCEPT !.reports = @ \cup {m}]
           u == Trying(w, b)
<1>1. /\ AttemptOK(M, p, a)
      /\ IsSole(M) => /\ p \in RestOf(M) /\ SoleNet(M, X) /\ SoleAttempt(M, p, w.s, a, X) /\ a.op = TheOp(M)
  BY SoleActive
<1>2. ASSUME IsSole(M) PROVE m \in X /\ SoundReport(M, m) /\ ~Alone(M, p)
  <2>1. m \in X /\ SoundBody(M, X, m) /\ ~Alone(M, p)
    BY <1>2, HeardFacts
  <2> QED BY <2>1 DEF SoundBody, Reports
<1>3. m.type = "Inventory" /\ m.through \in Int /\ m.available_from \in Int /\ m.exposed \in Int
  BY FrameInt DEF Reports
<1>4. CASE m.through = NULL_FRAME \/ m.available_from > m.through \/ m.exposed > m.through
  <2> DEFINE e == "MissingHistory"
  <2>1. AcceptInventory(w, p, m) = Fails(w, e)
    BY <1>4 DEF AcceptInventory
  <2>2. ~IsSole(M)
    BY <1>2, <1>3, <1>4 DEF SoundReport, NULL_FRAME
  <2>3. e \in Reasons
    BY DEF Reasons
  <2> HIDE DEF e
  <2>4. Good(M, P, p, N, Fails(w, e))
    BY <2>2, <2>3, FailsGood
  <2> QED BY <2>1, <2>4
<1>5. CASE ~(m.through = NULL_FRAME \/ m.available_from > m.through \/ m.exposed > m.through)
  <2>1. CASE \E r \in a.reports : r.participant = m.participant /\ r # m
    <3> DEFINE e == "ConflictingHistory"
    <3>1. AcceptInventory(w, p, m) = Fails(w, e)
      BY <1>5, <2>1 DEF AcceptInventory
    <3>2. e \in Reasons /\ e # "MissingHistory" /\ e # "Superseded"
      BY DEF Reasons
    <3> HIDE DEF e
    <3>3. Good(M, P, p, N, Fails(w, e))
      BY <3>2, FailsGood
    <3> QED BY <3>1, <3>3
  <2>2. CASE m \in a.reports /\ ~\E r \in a.reports : r.participant = m.participant /\ r # m
    BY <1>5, <2>2 DEF AcceptInventory
  <2>3. CASE m \notin a.reports /\ ~\E r \in a.reports : r.participant = m.participant /\ r # m
    <3>1. AcceptInventory(w, p, m) = Say(u, p, m)
      BY <1>5, <2>3 DEF AcceptInventory, Accept, Say, Trying
    <3>2. /\ b \in Attempts(M, p) /\ b.op = a.op /\ b.phase = a.phase /\ b.cut = a.cut
          /\ b.reports = a.reports \cup {m} /\ b.participants = a.participants /\ b.held_at = a.held_at
          /\ b.next_backfill_chunk = a.next_backfill_chunk
          /\ b.backfill_chunks = a.backfill_chunks /\ b.relayed_backfill = a.relayed_backfill
      BY <1>1 DEF AttemptOK, Attempts
    <3> HIDE DEF b
    <3>3. AttemptOK(M, p, b) /\ b # None
      <4>1. AttemptOK(M, p, b)
        BY <1>1, <3>2 DEF AttemptOK
      <4> QED BY <4>1, AttemptIsSome
    <3>4. ASSUME IsSole(M) PROVE SoleAttempt(M, p, w.s, b, X)
      <4>1. SoleAttempt(M, p, w.s, a, X) /\ SoundReport(M, m) /\ m \in X
        BY <1>1, <1>2, <3>4
      <4>2. a.cut = None
        <5> SUFFICES ASSUME a.cut # None PROVE FALSE
          OBVIOUS
        <5>1. SoundCut(M, a) /\ m.participant \in RestOf(M)
          BY <4>1 DEF SoleAttempt, SoundReport
        <5> QED BY <2>3, <5>1 DEF SoundCut
      <4>3. a.phase = "Inventory"
        BY <1>1, <4>2 DEF AttemptOK
      <4>4. \A own : OwnReport(p, w.s, a, own) => OwnReport(p, w.s, b, own)
        BY <3>2 DEF OwnReport
      <4>5. OneReportEach(b.reports)
        BY <2>3, <3>2, <4>1 DEF OneReportEach, SoleAttempt
      <4>6. \A r \in b.reports : SoundReport(M, r)
        BY <3>2, <4>1 DEF SoleAttempt
      <4>7. \E own \in b.reports : OwnReport(p, w.s, b, own)
        BY <3>2, <4>1, <4>4 DEF SoleAttempt
      <4>8. Alone(M, p) \/ (b.reports \subseteq X /\ b.backfill_chunks \subseteq X /\ b.relayed_backfill \subseteq X)
        BY <3>2, <4>1 DEF SoleAttempt
      <4> QED BY <3>2, <4>1, <4>2, <4>3, <4>5, <4>6, <4>7, <4>8 DEF SoleAttempt
    <3>5. GoesOn(M, p, N, w, b)
      BY <3>2, <3>4 DEF GoesOn
    <3>6. Good(M, P, p, N, u) /\ Now(N, u) = X
      BY <3>3, <3>5, AttemptGood
    <3>7. IsSole(M) => m.op.target = TargetOf(M) /\ Sayable(M, X, m)
      <4> SUFFICES ASSUME IsSole(M) PROVE m.op.target = TargetOf(M) /\ Sayable(M, X, m)
        OBVIOUS
      <4>1. m \in X /\ SoundBody(M, X, m)
        BY HeardFacts
      <4>2. m.op.target = TargetOf(M)
        BY <1>1 DEF TheOp
      <4> QED BY <1>3, <4>1, <4>2 DEF Sayable, Speakable
    <3>8. m \in Bodies(M)
      BY DEF Bodies
    <3>9. (IsSole(M) => m.op.target = TargetOf(M) /\ (Alone(M, p) \/ Sayable(M, Now(N, u), m)))
      BY <3>6, <3>7
    <3> HIDE DEF u
    <3>10. Good(M, P, p, N, Say(u, p, m))
      BY <3>6, <3>8, <3>9, SayGood
    <3> QED BY <3>1, <3>10
  <2> QED BY <2>1, <2>2, <2>3
<1> QED BY <1>4, <1>5

\* A failure for another reason than missing history.
LEMMA ConflictGood ==
    ASSUME NEW M, IsMesh(M), NEW P, NEW p, NEW N, NEW w, Good(M, P, p, N, w),
           NEW e \in {"ConflictingHistory", "GenerationChanged"}
    PROVE  Good(M, P, p, N, Fails(w, e))
<1>1. e \in Reasons /\ e # "MissingHistory" /\ e # "Superseded"
  BY DEF Reasons
<1> QED BY <1>1, FailsGood

\* A vote is passed on.
LEMMA PlainSayGood ==
    ASSUME NEW M, IsMesh(M), NEW P, NEW p \in M.peers, NEW N, NEW u,
           Good(M, P, p, N, u), NEW m \in Bodies(M), m.type \in {"Ready", "Committed", "Commit"},
           IsSole(M) => m.op = TheOp(M)
    PROVE  Good(M, P, p, N, Say(u, p, m))
<1>1. IsSole(M) => m.op.target = TargetOf(M)
  BY DEF TheOp
<1>2. Sayable(M, Now(N, u), m)
  BY PlainSayable
<1> QED BY <1>1, <1>2, SayGood

LEMMA AcceptReadyGood ==
    ASSUME NEW M, IsMesh(M), NEW P, NEW p \in M.peers, NEW N, NEW w, Good(M, P, p, N, w), w.s.active # None,
           NEW m \in Certificates(M, "Ready"), w.s.active.op = m.op
    PROVE  Good(M, P, p, N, AcceptReady(w, p, m))
<1> DEFINE a == w.s.active
           kept == [a EXCEPT !.transcripts = @ \cup {m}]
           new == [kept EXCEPT !.cut_digest = m.digest, !.ready = @ \cup {m.participant}]
           k == Trying(w, kept)
           n == Trying(w, new)
           e == "ConflictingHistory"
<1>1. AttemptOK(M, p, a) /\ (IsSole(M) => a.op = TheOp(M))
  BY SoleActive
<1>2. m.type = "Ready" /\ m.digest \in Input \cup {None} /\ m.participant \in M.peers /\ m \in Bodies(M)
  BY DEF Certificates, Bodies
<1>3. AcceptReady(w, p, m)
        = IF \E r \in a.transcripts : r.participant = m.participant /\ r # m THEN Fails(w, e)
          ELSE IF a.cut = None THEN k
          ELSE IF a.cut # m.cut \/ a.cut_digest \notin {None, m.digest} THEN Fails(k, e)
          ELSE IF m \in a.transcripts THEN n ELSE Say(n, p, m)
  BY DEF AcceptReady, Accept, Trying, Say
<1>4. /\ kept \in Attempts(M, p) /\ kept.op = a.op /\ kept.phase = a.phase /\ kept.cut = a.cut
      /\ kept.reports = a.reports /\ kept.participants = a.participants /\ kept.held_at = a.held_at
      /\ kept.next_backfill_chunk = a.next_backfill_chunk
      /\ kept.backfill_chunks = a.backfill_chunks /\ kept.relayed_backfill = a.relayed_backfill
  BY <1>1, <1>2 DEF AttemptOK, Attempts
<1> HIDE DEF kept
<1>5. /\ new \in Attempts(M, p) /\ new.op = a.op /\ new.phase = a.phase /\ new.cut = a.cut
      /\ new.reports = a.reports /\ new.participants = a.participants /\ new.held_at = a.held_at
      /\ new.next_backfill_chunk = a.next_backfill_chunk
      /\ new.backfill_chunks = a.backfill_chunks /\ new.relayed_backfill = a.relayed_backfill
  BY <1>2, <1>4 DEF Attempts
<1> HIDE DEF new, a
<1>6. AttemptOK(M, p, kept) /\ AttemptOK(M, p, new)
  BY <1>1, <1>4, <1>5 DEF AttemptOK
<1>7. Good(M, P, p, N, k) /\ Good(M, P, p, N, n)
  <2>1. a = w.s.active
    BY DEF a
  <2>2. Good(M, P, p, N, k)
    BY <1>4, <1>6, <2>1, VoteGood
  <2>3. Good(M, P, p, N, n)
    BY <1>5, <1>6, <2>1, VoteGood
  <2> QED BY <2>2, <2>3
<1> HIDE DEF k, n
<1>8. IsSole(M) => m.op = TheOp(M)
  BY <1>1 DEF a
<1>9. Good(M, P, p, N, Say(n, p, m))
  BY <1>2, <1>7, <1>8, PlainSayGood
<1>10. Good(M, P, p, N, Fails(w, e)) /\ Good(M, P, p, N, Fails(k, e))
  <2>1. e \in {"ConflictingHistory", "GenerationChanged"}
    OBVIOUS
  <2> HIDE DEF e
  <2> QED BY <1>7, <2>1, ConflictGood
<1> QED BY <1>3, <1>7, <1>9, <1>10

LEMMA AcceptCommittedGood ==
    ASSUME NEW M, IsMesh(M), NEW P, NEW p \in M.peers, NEW N, NEW w, Good(M, P, p, N, w), w.s.active # None,
           NEW m \in Certificates(M, "Committed"), w.s.active.op = m.op
    PROVE  Good(M, P, p, N, AcceptCommitted(w, p, m))
<1> DEFINE a == w.s.active
           c == Commit(m.op, m.cut, m.digest)
           new == [a EXCEPT !.cut_digest = m.digest, !.committed_acks = @ \cup {m.participant},
                            !.pending_commit = c]
           n == Trying(w, new)
           e == "ConflictingHistory"
<1>1. AttemptOK(M, p, a) /\ (IsSole(M) => a.op = TheOp(M))
  BY SoleActive
<1>2. /\ m.type = "Committed" /\ m.digest \in Input \cup {None} /\ m.participant \in M.peers /\ m \in Bodies(M)
      /\ c \in Commits(M)
  BY DEF Certificates, Bodies, Commit, Commits
<1>3. AcceptCommitted(w, p, m)
        = IF a.cut # m.cut \/ a.cut_digest \notin {None, m.digest} THEN Fails(w, e)
          ELSE IF m.participant \in a.committed_acks THEN n ELSE Say(n, p, m)
  BY DEF AcceptCommitted, Accept, Trying, Say
<1> HIDE DEF c
<1>5. /\ new \in Attempts(M, p) /\ new.op = a.op /\ new.phase = a.phase /\ new.cut = a.cut
      /\ new.reports = a.reports /\ new.participants = a.participants /\ new.held_at = a.held_at
      /\ new.next_backfill_chunk = a.next_backfill_chunk
      /\ new.backfill_chunks = a.backfill_chunks /\ new.relayed_backfill = a.relayed_backfill
  BY <1>1, <1>2 DEF AttemptOK, Attempts
<1> HIDE DEF new, a
<1>6. AttemptOK(M, p, new)
  BY <1>1, <1>5 DEF AttemptOK
<1>7. Good(M, P, p, N, n)
  <2>1. a = w.s.active
    BY DEF a
  <2> QED BY <1>5, <1>6, <2>1, VoteGood
<1> HIDE DEF n
<1>8. IsSole(M) => m.op = TheOp(M)
  BY <1>1 DEF a
<1>9. Good(M, P, p, N, Say(n, p, m))
  BY <1>2, <1>7, <1>8, PlainSayGood
<1>10. Good(M, P, p, N, Fails(w, e))
  <2>1. e \in {"ConflictingHistory", "GenerationChanged"}
    OBVIOUS
  <2> HIDE DEF e
  <2> QED BY <2>1, ConflictGood
<1> QED BY <1>3, <1>7, <1>9, <1>10

LEMMA AcceptReportGood ==
    ASSUME NEW M, IsMesh(M), NEW P, NEW p \in M.peers, NEW N, NEW w, Good(M, P, p, N, w),
           NEW m \in Reports(M) \cup Certificates(M, "Ready") \cup Certificates(M, "Committed"),
           Heard(M, N, w, m)
    PROVE  Good(M, P, p, N, AcceptReport(w, p, m))
<1> DEFINE e == "GenerationChanged"
<1>1. CASE w.s.active = None \/ w.s.active.op # m.op
  BY <1>1 DEF AcceptReport
<1>2. CASE w.s.active # None /\ w.s.active.op = m.op /\ m.participant \notin w.s.active.participants
  <2>1. AcceptReport(w, p, m) = Fails(w, e)
    BY <1>2 DEF AcceptReport
  <2>2. e \in {"ConflictingHistory", "GenerationChanged"}
    OBVIOUS
  <2> HIDE DEF e
  <2>3. Good(M, P, p, N, Fails(w, e))
    BY <2>2, ConflictGood
  <2> QED BY <2>1, <2>3
<1>3. CASE w.s.active # None /\ w.s.active.op = m.op /\ m.participant \in w.s.active.participants
  <2>1. CASE m \in Reports(M)
    <3>1. m.type = "Inventory"
      BY <2>1 DEF Reports
    <3>2. AcceptReport(w, p, m) = AcceptInventory(w, p, m)
      BY <1>3, <3>1 DEF AcceptReport
    <3>3. Good(M, P, p, N, AcceptInventory(w, p, m))
      BY <1>3, <2>1, AcceptInventoryGood
    <3> QED BY <3>2, <3>3
  <2>2. CASE m \in Certificates(M, "Ready")
    <3>1. m.type = "Ready"
      BY <2>2 DEF Certificates
    <3>2. AcceptReport(w, p, m) = AcceptReady(w, p, m)
      BY <1>3, <3>1 DEF AcceptReport
    <3>3. Good(M, P, p, N, AcceptReady(w, p, m))
      BY <1>3, <2>2, AcceptReadyGood
    <3> QED BY <3>2, <3>3
  <2>3. CASE m \in Certificates(M, "Committed")
    <3>1. m.type = "Committed"
      BY <2>3 DEF Certificates
    <3>2. AcceptReport(w, p, m) = AcceptCommitted(w, p, m)
      BY <1>3, <3>1 DEF AcceptReport
    <3>3. Good(M, P, p, N, AcceptCommitted(w, p, m))
      BY <1>3, <2>3, AcceptCommittedGood
    <3> QED BY <3>2, <3>3
  <2> QED BY <2>1, <2>2, <2>3
<1> QED BY <1>1, <1>2, <1>3

LEMMA AcceptCommitGood ==
    ASSUME NEW M, IsMesh(M), NEW P, NEW p \in M.peers, NEW N, NEW w, Good(M, P, p, N, w),
           NEW m \in Commits(M)
    PROVE  Good(M, P, p, N, AcceptCommit(w, p, m))
<1> DEFINE a == w.s.active
           e == "ConflictingHistory"
           new == [a EXCEPT !.pending_commit = m]
           n == Trying(w, new)
<1>1. CASE a = None \/ a.op # m.op \/ w.s.dropped[m.op.target] = m.cut
  BY <1>1 DEF AcceptCommit
<1>2. CASE ~(a = None \/ a.op # m.op \/ w.s.dropped[m.op.target] = m.cut)
  <2>1. AttemptOK(M, p, a) /\ WorkOK(M, p, w)
    BY <1>2, SoleActive
  <2>2. AcceptCommit(w, p, m)
          = IF a.cut \notin {None, m.cut} \/ a.cut_digest \notin {None, m.digest} THEN Fails(w, e) ELSE n
    <3>1. [w EXCEPT !.s.active.pending_commit = m] = n
      BY <2>1 DEF Trying, WorkOK, Works, PeerRecords
    <3> QED BY <1>2, <3>1 DEF AcceptCommit
  <2>3. /\ new \in Attempts(M, p) /\ new.op = a.op /\ new.phase = a.phase /\ new.cut = a.cut
        /\ new.reports = a.reports /\ new.participants = a.participants /\ new.held_at = a.held_at
        /\ new.next_backfill_chunk = a.next_backfill_chunk
        /\ new.backfill_chunks = a.backfill_chunks /\ new.relayed_backfill = a.relayed_backfill
    BY <2>1 DEF AttemptOK, Attempts
  <2> HIDE DEF new, a
  <2>4. AttemptOK(M, p, new)
    BY <2>1, <2>3 DEF AttemptOK
  <2>5. Good(M, P, p, N, n)
    <3>1. a = w.s.active /\ w.s.active # None
      BY <1>2 DEF a
    <3> QED BY <2>3, <2>4, <3>1, VoteGood
  <2> HIDE DEF n
  <2>6. Good(M, P, p, N, Fails(w, e))
    <3>1. e \in {"ConflictingHistory", "GenerationChanged"}
      OBVIOUS
    <3> HIDE DEF e
    <3> QED BY <3>1, ConflictGood
  <2> QED BY <2>2, <2>5, <2>6
<1> QED BY <1>1, <1>2

LEMMA AcceptAbortGood ==
    ASSUME NEW M, IsMesh(M), NEW P, NEW p \in M.peers, NEW N, NEW w, Good(M, P, p, N, w),
           NEW m \in Aborts(M), Heard(M, N, w, m)
    PROVE  Good(M, P, p, N, AcceptAbort(w, p, m))
<1> DEFINE a == w.s.active
           s == Requeue(w.s)
           u == [w EXCEPT !.s = s]
           e == m.reason
<1>1. m.type = "Abort" /\ e \in Reasons
  BY DEF Aborts
<1>2. AcceptAbort(w, p, m)
        = IF a = None THEN w
          ELSE IF a.op # m.op THEN w
          ELSE IF e = "Superseded" /\ a.phase = "Inventory" THEN u ELSE FailQuiet(w, p, e)
  BY DEF AcceptAbort, FailQuiet
<1>3. IsSole(M) => e # "Superseded" /\ (e = "MissingHistory" => Blame(M, P, p, w.s, Now(N, w)))
  <2> SUFFICES ASSUME IsSole(M)
               PROVE  e # "Superseded" /\ (e = "MissingHistory" => Blame(M, P, p, w.s, Now(N, w)))
    OBVIOUS
  <2>1. m \in Now(N, w) /\ SoundBody(M, Now(N, w), m)
    BY HeardFacts
  <2>2. e = "MissingHistory" => MissingSaid(Now(N, w))
    BY <1>1, <2>1 DEF MissingSaid
  <2>3. MissingSaid(Now(N, w)) => Blame(M, P, p, w.s, Now(N, w))
    BY DEF Good, SoleWork
  <2> QED BY <1>1, <2>1, <2>2, <2>3 DEF SoundBody
<1>4. ASSUME a # None, e = "Superseded" PROVE Good(M, P, p, N, u)
  <2>1. ~IsSole(M)
    BY <1>3, <1>4
  <2>2. WorkOK(M, p, w) /\ PeerOK(M, p, w.s)
    BY DEF Good, WorkOK
  <2>3. PeerOK(M, p, s)
    BY <1>4, <2>2, RequeueOK
  <2> HIDE DEF s
  <2>4. WorkOK(M, p, u)
    BY <2>2, <2>3, WithPeer
  <2> QED BY <2>1, <2>4, SeveralGood
<1> HIDE DEF e, u
<1>5. ASSUME a # None PROVE Good(M, P, p, N, FailQuiet(w, p, e))
  BY <1>1, <1>3, <1>5, FailQuietGood
<1> QED BY <1>2, <1>4, <1>5

-----------------------------------------------------------------------------
(* Installing a chunk.                                                     *)

\* Where the next chunk belongs: right behind what has been filled in, or before.
LEMMA ChunkPlace ==
    ASSUME NEW M, IsMesh(M), IsSole(M), NEW p \in RestOf(M), NEW a, AttemptOK(M, p, a), a.cut # None, NEW s, NEW X,
           SoleNet(M, X), SoleAttempt(M, p, s, a, X), ~Alone(M, p),
           NEW c \in a.backfill_chunks, c.index = a.next_backfill_chunk
    PROVE  \E b \in Inventories(X) :
              /\ b.through \in Int
              /\ \A r \in a.reports : (\A q \in a.reports : r.through <= q.through) => r.through = b.through
              /\ c.frame = b.through + 1 + a.next_backfill_chunk
              /\ b.through + a.next_backfill_chunk <= Through(s, a.op.target)
              /\ a.next_backfill_chunk >= 0
<1>1. AllSaid(M, X) /\ Inventories(X) = a.reports
  BY DonorIsSaid
<1>2. a.next_backfill_chunk \in Int /\ c \in Chunks(M) /\ a.reports # {}
  BY DEF AttemptOK, Attempts
<1>3. c.frame \in Int /\ c.type = "Backfill"
  BY <1>2, FrameInt DEF Chunks
<1>4. SoundFill(s, a)
  BY DEF SoleAttempt
<1>5. SoundChunk(M, X, c)
  <2>1. c \in X
    BY DEF SoleAttempt
  <2> QED BY <1>3, <2>1 DEF SoleNet, SoundBody
<1>6. \A r \in a.reports : r.through \in Int /\ r.through >= -1
  BY ReportType
<1> DEFINE T == {r.through : r \in a.reports}
<1>7. T \in SUBSET Int /\ T # {} /\ (\A x \in T : x >= -1) /\ -1 \in Int
  BY <1>2, <1>6
<1>8. PICK x \in T : \A y \in T : x <= y
  <2> HIDE DEF T
  <2> QED BY <1>7, MinIsLeast
<1>9. PICK b \in a.reports : \A r \in a.reports : b.through <= r.through
  BY <1>8
<1>10. c.index = c.frame - (b.through + 1)
  BY <1>1, <1>5, <1>9 DEF SoundChunk
<1>11. c.frame = b.through + 1 + a.next_backfill_chunk
  BY <1>2, <1>3, <1>6, <1>9, <1>10
<1>12. b.through + a.next_backfill_chunk <= Through(s, a.op.target) /\ a.next_backfill_chunk >= 0
  BY <1>4, <1>9 DEF SoundFill
<1>13. \A r \in a.reports : (\A q \in a.reports : r.through <= q.through) => r.through = b.through
  BY <1>6, <1>9
<1> QED BY <1>1, <1>6, <1>9, <1>11, <1>12, <1>13

\* The attempt once chunk c is taken, and the peer once it is installed.
Taken(a, c) == [a EXCEPT !.backfill_chunks = @ \ {c}, !.next_backfill_chunk = @ + 1]
Installed(s, t, v) == [s EXCEPT !.values[t] = Append(@, v)]

LEMMA TakenOK ==
    ASSUME NEW M, IsMesh(M), NEW p, NEW a, AttemptOK(M, p, a), NEW c
    PROVE  LET b == Taken(a, c)
           IN  /\ AttemptOK(M, p, b) /\ b # None
               /\ b.op = a.op /\ b.phase = a.phase /\ b.cut = a.cut
               /\ b.reports = a.reports /\ b.participants = a.participants /\ b.held_at = a.held_at
               /\ b.next_backfill_chunk = a.next_backfill_chunk + 1
               /\ b.backfill_chunks \subseteq a.backfill_chunks /\ b.relayed_backfill = a.relayed_backfill
               /\ a.next_backfill_chunk \in Int
<1> DEFINE b == Taken(a, c)
<1>1. /\ b \in Attempts(M, p)
      /\ b.op = a.op /\ b.phase = a.phase /\ b.cut = a.cut
      /\ b.reports = a.reports /\ b.participants = a.participants /\ b.held_at = a.held_at
      /\ b.next_backfill_chunk = a.next_backfill_chunk + 1
      /\ b.backfill_chunks \subseteq a.backfill_chunks /\ b.relayed_backfill = a.relayed_backfill
      /\ a.next_backfill_chunk \in Int
  <2> DEFINE C == a.backfill_chunks \ {c}
             n == a.next_backfill_chunk + 1
  <2>1. a \in Attempts(M, p)
    BY DEF AttemptOK
  <2>2. C \subseteq a.backfill_chunks /\ C \in SUBSET Chunks(M) /\ n \in Int /\ a.next_backfill_chunk \in Int
    BY <2>1 DEF Attempts
  <2>3. b = [a EXCEPT !.backfill_chunks = C, !.next_backfill_chunk = n]
    BY DEF Taken
  <2>4. n = a.next_backfill_chunk + 1
    OBVIOUS
  <2> HIDE DEF C, n, b
  <2>5. /\ b \in Attempts(M, p)
        /\ b.op = a.op /\ b.phase = a.phase /\ b.cut = a.cut
        /\ b.reports = a.reports /\ b.participants = a.participants /\ b.held_at = a.held_at
        /\ b.next_backfill_chunk = n
        /\ b.backfill_chunks = C /\ b.relayed_backfill = a.relayed_backfill
    BY <2>1, <2>2, <2>3 DEF Attempts
  <2> QED BY <2>2, <2>4, <2>5
<1> HIDE DEF b
<1>2. AttemptOK(M, p, b)
  BY <1>1 DEF AttemptOK
<1>3. b # None
  BY <1>2, AttemptIsSome
<1> QED BY <1>1, <1>2, <1>3 DEF b

LEMMA InstalledOK ==
    ASSUME NEW M, IsMesh(M), NEW p, NEW s, PeerOK(M, p, s), NEW t \in OthersOf(M, p),
           NEW c \in Chunks(M), c.op.target = t, c.frame = Through(s, t) + 1
    PROVE  LET u == Installed(s, t, c.value)
           IN  /\ PeerOK(M, p, u)
               /\ Through(u, t) = Through(s, t) + 1
               /\ u.first = s.first /\ u.receipt = s.receipt /\ u.dropped = s.dropped
               /\ u.running = s.running /\ u.exposed = s.exposed /\ u.ceiling = s.ceiling
               /\ u.active = s.active /\ u.queued = s.queued /\ u.deferred = s.deferred
               /\ u.closed = s.closed /\ u.failure = s.failure
<1> DEFINE v == Append(s.values[t], c.value)
           u == Installed(s, t, c.value)
           L == Len(s.values[t])
<1>1. s.values[t] \in Seq(Input) /\ L \in Nat /\ Through(s, t) = L - 1
  BY ThroughType
<1>2. c.value \in Input /\ c.frame \in FrameOf(M) /\ (Known >= 1 => IsReal(M, t, c.frame, c.value))
  BY DEF Chunks
<1>3. c.frame = L /\ L <= LastOf(M)
  BY <1>1, <1>2, FrameInt
<1>4. v \in Seq(Input) /\ Len(v) = L + 1 /\ v[L + 1] = c.value /\ \A i \in 1 .. L : v[i] = s.values[t][i]
  BY <1>1, <1>2
<1>5. ValuesOK(M, t, s.values[t]) /\ s.dropped[t] < L /\ s.dropped[t] \in Int
  <2>1. s.dropped[t] \in FrameOrNullOf(M)
    BY DEF PeerOK, PeerRecords
  <2> QED BY <2>1, FrameInt DEF PeerOK
<1>6. LastOf(M) \in Nat /\ Len(M.stream[t]) \in Nat
  BY LastOfMesh DEF OthersOf
<1>7. /\ u.values = [s.values EXCEPT ![t] = v] /\ u \in PeerRecords(M, p)
      /\ u.first = s.first /\ u.receipt = s.receipt /\ u.dropped = s.dropped
      /\ u.running = s.running /\ u.exposed = s.exposed /\ u.ceiling = s.ceiling
      /\ u.active = s.active /\ u.queued = s.queued /\ u.deferred = s.deferred
      /\ u.closed = s.closed /\ u.failure = s.failure
  <2>1. s \in PeerRecords(M, p)
    BY DEF PeerOK
  <2>2. u = [s EXCEPT !.values = [s.values EXCEPT ![t] = v]]
    BY <2>1 DEF Installed, PeerRecords
  <2> HIDE DEF u, v
  <2>3. [s.values EXCEPT ![t] = v] \in [OthersOf(M, p) -> Seq(Input)]
    BY <1>4, <2>1 DEF PeerRecords
  <2> DEFINE V == [s.values EXCEPT ![t] = v]
  <2> HIDE DEF V
  <2>4. u = [s EXCEPT !.values = V] /\ V \in [OthersOf(M, p) -> Seq(Input)]
    BY <2>2, <2>3 DEF V
  <2>5. /\ u.values = V /\ u \in PeerRecords(M, p)
        /\ u.first = s.first /\ u.receipt = s.receipt /\ u.dropped = s.dropped
        /\ u.running = s.running /\ u.exposed = s.exposed /\ u.ceiling = s.ceiling
        /\ u.active = s.active /\ u.queued = s.queued /\ u.deferred = s.deferred
        /\ u.closed = s.closed /\ u.failure = s.failure
    BY <2>1, <2>4 DEF PeerRecords
  <2> QED BY <2>5 DEF V
<1> HIDE DEF u
<1>8. u.values[t] = v /\ \A x \in OthersOf(M, p) : x # t => u.values[x] = s.values[x]
  <2>1. s.values \in [OthersOf(M, p) -> Seq(Input)]
    BY DEF PeerOK, PeerRecords
  <2> HIDE DEF v
  <2> QED BY <1>7, <2>1
<1>9. Known >= 1 => Len(M.stream[t]) >= L + 1 /\ c.value = M.stream[t][L + 1]
  BY <1>2, <1>3, <1>6 DEF IsReal
<1> HIDE DEF v, L
<1>10. ValuesOK(M, t, v)
  <2>1. Len(v) <= LastOf(M) + 1
    BY <1>1, <1>3, <1>4, <1>6
  <2>2. Known >= 1 => Len(v) >= 1 /\ Len(v) <= Len(M.stream[t])
    BY <1>1, <1>4, <1>6, <1>9
  <2>3. ASSUME Known >= 1, NEW i \in 1 .. Len(v) PROVE v[i] = M.stream[t][i]
    <3>1. CASE i = L + 1
      BY <1>4, <1>9, <2>3, <3>1
    <3>2. CASE i # L + 1
      <4>1. i \in 1 .. L
        BY <1>1, <1>4, <2>3, <3>2
      <4> QED BY <1>4, <1>5, <2>3, <4>1 DEF ValuesOK, L
    <3> QED BY <3>1, <3>2
  <2> QED BY <2>1, <2>2, <2>3 DEF ValuesOK
<1>11. Through(u, t) = Through(s, t) + 1
  BY <1>1, <1>4, <1>8 DEF Through
<1>12. \A x \in OthersOf(M, p) : ValuesOK(M, x, u.values[x]) /\ u.dropped[x] < Len(u.values[x])
  <2> TAKE x \in OthersOf(M, p)
  <2>1. CASE x = t
    BY <1>1, <1>4, <1>5, <1>7, <1>8, <1>10, <2>1
  <2>2. CASE x # t
    BY <1>7, <1>8, <2>2 DEF PeerOK
  <2> QED BY <2>1, <2>2
<1>13. PeerOK(M, p, u)
  BY <1>7, <1>12 DEF PeerOK
<1> QED BY <1>7, <1>11, <1>13 DEF u

LEMMA InstalledSole ==
    ASSUME NEW M, IsMesh(M), IsSole(M), NEW p \in RestOf(M), NEW s, PeerOK(M, p, s), NEW X,
           SolePeer(M, p, s, X), SoleNet(M, X), ~Alone(M, p),
           NEW a, a = s.active, a # None, a.phase # "Committed", a.cut # None,
           NEW c \in a.backfill_chunks, c.index = a.next_backfill_chunk,
           NEW t, t = TargetOf(M), NEW s2, PeerOK(M, p, s2), NEW b, b = s2.active, b # None,
           Through(s2, t) >= Through(s, t), c.frame <= Through(s2, t),
           s2.first = s.first, s2.receipt = s.receipt, s2.dropped = s.dropped,
           s2.running = s.running, s2.exposed = s.exposed, s2.ceiling = s.ceiling,
           s2.queued = s.queued, s2.deferred = s.deferred, s2.closed = s.closed,
           b.op = a.op, b.phase = a.phase, b.cut = a.cut,
           b.reports = a.reports, b.participants = a.participants, b.held_at = a.held_at,
           b.next_backfill_chunk = a.next_backfill_chunk + 1,
           b.backfill_chunks \subseteq a.backfill_chunks, b.relayed_backfill = a.relayed_backfill
    PROVE  SolePeer(M, p, s2, X) /\ SoleAttempt(M, p, s2, b, X)
<1>1. AttemptOK(M, p, a) /\ SoleAttempt(M, p, s, a, X) /\ a.op = TheOp(M) /\ a.op.target = t
  BY DEF PeerOK, SolePeer, SoleAttempt, TheOp
<1>2. t \in OthersOf(M, p) /\ Through(s, t) \in Int /\ Through(s2, t) \in Int
  BY SoleFacts, ThroughType
<1>3. PICK low \in Inventories(X) :
         /\ low.through \in Int
         /\ \A r \in a.reports : (\A q \in a.reports : r.through <= q.through) => r.through = low.through
         /\ c.frame = low.through + 1 + a.next_backfill_chunk
         /\ low.through + a.next_backfill_chunk <= Through(s, a.op.target)
         /\ a.next_backfill_chunk >= 0
  BY <1>1, ChunkPlace
<1>4. a.next_backfill_chunk \in Int /\ a.cut \in Int
  <2>1. a.next_backfill_chunk \in Int
    BY <1>1 DEF AttemptOK, Attempts
  <2> QED BY <1>1, <2>1, MissingFacts
<1>5. SoundFill(s2, b)
  BY <1>1, <1>2, <1>3, <1>4 DEF SoundFill
<1>6. SoundCut(M, b)
  BY <1>1 DEF SoundCut, SoleAttempt
<1>7. \E own \in b.reports : OwnReport(p, s2, b, own)
  <2>1. PICK own \in a.reports : OwnReport(p, s, a, own)
    BY <1>1 DEF SoleAttempt
  <2>2. own.through \in Int
    BY <1>1, ReportType
  <2>3. own.through <= Through(s2, t)
    BY <1>1, <1>2, <2>1, <2>2 DEF OwnReport
  <2> QED BY <1>1, <2>1, <2>3 DEF OwnReport
<1>8. b.phase = "Ready" => Held(s2, b.op.target, b.cut) # None /\ Fillable(M, p, X)
  <2> SUFFICES ASSUME b.phase = "Ready" PROVE Held(s2, t, a.cut) # None /\ Fillable(M, p, X)
    BY <1>1
  <2>1. Held(s, t, a.cut) # None /\ Fillable(M, p, X)
    BY <1>1 DEF SoleAttempt
  <2>2. s.first[t] <= a.cut /\ a.cut <= Through(s, t)
    BY <1>2, <1>4, <2>1, HeldType
  <2>3. s2.first[t] <= a.cut /\ a.cut <= Through(s2, t)
    BY <1>2, <1>4, <2>2
  <2> QED BY <1>2, <1>4, <2>1, <2>3, HeldSome
<1>9. SoleAttempt(M, p, s2, b, X)
  BY <1>1, <1>5, <1>6, <1>7, <1>8 DEF SoleAttempt
<1>10. KeepsWord(p, s2, t, X)
  <2>1. KeepsWord(p, s, t, X)
    BY DEF SolePeer
  <2> QED BY <2>1 DEF KeepsWord
<1>11. s2.first[t] <= Through(s2, t) /\ s2.receipt[t] <= Through(s2, t)
  <2>1. s.first[t] <= Through(s, t) /\ s.receipt[t] <= Through(s, t)
    BY DEF SolePeer
  <2>2. s.first[t] \in FrameOf(M) /\ s.receipt[t] \in FrameOrNullOf(M)
    BY <1>2 DEF PeerOK, PeerRecords
  <2>3. s.first[t] \in Int /\ s.receipt[t] \in Int
    BY <2>2, FrameInt
  <2> QED BY <1>2, <2>1, <2>3
<1> QED BY <1>1, <1>9, <1>10, <1>11 DEF SolePeer

\* The peer's holdings and its attempt change, nothing it has said or failed with.
LEMMA InstalledGood ==
    ASSUME NEW M, IsMesh(M), NEW P, NEW p, NEW N, NEW w, Good(M, P, p, N, w), w.s.active # None,
           NEW s2, PeerOK(M, p, s2), s2.active # None, s2.failure = w.s.failure, s2.first = w.s.first,
           s2.dropped = w.s.dropped,
           IsSole(M) => SolePeer(M, p, s2, Now(N, w)), NEW u, u = [w EXCEPT !.s = s2]
    PROVE  Good(M, P, p, N, u) /\ u.s = s2 /\ u.error = w.error /\ Now(N, u) = Now(N, w)
<1> DEFINE X == Now(N, w)
<1>1. WorkOK(M, p, w)
  BY DEF Good
<1>2. WorkOK(M, p, u) /\ u.s = s2 /\ u.out = w.out /\ u.error = w.error
  BY <1>1, WithPeer
<1>3. Now(N, u) = X
  BY <1>2 DEF Now
<1>4. ASSUME IsSole(M) PROVE SoleWork(M, P, p, N, u)
  <2>1. SoleWork(M, P, p, N, w)
    BY <1>4 DEF Good
  <2>2. Blame(M, P, p, w.s, X) => Blame(M, P, p, s2, X)
    BY DEF Blame, Overrun
  <2>3. Late(M, w.s, X) => Late(M, s2, X)
    BY DEF Late
  <2>4. /\ p \in RestOf(M) /\ SoleNet(M, X)
        /\ \A m \in u.out : m.to \in RestOf(M)
        /\ \A r \in Inventories(X) : r.participant # p => r \in N
        /\ w.s.failure = "MissingHistory" \/ MissingSaid(X) => Blame(M, P, p, w.s, X)
        /\ u.error = "MissingHistory" => Blame(M, P, p, w.s, X) \/ Late(M, w.s, X)
        /\ u.error # "Superseded"
    BY <1>2, <2>1 DEF SoleWork
  <2> HIDE DEF X
  <2>5. SolePeer(M, p, u.s, X) /\ u.s.failure = w.s.failure /\ u.s = s2 /\ Now(N, u) = X
    BY <1>2, <1>3, <1>4 DEF X
  <2> QED BY <2>2, <2>3, <2>4, <2>5 DEF SoleWork
<1> QED BY <1>2, <1>3, <1>4 DEF Good

\* An attempt that takes chunks.
Filling(M, p, w) ==
    /\ w.s.active # None
    /\ w.s.active.phase # "Committed" /\ w.s.active.cut # None
    /\ IsSole(M) => ~Alone(M, p)

LEMMA InstallGood ==
    ASSUME NEW M, IsMesh(M), NEW P, NEW p \in M.peers, NEW N, NEW w, Good(M, P, p, N, w), Filling(M, p, w),
           NEW a, a = w.s.active, NEW c \in a.backfill_chunks, c.index = a.next_backfill_chunk,
           NEW t, t = a.op.target, NEW d, d = Trying(w, Taken(a, c))
    PROVE  Good(M, P, p, N, Install(d, t, c)) /\ Filling(M, p, Install(d, t, c))
<1> DEFINE b == Taken(a, c)
           s1 == TryingPeer(w.s, b)
           X == Now(N, w)
<1>1. /\ WorkOK(M, p, w) /\ PeerOK(M, p, w.s) /\ AttemptOK(M, p, a) /\ t \in OthersOf(M, p)
      /\ IsSole(M) => p \in RestOf(M) /\ SoleNet(M, X) /\ SolePeer(M, p, w.s, X) /\ t = TargetOf(M)
  BY SoleActive DEF Filling
<1>2. /\ AttemptOK(M, p, b) /\ b # None
      /\ b.op = a.op /\ b.phase = a.phase /\ b.cut = a.cut
      /\ b.reports = a.reports /\ b.participants = a.participants /\ b.held_at = a.held_at
      /\ b.next_backfill_chunk = a.next_backfill_chunk + 1
      /\ b.backfill_chunks \subseteq a.backfill_chunks /\ b.relayed_backfill = a.relayed_backfill
  BY <1>1, TakenOK
<1> HIDE DEF b
<1>3. /\ PeerOK(M, p, s1) /\ s1.active = b
      /\ s1.values = w.s.values /\ s1.first = w.s.first /\ s1.receipt = w.s.receipt
      /\ s1.dropped = w.s.dropped /\ s1.running = w.s.running /\ s1.exposed = w.s.exposed
      /\ s1.ceiling = w.s.ceiling /\ s1.queued = w.s.queued /\ s1.deferred = w.s.deferred
      /\ s1.closed = w.s.closed /\ s1.failure = w.s.failure
  <2> DEFINE s == w.s
  <2>1. PeerOK(M, p, s)
    BY <1>1
  <2> HIDE DEF s
  <2> QED BY <1>2, <2>1, WithActive DEF TryingPeer, s
<1>4. WorkOK(M, p, d) /\ d.s = s1 /\ d.out = w.out /\ d.error = w.error /\ d = [w EXCEPT !.s = s1]
  <2>1. d = [w EXCEPT !.s = s1]
    BY <1>1 DEF Trying, TryingPeer, WorkOK, Works, b
  <2> HIDE DEF s1
  <2> QED BY <1>1, <1>3, <2>1, WithPeer
<1>5. c \in Chunks(M) /\ c.op.target = t /\ c.frame \in Int /\ c.frame >= 0 /\ c.frame \in FrameOf(M)
  <2>1. c \in Chunks(M) /\ c.op.target = t
    BY <1>1 DEF AttemptOK, Attempts
  <2>2. c.frame \in FrameOf(M)
    BY <2>1 DEF Chunks
  <2> QED BY <2>1, <2>2, FrameInt
<1>6. Through(s1, t) = Through(w.s, t) /\ Through(s1, t) \in Int
  <2>1. Through(s1, t) = Through(w.s, t)
    BY <1>3 DEF Through
  <2> QED BY <1>1, <2>1, ThroughType
<1>7. a # None /\ a.phase # "Committed" /\ a.cut # None /\ (IsSole(M) => ~Alone(M, p))
  BY DEF Filling
<1> HIDE DEF s1
<1>8. Install(d, t, c)
        = IF c.frame <= Through(s1, t)
          THEN IF Held(s1, t, c.frame) = c.value THEN d
               ELSE Fails(d, IF Held(s1, t, c.frame) = None THEN "MissingHistory" ELSE "ConflictingHistory")
          ELSE IF c.frame = Through(s1, t) + 1 THEN [d EXCEPT !.s.values[t] = Append(@, c.value)]
          ELSE Fails(d, "MissingHistory")
  BY <1>4 DEF Install
<1>9. ASSUME NEW u, u.s.active = b PROVE Filling(M, p, u)
  BY <1>2, <1>7, <1>9 DEF Filling
<1>10. CASE c.frame <= Through(s1, t)
  <2>1. ASSUME IsSole(M) PROVE SolePeer(M, p, s1, X)
    <3>1. /\ p \in RestOf(M) /\ SolePeer(M, p, w.s, X) /\ SoleNet(M, X) /\ ~Alone(M, p) /\ t = TargetOf(M)
          /\ Through(s1, t) >= Through(w.s, t)
      BY <1>1, <1>6, <1>7, <2>1
    <3> HIDE DEF X
    <3> QED BY <1>1, <1>2, <1>3, <1>7, <1>10, <2>1, <3>1, InstalledSole
  <2>2. Good(M, P, p, N, d) /\ Now(N, d) = X
    BY <1>2, <1>3, <1>4, <1>7, <2>1, InstalledGood
  <2>3. CASE Held(s1, t, c.frame) = c.value
    BY <1>4, <1>8, <1>9, <1>10, <1>3, <2>2, <2>3
  <2>4. CASE Held(s1, t, c.frame) # c.value
    <3> DEFINE e == IF Held(s1, t, c.frame) = None THEN "MissingHistory" ELSE "ConflictingHistory"
    <3>1. e \in Reasons /\ e # "Superseded"
      BY DEF Reasons
    <3>2. IsSole(M) /\ e = "MissingHistory" => d.s.active # None /\ Late(M, d.s, Now(N, d))
      <4> SUFFICES ASSUME IsSole(M), Held(s1, t, c.frame) = None PROVE Late(M, s1, X)
        BY <1>2, <1>3, <1>4, <2>2
      <4>1. p \in RestOf(M) /\ SolePeer(M, p, w.s, X) /\ SoleNet(M, X) /\ ~Alone(M, p) /\ t = TargetOf(M)
        BY <1>1, <1>7
      <4>2. SoleAttempt(M, p, w.s, a, X) /\ w.s.dropped[t] = NULL_FRAME
        BY <1>7, <4>1 DEF SolePeer
      <4> HIDE DEF X
      <4>3. PICK low \in Inventories(X) :
               /\ low.through \in Int
               /\ c.frame = low.through + 1 + a.next_backfill_chunk
               /\ a.next_backfill_chunk >= 0
        BY <1>1, <1>7, <4>1, <4>2, ChunkPlace
      <4>4. a.next_backfill_chunk \in Int
        BY <1>1 DEF AttemptOK, Attempts
      <4>5. s1.first[t] \in Int
        <5>1. s1.first[t] \in FrameOf(M)
          BY <1>1, <1>3 DEF PeerOK, PeerRecords
        <5> QED BY <5>1, FrameInt
      <4>6. c.frame < s1.first[t]
        <5> SUFFICES ASSUME s1.first[t] <= c.frame PROVE FALSE
          BY <1>5, <4>5
        <5> QED BY <1>1, <1>3, <1>5, <1>10, HeldSome
      <4>7. s1.first[t] > low.through + 1
        BY <1>5, <4>3, <4>4, <4>5, <4>6
      <4> QED BY <1>3, <4>1, <4>2, <4>7 DEF Late
    <3>3. Install(d, t, c) = Fails(d, e)
      BY <1>8, <1>10, <2>4
    <3> HIDE DEF e
    <3>4. Good(M, P, p, N, Fails(d, e)) /\ Fails(d, e).s = d.s
      BY <2>2, <3>1, <3>2, FailsGood
    <3> QED BY <1>3, <1>4, <1>9, <3>3, <3>4
  <2> QED BY <2>3, <2>4
<1>11. CASE c.frame = Through(s1, t) + 1
  <2> DEFINE v == c.value
             s2 == Installed(s1, t, v)
             u == [w EXCEPT !.s = s2]
  <2>1. Install(d, t, c) = u
    <3>0. ~(c.frame <= Through(s1, t))
      BY <1>6, <1>11
    <3>1. Install(d, t, c) = [d EXCEPT !.s.values[t] = Append(@, v)]
      BY <1>8, <1>11, <3>0, Zenon
    <3>2. [d EXCEPT !.s.values[t] = Append(@, v)] = [d EXCEPT !.s = s2]
      BY <1>4 DEF WorkOK, Works, Installed
    <3>3. [d EXCEPT !.s = s2] = u
      BY <1>1, <1>4 DEF WorkOK, Works
    <3> QED BY <3>1, <3>2, <3>3
  <2>2. /\ PeerOK(M, p, s2)
        /\ Through(s2, t) = Through(s1, t) + 1
        /\ s2.first = s1.first /\ s2.receipt = s1.receipt /\ s2.dropped = s1.dropped
        /\ s2.running = s1.running /\ s2.exposed = s1.exposed /\ s2.ceiling = s1.ceiling
        /\ s2.active = s1.active /\ s2.queued = s1.queued /\ s2.deferred = s1.deferred
        /\ s2.closed = s1.closed /\ s2.failure = s1.failure
    BY <1>1, <1>3, <1>5, <1>11, InstalledOK
  <2> HIDE DEF s2
  <2>3. ASSUME IsSole(M) PROVE SolePeer(M, p, s2, X)
    <3>1. /\ p \in RestOf(M) /\ SolePeer(M, p, w.s, X) /\ SoleNet(M, X) /\ ~Alone(M, p) /\ t = TargetOf(M)
          /\ Through(s2, t) >= Through(w.s, t) /\ c.frame <= Through(s2, t)
      BY <1>1, <1>5, <1>6, <1>7, <1>11, <2>2, <2>3
    <3>2. /\ s2.first = w.s.first /\ s2.receipt = w.s.receipt /\ s2.dropped = w.s.dropped
          /\ s2.running = w.s.running /\ s2.exposed = w.s.exposed /\ s2.ceiling = w.s.ceiling
          /\ s2.queued = w.s.queued /\ s2.deferred = w.s.deferred /\ s2.closed = w.s.closed
          /\ s2.active = b
      BY <1>3, <2>2
    <3> HIDE DEF X
    <3> QED BY <1>1, <1>2, <1>7, <2>2, <2>3, <3>1, <3>2, InstalledSole
  <2>4. Good(M, P, p, N, u) /\ u.s = s2
    <3>1. s2.failure = w.s.failure /\ s2.first = w.s.first /\ s2.dropped = w.s.dropped /\ s2.active # None
      BY <1>2, <1>3, <2>2
    <3>2. u = [w EXCEPT !.s = s2]
      OBVIOUS
    <3> HIDE DEF u
    <3> QED BY <1>7, <2>2, <2>3, <3>1, <3>2, InstalledGood
  <2>5. u.s.active = b
    BY <1>3, <2>2, <2>4
  <2> HIDE DEF u
  <2> QED BY <1>9, <2>1, <2>4, <2>5
<1>12. CASE ~(c.frame <= Through(s1, t)) /\ c.frame # Through(s1, t) + 1
  <2>1. ~IsSole(M)
    <3> SUFFICES ASSUME IsSole(M) PROVE FALSE
      OBVIOUS
    <3>1. p \in RestOf(M) /\ SolePeer(M, p, w.s, X) /\ SoleNet(M, X) /\ ~Alone(M, p) /\ t = TargetOf(M)
      BY <1>1, <1>7
    <3>2. SoleAttempt(M, p, w.s, a, X)
      BY <1>7, <3>1 DEF SolePeer
    <3> HIDE DEF X
    <3>3. PICK low \in Inventories(X) :
             /\ low.through \in Int
             /\ c.frame = low.through + 1 + a.next_backfill_chunk
             /\ low.through + a.next_backfill_chunk <= Through(w.s, a.op.target)
      BY <1>1, <1>7, <3>1, <3>2, ChunkPlace
    <3>4. a.next_backfill_chunk \in Int
      BY <1>1 DEF AttemptOK, Attempts
    <3> QED BY <1>5, <1>6, <1>12, <3>3, <3>4
  <2> DEFINE e == "MissingHistory"
  <2>2. Install(d, t, c) = Fails(d, e)
    BY <1>8, <1>12
  <2>3. e \in Reasons
    BY DEF Reasons
  <2> HIDE DEF e
  <2>4. WorkOK(M, p, Fails(d, e)) /\ Fails(d, e).s = d.s
    <3>1. WorkOK(M, p, d)
      BY <1>4
    <3> QED BY <2>3, <3>1, FailsOK
  <2> QED BY <1>3, <1>4, <1>9, <2>1, <2>2, <2>4, SeveralGood
<1> QED BY <1>10, <1>11, <1>12

LEMMA InstallNextGood ==
    ASSUME NEW M, IsMesh(M), NEW P, NEW p \in M.peers, NEW N, NEW w, Good(M, P, p, N, w), Filling(M, p, w)
    PROVE  Good(M, P, p, N, InstallNext(w)) /\ Filling(M, p, InstallNext(w))
<1> DEFINE a == w.s.active
           next == {c \in a.backfill_chunks : c.index = a.next_backfill_chunk}
           c == CHOOSE x \in next : TRUE
           d == Trying(w, Taken(a, c))
           t == a.op.target
<1>1. InstallNext(w) = IF w.error # None \/ next = {} THEN w ELSE Install(d, t, c)
  BY DEF InstallNext, Trying, Taken
<1>2. CASE w.error # None \/ next = {}
  BY <1>1, <1>2
<1>3. CASE ~(w.error # None \/ next = {})
  <2>1. c \in next
    BY <1>3
  <2>2. c \in a.backfill_chunks /\ c.index = a.next_backfill_chunk
    BY <2>1
  <2>3. a = w.s.active /\ t = a.op.target /\ d = Trying(w, Taken(a, c)) /\ InstallNext(w) = Install(d, t, c)
    BY <1>1, <1>3
  <2> HIDE DEF a, c, d, t, next
  <2>4. Good(M, P, p, N, Install(d, t, c)) /\ Filling(M, p, Install(d, t, c))
    BY <2>2, <2>3, InstallGood
  <2> QED BY <2>3, <2>4
<1> QED BY <1>2, <1>3

-----------------------------------------------------------------------------
(* Loops: of the chunks, of the deferred prepares.                         *)

Round(loop, p, prev) == IF loop = "chunks" THEN InstallNext(prev) ELSE StartNextDeferred(prev, p)

IsLoop(f, N, base, loop, p) ==
    f = [n \in 0 .. N |-> IF n = 0 THEN base ELSE Round(loop, p, f[n - 1])]

LEMMA LoopExists ==
    ASSUME NEW N \in Nat, NEW base, NEW loop, NEW p
    PROVE  \E f : IsLoop(f, N, base, loop, p)
<1> DEFINE G == {n \in 0 .. N : \E f : IsLoop(f, n, base, loop, p)}
           step(prev) == Round(loop, p, prev)
<1>1. 0 \in G
  <2> DEFINE f == [n \in 0 .. 0 |-> base]
  <2>1. IsLoop(f, 0, base, loop, p)
    BY DEF IsLoop
  <2> HIDE DEF f
  <2> QED BY <2>1
<1>2. ASSUME NEW n \in 1 .. N, n - 1 \in G PROVE n \in G
  <2>1. PICK f : IsLoop(f, n - 1, base, loop, p)
    BY <1>2
  <2> DEFINE g == [i \in 0 .. n |-> IF i = n THEN step(f[n - 1]) ELSE f[i]]
  <2>2. f = [i \in 0 .. n - 1 |-> IF i = 0 THEN base ELSE step(f[i - 1])]
    BY <2>1 DEF IsLoop
  <2> HIDE DEF step
  <2>3. ASSUME NEW i \in 0 .. n
        PROVE  g[i] = IF i = 0 THEN base ELSE step(g[i - 1])
    <3>1. CASE i = n
      <4>1. g[i] = step(f[n - 1]) /\ g[n - 1] = f[n - 1] /\ i # 0
        BY <3>1
      <4> QED BY <3>1, <4>1
    <3>2. CASE i # n /\ i # 0
      <4>1. g[i] = f[i] /\ i \in 0 .. n - 1 /\ i - 1 \in 0 .. n /\ i - 1 # n
        BY <3>2
      <4>2. g[i - 1] = f[i - 1]
        BY <4>1
      <4>3. f[i] = step(f[i - 1])
        BY <2>2, <3>2, <4>1
      <4> QED BY <3>2, <4>1, <4>2, <4>3
    <3>3. CASE i # n /\ i = 0
      <4>1. g[i] = f[i] /\ i \in 0 .. n - 1
        BY <3>3
      <4> QED BY <2>2, <3>3, <4>1
    <3> QED BY <3>1, <3>2, <3>3
  <2>4. g = [i \in 0 .. n |-> g[i]]
    OBVIOUS
  <2> HIDE DEF g
  <2>5. g = [i \in 0 .. n |-> IF i = 0 THEN base ELSE step(g[i - 1])]
    BY <2>3, <2>4
  <2>6. IsLoop(g, n, base, loop, p)
    BY <2>5 DEF IsLoop, step
  <2> QED BY <2>6
<1>3. \A n \in 0 .. N : n \in G
  <2> HIDE DEF G
  <2> QED BY <1>1, <1>2, RoundInduction
<1> QED BY <1>3

LEMMA LoopValues ==
    ASSUME NEW N \in Nat, NEW base, NEW loop, NEW p, NEW f, IsLoop(f, N, base, loop, p)
    PROVE  /\ f[0] = base
           /\ \A n \in 1 .. N : f[n] = Round(loop, p, f[n - 1])
<1>1. f = [n \in 0 .. N |-> IF n = 0 THEN base ELSE Round(loop, p, f[n - 1])]
  BY DEF IsLoop
<1>2. 0 \in 0 .. N /\ \A n \in 1 .. N : n \in 0 .. N /\ n # 0
  OBVIOUS
<1> QED BY <1>1, <1>2

LEMMA ChunkLoop ==
    ASSUME NEW w, LastFrame \in Nat
    PROVE  \E f : IsLoop(f, LastFrame + 1, w, "chunks", None) /\ InstallChunks(w) = f[LastFrame + 1]
<1> DEFINE K == LastFrame + 1
           Run(f) == f = [n \in 0 .. K |-> IF n = 0 THEN w ELSE InstallNext(f[n - 1])]
<1>1. InstallChunks(w) = (CHOOSE f : Run(f))[K]
  BY Zenon DEF InstallChunks
<1>0. K \in Nat
  OBVIOUS
<1> HIDE DEF K
<1>2. PICK g : IsLoop(g, K, w, "chunks", None)
  BY <1>0, LoopExists
<1>3. Run(g)
  BY <1>2, Zenon DEF IsLoop, Round
<1>4. Run(CHOOSE f : Run(f))
  BY <1>3, Zenon
<1>5. \A f : Run(f) => IsLoop(f, K, w, "chunks", None)
  BY Zenon DEF IsLoop, Round
<1>6. \E f : IsLoop(f, K, w, "chunks", None) /\ (CHOOSE h : Run(h))[K] = f[K]
  BY <1>4, <1>5, Zenon
<1> HIDE DEF Run
<1>7. \E f : IsLoop(f, K, w, "chunks", None) /\ InstallChunks(w) = f[K]
  BY <1>1, <1>6
<1> QED BY <1>7 DEF K

LEMMA DeferredLoop ==
    ASSUME NEW w, NEW p, Cardinality(Peers) \in Nat
    PROVE  \E f : IsLoop(f, Cardinality(Peers), w, "deferred", p) /\ StartDeferred(w, p) = f[Cardinality(Peers)]
<1> DEFINE K == Cardinality(Peers)
           Run(f) == f = [n \in 0 .. K |-> IF n = 0 THEN w ELSE StartNextDeferred(f[n - 1], p)]
<1>1. StartDeferred(w, p) = (CHOOSE f : Run(f))[K]
  BY Zenon DEF StartDeferred
<1>0. K \in Nat
  OBVIOUS
<1> HIDE DEF K
<1>2. PICK g : IsLoop(g, K, w, "deferred", p)
  BY <1>0, LoopExists
<1>a. "deferred" # "chunks"
  OBVIOUS
<1>3. Run(g)
  BY <1>2, <1>a, Zenon DEF IsLoop, Round
<1>4. Run(CHOOSE f : Run(f))
  BY <1>3, Zenon
<1>5. \A f : Run(f) => IsLoop(f, K, w, "deferred", p)
  BY <1>a, Zenon DEF IsLoop, Round
<1>6. \E f : IsLoop(f, K, w, "deferred", p) /\ (CHOOSE h : Run(h))[K] = f[K]
  BY <1>4, <1>5, Zenon
<1> HIDE DEF Run
<1>7. \E f : IsLoop(f, K, w, "deferred", p) /\ StartDeferred(w, p) = f[K]
  BY <1>1, <1>6
<1> QED BY <1>7 DEF K

LEMMA InstallChunksGood ==
    ASSUME NEW M, IsMesh(M), NEW P, NEW p \in M.peers, NEW N, NEW w, Good(M, P, p, N, w), Filling(M, p, w),
           LastFrame \in Nat
    PROVE  Good(M, P, p, N, InstallChunks(w))
<1> DEFINE K == LastFrame + 1
<1>1. K \in Nat
  OBVIOUS
<1>2. PICK f : IsLoop(f, K, w, "chunks", None) /\ InstallChunks(w) = f[K]
  BY ChunkLoop
<1> HIDE DEF K
<1>3. /\ f[0] = w
      /\ \A n \in 1 .. K : f[n] = Round("chunks", None, f[n - 1])
  BY <1>1, <1>2, LoopValues
<1>4. /\ f[0] = w
      /\ \A n \in 1 .. K : f[n] = InstallNext(f[n - 1])
  BY <1>3 DEF Round
<1> DEFINE G == {n \in 0 .. K : Good(M, P, p, N, f[n]) /\ Filling(M, p, f[n])}
<1>5. 0 \in G
  BY <1>1, <1>4
<1>6. ASSUME NEW n \in 1 .. K, n - 1 \in G PROVE n \in G
  <2>1. Good(M, P, p, N, f[n - 1]) /\ Filling(M, p, f[n - 1])
    BY <1>6
  <2>2. Good(M, P, p, N, InstallNext(f[n - 1])) /\ Filling(M, p, InstallNext(f[n - 1]))
    BY <2>1, InstallNextGood
  <2>3. f[n] = InstallNext(f[n - 1]) /\ n \in 0 .. K
    BY <1>4
  <2> QED BY <2>2, <2>3
<1>7. \A n \in 0 .. K : n \in G
  <2> HIDE DEF G
  <2> QED BY <1>1, <1>5, <1>6, RoundInduction
<1>8. Good(M, P, p, N, f[K])
  BY <1>1, <1>7
<1> QED BY <1>2, <1>8

LEMMA AcceptBackfillGood ==
    ASSUME NEW M, IsMesh(M), NEW P, NEW p \in M.peers, NEW N, NEW w, Good(M, P, p, N, w),
           NEW m \in Chunks(M), Heard(M, N, w, m), LastFrame \in Nat
    PROVE  Good(M, P, p, N, AcceptBackfill(w, p, m))
<1> DEFINE a == w.s.active
           kept == [a EXCEPT !.backfill_chunks = @ \cup {m}, !.relayed_backfill = @ \cup {m}]
           u == Trying(w, kept)
           v == Say(u, p, m)
           e == "ConflictingHistory"
           X == Now(N, w)
           ignored == a = None \/ a.op # m.op \/ a.phase = "Committed" \/ a.cut = None \/ Missing(a) = {}
           bad == \/ Donors(a) = {} \/ m.frame < Min(Missing(a)) \/ m.frame > a.cut
                  \/ (\E c \in a.relayed_backfill : c.count # m.count)
                  \/ {c \in a.relayed_backfill : c.index = m.index} \notin {{}, {m}}
<1>1. AcceptBackfill(w, p, m)
        = IF ignored THEN w
          ELSE IF bad THEN Fails(w, e)
          ELSE IF m \in a.relayed_backfill THEN w ELSE InstallChunks(v)
  BY DEF AcceptBackfill, Accept, Trying, Say
<1>2. m \in Bodies(M) /\ m.type = "Backfill"
  BY DEF Bodies, Chunks
<1>3. Good(M, P, p, N, Fails(w, e))
  <2>1. e \in {"ConflictingHistory", "GenerationChanged"}
    OBVIOUS
  <2> HIDE DEF e
  <2> QED BY <2>1, ConflictGood
<1>4. ASSUME ~ignored PROVE Good(M, P, p, N, InstallChunks(v))
  <2>0. a # None /\ a.op = m.op /\ a.phase # "Committed" /\ a.cut # None
    BY <1>4
  <2>1. /\ AttemptOK(M, p, a)
        /\ IsSole(M) => SoleAttempt(M, p, w.s, a, X) /\ a.op = TheOp(M)
    BY <2>0, SoleActive
  <2>2. /\ kept \in Attempts(M, p) /\ kept.op = a.op /\ kept.phase = a.phase /\ kept.cut = a.cut
        /\ kept.reports = a.reports /\ kept.participants = a.participants /\ kept.held_at = a.held_at
        /\ kept.next_backfill_chunk = a.next_backfill_chunk
        /\ kept.backfill_chunks = a.backfill_chunks \cup {m} /\ kept.relayed_backfill = a.relayed_backfill \cup {m}
    BY <2>1 DEF AttemptOK, Attempts
  <2> HIDE DEF kept, ignored, bad
  <2>3. AttemptOK(M, p, kept) /\ kept # None
    <3>1. AttemptOK(M, p, kept)
      BY <2>0, <2>1, <2>2 DEF AttemptOK
    <3> QED BY <3>1, AttemptIsSome
  <2>4. ASSUME IsSole(M)
        PROVE  SoleAttempt(M, p, w.s, kept, X) /\ SoundBody(M, X, m) /\ ~Alone(M, p)
    <3>1. m \in X /\ SoundBody(M, X, m) /\ ~Alone(M, p)
      BY <2>4, HeardFacts
    <3>2. SoleAttempt(M, p, w.s, a, X)
      BY <2>1, <2>4
    <3>3. \A own : OwnReport(p, w.s, a, own) => OwnReport(p, w.s, kept, own)
      BY <2>2 DEF OwnReport
    <3>4. SoundCut(M, kept) /\ SoundFill(w.s, kept)
      BY <2>0, <2>2, <3>2 DEF SoleAttempt, SoundCut, SoundFill
    <3>5. kept.reports \subseteq X /\ kept.backfill_chunks \subseteq X /\ kept.relayed_backfill \subseteq X
      BY <2>2, <3>1, <3>2 DEF SoleAttempt
    <3> QED BY <2>2, <3>1, <3>2, <3>3, <3>4, <3>5 DEF SoleAttempt
  <2>5. GoesOn(M, p, N, w, kept)
    BY <2>2, <2>4 DEF GoesOn
  <2>6. Good(M, P, p, N, u) /\ u.s.active = kept /\ Now(N, u) = X
    BY <2>0, <2>3, <2>5, AttemptGood
  <2>7. IsSole(M) => m.op.target = TargetOf(M) /\ (Alone(M, p) \/ Sayable(M, Now(N, u), m))
    <3> SUFFICES ASSUME IsSole(M) PROVE m.op.target = TargetOf(M) /\ Sayable(M, X, m)
      BY <2>6
    <3>1. m.op.target = TargetOf(M)
      BY <2>0, <2>1 DEF TheOp
    <3> QED BY <1>2, <2>4, <3>1 DEF Sayable, Speakable
  <2> HIDE DEF u
  <2>8. Good(M, P, p, N, v) /\ v.s = u.s
    <3>1. Good(M, P, p, N, u) /\ m \in Bodies(M)
      BY <1>2, <2>6
    <3> QED BY <2>7, <3>1, SayGood
  <2>9. Filling(M, p, v)
    BY <2>0, <2>2, <2>3, <2>4, <2>6, <2>8 DEF Filling
  <2> HIDE DEF v
  <2> QED BY <2>8, <2>9, InstallChunksGood
<1> HIDE DEF v, ignored, bad
<1> QED BY <1>1, <1>3, <1>4

LEMMA HandleGood ==
    ASSUME NEW M, IsMesh(M), NEW P, NEW p \in M.peers, NEW N, NEW w, Good(M, P, p, N, w),
           NEW m \in Bodies(M), Heard(M, N, w, m), LastFrame \in Nat
    PROVE  Good(M, P, p, N, Handle(w, p, m))
<1>1. CASE m \in Prepares(M)
  <2>1. m.type = "Prepare"
    BY <1>1 DEF Prepares
  <2>2. Handle(w, p, m) = AcceptPrepare(w, p, m)
    BY <2>1 DEF Handle
  <2>3. IsSole(M) => m.op = TheOp(M) /\ m.participants = RestOf(M)
    BY <2>1, HeardFacts DEF SoundBody
  <2>4. Good(M, P, p, N, AcceptPrepare(w, p, m))
    BY <1>1, <2>3, AcceptPrepareGood
  <2> QED BY <2>2, <2>4
<1>2. CASE m \in Reports(M) \cup Certificates(M, "Ready") \cup Certificates(M, "Committed")
  <2>1. m.type \in {"Inventory", "Ready", "Committed"}
    BY <1>2 DEF Reports, Certificates
  <2>2. Handle(w, p, m) = AcceptReport(w, p, m)
    BY <2>1 DEF Handle
  <2>3. Good(M, P, p, N, AcceptReport(w, p, m))
    BY <1>2, AcceptReportGood
  <2> QED BY <2>2, <2>3
<1>3. CASE m \in Chunks(M)
  <2>1. m.type = "Backfill"
    BY <1>3 DEF Chunks
  <2>2. Handle(w, p, m) = AcceptBackfill(w, p, m)
    BY <2>1 DEF Handle
  <2>3. Good(M, P, p, N, AcceptBackfill(w, p, m))
    BY <1>3, AcceptBackfillGood
  <2> QED BY <2>2, <2>3
<1>4. CASE m \in Commits(M)
  <2>1. m.type = "Commit"
    BY <1>4 DEF Commits
  <2>2. Handle(w, p, m) = AcceptCommit(w, p, m)
    BY <2>1 DEF Handle
  <2>3. Good(M, P, p, N, AcceptCommit(w, p, m))
    BY <1>4, AcceptCommitGood
  <2> QED BY <2>2, <2>3
<1>5. CASE m \in Aborts(M)
  <2>1. m.type = "Abort"
    BY <1>5 DEF Aborts
  <2>2. Handle(w, p, m) = AcceptAbort(w, p, m)
    BY <2>1 DEF Handle
  <2>3. Good(M, P, p, N, AcceptAbort(w, p, m))
    BY <1>5, AcceptAbortGood
  <2> QED BY <2>2, <2>3
<1> QED BY <1>1, <1>2, <1>3, <1>4, <1>5 DEF Bodies

-----------------------------------------------------------------------------
(* What is waiting is started.                                             *)

LEMMA StartNextDeferredGood ==
    ASSUME NEW M, IsMesh(M), NEW P, NEW p \in M.peers, NEW N, NEW w, Good(M, P, p, N, w)
    PROVE  Good(M, P, p, N, StartNextDeferred(w, p)) /\ (IsSole(M) => StartNextDeferred(w, p) = w)
<1> DEFINE m == Head(w.s.deferred)
           t == m.op.target
           d == Tail(w.s.deferred)
           s1 == [w.s EXCEPT !.deferred = d]
           u == [w EXCEPT !.s = s1]
           q == IF w.s.dropped[t] = NULL_FRAME THEN w.s.queued \cup {t} ELSE w.s.queued
           c == w.s.closed \cup {m.op}
           s2 == [w.s EXCEPT !.deferred = d, !.queued = q, !.closed = c]
           v == [w EXCEPT !.s = s2]
<1>1. WorkOK(M, p, w) /\ PeerOK(M, p, w.s) /\ w.s.deferred \in Seq(Deferrable(M, p))
  BY DEF Good, WorkOK, PeerOK, PeerRecords
<1>2. CASE w.s.active # None \/ w.s.deferred = <<>> \/ w.error # None
  BY <1>2 DEF StartNextDeferred
<1>3. CASE ~(w.s.active # None \/ w.s.deferred = <<>> \/ w.error # None)
  <2>1. ~IsSole(M)
    BY <1>3 DEF Good, SoleWork, SolePeer
  <2>2. m \in Deferrable(M, p) /\ d \in Seq(Deferrable(M, p))
    BY <1>1, <1>3
  <2>3. StartNextDeferred(w, p) = IF m.participants # SurvivorsOf(w.s, p, t) THEN v ELSE AcceptPrepare(u, p, m)
    <3>1. [w EXCEPT !.s.deferred = Tail(@)] = u
      BY <1>1 DEF WorkOK, Works
    <3>2. [u EXCEPT !.s.queued = IF w.s.dropped[t] = NULL_FRAME THEN @ \cup {t} ELSE @, !.s.closed = @ \cup {m.op}] = v
      BY <1>1 DEF WorkOK, Works, PeerRecords
    <3> HIDE DEF m, u, v
    <3> QED BY <1>3, <3>1, <3>2 DEF StartNextDeferred, m
  <2>4. m \in Prepares(M) /\ t # p /\ m.op \in Ops(M) /\ t \in OthersOf(M, p)
    <3>1. m \in Prepares(M) /\ t # p
      BY <2>2 DEF Deferrable
    <3> HIDE DEF m
    <3> QED BY <3>1 DEF Prepares, Ops, OthersOf
  <2>5. q \in SUBSET OthersOf(M, p) /\ c \in SUBSET Ops(M)
    <3>1. w.s.queued \in SUBSET OthersOf(M, p) /\ w.s.closed \in SUBSET Ops(M)
      BY <1>1 DEF PeerOK, PeerRecords
    <3> HIDE DEF m
    <3> QED BY <2>4, <3>1
  <2> HIDE DEF q, c, d, m
  <2>6. PeerOK(M, p, s1) /\ PeerOK(M, p, s2)
    BY <1>1, <2>2, <2>5, WithWaiting
  <2> HIDE DEF s1, s2
  <2>7. WorkOK(M, p, u) /\ WorkOK(M, p, v)
    BY <1>1, <2>6, WithPeer
  <2> HIDE DEF u, v
  <2>8. Good(M, P, p, N, u) /\ Good(M, P, p, N, v)
    BY <2>1, <2>7, SeveralGood
  <2>9. Good(M, P, p, N, AcceptPrepare(u, p, m))
    BY <2>1, <2>4, <2>8, AcceptPrepareGood
  <2> QED BY <2>1, <2>3, <2>8, <2>9
<1> QED BY <1>2, <1>3

LEMMA StartDeferredGood ==
    ASSUME NEW M, IsMesh(M), NEW P, NEW p \in M.peers, NEW N, NEW w, Good(M, P, p, N, w),
           Cardinality(Peers) \in Nat
    PROVE  Good(M, P, p, N, StartDeferred(w, p)) /\ (IsSole(M) => StartDeferred(w, p) = w)
<1> DEFINE K == Cardinality(Peers)
<1>1. K \in Nat
  OBVIOUS
<1>2. PICK f : IsLoop(f, K, w, "deferred", p) /\ StartDeferred(w, p) = f[K]
  BY DeferredLoop
<1> HIDE DEF K
<1>3. /\ f[0] = w
      /\ \A n \in 1 .. K : f[n] = Round("deferred", p, f[n - 1])
  BY <1>1, <1>2, LoopValues
<1>4. /\ f[0] = w
      /\ \A n \in 1 .. K : f[n] = StartNextDeferred(f[n - 1], p)
  BY <1>3 DEF Round
<1> DEFINE G == {n \in 0 .. K : Good(M, P, p, N, f[n]) /\ (IsSole(M) => f[n] = w)}
<1>5. 0 \in G
  BY <1>1, <1>4
<1>6. ASSUME NEW n \in 1 .. K, n - 1 \in G PROVE n \in G
  <2>1. Good(M, P, p, N, f[n - 1]) /\ (IsSole(M) => f[n - 1] = w)
    BY <1>6
  <2>2. /\ Good(M, P, p, N, StartNextDeferred(f[n - 1], p))
        /\ IsSole(M) => StartNextDeferred(f[n - 1], p) = f[n - 1]
    BY <2>1, StartNextDeferredGood
  <2>3. f[n] = StartNextDeferred(f[n - 1], p) /\ n \in 0 .. K
    BY <1>4
  <2> QED BY <2>1, <2>2, <2>3
<1>7. \A n \in 0 .. K : n \in G
  <2> HIDE DEF G
  <2> QED BY <1>1, <1>5, <1>6, RoundInduction
<1>8. Good(M, P, p, N, f[K]) /\ (IsSole(M) => f[K] = w)
  BY <1>1, <1>7
<1> QED BY <1>2, <1>8

LEMMA StartQueuedGood ==
    ASSUME NEW M, IsMesh(M), NEW P, NEW p \in M.peers, NEW N, NEW w, Good(M, P, p, N, w)
    PROVE  Good(M, P, p, N, StartQueued(w, p)) /\ (IsSole(M) => StartQueued(w, p) = w)
<1> DEFINE t == Min(w.s.queued)
           q == w.s.queued \ {t}
           s == [w.s EXCEPT !.queued = q]
           u == [w EXCEPT !.s = s]
<1>1. WorkOK(M, p, w) /\ PeerOK(M, p, w.s) /\ w.s.queued \in SUBSET OthersOf(M, p)
  BY DEF Good, WorkOK, PeerOK, PeerRecords
<1>2. CASE w.s.active # None \/ w.s.queued = {}
  BY <1>2 DEF StartQueued
<1>3. CASE ~(w.s.active # None \/ w.s.queued = {})
  <2>1. ~IsSole(M)
    BY <1>3 DEF Good, SoleWork, SolePeer
  <2>2. StartQueued(w, p) = IF w.s.dropped[t] # NULL_FRAME THEN u ELSE Begin(u, p, t)
    <3>1. [w EXCEPT !.s.queued = @ \ {t}] = u
      BY <1>1 DEF WorkOK, Works
    <3> HIDE DEF u, t
    <3> QED BY <1>3, <3>1 DEF StartQueued, t
  <2>3. t \in OthersOf(M, p)
    <3> DEFINE Q == w.s.queued
    <3>1. Q \in SUBSET Int /\ Q # {} /\ 0 \in Int /\ \A x \in Q : x >= 0
      BY <1>1, <1>3 DEF OthersOf, IsMesh
    <3> HIDE DEF Q
    <3>2. Min(Q) \in Q
      BY <3>1, MinIsLeast
    <3> QED BY <1>1, <3>2 DEF Q
  <2> HIDE DEF t
  <2>4. q \in SUBSET OthersOf(M, p)
    BY <1>1
  <2> HIDE DEF q
  <2>5. PeerOK(M, p, s)
    <3>1. <<>> \in Seq(Deferrable(M, p)) /\ {} \in SUBSET Ops(M)
      OBVIOUS
    <3> QED BY <1>1, <2>4, <3>1, WithWaiting
  <2> HIDE DEF s
  <2>6. WorkOK(M, p, u)
    BY <1>1, <2>5, WithPeer
  <2> HIDE DEF u
  <2>7. Good(M, P, p, N, u)
    BY <2>1, <2>6, SeveralGood
  <2>8. Good(M, P, p, N, Begin(u, p, t))
    BY <2>1, <2>3, <2>7, BeginGood
  <2> QED BY <2>1, <2>2, <2>7, <2>8
<1> QED BY <1>2, <1>3

LEMMA NoErrorGood ==
    ASSUME NEW M, IsMesh(M), NEW P, NEW p, NEW N, NEW w, Good(M, P, p, N, w), NEW n, n = None,
           NEW u, u = [w EXCEPT !.error = n]
    PROVE  Good(M, P, p, N, u)
<1>1. WorkOK(M, p, w) /\ n \in Reasons \cup {None}
  BY DEF Good
<1>2. WorkOK(M, p, u) /\ u.s = w.s /\ u.out = w.out /\ u.error = n
  BY <1>1, WithError
<1>3. ASSUME IsSole(M) PROVE SoleWork(M, P, p, N, u)
  <2>1. SoleWork(M, P, p, N, w) /\ Now(N, u) = Now(N, w)
    BY <1>2, <1>3 DEF Good, Now
  <2>2. u.error # "MissingHistory" /\ u.error # "Superseded"
    BY <1>2, NoneReason
  <2> QED BY <1>2, <2>1, <2>2 DEF SoleWork
<1> QED BY <1>2, <1>3 DEF Good

LEMMA DriveAllGood ==
    ASSUME NEW M, IsMesh(M), NEW P, NEW p \in M.peers, NEW N, NEW w, Good(M, P, p, N, w),
           IsSole(M) => w.error = None, NEW timeout \in BOOLEAN, Cardinality(Peers) \in Nat
    PROVE  Good(M, P, p, N, DriveAll(w, p, timeout))
<1> DEFINE d == StartDeferred(w, p)
           v == IF d.error = None THEN StartQueued(d, p) ELSE d
           n == None
           u == [v EXCEPT !.error = n]
<1>1. Good(M, P, p, N, d) /\ (IsSole(M) => d = w)
  BY StartDeferredGood
<1>2. DriveAll(w, p, timeout) = IF v.s.active = None THEN u ELSE DriveActive(v, p, timeout)
  BY DEF DriveAll
<1> HIDE DEF d
<1>3. Good(M, P, p, N, StartQueued(d, p)) /\ (IsSole(M) => StartQueued(d, p) = d)
  BY <1>1, StartQueuedGood
<1>4. Good(M, P, p, N, v) /\ (IsSole(M) => v = w)
  BY <1>1, <1>3
<1> HIDE DEF v
<1>5. Good(M, P, p, N, u)
  <2>1. n = None /\ u = [v EXCEPT !.error = n]
    OBVIOUS
  <2> HIDE DEF n, u
  <2> QED BY <1>4, <2>1, NoErrorGood
<1>6. ASSUME v.s.active # None PROVE Good(M, P, p, N, DriveActive(v, p, timeout))
  <2>1. IsSole(M) => v.error = None
    BY <1>4
  <2>2. Good(M, P, p, N, v) /\ v.s.active # None
    BY <1>4, <1>6
  <2> QED BY <2>1, <2>2, DriveActiveGood
<1> QED BY <1>2, <1>5, <1>6

-----------------------------------------------------------------------------
(* A step of one peer keeps the invariant.                                 *)

\* Whom a failure goes back to is the same for everyone.
LEMMA BlameIsShared ==
    ASSUME NEW M, NEW P, NEW p \in RestOf(M), NEW s, NEW X, NEW P2,
           P2[p] = s, \A q \in RestOf(M) : q # p => P2[q] = P[q],
           NEW q \in RestOf(M)
    PROVE  /\ Blame(M, P, p, s, X) => Blame(M, P2, q, P2[q], X)
           /\ (Overrun(M, P[p], X) => Overrun(M, s, X)) =>
                 (Blame(M, P, q, P[q], X) => Blame(M, P2, q, P2[q], X))
<1>1. ASSUME Blame(M, P, p, s, X) PROVE Blame(M, P2, q, P2[q], X)
  <2>1. CASE NoDonor(M, X)
    BY <2>1 DEF Blame
  <2>2. CASE Overrun(M, s, X)
    <3>1. CASE q = p
      BY <2>2, <3>1 DEF Blame
    <3>2. CASE q # p
      BY <2>2, <3>2 DEF Blame, Elsewhere
    <3> QED BY <3>1, <3>2
  <2>3. CASE Elsewhere(M, P, p, X)
    <3>1. PICK r \in RestOf(M) \ {p} : Overrun(M, P[r], X)
      BY <2>3 DEF Elsewhere
    <3>2. Overrun(M, P2[r], X)
      BY <3>1
    <3>3. CASE q = r
      BY <3>2, <3>3 DEF Blame
    <3>4. CASE q # r
      BY <3>1, <3>2, <3>4 DEF Blame, Elsewhere
    <3> QED BY <3>3, <3>4
  <2> QED BY <1>1, <2>1, <2>2, <2>3 DEF Blame
<1>2. ASSUME Overrun(M, P[p], X) => Overrun(M, s, X), Blame(M, P, q, P[q], X)
      PROVE  Blame(M, P2, q, P2[q], X)
  <2>1. \A r \in RestOf(M) : Overrun(M, P[r], X) => Overrun(M, P2[r], X)
    BY <1>2
  <2>2. CASE Elsewhere(M, P, q, X)
    BY <2>1, <2>2 DEF Elsewhere, Blame
  <2>3. CASE ~Elsewhere(M, P, q, X)
    BY <1>2, <2>1, <2>3 DEF Blame
  <2> QED BY <2>2, <2>3
<1> QED BY <1>1, <1>2

LEMMA SoleStep ==
    ASSUME NEW M, IsMesh(M), IsSole(M), NEW P, NEW sent, NEW p, SoleInv(M, P, sent),
           NEW N, N = Said(sent), NEW w, SoleWork(M, P, p, N, w),
           Overrun(M, P[p], Now(N, w)) => Overrun(M, w.s, Now(N, w)),
           NEW P2, P2[p] = w.s, \A q \in RestOf(M) : q # p => P2[q] = P[q],
           NEW sent2, \A m : m \in sent2 <=> m \in sent \/ m \in w.out
    PROVE  SoleInv(M, P2, sent2)
<1> DEFINE X == Now(N, w)
<1>1. Said(sent2) = X
  BY DEF Said, Now
<1>2. p \in RestOf(M) /\ SoleNet(M, X) /\ SolePeer(M, p, w.s, X)
  BY DEF SoleWork
<1>3. N \subseteq X
  BY DEF Now
<1>4. \A m \in sent2 : m.to \in RestOf(M)
  BY DEF SoleWork, SoleInv
<1>5. \A r \in Inventories(X) : r.participant # p => r \in N
  BY DEF SoleWork
<1>6. w.s.failure = "MissingHistory" \/ MissingSaid(X) => Blame(M, P, p, w.s, X)
  BY DEF SoleWork
<1>7. \A q \in RestOf(M) : /\ SolePeer(M, q, P[q], N)
                           /\ P[q].failure = "MissingHistory" => Blame(M, P, q, P[q], N)
  BY DEF SoleInv
<1>8. Overrun(M, P[p], X) => Overrun(M, w.s, X)
  OBVIOUS
<1> HIDE DEF X
<1>9. \A q \in RestOf(M) : Blame(M, P, p, w.s, X) => Blame(M, P2, q, P2[q], X)
  <2> TAKE q \in RestOf(M)
  <2> DEFINE s == w.s
  <2>1. P2[p] = s
    OBVIOUS
  <2> HIDE DEF s
  <2>2. Blame(M, P, p, s, X) => Blame(M, P2, q, P2[q], X)
    BY <1>2, <2>1, BlameIsShared
  <2> QED BY <2>2 DEF s
<1>10. \A q \in RestOf(M) : Blame(M, P, q, P[q], X) => Blame(M, P2, q, P2[q], X)
  <2> TAKE q \in RestOf(M)
  <2> DEFINE s == w.s
  <2>1. P2[p] = s /\ (Overrun(M, P[p], X) => Overrun(M, s, X))
    BY <1>8
  <2> HIDE DEF s
  <2> QED BY <1>2, <2>1, BlameIsShared
<1>11. ASSUME NEW q \in RestOf(M), q # p
       PROVE  SolePeer(M, q, P2[q], X) /\ (P2[q].failure = "MissingHistory" => Blame(M, P2, q, P2[q], X))
  <2>1. \A r \in Inventories(X) : r.participant = q => r \in N
    BY <1>5, <1>11
  <2>2. SolePeer(M, q, P[q], X)
    BY <1>2, <1>3, <1>7, <2>1, SolePeerGrows
  <2>3. Blame(M, P, q, P[q], N) => Blame(M, P, q, P[q], X)
    BY <1>2, <1>3, SaidGrows
  <2>4. P2[q] = P[q]
    BY <1>11
  <2> QED BY <1>7, <1>10, <2>2, <2>3, <2>4
<1>12. SolePeer(M, p, P2[p], X) /\ (P2[p].failure = "MissingHistory" => Blame(M, P2, p, P2[p], X))
  BY <1>2, <1>6, <1>9
<1>13. MissingSaid(X) => \A q \in RestOf(M) : Blame(M, P2, q, P2[q], X)
  BY <1>6, <1>9
<1> QED BY <1>1, <1>2, <1>4, <1>11, <1>12, <1>13 DEF SoleInv

\* What a peer does takes effect.
LEMMA StepInv ==
    ASSUME DropInv, NEW p \in Peers, NEW w, Good(mesh, peer, p, Said(net), w),
           IsSole(mesh) => (Overrun(mesh, peer[p], Now(Said(net), w)) => Overrun(mesh, w.s, Now(Said(net), w))),
           peer' = [peer EXCEPT ![p] = w.s], net' = net \cup w.out, mesh' = mesh,
           busy' \in [Peers -> BOOLEAN]
    PROVE  DropInv'
<1> DEFINE M == mesh
           P == peer
           P2 == peer'
           sent == net
           sent2 == net'
           N == Said(sent)
<1>1. IsMesh(M) /\ p \in M.peers /\ M \in Scenarios /\ Peers = M.peers
  BY ScenariosAreMeshes DEF DropInv, Peers
<1>2. mesh' = M /\ P2 = [P EXCEPT ![p] = w.s] /\ sent2 = sent \cup w.out /\ DOMAIN P = M.peers
  BY <1>1 DEF DropInv
<1>3. \A q \in M.peers : PeerOK(M, q, P[q])
  BY <1>1 DEF DropInv
<1>4. sent \subseteq Messages(M) /\ (IsSole(M) => SoleInv(M, P, sent))
  BY DEF DropInv
<1>5. WorkOK(M, p, w) /\ (IsSole(M) => SoleWork(M, P, p, N, w))
  BY DEF Good
<1>6. IsSole(M) => (Overrun(M, P[p], Now(N, w)) => Overrun(M, w.s, Now(N, w)))
  OBVIOUS
<1>7. busy' \in [M.peers -> BOOLEAN]
  BY <1>1
<1> HIDE DEF M, P, P2, sent, sent2
<1>8. /\ DOMAIN P2 = M.peers
      /\ P2[p] = w.s /\ \A q \in M.peers : q # p => P2[q] = P[q]
  BY <1>1, <1>2
<1>9. \A q \in M.peers : PeerOK(M, q, P2[q])
  <2>1. PeerOK(M, p, w.s)
    BY <1>5 DEF WorkOK
  <2> QED BY <1>3, <1>8, <2>1
<1>10. sent2 \subseteq Messages(M)
  BY <1>2, <1>4, <1>5 DEF WorkOK, Works
<1>11. ASSUME IsSole(M) PROVE SoleInv(M, P2, sent2)
  <2>1. \A q \in RestOf(M) : q # p => P2[q] = P[q]
    BY <1>8 DEF RestOf
  <2>2. N = Said(sent)
    OBVIOUS
  <2>3. SoleInv(M, P, sent) /\ SoleWork(M, P, p, N, w) /\ (Overrun(M, P[p], Now(N, w)) => Overrun(M, w.s, Now(N, w)))
    BY <1>4, <1>5, <1>6, <1>11
  <2>4. \A m : m \in sent2 <=> m \in sent \/ m \in w.out
    BY <1>2
  <2>5. IsMesh(M) /\ P2[p] = w.s
    BY <1>1, <1>8
  <2> HIDE DEF N
  <2> QED BY <1>11, <2>1, <2>2, <2>3, <2>4, <2>5, SoleStep
<1>12. /\ M \in Scenarios
       /\ busy' \in [M.peers -> BOOLEAN]
       /\ DOMAIN P2 = M.peers
       /\ \A q \in M.peers : PeerOK(M, q, P2[q])
       /\ sent2 \subseteq Messages(M)
       /\ IsSole(M) => SoleInv(M, P2, sent2)
  BY <1>1, <1>7, <1>8, <1>9, <1>10, <1>11
<1> QED BY <1>2, <1>12 DEF DropInv, Peers, M, P2, sent2

LEMMA WorkIsRecord ==
    ASSUME NEW s
    PROVE  Work(s).s = s /\ Work(s).out = {} /\ Work(s).error = None
BY DEF Work

LEMMA QuietGood ==
    ASSUME NEW M, NEW P, NEW p, NEW N, NEW s, PeerOK(M, p, s),
           IsSole(M) => /\ p \in RestOf(M) /\ SolePeer(M, p, s, N) /\ SoleNet(M, N)
                        /\ s.failure = "MissingHistory" \/ MissingSaid(N) => Blame(M, P, p, s, N)
    PROVE  /\ Good(M, P, p, N, Work(s))
           /\ Now(N, Work(s)) = N
<1> DEFINE w == Work(s)
<1>1. w.s = s /\ w.out = {} /\ w.error = None
  BY WorkIsRecord
<1>2. Now(N, w) = N
  BY <1>1 DEF Now, Said
<1>3. WorkOK(M, p, w)
  <2>1. w \in Works(M, p)
    BY DEF Work, Works, PeerOK
  <2> QED BY <1>1, <2>1 DEF WorkOK
<1> HIDE DEF w
<1>4. ASSUME IsSole(M) PROVE SoleWork(M, P, p, N, w)
  <2>1. w.error # "MissingHistory" /\ w.error # "Superseded"
    BY <1>1, NoneReason
  <2>2. \A m \in w.out : m.to \in RestOf(M)
    BY <1>1
  <2>3. \A r \in Inventories(N) : r.participant # p => r \in N
    BY DEF Inventories
  <2> QED BY <1>1, <1>2, <1>4, <2>1, <2>2, <2>3 DEF SoleWork
<1> QED BY <1>2, <1>3, <1>4 DEF Good, w

\* The parts of the invariant that a step of peer p starts from.
LEMMA InvFacts ==
    ASSUME DropInv, NEW p \in Peers
    PROVE  /\ IsMesh(mesh) /\ p \in mesh.peers /\ PeerOK(mesh, p, peer[p])
           /\ LastFrame = LastOf(mesh) /\ LastFrame \in Nat /\ Cardinality(Peers) \in Nat
           /\ Others(p) = OthersOf(mesh, p)
           /\ \A m \in net : m.body \in Bodies(mesh) /\ m.body \in Said(net) /\ m.to \in Peers
           /\ IsSole(mesh) => /\ SoleNet(mesh, Said(net))
                              /\ \A m \in net : m.to \in RestOf(mesh)
                              /\ \A q \in Peers : Others(q) # {} => q \in RestOf(mesh)
           /\ IsSole(mesh) /\ p \in RestOf(mesh) =>
                 /\ SolePeer(mesh, p, peer[p], Said(net))
                 /\ peer[p].failure = "MissingHistory" \/ MissingSaid(Said(net)) =>
                        Blame(mesh, peer, p, peer[p], Said(net))
<1>1. IsMesh(mesh) /\ p \in mesh.peers /\ PeerOK(mesh, p, peer[p])
  BY ScenariosAreMeshes DEF DropInv, Peers
<1>2. LastFrame = LastOf(mesh)
  BY DEF LastFrame, LastOf, Targets, stream
<1>3. LastFrame \in Nat
  BY <1>1, <1>2, LastOfMesh
<1>4. Cardinality(Peers) \in Nat
  BY <1>1, FS_CardinalityType DEF IsMesh, Peers
<1>5. \A q : Others(q) = OthersOf(mesh, q)
  BY DEF Others, OthersOf, Targets, stream
<1>6. \A m \in net : m.body \in Bodies(mesh) /\ m.body \in Said(net) /\ m.to \in Peers
  BY DEF DropInv, Messages, Said, Peers
<1>7. IsSole(mesh) => /\ SoleNet(mesh, Said(net))
                      /\ \A m \in net : m.to \in RestOf(mesh)
  BY DEF DropInv, SoleInv
<1>8. IsSole(mesh) => \A q \in Peers : Others(q) # {} => q \in RestOf(mesh)
  BY <1>1, <1>5, SoleFacts DEF Peers
<1>9. IsSole(mesh) /\ p \in RestOf(mesh) =>
                 /\ SolePeer(mesh, p, peer[p], Said(net))
                 /\ peer[p].failure = "MissingHistory" \/ MissingSaid(Said(net)) =>
                        Blame(mesh, peer, p, peer[p], Said(net))
  BY DEF DropInv, SoleInv
<1> QED BY <1>1, <1>2, <1>3, <1>4, <1>5, <1>6, <1>7, <1>8, <1>9

LEMMA WorkGood ==
    ASSUME DropInv, NEW p \in Peers, IsSole(mesh) => p \in RestOf(mesh)
    PROVE  /\ Good(mesh, peer, p, Said(net), Work(peer[p]))
           /\ Now(Said(net), Work(peer[p])) = Said(net)
<1> DEFINE M == mesh
           P == peer
           s == peer[p]
           N == Said(net)
<1>1. PeerOK(M, p, s)
  BY InvFacts
<1>2. IsSole(M) => /\ p \in RestOf(M) /\ SolePeer(M, p, s, N) /\ SoleNet(M, N)
                   /\ s.failure = "MissingHistory" \/ MissingSaid(N) => Blame(M, P, p, s, N)
  BY InvFacts
<1> HIDE DEF M, P, s, N
<1>3. Good(M, P, p, N, Work(s)) /\ Now(N, Work(s)) = N
  BY <1>1, <1>2, QuietGood
<1> QED BY <1>3 DEF M, P, s, N

\* A survivor that is done with the only drop there is does nothing more.
LEMMA ClosedStays ==
    ASSUME NEW M, IsMesh(M), IsSole(M), NEW P, NEW p \in M.peers, NEW N, NEW w, Good(M, P, p, N, w),
           w.error = None, w.s.active = None, w.s.closed # {},
           NEW m \in Bodies(M), Heard(M, N, w, m)
    PROVE  OrFail(Handle(w, p, m), p).s = w.s
<1>1. w.s.closed = {TheOp(M)} /\ SoundBody(M, Now(N, w), m)
  <2>1. w.s.closed \subseteq {TheOp(M)}
    BY DEF Good, SoleWork, SolePeer
  <2> QED BY <2>1, HeardFacts
<1>2. Handle(w, p, m) = w
  <2>1. CASE m \in Prepares(M)
    <3>1. m.type = "Prepare"
      BY <2>1 DEF Prepares
    <3>2. m.op \in w.s.closed
      BY <1>1, <3>1 DEF SoundBody
    <3> QED BY <3>1, <3>2 DEF Handle, AcceptPrepare
  <2>2. CASE m \in Reports(M) \cup Certificates(M, "Ready") \cup Certificates(M, "Committed")
    <3>1. m.type \in {"Inventory", "Ready", "Committed"}
      BY <2>2 DEF Reports, Certificates
    <3> QED BY <3>1 DEF Handle, AcceptReport
  <2>3. CASE m \in Chunks(M)
    <3>1. m.type = "Backfill"
      BY <2>3 DEF Chunks
    <3> QED BY <3>1 DEF Handle, AcceptBackfill
  <2>4. CASE m \in Commits(M)
    <3>1. m.type = "Commit"
      BY <2>4 DEF Commits
    <3> QED BY <3>1 DEF Handle, AcceptCommit
  <2>5. CASE m \in Aborts(M)
    <3>1. m.type = "Abort"
      BY <2>5 DEF Aborts
    <3> QED BY <3>1 DEF Handle, AcceptAbort
  <2> QED BY <2>1, <2>2, <2>3, <2>4, <2>5 DEF Bodies
<1>3. OrFail(w, p) = w
  BY DEF OrFail
<1> QED BY <1>2, <1>3

LEMMA DriveStays ==
    ASSUME NEW M, IsMesh(M), IsSole(M), NEW P, NEW p \in M.peers, NEW N, NEW w, Good(M, P, p, N, w),
           w.error = None, w.s.active = None, NEW timeout, Cardinality(Peers) \in Nat
    PROVE  DriveAll(w, p, timeout).s = w.s
<1>1. StartDeferred(w, p) = w /\ StartQueued(w, p) = w
  BY StartDeferredGood, StartQueuedGood
<1>2. DriveAll(w, p, timeout) = [w EXCEPT !.error = None]
  BY <1>1 DEF DriveAll
<1>3. w \in Works(M, p)
  BY DEF Good, WorkOK
<1> QED BY <1>2, <1>3 DEF Works

LEMMA BusyType ==
    ASSUME DropInv, NEW p, NEW b \in BOOLEAN
    PROVE  busy \in [Peers -> BOOLEAN] /\ [busy EXCEPT ![p] = b] \in [Peers -> BOOLEAN]
BY DEF DropInv

LEMMA RemovePlayerInv ==
    ASSUME DropInv, NEW r \in mesh.requests, RemovePlayer(r[1], r[2])
    PROVE  DropInv'
<1> DEFINE p == r[1]
           t == r[2]
           M == mesh
           P == peer
           N == Said(net)
           w == Work(peer[p])
           v == Begin(w, p, t)
<1>1. p \in Peers /\ t \in Others(p)
  BY ScenariosAreMeshes DEF DropInv, IsMesh, Peers, Others, Targets, stream
<1>2. /\ peer[p].dropped[t] = NULL_FRAME /\ \A op \in peer[p].closed : op.target # t
      /\ peer' = [peer EXCEPT ![p] = v.s] /\ net' = net \cup v.out /\ mesh' = mesh /\ busy' = busy
  BY DEF RemovePlayer, Effect
<1> HIDE DEF p, t
<1>3. IsMesh(M) /\ p \in M.peers /\ t \in OthersOf(M, p)
  BY <1>1, InvFacts
<1>4. IsSole(M) => p \in RestOf(M) /\ SolePeer(M, p, peer[p], N)
  BY <1>1, InvFacts
<1>5. Good(M, P, p, N, w) /\ w.s = peer[p] /\ w.error = None
  BY <1>1, <1>4, WorkGood, WorkIsRecord
<1>6. IsSole(M) => w.s.closed = {} /\ w.s.dropped[TargetOf(M)] = NULL_FRAME
  <2> SUFFICES ASSUME IsSole(M) PROVE peer[p].closed = {} /\ t = TargetOf(M)
    BY <1>2, <1>5
  <2>1. t = TargetOf(M)
    BY <1>3, <1>4, SoleFacts
  <2>2. peer[p].closed \subseteq {TheOp(M)} /\ TheOp(M).target = TargetOf(M)
    BY <1>4 DEF SolePeer, TheOp
  <2> QED BY <1>2, <2>1, <2>2
<1>7. Good(M, P, p, N, v)
  <2> HIDE DEF w, M, P, N
  <2> QED BY <1>3, <1>5, <1>6, BeginGood
<1>8. IsSole(M) => ~Overrun(M, peer[p], Now(N, v))
  BY <1>5, <1>6 DEF Overrun
<1>9. busy' \in [Peers -> BOOLEAN]
  BY <1>2 DEF DropInv
<1> HIDE DEF v
<1> QED BY <1>1, <1>2, <1>7, <1>8, <1>9, StepInv

LEMMA ReceiveInv ==
    ASSUME DropInv, NEW m \in net, Receive(m.to, m)
    PROVE  DropInv'
<1> DEFINE p == m.to
           b == m.body
           M == mesh
           P == peer
           N == Said(net)
           w == Work(peer[p])
           h == Handle(w, p, b)
           v == OrFail(h, p)
           yes == TRUE
<1>1. p \in Peers /\ b \in Bodies(M) /\ b \in N
  BY DEF DropInv, Messages, Said, Peers
<1>2. /\ peer' = [peer EXCEPT ![p] = v.s] /\ net' = net \cup v.out /\ mesh' = mesh
      /\ busy' = [busy EXCEPT ![p] = yes]
  BY DEF Receive, Effect, Handled
<1>3. busy' \in [Peers -> BOOLEAN]
  <2>1. yes \in BOOLEAN
    OBVIOUS
  <2> HIDE DEF yes, p
  <2> QED BY <1>2, <2>1, BusyType
<1> HIDE DEF p, b
<1>4. IsMesh(M) /\ p \in M.peers /\ LastFrame \in Nat
  BY <1>1, InvFacts
<1>5. IsSole(M) => p \in RestOf(M)
  BY <1>1, InvFacts DEF p
<1>6. Good(M, P, p, N, w) /\ w.s = peer[p] /\ w.error = None /\ Now(N, w) = N
  BY <1>1, <1>5, WorkGood, WorkIsRecord
<1>7. Heard(M, N, w, b)
  BY <1>1, <1>6 DEF Heard
<1>8. Good(M, P, p, N, v)
  <2> HIDE DEF w, M, P, N
  <2>1. Good(M, P, p, N, h)
    BY <1>1, <1>4, <1>6, <1>7, HandleGood
  <2> HIDE DEF h
  <2> QED BY <1>4, <2>1, OrFailGood
<1>9. IsSole(M) /\ peer[p].active = None /\ peer[p].closed # {} => v.s = peer[p]
  <2> SUFFICES ASSUME IsSole(M), w.s.active = None, w.s.closed # {} PROVE v.s = w.s
    BY <1>6
  <2>1. IsMesh(M) /\ p \in M.peers /\ b \in Bodies(M) /\ Good(M, P, p, N, w) /\ w.error = None
    BY <1>1, <1>4, <1>6
  <2> HIDE DEF w, M, P, N
  <2>2. OrFail(Handle(w, p, b), p).s = w.s
    BY <1>7, <2>1, ClosedStays
  <2> QED BY <2>2
<1>10. IsSole(M) => (Overrun(M, peer[p], Now(N, v)) => Overrun(M, v.s, Now(N, v)))
  BY <1>9 DEF Overrun
<1> HIDE DEF v
<1> QED BY <1>1, <1>2, <1>3, <1>8, <1>10, StepInv

LEMMA DriveInv ==
    ASSUME DropInv, NEW p \in Survivors, NEW timeout \in BOOLEAN, Drive(p, timeout)
    PROVE  DropInv'
<1> DEFINE M == mesh
           P == peer
           N == Said(net)
           w == Work(peer[p])
           v == DriveAll(w, p, timeout)
           no == FALSE
<1>1. p \in Peers /\ Others(p) # {}
  BY DEF Survivors
<1>2. /\ peer' = [peer EXCEPT ![p] = v.s] /\ net' = net \cup v.out /\ mesh' = mesh
      /\ busy' = [busy EXCEPT ![p] = no]
  BY DEF Drive, Effect
<1>3. busy' \in [Peers -> BOOLEAN]
  <2>1. no \in BOOLEAN
    OBVIOUS
  <2> HIDE DEF no
  <2> QED BY <1>2, <2>1, BusyType
<1>4. IsMesh(M) /\ p \in M.peers /\ Cardinality(Peers) \in Nat
  BY <1>1, InvFacts
<1>5. IsSole(M) => p \in RestOf(M)
  BY <1>1, InvFacts
<1>6. Good(M, P, p, N, w) /\ w.s = peer[p] /\ w.error = None /\ Now(N, w) = N
  BY <1>1, <1>5, WorkGood, WorkIsRecord
<1>8. Good(M, P, p, N, v)
  <2> HIDE DEF w, M, P, N
  <2> QED BY <1>4, <1>6, DriveAllGood
<1>9. IsSole(M) /\ peer[p].active = None => v.s = peer[p]
  <2> SUFFICES ASSUME IsSole(M), w.s.active = None PROVE v.s = w.s
    BY <1>6
  <2> HIDE DEF w, M, P, N
  <2> QED BY <1>4, <1>6, DriveStays
<1>10. IsSole(M) => (Overrun(M, peer[p], Now(N, v)) => Overrun(M, v.s, Now(N, v)))
  BY <1>9 DEF Overrun
<1> HIDE DEF v
<1> QED BY <1>1, <1>2, <1>3, <1>8, <1>10, StepInv

\* A step that says nothing.
LEMMA QuietStep ==
    ASSUME DropInv, NEW p \in Peers, NEW s2, PeerOK(mesh, p, s2), s2.failure = peer[p].failure,
           IsSole(mesh) => /\ p \in RestOf(mesh) /\ SolePeer(mesh, p, s2, Said(net))
                           /\ Overrun(mesh, peer[p], Said(net)) => Overrun(mesh, s2, Said(net)),
           peer' = [peer EXCEPT ![p] = s2], net' = net, mesh' = mesh, busy' = busy
    PROVE  DropInv'
<1> DEFINE M == mesh
           P == peer
           N == Said(net)
           w == Work(s2)
<1>1. IsSole(M) => /\ SoleNet(M, N)
                   /\ s2.failure = "MissingHistory" \/ MissingSaid(N) => Blame(M, P, p, s2, N)
  <2> SUFFICES ASSUME IsSole(M)
               PROVE  /\ SoleNet(M, N)
                      /\ s2.failure = "MissingHistory" \/ MissingSaid(N) => Blame(M, P, p, s2, N)
    OBVIOUS
  <2>1. SoleNet(M, N) /\ (peer[p].failure = "MissingHistory" \/ MissingSaid(N) => Blame(M, P, p, peer[p], N))
    BY InvFacts
  <2>2. Blame(M, P, p, peer[p], N) => Blame(M, P, p, s2, N)
    BY DEF Blame
  <2> QED BY <2>1, <2>2
<1>2. Good(M, P, p, N, w) /\ Now(N, w) = N
  <2>1. /\ PeerOK(M, p, s2)
        /\ IsSole(M) => /\ p \in RestOf(M) /\ SolePeer(M, p, s2, N) /\ SoleNet(M, N)
                        /\ s2.failure = "MissingHistory" \/ MissingSaid(N) => Blame(M, P, p, s2, N)
    BY <1>1
  <2> HIDE DEF M, P, N
  <2> QED BY <2>1, QuietGood
<1>3. w.s = s2 /\ w.out = {}
  BY WorkIsRecord
<1> HIDE DEF w
<1>4. peer' = [peer EXCEPT ![p] = w.s] /\ net' = net \cup w.out /\ busy' \in [Peers -> BOOLEAN]
  BY <1>3 DEF DropInv
<1>5. IsSole(M) => (Overrun(M, peer[p], Now(N, w)) => Overrun(M, w.s, Now(N, w)))
  BY <1>2, <1>3
<1> QED BY <1>2, <1>4, <1>5, StepInv

\* Another input of the target.
LEMMA GrownSole ==
    ASSUME NEW M, IsMesh(M), IsSole(M), NEW p \in RestOf(M), NEW s, PeerOK(M, p, s), NEW X,
           SolePeer(M, p, s, X), \A r \in Inventories(X) : r.exposed \in Int,
           NEW t, t = TargetOf(M), s.dropped[t] = NULL_FRAME,
           NEW s2, PeerOK(M, p, s2), Through(s2, t) >= Through(s, t),
           s2.receipt[t] <= Through(s2, t), s2.receipt[t] >= s.receipt[t],
           s2.first = s.first, s2.dropped = s.dropped, s2.running = s.running, s2.exposed = s.exposed,
           s2.active = s.active, s2.queued = s.queued, s2.deferred = s.deferred, s2.closed = s.closed,
           s.ceiling = s2.ceiling \/ (s.ceiling # None => s2.ceiling \in Int /\ s2.ceiling <= s.ceiling)
    PROVE  SolePeer(M, p, s2, X)
<1> DEFINE a == s.active
<1>1. /\ t \in OthersOf(M, p) /\ Through(s, t) \in Int /\ Through(s2, t) \in Int
      /\ s.receipt[t] \in Int /\ s2.receipt[t] \in Int /\ s.first[t] \in Int /\ s.exposed \in Int
  <2>1. t \in OthersOf(M, p)
    BY SoleFacts
  <2>2. /\ s.receipt[t] \in FrameOrNullOf(M) /\ s2.receipt[t] \in FrameOrNullOf(M) /\ s.first[t] \in FrameOf(M)
        /\ s.exposed \in FrameOrNullOf(M)
    BY <2>1 DEF PeerOK, PeerRecords
  <2> QED BY <2>1, <2>2, ThroughType, FrameInt
<1>2. ASSUME a # None PROVE SoleAttempt(M, p, s2, a, X)
  <2>1. /\ AttemptOK(M, p, a) /\ SoleAttempt(M, p, s, a, X) /\ a.op.target = t
        /\ a.phase # "Committed"
    BY <1>2 DEF PeerOK, SolePeer, SoleAttempt, TheOp
  <2>2. \E own \in a.reports : OwnReport(p, s2, a, own)
    <3>1. PICK own \in a.reports : OwnReport(p, s, a, own)
      BY <2>1 DEF SoleAttempt
    <3>2. own.through \in Int
      BY <2>1, ReportType
    <3>3. own.through <= Through(s2, t)
      BY <1>1, <2>1, <3>1, <3>2 DEF OwnReport
    <3> QED BY <2>1, <3>1, <3>3 DEF OwnReport
  <2>3. a.cut # None => SoundFill(s2, a)
    <3> SUFFICES ASSUME a.cut # None PROVE SoundFill(s2, a)
      OBVIOUS
    <3>1. SoundFill(s, a)
      BY <2>1 DEF SoleAttempt
    <3>2. a.next_backfill_chunk \in Int /\ \A r \in a.reports : r.through \in Int
      BY <2>1, ReportType DEF AttemptOK, Attempts
    <3> HIDE DEF a
    <3> QED BY <1>1, <2>1, <3>1, <3>2 DEF SoundFill
  <2>4. a.phase = "Ready" => Held(s2, t, a.cut) # None
    <3> SUFFICES ASSUME a.phase = "Ready" PROVE Held(s2, t, a.cut) # None
      OBVIOUS
    <3>1. Held(s, t, a.cut) # None
      BY <2>1 DEF SoleAttempt
    <3>2. a.cut # None
      BY <2>1 DEF AttemptOK
    <3>3. a.cut \in Int
      BY <2>1, <3>2, MissingFacts
    <3>4. s.first[t] <= a.cut /\ a.cut <= Through(s, t)
      BY <1>1, <3>1, <3>3, HeldType
    <3>5. s2.first[t] <= a.cut /\ a.cut <= Through(s2, t)
      BY <1>1, <3>3, <3>4
    <3> QED BY <1>1, <3>3, <3>5, HeldSome
  <2> QED BY <2>1, <2>2, <2>3, <2>4 DEF SoleAttempt
<1>3. KeepsWord(p, s2, t, X)
  <2>1. KeepsWord(p, s, t, X)
    BY DEF SolePeer
  <2>2. ASSUME NEW r \in Inventories(X), r.participant = p
        PROVE  /\ s2.active # None \/ s2.closed # {}
               /\ r.available_from <= s2.first[t]
               /\ s2.active # None => r \in s2.active.reports
               /\ s2.dropped[t] = NULL_FRAME => s2.exposed <= r.exposed
    BY <2>1, <2>2 DEF KeepsWord
  <2>3. ASSUME NEW r \in Inventories(X), r.participant = p, s2.active = None
        PROVE  s2.ceiling # None /\ s2.ceiling <= r.exposed
    <3>1. s.ceiling # None /\ s.ceiling <= r.exposed
      BY <2>1, <2>3 DEF KeepsWord
    <3>2. CASE s.ceiling = s2.ceiling
      BY <3>1, <3>2
    <3>3. CASE s.ceiling # s2.ceiling
      <4>1. s.ceiling \in Int /\ s2.ceiling \in Int /\ s2.ceiling <= s.ceiling
        <5>1. s.ceiling \in FrameOrNullOf(M) \cup {None}
          BY DEF PeerOK, PeerRecords
        <5> QED BY <3>1, <3>3, <5>1, FrameInt
      <4>2. r.exposed \in Int
        BY <2>3
      <4> QED BY <3>1, <4>1, <4>2, NoneAssumption
    <3> QED BY <3>2, <3>3
  <2> QED BY <2>2, <2>3 DEF KeepsWord
<1>4. /\ s2.first[t] <= Through(s2, t)
      /\ s2.exposed <= s2.receipt[t]
  BY <1>1 DEF SolePeer
<1> QED BY <1>2, <1>3, <1>4 DEF SolePeer

\* The target's next input is taken into the queue.
Received(s, t, v, frame) == [s EXCEPT !.values[t] = Append(@, v), !.receipt[t] = frame]

LEMMA ReceivedOK ==
    ASSUME NEW M, IsMesh(M), NEW p \in M.peers, NEW s, PeerOK(M, p, s), NEW t \in OthersOf(M, p),
           NEW frame, frame = Through(s, t) + 1, frame < Len(M.stream[t]),
           NEW v, v = M.stream[t][frame + 1]
    PROVE  LET u == Received(s, t, v, frame)
           IN  /\ PeerOK(M, p, u)
               /\ Through(u, t) = frame /\ u.receipt[t] = frame
               /\ u.first = s.first /\ u.dropped = s.dropped
               /\ u.running = s.running /\ u.exposed = s.exposed /\ u.ceiling = s.ceiling
               /\ u.active = s.active /\ u.queued = s.queued /\ u.deferred = s.deferred
               /\ u.closed = s.closed /\ u.failure = s.failure
<1> DEFINE u == Received(s, t, v, frame)
           c == Backfill([target |-> t, coordinator |-> p], 0, 1, frame, v)
           i == Installed(s, t, v)
<1>1. /\ Through(s, t) \in Int /\ Through(s, t) \in FrameOrNullOf(M) /\ Len(M.stream[t]) \in Nat
      /\ Len(M.stream[t]) <= LastOf(M) + 1 /\ LastOf(M) \in Nat
  BY ThroughType, LastOfMesh DEF OthersOf
<1>2. frame \in FrameOf(M) /\ frame \in Int
  <2>1. Through(s, t) >= -1
    BY <1>1, FrameInt DEF FrameOrNullOf, FrameOf, NULL_FRAME
  <2> QED BY <1>1, <2>1 DEF FrameOf
<1>3. v \in Input
  <2>1. M.stream[t] \in Seq(Input)
    BY DEF IsMesh, OthersOf
  <2>2. frame + 1 \in 1 .. Len(M.stream[t])
    BY <1>1, <1>2 DEF FrameOf
  <2> QED BY <2>1, <2>2
<1>4. c \in Chunks(M) /\ c.op.target = t /\ c.frame = frame /\ c.value = v
  <2>1. [target |-> t, coordinator |-> p] \in Ops(M)
    BY DEF Ops, OthersOf
  <2>2. IsReal(M, t, frame, v)
    BY DEF IsReal
  <2> QED BY <1>2, <1>3, <2>1, <2>2 DEF Chunks, Backfill
<1> HIDE DEF c
<1>5. /\ PeerOK(M, p, i)
      /\ Through(i, t) = frame
      /\ i.first = s.first /\ i.receipt = s.receipt /\ i.dropped = s.dropped
      /\ i.running = s.running /\ i.exposed = s.exposed /\ i.ceiling = s.ceiling
      /\ i.active = s.active /\ i.queued = s.queued /\ i.deferred = s.deferred
      /\ i.closed = s.closed /\ i.failure = s.failure
  BY <1>4, InstalledOK
<1>6. u = [i EXCEPT !.receipt[t] = frame]
  BY DEF Received, Installed, PeerOK, PeerRecords
<1>7. i \in PeerRecords(M, p)
  BY <1>5 DEF PeerOK
<1> HIDE DEF i, u
<1>8. /\ u \in PeerRecords(M, p) /\ u.receipt[t] = frame
      /\ u.values = i.values /\ u.first = i.first /\ u.dropped = i.dropped
      /\ u.running = i.running /\ u.exposed = i.exposed /\ u.ceiling = i.ceiling
      /\ u.active = i.active /\ u.queued = i.queued /\ u.deferred = i.deferred
      /\ u.closed = i.closed /\ u.failure = i.failure
  <2>1. i.receipt \in [OthersOf(M, p) -> FrameOrNullOf(M)] /\ frame \in FrameOrNullOf(M)
    BY <1>2, <1>7 DEF PeerRecords, FrameOrNullOf
  <2>2. [i.receipt EXCEPT ![t] = frame] \in [OthersOf(M, p) -> FrameOrNullOf(M)]
    BY <2>1
  <2> QED BY <1>6, <1>7, <2>1, <2>2 DEF PeerRecords
<1>9. PeerOK(M, p, u)
  BY <1>5, <1>8 DEF PeerOK
<1>10. Through(u, t) = frame
  BY <1>5, <1>8 DEF Through
<1> QED BY <1>5, <1>8, <1>9, <1>10 DEF u

LEMMA InventoriesTyped ==
    ASSUME DropInv
    PROVE  \A r \in Inventories(Said(net)) :
              r \in Reports(mesh) /\ r.exposed \in Int /\ r.through \in Int /\ r.available_from \in Int
<1> TAKE r \in Inventories(Said(net))
<1>1. r \in Bodies(mesh) /\ r.type = "Inventory" /\ IsMesh(mesh)
  BY ScenariosAreMeshes DEF DropInv, Inventories, Said, Messages
<1>2. r \in Reports(mesh)
  BY <1>1 DEF Bodies, Prepares, Reports, Certificates, Commits, Chunks, Aborts
<1> QED BY <1>1, <1>2, FrameInt DEF Reports, FrameOrNullOf

LEMMA ReceiveInputInv ==
    ASSUME DropInv, NEW p \in Peers, NEW t \in Others(p), ReceiveInput(p, t)
    PROVE  DropInv'
<1> DEFINE M == mesh
           s == peer[p]
           N == Said(net)
           frame == s.receipt[t] + 1
           v == M.stream[t][frame + 1]
           s2 == peer'[p]
<1>1. /\ IsMesh(M) /\ p \in M.peers /\ PeerOK(M, p, s) /\ t \in OthersOf(M, p)
      /\ IsSole(M) => p \in RestOf(M) /\ SolePeer(M, p, s, N) /\ t = TargetOf(M)
  <2>1. /\ IsMesh(M) /\ p \in M.peers /\ PeerOK(M, p, s) /\ t \in OthersOf(M, p)
        /\ IsSole(M) => p \in RestOf(M)
    BY InvFacts
  <2>2. IsSole(M) => SolePeer(M, p, s, N) /\ t = TargetOf(M)
    BY <2>1, InvFacts, SoleFacts
  <2> QED BY <2>1, <2>2
<1>2. /\ s.dropped[t] = NULL_FRAME /\ frame < Len(M.stream[t])
      /\ peer' = [peer EXCEPT ![p] = IF frame = Through(s, t) + 1 THEN Received(s, t, v, frame)
                                     ELSE FailClosedAt(s, s.exposed)]
      /\ net' = net /\ mesh' = mesh /\ busy' = busy
  BY DEF ReceiveInput, Received, stream
<1>3. p \in DOMAIN peer
  BY DEF DropInv
<1>4. /\ peer' = [peer EXCEPT ![p] = s2]
      /\ s2 = IF frame = Through(s, t) + 1 THEN Received(s, t, v, frame) ELSE FailClosedAt(s, s.exposed)
  <2>1. s2 = IF frame = Through(s, t) + 1 THEN Received(s, t, v, frame) ELSE FailClosedAt(s, s.exposed)
    BY <1>2, <1>3
  <2> QED BY <1>2, <2>1
<1>5. s.receipt[t] \in Int /\ Through(s, t) \in Int /\ s.exposed \in FrameOrNullOf(M)
  <2>1. s.receipt[t] \in FrameOrNullOf(M) /\ s.exposed \in FrameOrNullOf(M)
    BY <1>1 DEF PeerOK, PeerRecords
  <2> QED BY <1>1, <2>1, ThroughType, FrameInt
<1> HIDE DEF M, s, N, v, s2
<1>6. /\ PeerOK(M, p, s2) /\ Through(s2, t) >= Through(s, t)
      /\ IsSole(M) => s2.receipt[t] <= Through(s2, t)
      /\ s2.receipt[t] >= s.receipt[t]
      /\ s2.first = s.first /\ s2.dropped = s.dropped /\ s2.running = s.running /\ s2.exposed = s.exposed
      /\ s2.active = s.active /\ s2.queued = s.queued /\ s2.deferred = s.deferred /\ s2.closed = s.closed
      /\ s.ceiling = s2.ceiling \/ (s.ceiling # None => s2.ceiling \in Int /\ s2.ceiling <= s.ceiling)
      /\ s2.failure = s.failure
  <2>1. CASE frame = Through(s, t) + 1
    <3>1. s2 = Received(s, t, v, frame)
      BY <1>4, <2>1
    <3>2. v = M.stream[t][frame + 1] /\ frame < Len(M.stream[t])
      BY <1>2 DEF v
    <3>3. /\ PeerOK(M, p, s2)
          /\ Through(s2, t) = frame /\ s2.receipt[t] = frame
          /\ s2.first = s.first /\ s2.dropped = s.dropped
          /\ s2.running = s.running /\ s2.exposed = s.exposed /\ s2.ceiling = s.ceiling
          /\ s2.active = s.active /\ s2.queued = s.queued /\ s2.deferred = s.deferred
          /\ s2.closed = s.closed /\ s2.failure = s.failure
      <4> HIDE DEF frame
      <4> QED BY <1>1, <2>1, <3>1, <3>2, ReceivedOK
    <3> QED BY <1>5, <2>1, <3>3
  <2>2. CASE frame # Through(s, t) + 1
    <3>1. s2 = FailClosedAt(s, s.exposed)
      BY <1>4, <2>2
    <3>2. /\ PeerOK(M, p, s2)
          /\ s2.ceiling \in FrameOrNullOf(M)
          /\ s.ceiling # None => s2.ceiling <= s.ceiling
          /\ s2.values = s.values /\ s2.receipt = s.receipt
          /\ s2.first = s.first /\ s2.dropped = s.dropped
          /\ s2.running = s.running /\ s2.exposed = s.exposed
          /\ s2.active = s.active /\ s2.queued = s.queued /\ s2.deferred = s.deferred
          /\ s2.closed = s.closed /\ s2.failure = s.failure
      BY <1>1, <1>5, <3>1, FailClosedAtOK
    <3>3. s2.ceiling \in Int
      BY <1>1, <3>2, FrameInt
    <3>4. Through(s2, t) = Through(s, t)
      BY <3>2 DEF Through
    <3>5. IsSole(M) => s.receipt[t] <= Through(s, t)
      BY <1>1 DEF SolePeer
    <3> QED BY <1>5, <3>2, <3>3, <3>4, <3>5
  <2> QED BY <2>1, <2>2
<1>7. \A r \in Inventories(N) : r.exposed \in Int
  BY InventoriesTyped DEF N
<1>8. ASSUME IsSole(M) PROVE SolePeer(M, p, s2, N) /\ (Overrun(M, s, N) => Overrun(M, s2, N))
  <2>1. SolePeer(M, p, s2, N)
    BY <1>1, <1>2, <1>6, <1>7, <1>8, GrownSole
  <2> QED BY <1>6, <2>1 DEF Overrun, Late
<1>9. /\ PeerOK(mesh, p, s2) /\ s2.failure = peer[p].failure
      /\ IsSole(mesh) => /\ p \in RestOf(mesh) /\ SolePeer(mesh, p, s2, Said(net))
                         /\ Overrun(mesh, peer[p], Said(net)) => Overrun(mesh, s2, Said(net))
  BY <1>1, <1>6, <1>8 DEF M, s, N
<1> QED BY <1>2, <1>4, <1>9, QuietStep

\* A frame that can be confirmed is received and not held back.
LEMMA SlotBoundFacts ==
    ASSUME DropInv, NEW p \in Peers, NEW t \in Others(p)
    PROVE  /\ SlotBound(p, t) \in Int /\ SlotBound(p, t) >= -1
           /\ peer[p].dropped[t] = NULL_FRAME => SlotBound(p, t) <= peer[p].receipt[t]
<1> DEFINE M == mesh
           s == peer[p]
           voters == s.running \ {t}
           reports == {peer[q].receipt[t] : q \in voters}
           own == s.receipt[t]
           both == reports \cup {own}
<1>1. IsMesh(M) /\ PeerOK(M, p, s) /\ t \in OthersOf(M, p) /\ LastFrame \in Nat
  BY InvFacts
<1>2. own \in FrameOrNullOf(M) /\ voters \subseteq M.peers
  BY <1>1 DEF PeerOK, PeerRecords
<1>3. reports \subseteq FrameOrNullOf(M)
  <2>1. ASSUME NEW q \in voters PROVE peer[q].receipt[t] \in FrameOrNullOf(M)
    <3>1. PeerOK(M, q, peer[q]) /\ t \in OthersOf(M, q)
      BY <1>1, <1>2, InvFacts DEF OthersOf, Peers
    <3> QED BY <3>1 DEF PeerOK, PeerRecords
  <2> QED BY <2>1
<1>4. SlotBound(p, t) = IF s.dropped[t] = NULL_FRAME THEN Min(both)
                        ELSE IF \E q \in voters : peer[q].dropped[t] = NULL_FRAME THEN Min(reports) ELSE LastFrame
  BY DEF SlotBound
<1>5. (\E q \in voters : peer[q].dropped[t] = NULL_FRAME) => reports # {}
  OBVIOUS
<1> HIDE DEF M, s, reports, own, voters
<1>6. both \in SUBSET Int /\ reports \in SUBSET Int /\ (\A x \in both : x >= -1) /\ (\A x \in reports : x >= -1)
  <2>1. \A f \in FrameOrNullOf(M) : f \in Int /\ f >= -1
    BY <1>1, LastOfMesh DEF FrameOrNullOf, FrameOf, NULL_FRAME
  <2> QED BY <1>2, <1>3, <2>1
<1>7. own \in both /\ both # {}
  OBVIOUS
<1> HIDE DEF both
<1>8. Min(both) \in both /\ (\A y \in both : Min(both) <= y)
  BY <1>6, <1>7, MinIsLeast
<1>9. reports # {} => Min(reports) \in reports
  BY <1>6, MinIsLeast
<1>10. CASE s.dropped[t] = NULL_FRAME
  <2>1. SlotBound(p, t) = Min(both)
    BY <1>4, <1>10
  <2>2. SlotBound(p, t) \in Int /\ SlotBound(p, t) >= -1 /\ SlotBound(p, t) <= own
    BY <1>6, <1>7, <1>8, <2>1
  <2> QED BY <2>2 DEF s, own
<1>11. CASE s.dropped[t] # NULL_FRAME
  <2>1. SlotBound(p, t) \in Int /\ SlotBound(p, t) >= -1
    <3>1. CASE \E q \in voters : peer[q].dropped[t] = NULL_FRAME
      <4>1. SlotBound(p, t) = Min(reports)
        BY <1>4, <1>11, <3>1
      <4> QED BY <1>5, <1>6, <1>9, <3>1, <4>1
    <3>2. CASE ~\E q \in voters : peer[q].dropped[t] = NULL_FRAME
      <4>1. SlotBound(p, t) = LastFrame
        BY <1>4, <1>11, <3>2
      <4> QED BY <1>1, <4>1
    <3> QED BY <3>1, <3>2
  <2> QED BY <1>11, <2>1 DEF s
<1> QED BY <1>10, <1>11

LEMMA ConfirmableFacts ==
    ASSUME DropInv, NEW p \in Peers, NEW frame \in Int, Confirmable(p, frame)
    PROVE  /\ frame >= peer[p].exposed
           /\ \A x \in Holds(peer[p]) : frame <= x
           /\ \A t \in Others(p) : peer[p].dropped[t] = NULL_FRAME => frame <= peer[p].receipt[t]
<1> DEFINE M == mesh
           s == peer[p]
           slots == {SlotBound(p, t) : t \in Others(p)}
           holds == Holds(s)
           all == {LastFrame} \cup slots \cup holds
<1>1. IsMesh(M) /\ PeerOK(M, p, s) /\ LastFrame \in Nat
  BY InvFacts
<1>2. frame >= s.exposed /\ frame <= Min(all)
  BY DEF Confirmable, ConfirmedBound
<1>3. \A x \in slots : x \in Int /\ x >= -1
  BY SlotBoundFacts
<1>4. \A x \in holds : x \in Int /\ x >= -1
  <2>1. s.ceiling \in FrameOrNullOf(M) \cup {None}
    BY <1>1 DEF PeerOK, PeerRecords
  <2>2. s.active # None => s.active.held_at \in FrameOf(M)
    BY <1>1 DEF PeerOK, AttemptOK, Attempts
  <2> HIDE DEF s, M
  <2>3. holds \subseteq FrameOrNullOf(M)
    BY <1>1, <2>1, <2>2, FrameInt DEF Holds
  <2>4. \A f \in FrameOrNullOf(M) : f \in Int /\ f >= -1
    BY <1>1, LastOfMesh DEF FrameOrNullOf, FrameOf, NULL_FRAME
  <2> HIDE DEF holds
  <2> QED BY <2>3, <2>4
<1>5. \A t \in Others(p) : SlotBound(p, t) \in slots
  OBVIOUS
<1> HIDE DEF slots, holds, s, M
<1>6. all \in SUBSET Int /\ all # {} /\ (\A x \in all : x >= -1) /\ -1 \in Int /\ slots \subseteq all /\ holds \subseteq all
  BY <1>1, <1>3, <1>4
<1> HIDE DEF all
<1>7. Min(all) \in all /\ \A y \in all : Min(all) <= y
  <2> DEFINE b == -1
  <2>1. b \in Int /\ \A x \in all : x >= b
    BY <1>6
  <2> HIDE DEF b
  <2> QED BY <1>6, <2>1, MinIsLeast
<1>8. \A y \in all : frame <= y
  <2> DEFINE least == Min(all)
  <2>1. least \in Int /\ frame <= least /\ \A y \in all : y \in Int /\ least <= y
    BY <1>2, <1>6, <1>7
  <2> HIDE DEF least
  <2> QED BY <2>1
<1>9. ASSUME NEW t \in Others(p), s.dropped[t] = NULL_FRAME PROVE frame <= s.receipt[t]
  <2>1. frame <= SlotBound(p, t)
    BY <1>5, <1>6, <1>8
  <2>2. SlotBound(p, t) \in Int /\ SlotBound(p, t) <= s.receipt[t]
    BY <1>9, SlotBoundFacts DEF s
  <2>3. s.receipt[t] \in Int
    <3>1. t \in OthersOf(M, p)
      BY InvFacts DEF M
    <3>2. s.receipt[t] \in FrameOrNullOf(M)
      BY <1>1, <3>1 DEF PeerOK, PeerRecords
    <3> QED BY <1>1, <3>2, FrameInt
  <2> QED BY <2>1, <2>2, <2>3
<1>10. \A x \in holds : frame <= x
  BY <1>6, <1>8
<1> QED BY <1>2, <1>9, <1>10 DEF s, holds

\* A frame is exposed, and inputs confirmed before it may be discarded.
LEMMA ExposedSole ==
    ASSUME NEW M, IsMesh(M), IsSole(M), NEW p \in RestOf(M), NEW s, PeerOK(M, p, s), NEW X,
           SolePeer(M, p, s, X), \A r \in Inventories(X) : r.exposed \in Int /\ r.available_from \in Int,
           NEW t, t = TargetOf(M), NEW frame \in Int, frame >= 0, frame >= s.exposed,
           \A x \in Holds(s) : frame <= x, s.dropped[t] = NULL_FRAME => frame <= s.receipt[t],
           NEW s2, PeerOK(M, p, s2), s2.exposed = frame,
           s2.first[t] >= s.first[t], s2.first[t] <= Through(s, t), s2.first[t] = s.first[t] \/ s2.first[t] < frame,
           s2.values = s.values, s2.receipt = s.receipt, s2.dropped = s.dropped,
           s2.running = s.running, s2.ceiling = s.ceiling,
           s2.active = s.active, s2.queued = s.queued, s2.deferred = s.deferred, s2.closed = s.closed
    PROVE  SolePeer(M, p, s2, X)
<1> DEFINE a == s.active
<1>1. /\ t \in OthersOf(M, p) /\ Through(s, t) \in Int /\ Through(s2, t) = Through(s, t)
      /\ s.first[t] \in Int /\ s2.first[t] \in Int /\ s.exposed \in Int
  <2>1. t \in OthersOf(M, p)
    BY SoleFacts
  <2>2. s.first[t] \in FrameOf(M) /\ s2.first[t] \in FrameOf(M) /\ s.exposed \in FrameOrNullOf(M)
    BY <2>1 DEF PeerOK, PeerRecords
  <2>3. Through(s2, t) = Through(s, t)
    BY DEF Through
  <2> QED BY <2>1, <2>2, <2>3, ThroughType, FrameInt
<1>2. ASSUME a # None
      PROVE  /\ AttemptOK(M, p, a) /\ SoleAttempt(M, p, s, a, X) /\ a.op.target = t
             /\ a.phase # "Committed" => frame = s.exposed
  <2>1. AttemptOK(M, p, a) /\ SoleAttempt(M, p, s, a, X) /\ a.op.target = t
    BY <1>2 DEF PeerOK, SolePeer, SoleAttempt, TheOp
  <2>2. SUFFICES ASSUME a.phase # "Committed" PROVE frame = s.exposed
    BY <2>1
  <2>3. s.exposed = a.held_at
    BY <2>1, <2>2 DEF SoleAttempt, OwnReport
  <2>4. a.held_at \in Holds(s)
    BY <1>2, <2>2 DEF Holds
  <2>5. frame <= s.exposed
    BY <2>3, <2>4
  <2> QED BY <1>1, <2>5
<1>3. ASSUME a # None PROVE SoleAttempt(M, p, s2, a, X)
  <2>1. AttemptOK(M, p, a) /\ SoleAttempt(M, p, s, a, X) /\ a.op.target = t
    BY <1>2, <1>3
  <2>2. PICK own \in a.reports : OwnReport(p, s, a, own)
    BY <2>1 DEF SoleAttempt
  <2>3. own.available_from \in Int /\ own.through \in Int /\ own.exposed \in Int
    BY <2>1, ReportType
  <2>4. OwnReport(p, s2, a, own)
    <3> SUFFICES ASSUME a.phase # "Committed"
                 PROVE  s2.exposed = a.held_at /\ own.available_from <= s2.first[t]
      BY <1>1, <2>1, <2>2 DEF OwnReport
    <3>1. s.exposed = a.held_at /\ own.available_from <= s.first[t]
      BY <2>1, <2>2 DEF OwnReport
    <3>2. s2.exposed = s.exposed
      BY <1>2, <1>3
    <3> HIDE DEF a
    <3> QED BY <1>1, <2>3, <3>1, <3>2
  <2>5. a.cut # None => SoundFill(s2, a)
    BY <1>1, <2>1 DEF SoundFill, SoleAttempt
  <2>6. a.phase = "Ready" => Held(s2, t, a.cut) # None
    <3> SUFFICES ASSUME a.phase = "Ready" PROVE Held(s2, t, a.cut) # None
      OBVIOUS
    <3>1. Held(s, t, a.cut) # None /\ a.cut # None
      BY <2>1 DEF SoleAttempt, AttemptOK
    <3>2. a.cut \in Int
      BY <2>1, <3>1, MissingFacts
    <3>3. s.first[t] <= a.cut /\ a.cut <= Through(s, t)
      BY <1>1, <3>1, <3>2, HeldType
    <3>4. frame <= a.cut
      <4>1. own.exposed = a.held_at /\ s.exposed = a.held_at /\ frame = s.exposed
        BY <1>2, <1>3, <2>2 DEF OwnReport
      <4>2. own.exposed <= own.through /\ own.through <= a.cut
        BY <2>1, <2>2, <3>1 DEF SoleAttempt, SoundReport, SoundCut
      <4> HIDE DEF a
      <4> QED BY <2>3, <3>2, <4>1, <4>2
    <3>5. s2.first[t] <= a.cut
      <4> HIDE DEF a
      <4> QED BY <1>1, <3>2, <3>3, <3>4
    <3>6. a.cut <= Through(s2, t)
      BY <1>1, <3>3
    <3> QED BY <1>1, <3>2, <3>5, <3>6, HeldSome
  <2> QED BY <2>1, <2>2, <2>4, <2>5, <2>6 DEF SoleAttempt
<1>4. KeepsWord(p, s2, t, X)
  <2>1. KeepsWord(p, s, t, X)
    BY DEF SolePeer
  <2>2. ASSUME NEW r \in Inventories(X), r.participant = p
        PROVE  /\ s2.active # None \/ s2.closed # {}
               /\ r.available_from <= s2.first[t]
               /\ s2.active # None => r \in s2.active.reports
    <3>1. r.available_from <= s.first[t] /\ r.available_from \in Int
      BY <2>1, <2>2 DEF KeepsWord
    <3> QED BY <1>1, <2>1, <2>2, <3>1 DEF KeepsWord
  <2>3. ASSUME NEW r \in Inventories(X), r.participant = p, s2.dropped[t] = NULL_FRAME
        PROVE  /\ s2.exposed <= r.exposed
               /\ s2.active = None => s2.ceiling # None /\ s2.ceiling <= r.exposed
    <3>1. r.exposed \in Int
      BY <2>3
    <3>2. CASE a # None
      <4>1. frame = s.exposed
        BY <1>2, <2>3, <3>2 DEF SolePeer
      <4> QED BY <2>1, <2>3, <3>2, <4>1 DEF KeepsWord
    <3>3. CASE a = None
      <4>1. s.ceiling # None /\ s.ceiling <= r.exposed
        BY <2>1, <2>3, <3>3 DEF KeepsWord
      <4>2. s.ceiling \in Int
        <5>1. s.ceiling \in FrameOrNullOf(M) \cup {None}
          BY DEF PeerOK, PeerRecords
        <5> QED BY <4>1, <5>1, FrameInt
      <4>3. frame <= s.ceiling
        BY <4>1 DEF Holds
      <4> QED BY <3>1, <4>1, <4>2, <4>3
    <3> QED BY <3>2, <3>3
  <2> QED BY <2>2, <2>3 DEF KeepsWord
<1> QED BY <1>1, <1>3, <1>4 DEF SolePeer

\* A frame is exposed, with inputs before it discarded or not.
Exposed(s, frame, first) == [s EXCEPT !.exposed = frame, !.first = first]

LEMMA ExposedInv ==
    ASSUME DropInv, NEW p \in Survivors, NEW frame \in 0 .. LastFrame, Confirmable(p, frame), NEW first,
           first \in [Others(p) -> FrameOf(mesh)],
           \A t \in Others(p) : first[t] >= peer[p].first[t] /\ (Known >= 1 =>
               (peer[p].first[t] <= Through(peer[p], t) => first[t] <= Through(peer[p], t))),
           \A t \in Others(p) : first[t] = peer[p].first[t] \/ first[t] < frame,
           peer' = [peer EXCEPT ![p] = Exposed(peer[p], frame, first)]
    PROVE  DropInv'
<1> DEFINE M == mesh
           s == peer[p]
           N == Said(net)
           s2 == Exposed(s, frame, first)
           t == TargetOf(M)
<1>0. p \in Peers
  BY DEF Survivors
<1>1. /\ IsMesh(M) /\ PeerOK(M, p, s) /\ LastFrame = LastOf(M) /\ LastFrame \in Nat
      /\ \A q : Others(q) = OthersOf(M, q)
      /\ net' = net /\ mesh' = mesh /\ busy' = busy
  BY <1>0, InvFacts DEF Confirmable, Others, OthersOf, Targets, stream
<1>2. frame \in Int /\ frame >= 0 /\ frame \in FrameOf(M) /\ frame \in FrameOrNullOf(M)
  BY <1>1 DEF FrameOf, FrameOrNullOf
<1>3. /\ frame >= s.exposed /\ (\A x \in Holds(s) : frame <= x)
      /\ \A u \in Others(p) : s.dropped[u] = NULL_FRAME => frame <= s.receipt[u]
  BY <1>0, <1>2, ConfirmableFacts
<1>4. /\ s2 \in PeerRecords(M, p)
      /\ s2.exposed = frame /\ s2.first = first
      /\ s2.values = s.values /\ s2.receipt = s.receipt /\ s2.dropped = s.dropped
      /\ s2.running = s.running /\ s2.ceiling = s.ceiling
      /\ s2.active = s.active /\ s2.queued = s.queued /\ s2.deferred = s.deferred /\ s2.closed = s.closed
      /\ s2.failure = s.failure
  <2>1. s \in PeerRecords(M, p) /\ first \in [OthersOf(M, p) -> FrameOf(M)]
    BY <1>1 DEF PeerOK
  <2> HIDE DEF s, M
  <2> QED BY <1>2, <2>1 DEF Exposed, PeerRecords
<1>5. peer' = [peer EXCEPT ![p] = s2]
  OBVIOUS
<1>6. Peers = M.peers
  BY DEF Peers
<1>7. \A r \in Inventories(N) : r.exposed \in Int /\ r.available_from \in Int /\ r.through \in Int
  BY InventoriesTyped
<1> HIDE DEF s2, t
<1>8. PeerOK(M, p, s2)
  BY <1>1, <1>4 DEF PeerOK
<1>9. ASSUME IsSole(M) PROVE /\ p \in RestOf(M) /\ SolePeer(M, p, s2, N)
                             /\ Overrun(M, s, N) => Overrun(M, s2, N)
  <2>1. p \in RestOf(M) /\ t \in OthersOf(M, p) /\ t = TargetOf(M) /\ Known >= 1
    BY <1>1, <1>6, <1>9, <1>0, SoleFacts DEF Survivors, t
  <2>2. SolePeer(M, p, s, N)
    BY <1>9, <2>1, <1>0, InvFacts
  <2>3. s.first[t] <= Through(s, t)
    BY <2>2 DEF SolePeer, t
  <2>4. /\ s2.first[t] >= s.first[t] /\ s2.first[t] <= Through(s, t)
        /\ s2.first[t] = s.first[t] \/ s2.first[t] < frame
    BY <1>1, <1>4, <2>1, <2>3
  <2>5. s.dropped[t] = NULL_FRAME => frame <= s.receipt[t]
    BY <1>1, <1>3, <2>1
  <2> HIDE DEF s, M, N
  <2>6. SolePeer(M, p, s2, N)
    BY <1>1, <1>2, <1>3, <1>4, <1>7, <1>8, <1>9, <2>1, <2>2, <2>4, <2>5, ExposedSole
  <2>7. ASSUME Overrun(M, s, N) PROVE Overrun(M, s2, N)
    <3>1. PICK b \in Inventories(N) : s.first[t] > b.through + 1
      BY <2>1, <2>7 DEF Overrun, Late
    <3>2. s.first[t] \in FrameOf(M) /\ s2.first[t] \in FrameOf(M)
      BY <1>1, <1>8, <2>1 DEF PeerOK, PeerRecords
    <3>3. s.first[t] \in Int /\ s2.first[t] \in Int /\ b.through \in Int
      BY <1>1, <1>7, <3>2, FrameInt
    <3>4. s2.first[t] > b.through + 1
      BY <2>4, <3>1, <3>3
    <3> QED BY <1>4, <2>1, <2>7, <3>4 DEF Overrun, Late
  <2> QED BY <2>1, <2>6, <2>7
<1> QED BY <1>0, <1>1, <1>4, <1>5, <1>8, <1>9, QuietStep

LEMMA ConfirmedFrameInv ==
    ASSUME DropInv, NEW p \in Survivors, NEW frame \in 0 .. LastFrame, ConfirmedFrame(p, frame)
    PROVE  DropInv'
<1> DEFINE s == peer[p]
           first == s.first
<1>1. p \in Peers /\ PeerOK(mesh, p, s) /\ Others(p) = OthersOf(mesh, p) /\ IsMesh(mesh)
  BY InvFacts DEF Survivors
<1>2. s \in PeerRecords(mesh, p) /\ first \in [Others(p) -> FrameOf(mesh)] /\ p \in DOMAIN peer
  BY <1>1 DEF PeerOK, PeerRecords, DropInv
<1>3. Confirmable(p, frame) /\ peer' = [peer EXCEPT ![p].exposed = frame]
  BY DEF ConfirmedFrame
<1>4. Exposed(s, frame, first) = [s EXCEPT !.exposed = frame]
  BY <1>2 DEF Exposed, PeerRecords
<1>5. peer' = [peer EXCEPT ![p] = Exposed(s, frame, first)]
  BY <1>2, <1>3, <1>4
<1>6. \A t \in Others(p) : first[t] \in Int
  BY <1>1, <1>2, FrameInt
<1>7. \A t \in Others(p) : first[t] >= s.first[t] /\ (Known >= 1 =>
               (s.first[t] <= Through(s, t) => first[t] <= Through(s, t)))
  BY <1>6
<1>8. \A t \in Others(p) : first[t] = peer[p].first[t] \/ first[t] < frame
  OBVIOUS
<1> HIDE DEF first
<1> QED BY <1>2, <1>3, <1>5, <1>7, <1>8, ExposedInv

LEMMA AdvanceFrameInv ==
    ASSUME DropInv, NEW p \in Survivors, NEW frame \in 0 .. LastFrame, AdvanceFrame(p, frame)
    PROVE  DropInv'
<1> DEFINE s == peer[p]
           first == [t \in Others(p) |-> Max({s.first[t], Min({frame - 1, Through(s, t)})})]
<1>1. p \in Peers /\ PeerOK(mesh, p, s) /\ Others(p) = OthersOf(mesh, p) /\ IsMesh(mesh) /\ LastFrame \in Nat
  BY InvFacts DEF Survivors
<1>2. s \in PeerRecords(mesh, p) /\ p \in DOMAIN peer
  BY <1>1 DEF PeerOK, DropInv
<1>3. Confirmable(p, frame) /\ peer' = [peer EXCEPT ![p].exposed = frame, ![p].first = first]
  BY DEF AdvanceFrame
<1>4. peer' = [peer EXCEPT ![p] = Exposed(s, frame, first)]
  <2> HIDE DEF first
  <2> QED BY <1>2, <1>3 DEF Exposed
<1>5. ASSUME NEW t \in Others(p)
      PROVE  /\ first[t] \in FrameOf(mesh) /\ first[t] >= s.first[t]
             /\ s.first[t] <= Through(s, t) => first[t] <= Through(s, t)
             /\ first[t] = s.first[t] \/ first[t] < frame
  <2> DEFINE x == s.first[t]
             y == Through(s, t)
             f == frame - 1
             m == Min({f, y})
  <2>1. x \in FrameOf(mesh) /\ y \in FrameOrNullOf(mesh)
    BY <1>1, <1>2, ThroughType DEF PeerRecords
  <2>2. x \in Int /\ y \in Int /\ f \in Int /\ x >= 0 /\ x <= LastOf(mesh) /\ y <= LastOf(mesh) /\ LastOf(mesh) \in Nat
    BY <1>1, <2>1, FrameInt, LastOfMesh
  <2>3. first[t] = Max({x, m})
    OBVIOUS
  <2> HIDE DEF x, y, f, first
  <2>4. m \in Int /\ m <= y /\ m <= f
    BY <2>2, MinPair
  <2> HIDE DEF m
  <2>5. first[t] \in {x, m} /\ first[t] >= x
    BY <2>2, <2>3, <2>4, MinPair
  <2>6. first[t] \in Int /\ first[t] >= x /\ first[t] <= LastOf(mesh) /\ (x <= y => first[t] <= y)
    BY <2>2, <2>4, <2>5
  <2>8. first[t] = x \/ first[t] < frame
    <3>1. CASE first[t] = x
      BY <3>1
    <3>2. CASE first[t] = m
      <4>1. m \in Int /\ f \in Int /\ m <= f /\ frame \in Int
        BY <2>2, <2>4
      <4>2. m < frame
        BY <4>1 DEF f
      <4> QED BY <3>2, <4>2
    <3> QED BY <2>5, <3>1, <3>2
  <2>7. first[t] \in FrameOf(mesh)
    BY <2>2, <2>6 DEF FrameOf
  <2> QED BY <2>6, <2>7, <2>8 DEF x, y
<1>6. first \in [Others(p) -> FrameOf(mesh)]
  BY <1>5
<1> HIDE DEF first
<1> QED BY <1>3, <1>4, <1>5, <1>6, ExposedInv

LEMMA NewPeerOK ==
    ASSUME mesh \in Scenarios, NEW p \in Peers
    PROVE  /\ PeerOK(mesh, p, NewPeer(p))
           /\ \A t \in OthersOf(mesh, p) : Through(NewPeer(p), t) = Known - 1
<1> DEFINE M == mesh
           s == NewPeer(p)
<1>1. /\ IsMesh(M) /\ p \in M.peers /\ DOMAIN M.stream # {} /\ Known \in Nat
      /\ \A t \in DOMAIN M.stream : Len(M.stream[t]) >= Known /\ M.stream[t] \in Seq(Input)
  BY ScenarioAssumption, ScenariosAreMeshes, KnownAssumption DEF Peers
<1>2. /\ s.values = [t \in OthersOf(M, p) |-> SubSeq(M.stream[t], 1, Known)]
      /\ s.first = [t \in OthersOf(M, p) |-> 0]
      /\ s.receipt = [t \in OthersOf(M, p) |-> Known - 1]
      /\ s.dropped = [t \in OthersOf(M, p) |-> NULL_FRAME]
      /\ s.active = None
  BY DEF NewPeer, Others, OthersOf, Targets, stream
<1>3. Known <= LastOf(M) + 1 /\ LastOf(M) \in Nat
  <2>1. PICK t \in DOMAIN M.stream : TRUE
    BY <1>1
  <2>2. Len(M.stream[t]) >= Known /\ Len(M.stream[t]) \in Nat /\ Len(M.stream[t]) <= LastOf(M) + 1 /\ LastOf(M) \in Nat
    BY <1>1, LastOfMesh
  <2> HIDE DEF M
  <2> QED BY <1>1, <2>2
<1>4. Known - 1 \in FrameOrNullOf(M) /\ 0 \in FrameOf(M) /\ NULL_FRAME \in FrameOrNullOf(M)
  BY <1>1, <1>3 DEF FrameOrNullOf, FrameOf, NULL_FRAME
<1>5. ASSUME NEW t \in OthersOf(M, p)
      PROVE  LET v == SubSeq(M.stream[t], 1, Known)
             IN  v \in Seq(Input) /\ Len(v) = Known /\ ValuesOK(M, t, v)
  <2> DEFINE S == M.stream[t]
             v == SubSeq(S, 1, Known)
  <2>1. S \in Seq(Input) /\ Len(S) >= Known /\ Len(S) \in Nat
    BY <1>1, LastOfMesh DEF OthersOf
  <2> HIDE DEF S
  <2>2. v \in Seq(Input) /\ Len(v) = Known /\ \A i \in 1 .. Known : v[i] = S[i]
    BY <1>1, <2>1
  <2> HIDE DEF v
  <2>3. /\ Len(v) <= LastOf(M) + 1
        /\ Known >= 1 => /\ Len(v) >= 1 /\ Len(v) <= Len(S)
                         /\ \A i \in 1 .. Len(v) : v[i] = S[i]
    BY <1>1, <1>3, <2>1, <2>2
  <2> QED BY <2>2, <2>3 DEF ValuesOK, v, S
<1>6. s \in PeerRecords(M, p)
  <2> DEFINE v == s.values
             f == s.first
             r == s.receipt
             d == s.dropped
             e == Known - 1
             rest == M.peers \ {p}
  <2>1. v \in [OthersOf(M, p) -> Seq(Input)]
    BY <1>2, <1>5
  <2>2. /\ f \in [OthersOf(M, p) -> FrameOf(M)]
        /\ r \in [OthersOf(M, p) -> FrameOrNullOf(M)]
        /\ d \in [OthersOf(M, p) -> FrameOrNullOf(M)]
    BY <1>2, <1>4
  <2>3. <<>> \in Seq(Deferrable(M, p)) /\ Peers = M.peers
    BY DEF Peers
  <2>4. s = [values |-> v, first |-> f, receipt |-> r, dropped |-> d,
             running |-> rest, exposed |-> e, ceiling |-> None, active |-> None,
             queued |-> {}, deferred |-> <<>>, closed |-> {}, failure |-> None]
    BY <2>3 DEF NewPeer
  <2>5. e \in FrameOrNullOf(M) /\ rest \in SUBSET (M.peers \ {p})
    BY <1>4
  <2> HIDE DEF s, M, v, f, r, d, e, rest
  <2> QED BY <2>1, <2>2, <2>3, <2>4, <2>5 DEF PeerRecords
<1> HIDE DEF s
<1>7. ASSUME NEW t \in OthersOf(M, p)
      PROVE  ValuesOK(M, t, s.values[t]) /\ s.dropped[t] < Len(s.values[t]) /\ Through(s, t) = Known - 1
  <2>1. s.values[t] = SubSeq(M.stream[t], 1, Known) /\ s.dropped[t] = -1
    BY <1>2 DEF NULL_FRAME
  <2>2. ValuesOK(M, t, s.values[t]) /\ Len(s.values[t]) = Known
    BY <1>5, <2>1
  <2> QED BY <1>1, <2>1, <2>2 DEF Through
<1>8. PeerOK(M, p, s)
  BY <1>2, <1>6, <1>7 DEF PeerOK
<1> QED BY <1>7, <1>8 DEF s

LEMMA InitInv == Init => DropInv
<1> SUFFICES ASSUME Init PROVE DropInv
  OBVIOUS
<1>1. /\ mesh \in Scenarios /\ net = {} /\ peer = [p \in Peers |-> NewPeer(p)]
      /\ busy = [p \in Peers |-> FALSE] /\ IsMesh(mesh) /\ Peers = mesh.peers
  BY ScenariosAreMeshes DEF Init, Peers
<1>2. \A p \in Peers : PeerOK(mesh, p, peer[p])
  BY <1>1, NewPeerOK
<1>3. ASSUME IsSole(mesh) PROVE SoleInv(mesh, peer, net)
  <2> DEFINE M == mesh
             t == TargetOf(M)
             N == Said(net)
  <2>1. /\ t \in M.peers /\ t \notin RestOf(M) /\ RestOf(M) \subseteq M.peers /\ Known >= 1 /\ Known \in Nat
        /\ \A p \in RestOf(M) : OthersOf(M, p) = {t}
    BY <1>1, <1>3, SoleFacts, KnownAssumption
  <2>2. N = {}
    BY <1>1 DEF Said
  <2>3. SoleNet(M, N)
    BY <2>2 DEF SoleNet, Inventories, OneReportEach
  <2>4. ASSUME NEW p \in RestOf(M)
        PROVE  SolePeer(M, p, peer[p], N) /\ peer[p].failure # "MissingHistory"
    <3> DEFINE s == NewPeer(p)
    <3>1. peer[p] = s
      BY <1>1, <2>1
    <3>2. p \in Peers /\ t \in OthersOf(M, p)
      BY <1>1, <2>1
    <3>3. Through(s, t) = Known - 1
      BY <1>1, <3>2, NewPeerOK
    <3>4. /\ s.running = M.peers \ {p} /\ s.queued = {} /\ s.deferred = <<>> /\ s.closed = {}
          /\ s.active = None /\ s.failure = None /\ s.exposed = Known - 1
      BY <1>1 DEF NewPeer
    <3>5. s.first[t] = 0 /\ s.receipt[t] = Known - 1 /\ s.dropped[t] = NULL_FRAME
      BY <3>2 DEF NewPeer, Others, OthersOf, Targets, stream
    <3>6. KeepsWord(p, s, t, N)
      BY <2>2 DEF KeepsWord, Inventories
    <3>7. s.running \ {t} = RestOf(M) \ {p}
      BY <3>4 DEF RestOf
    <3>8. s.failure # "MissingHistory"
      BY <3>4, NoneReason
    <3> HIDE DEF s
    <3>9. SolePeer(M, p, s, N)
      <4> HIDE DEF N, M
      <4>1. /\ s.exposed >= 0 /\ s.first[t] <= Through(s, t) /\ s.receipt[t] <= Through(s, t)
            /\ s.exposed <= s.receipt[t]
        BY <2>1, <3>3, <3>4, <3>5
      <4>2. s.closed \subseteq {TheOp(M)}
        BY <3>4
      <4> QED BY <3>4, <3>5, <3>6, <3>7, <4>1, <4>2 DEF SolePeer
    <3> QED BY <3>1, <3>8, <3>9
  <2>5. ~MissingSaid(N) /\ \A m \in net : m.to \in RestOf(M)
    BY <1>1, <2>2 DEF MissingSaid
  <2> QED BY <2>3, <2>4, <2>5 DEF SoleInv
<1>4. busy \in [Peers -> BOOLEAN] /\ DOMAIN peer = Peers /\ net \subseteq Messages(mesh)
  BY <1>1
<1> QED BY <1>1, <1>2, <1>3, <1>4 DEF DropInv

LEMMA NextInv == DropInv /\ [Next]_vars => DropInv'
<1> SUFFICES ASSUME DropInv, [Next]_vars PROVE DropInv'
  OBVIOUS
<1>1. CASE UNCHANGED vars
  <2>1. mesh' = mesh /\ peer' = peer /\ net' = net /\ busy' = busy
    BY <1>1 DEF vars
  <2> QED BY <2>1 DEF DropInv, Peers
<1>2. CASE \E r \in mesh.requests : RemovePlayer(r[1], r[2])
  BY <1>2, RemovePlayerInv
<1>3. CASE \E m \in net : Receive(m.to, m)
  BY <1>3, ReceiveInv
<1>4. CASE \E p \in Survivors, timeout \in BOOLEAN : Drive(p, timeout)
  BY <1>4, DriveInv
<1>5. CASE \E p \in Peers : \E t \in Others(p) : ReceiveInput(p, t)
  BY <1>5, ReceiveInputInv
<1>6. CASE \E p \in Survivors, frame \in 0 .. LastFrame : ConfirmedFrame(p, frame)
  BY <1>6, ConfirmedFrameInv
<1>7. CASE \E p \in Survivors, frame \in 0 .. LastFrame : AdvanceFrame(p, frame)
  BY <1>7, AdvanceFrameInv
<1> QED BY <1>1, <1>2, <1>3, <1>4, <1>5, <1>6, <1>7 DEF Next

\* DropInv holds in every reachable state.
THEOREM DropInvHolds == Spec => []DropInv
<1>1. Init => DropInv
  BY InitInv
<1>2. DropInv /\ [Next]_vars => DropInv'
  BY NextInv
<1> QED BY <1>1, <1>2, PTL DEF Spec

-----------------------------------------------------------------------------
(* What follows from the invariant.                                        *)

\* Every field of every peer has its type, whoever drops whom.
THEOREM DropTypeOK == Spec => []TypeOK
<1>1. ASSUME DropInv PROVE TypeOK
  <2> SUFFICES ASSUME NEW p \in Peers
               PROVE  /\ busy[p] \in BOOLEAN
                      /\ peer[p].running \subseteq Peers \ {p}
                      /\ peer[p].exposed \in FrameOrNull
                      /\ peer[p].ceiling \in FrameOrNull \cup {None}
                      /\ peer[p].queued \subseteq Others(p)
                      /\ \A t \in Others(p) :
                             /\ peer[p].values[t] \in Seq(Input)
                             /\ {peer[p].receipt[t], peer[p].dropped[t]} \subseteq FrameOrNull
                             /\ peer[p].first[t] \in Frame
                      /\ peer[p].active # None =>
                             /\ peer[p].active.phase \in Phases
                             /\ p \in peer[p].active.participants
                             /\ {peer[p].active.held_at} \cup ({peer[p].active.cut} \ {None}) \subseteq Frame
    BY DEF TypeOK
  <2> DEFINE s == peer[p]
  <2>1. /\ PeerOK(mesh, p, s) /\ Others(p) = OthersOf(mesh, p) /\ Peers = mesh.peers
        /\ Frame = FrameOf(mesh) /\ FrameOrNull = FrameOrNullOf(mesh) /\ busy[p] \in BOOLEAN
    <3>1. LastFrame = LastOf(mesh) /\ PeerOK(mesh, p, s) /\ Others(p) = OthersOf(mesh, p)
      BY <1>1, InvFacts
    <3>2. busy[p] \in BOOLEAN
      BY <1>1 DEF DropInv
    <3> QED BY <3>1, <3>2 DEF Peers, Frame, FrameOrNull, FrameOf, FrameOrNullOf
  <2>2. s \in PeerRecords(mesh, p) /\ (s.active # None => AttemptOK(mesh, p, s.active))
    BY <2>1 DEF PeerOK
  <2>3. ASSUME s.active # None
        PROVE  /\ s.active.phase \in Phases
               /\ p \in s.active.participants
               /\ {s.active.held_at} \cup ({s.active.cut} \ {None}) \subseteq Frame
    <3>1. /\ s.active.phase \in Phases /\ p \in s.active.participants
          /\ s.active.held_at \in FrameOf(mesh) /\ s.active.cut \in FrameOf(mesh) \cup {None}
      BY <2>2, <2>3 DEF AttemptOK, Attempts
    <3> HIDE DEF s
    <3> QED BY <2>1, <3>1
  <2>4. ASSUME NEW t \in Others(p)
        PROVE  /\ s.values[t] \in Seq(Input)
               /\ {s.receipt[t], s.dropped[t]} \subseteq FrameOrNull
               /\ s.first[t] \in Frame
    BY <2>1, <2>2 DEF PeerRecords
  <2>5. /\ s.running \subseteq Peers \ {p} /\ s.exposed \in FrameOrNull
        /\ s.ceiling \in FrameOrNull \cup {None} /\ s.queued \subseteq Others(p)
    BY <2>1, <2>2 DEF PeerRecords
  <2> QED BY <2>1, <2>3, <2>4, <2>5
<1> QED BY <1>1, DropInvHolds, PTL

\* What a survivor holds of a player it has dropped, up to the cut, are the inputs
\* that player submitted.
DroppedInputsAreReal ==
    \A t \in Targets : \A p \in Peers : Dropped(p, t) =>
        \A f \in peer[p].first[t] .. peer[p].dropped[t] : Held(peer[p], t, f) = stream[t][f + 1]

LEMMA RealInputs == DropInv /\ Known >= 1 => DroppedInputsAreReal
<1> SUFFICES ASSUME DropInv, Known >= 1, NEW t \in Targets, NEW p \in Peers, Dropped(p, t),
                    NEW f \in peer[p].first[t] .. peer[p].dropped[t]
             PROVE  Held(peer[p], t, f) = stream[t][f + 1]
  BY DEF DroppedInputsAreReal
<1> DEFINE M == mesh
           s == peer[p]
           v == s.values[t]
           L == Len(v)
<1>1. IsMesh(M) /\ PeerOK(M, p, s) /\ t \in OthersOf(M, p)
  BY InvFacts DEF Dropped, OthersOf, Targets, stream
<1>2. s.first[t] \in FrameOf(M) /\ s.dropped[t] \in FrameOrNullOf(M)
  BY <1>1 DEF PeerOK, PeerRecords
<1>3. /\ s.first[t] \in Int /\ s.first[t] >= 0 /\ s.dropped[t] \in Int
      /\ Through(s, t) = L - 1 /\ L \in Nat
  BY <1>1, <1>2, FrameInt, ThroughType
<1>4. s.dropped[t] < L /\ \A i \in 1 .. L : v[i] = M.stream[t][i]
  BY <1>1 DEF PeerOK, ValuesOK
<1> HIDE DEF L
<1>5. f \in Int /\ s.first[t] <= f /\ f <= Through(s, t) /\ f + 1 \in 1 .. L
  BY <1>3, <1>4
<1>6. Held(s, t, f) = v[f + 1]
  <2> HIDE DEF s, M
  <2> QED BY <1>1, <1>5, HeldSome
<1> QED BY <1>4, <1>5, <1>6 DEF stream

\* The inputs every survivor plays of a dropped player up to the cut are the ones that
\* player gave, whether received or filled in by a donor, in every mesh where the
\* session has begun.
THEOREM DropKeepsRealInputs == Spec => [](Known >= 1 => DroppedInputsAreReal)
BY RealInputs, DropInvHolds, PTL

-----------------------------------------------------------------------------
(* Meshes in which one player may be dropped.                              *)

LEMMA SoleMesh ==
    ASSUME DropInv, Known >= 1, OneTarget
    PROVE  /\ IsMesh(mesh) /\ IsSole(mesh) /\ Targets = {TargetOf(mesh)}
           /\ TargetOf(mesh) \in Peers /\ RestOf(mesh) = Peers \ {TargetOf(mesh)}
           /\ SoleInv(mesh, peer, net)
           /\ \A q \in RestOf(mesh) : /\ SolePeer(mesh, q, peer[q], Said(net))
                                      /\ PeerOK(mesh, q, peer[q]) /\ TargetOf(mesh) \in OthersOf(mesh, q)
                                      /\ peer[q].exposed \in Int
                                      /\ peer[q].first[TargetOf(mesh)] \in Int
                                      /\ peer[q].dropped[TargetOf(mesh)] \in Int
<1> DEFINE M == mesh
<1>1. IsMesh(M) /\ DOMAIN M.stream \subseteq M.peers /\ IsFiniteSet(M.peers)
  BY ScenariosAreMeshes DEF DropInv, IsMesh
<1>2. \E t : Targets = {t}
  <2>1. IsFiniteSet(Targets)
    BY <1>1, FS_Subset DEF Targets, stream
  <2> QED BY <2>1, FS_Singleton DEF OneTarget
<1>3. IsSole(M)
  BY <1>2 DEF IsSole, Targets, stream
<1>4. /\ Targets = {TargetOf(M)} /\ TargetOf(M) \in Peers /\ RestOf(M) = Peers \ {TargetOf(M)}
      /\ \A p \in RestOf(M) : OthersOf(M, p) = {TargetOf(M)}
  BY <1>1, <1>3, SoleFacts DEF Targets, stream, Peers, RestOf
<1>5. SoleInv(M, peer, net)
  BY <1>3 DEF DropInv
<1>6. ASSUME NEW q \in RestOf(M)
      PROVE  /\ SolePeer(M, q, peer[q], Said(net)) /\ PeerOK(M, q, peer[q])
             /\ peer[q].exposed \in Int /\ peer[q].first[TargetOf(M)] \in Int /\ peer[q].dropped[TargetOf(M)] \in Int
  <2>1. SolePeer(M, q, peer[q], Said(net)) /\ PeerOK(M, q, peer[q])
    BY <1>3, <1>4, InvFacts
  <2>2. /\ peer[q].exposed \in FrameOrNullOf(M) /\ peer[q].first[TargetOf(M)] \in FrameOf(M)
        /\ peer[q].dropped[TargetOf(M)] \in FrameOrNullOf(M)
    BY <1>4, <2>1 DEF PeerOK, PeerRecords
  <2> QED BY <1>1, <2>1, <2>2, FrameInt
<1> QED BY <1>1, <1>3, <1>4, <1>5, <1>6

\* The cut is the same wherever it is known.
LEMMA OneCut ==
    ASSUME DropInv, NEW c \in Int, NEW d \in Int,
           CutOfAll(mesh, Said(net), c), CutOfAll(mesh, Said(net), d)
    PROVE  c = d
BY InventoriesTyped DEF CutOfAll

LEMMA Agreement == DropInv /\ Known >= 1 /\ OneTarget => SurvivorsAgree
<1> SUFFICES ASSUME DropInv, Known >= 1, OneTarget, NEW t \in Targets, NEW p \in Peers, Dropped(p, t)
             PROVE  /\ \A q \in Peers : Dropped(q, t) => peer[q].dropped[t] = peer[p].dropped[t]
                    /\ \A f \in peer[p].first[t] .. peer[p].dropped[t] : Held(peer[p], t, f) = stream[t][f + 1]
  BY DEF SurvivorsAgree
<1>1. \A f \in peer[p].first[t] .. peer[p].dropped[t] : Held(peer[p], t, f) = stream[t][f + 1]
  BY RealInputs DEF DroppedInputsAreReal
<1>2. ASSUME NEW q \in Peers, Dropped(q, t), q # p PROVE peer[q].dropped[t] = peer[p].dropped[t]
  <2> DEFINE M == mesh
             N == Said(net)
  <2>1. t = TargetOf(M) /\ p \in RestOf(M) /\ q \in RestOf(M)
    BY <1>2, SoleMesh DEF Dropped
  <2>2. Agreed(M, p, N, peer[p].dropped[t]) /\ Agreed(M, q, N, peer[q].dropped[t])
    BY <1>2, <2>1, SoleMesh DEF SolePeer, Dropped
  <2>3. ~Alone(M, p) /\ ~Alone(M, q)
    BY <1>2, <2>1 DEF Alone
  <2>4. peer[p].dropped[t] \in Int /\ peer[q].dropped[t] \in Int
    BY <2>1, SoleMesh
  <2> QED BY <2>2, <2>3, <2>4, OneCut DEF Agreed
<1> QED BY <1>1, <1>2

\* Survivors that drop the player drop it at the same frame and hold its real inputs up
\* to there, for any number of survivors, inputs and requests, and any loss,
\* duplication or order of messages.
THEOREM DropSurvivorsAgree == Spec => [](Known >= 1 /\ OneTarget => SurvivorsAgree)
BY Agreement, DropInvHolds, PTL

LEMMA SharedHistory == DropInv /\ Known >= 1 /\ OneTarget => SurvivorsShareHistory
<1> SUFFICES ASSUME DropInv, Known >= 1, OneTarget, NEW t \in Targets, NEW p \in Peers, NEW q \in Peers,
                    Dropped(p, t), Dropped(q, t),
                    NEW f \in Max({peer[p].first[t], peer[q].first[t]}) .. peer[p].dropped[t]
             PROVE  Held(peer[p], t, f) = Held(peer[q], t, f)
  BY DEF SurvivorsShareHistory
<1> DEFINE x == peer[p].first[t]
           y == peer[q].first[t]
           m == Max({x, y})
<1>1. t = TargetOf(mesh) /\ p \in RestOf(mesh) /\ q \in RestOf(mesh)
  BY SoleMesh DEF Dropped
<1>2. x \in Int /\ y \in Int /\ peer[p].dropped[t] \in Int /\ peer[q].dropped[t] \in Int
  BY <1>1, SoleMesh
<1>3. f \in m .. peer[p].dropped[t]
  OBVIOUS
<1> HIDE DEF x, y
<1>4. m \in Int /\ m >= x /\ m >= y
  BY <1>2, MinPair
<1>5. SurvivorsAgree
  BY Agreement
<1>6. peer[q].dropped[t] = peer[p].dropped[t]
  BY <1>5 DEF SurvivorsAgree
<1> HIDE DEF m
<1>7. f \in x .. peer[p].dropped[t] /\ f \in y .. peer[q].dropped[t]
  BY <1>2, <1>3, <1>4, <1>6
<1>8. Held(peer[p], t, f) = stream[t][f + 1] /\ Held(peer[q], t, f) = stream[t][f + 1]
  BY <1>5, <1>7 DEF SurvivorsAgree, x, y
<1> QED BY <1>8

\* Survivors that have dropped the player play the same inputs of it up to the cut, once
\* the session has begun with an input of the player at every peer.
THEOREM DropSharesHistory == Spec => [](Known >= 1 /\ OneTarget => SurvivorsShareHistory)
BY SharedHistory, DropInvHolds, PTL

LEMMA Exposure == DropInv /\ Known >= 1 /\ OneTarget => ExposedBelowCut
<1> SUFFICES ASSUME DropInv, Known >= 1, OneTarget, NEW t \in Targets, NEW p \in Peers \ {t}, NEW q \in Peers \ {t},
                    Dropped(p, t), ~Dropped(q, t)
             PROVE  peer[q].exposed <= peer[p].dropped[t]
  BY DEF ExposedBelowCut
<1> DEFINE M == mesh
           N == Said(net)
<1>1. t = TargetOf(M) /\ p \in RestOf(M) /\ q \in RestOf(M) /\ p # q
  BY SoleMesh DEF Dropped
<1>2. Agreed(M, p, N, peer[p].dropped[t]) /\ ~Alone(M, p)
  BY <1>1, SoleMesh DEF SolePeer, Dropped, Alone
<1>3. CutOfAll(M, N, peer[p].dropped[t])
  BY <1>2 DEF Agreed
<1>4. PICK r \in Inventories(N) : r.participant = q
  BY <1>1, <1>3 DEF CutOfAll, AllSaid
<1>5. r.through <= peer[p].dropped[t]
  BY <1>3 DEF CutOfAll
<1>6. peer[q].exposed <= r.exposed
  <2>1. KeepsWord(q, peer[q], t, N) /\ peer[q].dropped[t] = NULL_FRAME
    BY <1>1, SoleMesh DEF SolePeer, Dropped
  <2> QED BY <1>4, <2>1 DEF KeepsWord
<1>7. r.exposed <= r.through
  BY SoleMesh DEF SoleInv, SoleNet, SoundBody, SoundReport, Inventories
<1>8. r.exposed \in Int /\ r.through \in Int /\ peer[q].exposed \in Int /\ peer[p].dropped[t] \in Int
  BY <1>1, InventoriesTyped, SoleMesh
<1> QED BY <1>5, <1>6, <1>7, <1>8

\* No survivor that has yet to drop the player has exposed a frame past the cut at which
\* another one has dropped it.
THEOREM DropExposedBelowCut == Spec => [](Known >= 1 /\ OneTarget => ExposedBelowCut)
BY Exposure, DropInvHolds, PTL

\* A peer with no part in any drop never fails.
BystandersNeverFail == IsSole(mesh) => \A p \in Peers \ Survivors : peer[p].failure = None

LEMMA SoleSurvivors ==
    ASSUME DropInv, IsSole(mesh)
    PROVE  Survivors = RestOf(mesh)
<1>1. IsMesh(mesh)
  BY ScenariosAreMeshes DEF DropInv
<1>2. \A p : Others(p) = OthersOf(mesh, p)
  BY DEF Others, OthersOf, Targets, stream
<1> QED BY <1>1, <1>2, SoleFacts DEF Survivors, Peers

LEMMA BystanderStep ==
    ASSUME DropInv, BystandersNeverFail, [Next]_vars
    PROVE  BystandersNeverFail'
<1>0. mesh' = mesh
  BY DEF Next, vars, RemovePlayer, Receive, Drive, Effect, ReceiveInput, ConfirmedFrame, AdvanceFrame, Confirmable
<1> SUFFICES ASSUME IsSole(mesh), NEW q \in Peers \ Survivors
             PROVE  peer'[q].failure = None
  BY <1>0 DEF BystandersNeverFail, Peers, Survivors, Others, Targets, stream
<1>1. peer[q].failure = None /\ q \in DOMAIN peer
  BY DEF BystandersNeverFail, DropInv
<1>2. ASSUME NEW p \in Survivors, NEW s, peer' = [peer EXCEPT ![p] = s]
      PROVE  peer'[q].failure = None
  BY <1>1, <1>2
<1>3. CASE UNCHANGED vars
  BY <1>1, <1>3 DEF vars
<1>4. ASSUME NEW r \in mesh.requests, RemovePlayer(r[1], r[2]) PROVE peer'[q].failure = None
  <2>1. r[1] \in Survivors
    BY ScenariosAreMeshes DEF DropInv, IsMesh, Peers, Others, Targets, stream, Survivors
  <2>2. peer' = [peer EXCEPT ![r[1]] = Begin(Work(peer[r[1]]), r[1], r[2]).s]
    BY <1>4 DEF RemovePlayer, Effect
  <2> QED BY <1>2, <2>1, <2>2
<1>5. ASSUME NEW m \in net, Receive(m.to, m) PROVE peer'[q].failure = None
  <2>1. m.to \in Survivors
    BY SoleSurvivors DEF DropInv, SoleInv
  <2>2. \E w : peer' = [peer EXCEPT ![m.to] = w.s]
    BY <1>5 DEF Receive, Effect
  <2> QED BY <1>2, <2>1, <2>2
<1>6. ASSUME NEW p \in Survivors, NEW timeout \in BOOLEAN, Drive(p, timeout) PROVE peer'[q].failure = None
  <2>1. peer' = [peer EXCEPT ![p] = DriveAll(Work(peer[p]), p, timeout).s]
    BY <1>6 DEF Drive, Effect
  <2> QED BY <1>2, <2>1
<1>7. ASSUME NEW p \in Peers, NEW t \in Others(p), ReceiveInput(p, t) PROVE peer'[q].failure = None
  <2>1. p \in Survivors
    BY DEF Survivors
  <2>2. \E s : peer' = [peer EXCEPT ![p] = s]
    BY <1>7 DEF ReceiveInput
  <2> QED BY <1>2, <2>1, <2>2
<1>8. ASSUME NEW p \in Survivors, NEW frame \in 0 .. LastFrame, ConfirmedFrame(p, frame) \/ AdvanceFrame(p, frame)
      PROVE  peer'[q].failure = None
  <2>1. p # q
    OBVIOUS
  <2> QED BY <1>1, <1>8, <2>1 DEF ConfirmedFrame, AdvanceFrame
<1> QED BY <1>3, <1>4, <1>5, <1>6, <1>7, <1>8 DEF Next

\* Whatever a failure for missing history goes back to, somebody was overtaken.
LEMMA BlameIsOvertaken ==
    ASSUME DropInv, Known >= 1, OneTarget, NEW p \in RestOf(mesh), Blame(mesh, peer, p, peer[p], Said(net))
    PROVE  Overtaken
<1> DEFINE M == mesh
           N == Said(net)
           t == TargetOf(M)
           I == Inventories(N)
<1>1. /\ SoleNet(M, N) /\ t \in Peers /\ RestOf(M) = Peers \ {t}
      /\ \A q \in RestOf(M) : SolePeer(M, q, peer[q], N) /\ peer[q].first[t] \in Int
  BY SoleMesh DEF SoleInv
<1>2. \A r \in I : /\ r \in N /\ r.type = "Inventory" /\ r.op.target = t /\ r.participant \in RestOf(M)
                   /\ r.through \in Int /\ r.available_from \in Int
  BY <1>1, InventoriesTyped DEF SoleNet, SoundBody, SoundReport, Inventories, TheOp
<1>3. ASSUME NEW q \in RestOf(M), NEW r \in I, peer[q].dropped[t] = NULL_FRAME, peer[q].first[t] > r.through + 1
      PROVE  Overtaken
  <2>1. PICK m \in net : m.body = r
    BY <1>2 DEF Said
  <2>2. m.body.type = "Inventory" /\ m.body.op.target = t
    BY <1>2, <2>1
  <2>3. q \in Peers \ {t} /\ ~Dropped(q, t)
    BY <1>1, <1>3 DEF Dropped
  <2> QED BY <1>3, <2>1, <2>2, <2>3 DEF Overtaken
<1>4. ASSUME NEW q \in RestOf(M), Overrun(M, peer[q], N) PROVE Overtaken
  BY <1>3, <1>4 DEF Overrun, Late
<1>5. ASSUME NoDonor(M, N) PROVE Overtaken
  <2> DEFINE T == {r.through : r \in I}
             top == Max(T)
  <2>1. I # {}
    BY <1>5 DEF NoDonor, AllSaid
  <2>2. T \in SUBSET Int /\ T # {} /\ \A x \in T : x <= LastOf(M)
    <3>1. \A r \in I : r.through \in FrameOrNullOf(M)
      BY InventoriesTyped DEF Reports
    <3>2. \A f \in FrameOrNullOf(M) : f <= LastOf(M)
      BY SoleMesh, LastOfMesh DEF FrameOrNullOf, FrameOf, NULL_FRAME
    <3> HIDE DEF M
    <3> QED BY <1>2, <2>1, <3>1, <3>2
  <2>3. LastOf(M) \in Int
    BY SoleMesh, LastOfMesh
  <2>4. top \in T /\ \A x \in T : x <= top
    <3> HIDE DEF T
    <3> QED BY <2>2, <2>3, MaxIsGreatest
  <2> HIDE DEF top
  <2>5. PICK d \in I : d.through = top
    BY <2>4
  <2>6. \A r \in I : r.through <= d.through
    BY <2>4, <2>5
  <2>7. PICK r \in I : ~(r.through <= d.through /\ (r.through < d.through => d.available_from <= r.through + 1))
    BY <1>5, <2>5 DEF NoDonor, HasDonor
  <2>8. d.available_from > r.through + 1
    BY <1>2, <2>6, <2>7
  <2> DEFINE q == d.participant
             first == peer[q].first[t]
  <2>9. q \in RestOf(M) /\ SolePeer(M, q, peer[q], N) /\ first \in Int
    BY <1>1, <1>2
  <2>10. d.available_from <= first
    BY <2>9 DEF SolePeer, KeepsWord
  <2>11. peer[q].dropped[t] = NULL_FRAME
    <3> SUFFICES ASSUME peer[q].dropped[t] # NULL_FRAME PROVE FALSE
      OBVIOUS
    <3>1. Fillable(M, q, N)
      BY <2>9 DEF SolePeer
    <3>2. Alone(M, q)
      BY <1>5, <3>1 DEF Fillable, NoDonor
    <3>3. N = {}
      BY <1>1, <2>9, <3>2 DEF SoleNet
    <3> QED BY <2>1, <3>3 DEF Inventories
  <2>12. first > r.through + 1
    <3> HIDE DEF first
    <3> QED BY <1>2, <2>8, <2>9, <2>10
  <2> QED BY <1>3, <2>9, <2>11, <2>12
<1> QED BY <1>4, <1>5 DEF Blame, Elsewhere

LEMMA KeptHistory == DropInv /\ BystandersNeverFail /\ Known >= 1 /\ OneTarget => NeededHistoryIsKept
<1> SUFFICES ASSUME DropInv, BystandersNeverFail, Known >= 1, OneTarget,
                    NEW p \in Peers, peer[p].failure = "MissingHistory"
             PROVE  Overtaken
  BY DEF NeededHistoryIsKept
<1>1. IsSole(mesh) /\ SoleInv(mesh, peer, net)
  BY SoleMesh
<1>2. p \in RestOf(mesh)
  <2>1. p \in Survivors
    BY <1>1, NoneReason DEF BystandersNeverFail
  <2> QED BY <1>1, <2>1, SoleSurvivors
<1>3. Blame(mesh, peer, p, peer[p], Said(net))
  BY <1>1, <1>2 DEF SoleInv
<1> QED BY <1>2, <1>3, BlameIsOvertaken

\* A drop fails for missing history only when a survivor has gone on confirming and
\* discarding inputs past another one's inventory.
THEOREM DropNeededHistoryIsKept == Spec => [](Known >= 1 /\ OneTarget => NeededHistoryIsKept)
<1>1. Init => BystandersNeverFail
  BY DEF Init, BystandersNeverFail, NewPeer
<1>2. DropInv /\ BystandersNeverFail /\ [Next]_vars => BystandersNeverFail'
  BY BystanderStep
<1>3. DropInv /\ BystandersNeverFail => (Known >= 1 /\ OneTarget => NeededHistoryIsKept)
  BY KeptHistory
<1> QED BY <1>1, <1>2, <1>3, DropInvHolds, PTL DEF Spec

=============================================================================
