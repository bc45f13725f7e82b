--------------------------- MODULE SpectatorProofs ---------------------------
(***************************************************************************)
(* Proofs about the spectator session, for every number of hosts, every    *)
(* ring size, every sequence of views the hosts go through and every order *)
(* in which their frames arrive.                                           *)
(*                                                                         *)
(* The argument: a poll is a nest of loops, each a recursive function of   *)
(* the round, and every round keeps three things (Poll): the shape of the  *)
(* session's tables (Shaped), what the tables hold against what the hosts  *)
(* have confirmed (Tables), and what the session believes of the slot      *)
(* against what the hosts have reported of it (Reports). What the game has *)
(* played then follows (Faithful): each input is that of its frame, or the *)
(* input of a freeze that some host reported.                              *)
(***************************************************************************)
EXTENDS Spectator, TLAPS, WellFoundedInduction

-----------------------------------------------------------------------------
(* Induction, least elements and the arithmetic of slots.                  *)

\* A set that holds 0 and is closed under successors up to N holds 0 .. N.
LEMMA RoundInduction ==
    ASSUME NEW N \in Nat, NEW G, 0 \in G, \A n \in 1 .. N : n - 1 \in G => n \in G
    PROVE  \A n \in 0 .. N : n \in G
<1> DEFINE R == OpToRel(<, Nat)
           T == (0 .. N) \ G
<1>1. SUFFICES ASSUME T # {} PROVE FALSE
  OBVIOUS
<1>2. IsWellFoundedOn(R, Nat)
  BY NatLessThanWellFounded, Zenon
<1>3. PICK m \in T : \A k \in T : <<k, m>> \notin R
  <2>1. T \subseteq Nat
    OBVIOUS
  <2> HIDE DEF R, T
  <2> QED BY <1>1, <1>2, <2>1, WFMin, Zenon
<1>4. \A k \in Nat : k < m => <<k, m>> \in R
  BY DEF OpToRel
<1>5. m \in 0 .. N /\ m # 0
  OBVIOUS
<1>6. m - 1 \in T /\ m - 1 \in Nat /\ m - 1 < m
  BY <1>5
<1> HIDE DEF R, T
<1> QED BY <1>3, <1>4, <1>6

\* A set of frames has a least one.
LEMMA MinOfFrames ==
    ASSUME NEW S \in SUBSET FrameOrNull, S # {}
    PROVE  Min(S) \in S /\ \A y \in S : Min(S) <= y
<1>1. \E x \in S : \A y \in S : x =< y
  <2>1. CASE NULL_FRAME \in S
    BY <2>1 DEF FrameOrNull, NULL_FRAME
  <2>2. CASE NULL_FRAME \notin S
    <3> DEFINE R == OpToRel(<, Nat)
    <3>1. S \subseteq Nat
      BY <2>2 DEF FrameOrNull
    <3>2. IsWellFoundedOn(R, Nat)
      BY NatLessThanWellFounded, Zenon
    <3>3. PICK m \in S : \A k \in S : <<k, m>> \notin R
      <4> HIDE DEF R
      <4> QED BY <3>1, <3>2, WFMin, Zenon
    <3>4. \A k \in Nat : k < m => <<k, m>> \in R
      BY <3>1 DEF OpToRel
    <3>5. ASSUME NEW y \in S PROVE m =< y
      <4>1. <<y, m>> \notin R
        BY <3>3
      <4>2. y \in Nat /\ m \in Nat /\ ~(y < m)
        BY <3>1, <3>4, <4>1
      <4> QED BY <4>2
    <3> QED BY <3>5
  <2> QED BY <2>1, <2>2
<1> QED BY <1>1, Zenon DEF Min

LEMMA SizeType == BufferSize \in Nat /\ BufferSize >= 1 /\ MaxBatch \in Nat
  BY SizeAssumption

LEMMA SlotType == \A f \in Int : SlotOf(f) \in Slots /\ SlotOf(f) \in Int
  BY SizeType DEF SlotOf, Slots

LEMMA SlotQuotient == \A f \in Int : \E k \in Int : f = k * BufferSize + SlotOf(f)
<1> TAKE f \in Int
<1>1. f \div BufferSize \in Int /\ f = (f \div BufferSize) * BufferSize + (f % BufferSize)
  BY SizeType, SMTT(30)
<1> QED BY <1>1 DEF SlotOf

\* Frames that share a slot are a whole ring apart.
LEMMA SlotsApart ==
    ASSUME NEW f \in Int, NEW g \in Int, f < g, SlotOf(f) = SlotOf(g)
    PROVE  g >= f + BufferSize
<1> SUFFICES ASSUME g < f + BufferSize PROVE FALSE
  BY SizeType
<1>1. PICK i \in Int : f = i * BufferSize + SlotOf(f)
  BY SlotQuotient
<1>2. PICK j \in Int : g = j * BufferSize + SlotOf(f)
  BY SlotQuotient
<1>3. SlotOf(f) \in Int /\ BufferSize \in Int /\ BufferSize >= 1
  BY SlotType, SizeType
<1> DEFINE s == SlotOf(f)
<1>4. s \in Int /\ f = i * BufferSize + s /\ g = j * BufferSize + s
  BY <1>1, <1>2, <1>3
<1> HIDE DEF s
<1>5. g - f = (j - i) * BufferSize
  BY <1>3, <1>4
<1>6. CASE j - i <= 0
  <2>1. (j - i) * BufferSize <= 0
    BY <1>3, <1>6, SMTT(30)
  <2> QED BY <1>5, <2>1
<1>7. CASE j - i >= 1
  <2>1. (j - i) * BufferSize >= BufferSize
    BY <1>3, <1>7, SMTT(30)
  <2> QED BY <1>3, <1>5, <2>1
<1> QED BY <1>6, <1>7

\* A frame shares its slot with the one a ring earlier.
LEMMA SlotBack == \A f \in Int : SlotOf(f - BufferSize) = SlotOf(f)
<1> TAKE f \in Int
<1>1. PICK i \in Int : f = i * BufferSize + SlotOf(f)
  BY SlotQuotient
<1>2. PICK j \in Int : f - BufferSize = j * BufferSize + SlotOf(f - BufferSize)
  BY SlotQuotient, SizeType
<1> DEFINE s == SlotOf(f)
           t == SlotOf(f - BufferSize)
<1>3. s \in 0 .. BufferSize - 1 /\ t \in 0 .. BufferSize - 1
  BY SlotType, SizeType DEF Slots
<1>4. f = i * BufferSize + s /\ f - BufferSize = j * BufferSize + t
  BY <1>1, <1>2
<1> HIDE DEF s, t
<1>5. s - t = (j + 1 - i) * BufferSize
  BY <1>3, <1>4, SizeType
<1>6. CASE j + 1 - i <= -1
  <2>1. (j + 1 - i) * BufferSize <= -BufferSize
    BY <1>6, SizeType, SMTT(30)
  <2> QED BY <1>3, <1>5, <2>1, SizeType
<1>7. CASE j + 1 - i >= 1
  <2>1. (j + 1 - i) * BufferSize >= BufferSize
    BY <1>7, SizeType, SMTT(30)
  <2> QED BY <1>3, <1>5, <2>1, SizeType
<1>8. CASE j + 1 - i = 0
  <2>1. s - t = 0
    BY <1>5, <1>8, SizeType
  <2>2. s = t
    BY <1>3, <2>1, SizeType
  <2> QED BY <2>2 DEF s, t
<1> QED BY <1>6, <1>7, <1>8

-----------------------------------------------------------------------------
(* The loops.                                                              *)

\* Round n of a loop after prev: of the commits (of host a, compared with b, c
\* leaving), of a batch (of host a, c leaving), of the hosts of a poll (batches a,
\* c leaving), of the playback (in session a).
Round(loop, a, b, c, n, prev) ==
    IF loop = "commit" THEN CommitNext(prev, a, b, c)
    ELSE IF loop = "batch"
    THEN handle_host_input(prev, a, delivered[a] + n - 1, confirmed[a][delivered[a] + n],
                           Views(a)[view[a]].status, c)
    ELSE IF loop = "poll"
    THEN IF n \in session.hosts THEN HandleBatch(prev, n, a[n], c) ELSE prev
    ELSE PlayNext(prev, a)

IsLoop(f, N, base, loop, a, b, c) ==
    f = [n \in 0 .. N |-> IF n = 0 THEN base ELSE Round(loop, a, b, c, n, f[n - 1])]

LEMMA LoopExists ==
    ASSUME NEW N \in Nat, NEW base, NEW loop, NEW a, NEW b, NEW c
    PROVE  \E f : IsLoop(f, N, base, loop, a, b, c)
<1> DEFINE G == {n \in 0 .. N : \E f : IsLoop(f, n, base, loop, a, b, c)}
           step(i, prev) == Round(loop, a, b, c, i, prev)
<1>1. 0 \in G
  <2> DEFINE f == [n \in 0 .. 0 |-> base]
  <2>1. IsLoop(f, 0, base, loop, a, b, c)
    BY DEF IsLoop
  <2> HIDE DEF f
  <2> QED BY <2>1
<1>2. ASSUME NEW n \in 1 .. N, n - 1 \in G PROVE n \in G
  <2>1. PICK f : IsLoop(f, n - 1, base, loop, a, b, c)
    BY <1>2
  <2> DEFINE g == [i \in 0 .. n |-> IF i = n THEN step(n, f[n - 1]) ELSE f[i]]
  <2>2. f = [i \in 0 .. n - 1 |-> IF i = 0 THEN base ELSE step(i, f[i - 1])]
    BY <2>1 DEF IsLoop
  <2> HIDE DEF step
  <2>3. ASSUME NEW i \in 0 .. n
        PROVE  g[i] = IF i = 0 THEN base ELSE step(i, g[i - 1])
    <3>1. CASE i = n
      <4>1. g[i] = step(n, f[n - 1]) /\ g[n - 1] = f[n - 1] /\ i # 0
        BY <3>1
      <4> QED BY <3>1, <4>1
    <3>2. CASE i # n /\ i # 0
      <4>1. g[i] = f[i] /\ i \in 0 .. n - 1 /\ i - 1 \in 0 .. n /\ i - 1 # n
        BY <3>2
      <4>2. g[i - 1] = f[i - 1]
        BY <4>1
      <4>3. f[i] = step(i, f[i - 1])
        BY <2>2, <3>2, <4>1
      <4> QED BY <3>2, <4>1, <4>2, <4>3
    <3>3. CASE i # n /\ i = 0
      <4>1. g[i] = f[i] /\ i \in 0 .. n - 1
        BY <3>3
      <4> QED BY <2>2, <3>3, <4>1
    <3> QED BY <3>1, <3>2, <3>3
  <2>4. g = [i \in 0 .. n |-> g[i]]
    OBVIOUS
  <2> HIDE DEF g
  <2>5. g = [i \in 0 .. n |-> IF i = 0 THEN base ELSE step(i, g[i - 1])]
    BY <2>3, <2>4
  <2>6. IsLoop(g, n, base, loop, a, b, c)
    BY <2>5 DEF IsLoop, step
  <2> QED BY <2>6
<1>3. \A n \in 0 .. N : n \in G
  <2> HIDE DEF G
  <2> QED BY <1>1, <1>2, RoundInduction
<1> QED BY <1>3

\* The first value of a loop, and each later one.
LEMMA LoopValues ==
    ASSUME NEW N \in Nat, NEW base, NEW loop, NEW a, NEW b, NEW c, NEW f,
           IsLoop(f, N, base, loop, a, b, c)
    PROVE  /\ f[0] = base
           /\ \A n \in 1 .. N : f[n] = Round(loop, a, b, c, n, f[n - 1])
<1>1. f = [n \in 0 .. N |-> IF n = 0 THEN base ELSE Round(loop, a, b, c, n, f[n - 1])]
  BY DEF IsLoop
<1>2. 0 \in 0 .. N /\ \A n \in 1 .. N : n \in 0 .. N /\ n # 0
  OBVIOUS
<1> QED BY <1>1, <1>2

\* try_commit_ready_frames commits of the first host that stays, or of the pending
\* one if none does.
Canonical(s, leaving, pending) ==
    IF s.hosts \ leaving # {} THEN {Min(s.hosts \ leaving)} ELSE pending
Compared(s, leaving) == IF s.hosts \ leaving # {} THEN s.hosts \ leaving ELSE s.hosts

LEMMA CommitLoop ==
    ASSUME NEW s, NEW leaving, NEW pending
    PROVE  \/ Canonical(s, leaving, pending) = {} /\ try_commit_ready_frames(s, leaving, pending) = s
           \/ /\ Canonical(s, leaving, pending) # {}
              /\ \E f : /\ IsLoop(f, BufferSize, s, "commit", Min(Canonical(s, leaving, pending)),
                                  Compared(s, leaving), leaving)
                        /\ try_commit_ready_frames(s, leaving, pending) = f[BufferSize]
<1> DEFINE canonical == Canonical(s, leaving, pending)
           compared  == Compared(s, leaving)
           Run(f) == f = [n \in 0 .. BufferSize |-> IF n = 0 THEN s
                              ELSE CommitNext(f[n - 1], Min(canonical), compared, leaving)]
<1>1. try_commit_ready_frames(s, leaving, pending)
        = IF canonical = {} THEN s ELSE (CHOOSE f : Run(f))[BufferSize]
  BY Zenon DEF try_commit_ready_frames, Canonical, Compared
<1> HIDE DEF canonical, compared
<1>2. PICK g : IsLoop(g, BufferSize, s, "commit", Min(canonical), compared, leaving)
  BY LoopExists, SizeType
<1>3. Run(g)
  BY <1>2, Zenon DEF IsLoop, Round
<1>4. Run(CHOOSE f : Run(f))
  BY <1>3, Zenon
<1>5. \A f : Run(f) => IsLoop(f, BufferSize, s, "commit", Min(canonical), compared, leaving)
  BY Zenon DEF IsLoop, Round
<1>6. \E f : /\ IsLoop(f, BufferSize, s, "commit", Min(canonical), compared, leaving)
             /\ (CHOOSE h : Run(h))[BufferSize] = f[BufferSize]
  BY <1>4, <1>5, Zenon
<1> HIDE DEF Run
<1>7. \/ canonical = {} /\ try_commit_ready_frames(s, leaving, pending) = s
      \/ /\ canonical # {}
         /\ \E f : /\ IsLoop(f, BufferSize, s, "commit", Min(canonical), compared, leaving)
                   /\ try_commit_ready_frames(s, leaving, pending) = f[BufferSize]
  BY <1>1, <1>6
<1> QED BY <1>7, Zenon DEF canonical, compared

LEMMA BatchLoop ==
    ASSUME NEW s, NEW h, NEW count \in Nat, NEW leaving
    PROVE  \E f : /\ IsLoop(f, count, s, "batch", h, {}, leaving)
                  /\ HandleBatch(s, h, count, leaving) = f[count]
<1> DEFINE Run(f) == f = [n \in 0 .. count |-> IF n = 0 THEN s
                              ELSE handle_host_input(f[n - 1], h, delivered[h] + n - 1,
                                        confirmed[h][delivered[h] + n], Views(h)[view[h]].status, leaving)]
<1>1. HandleBatch(s, h, count, leaving) = (CHOOSE f : Run(f))[count]
  BY Zenon DEF HandleBatch
<1>2. PICK g : IsLoop(g, count, s, "batch", h, {}, leaving)
  BY LoopExists
<1>3. Run(g)
  BY <1>2, Zenon DEF IsLoop, Round
<1>4. Run(CHOOSE f : Run(f))
  BY <1>3, Zenon
<1>5. \A f : Run(f) => IsLoop(f, count, s, "batch", h, {}, leaving)
  BY Zenon DEF IsLoop, Round
<1> HIDE DEF Run
<1> QED BY <1>1, <1>4, <1>5, Zenon

LEMMA PollLoop ==
    ASSUME NEW batch, NEW leaving, Len(config.views) \in Nat
    PROVE  \E f : /\ IsLoop(f, Len(config.views), session, "poll", batch, {}, leaving)
                  /\ Polled(batch, leaving)
                       = try_commit_ready_frames(
                             remove_disconnected_hosts(f[Len(config.views)], leaving), {}, {})
<1> DEFINE Run(f) == f = [n \in 0 .. Len(config.views) |-> IF n = 0 THEN session
                              ELSE IF n \in session.hosts
                              THEN HandleBatch(f[n - 1], n, batch[n], leaving) ELSE f[n - 1]]
<1>1. Polled(batch, leaving)
        = try_commit_ready_frames(
              remove_disconnected_hosts((CHOOSE f : Run(f))[Len(config.views)], leaving), {}, {})
  BY Zenon DEF Polled
<1>2. PICK g : IsLoop(g, Len(config.views), session, "poll", batch, {}, leaving)
  BY LoopExists
<1>3. Run(g)
  BY <1>2, Zenon DEF IsLoop, Round
<1>4. Run(CHOOSE f : Run(f))
  BY <1>3, Zenon
<1>5. \A f : Run(f) => IsLoop(f, Len(config.views), session, "poll", batch, {}, leaving)
  BY Zenon DEF IsLoop, Round
<1> HIDE DEF Run
<1> QED BY <1>1, <1>4, <1>5, Zenon

LEMMA PlayLoop ==
    ASSUME NEW s, frames_to_advance(s) \in Nat
    PROVE  \E f : /\ IsLoop(f, frames_to_advance(s),
                            [frame |-> current_frame, game |-> game, saved |-> saved, stop |-> FALSE],
                            "play", s, {}, {})
                  /\ Advanced(s) = f[frames_to_advance(s)]
<1> DEFINE begin == [frame |-> current_frame, game |-> game, saved |-> saved, stop |-> FALSE]
           Run(f) == f = [n \in 0 .. frames_to_advance(s) |-> IF n = 0 THEN begin
                              ELSE PlayNext(f[n - 1], s)]
<1>1. Advanced(s) = (CHOOSE f : Run(f))[frames_to_advance(s)]
  BY Zenon DEF Advanced
<1> HIDE DEF begin
<1>2. PICK g : IsLoop(g, frames_to_advance(s), begin, "play", s, {}, {})
  BY LoopExists
<1>3. Run(g)
  BY <1>2, Zenon DEF IsLoop, Round
<1>4. Run(CHOOSE f : Run(f))
  BY <1>3, Zenon
<1>5. \A f : Run(f) => IsLoop(f, frames_to_advance(s), begin, "play", s, {}, {})
  BY Zenon DEF IsLoop, Round
<1> HIDE DEF Run
<1>6. \E f : IsLoop(f, frames_to_advance(s), begin, "play", s, {}, {})
               /\ Advanced(s) = f[frames_to_advance(s)]
  BY <1>1, <1>4, <1>5, Zenon
<1> QED BY <1>6, Zenon DEF begin

-----------------------------------------------------------------------------
(* The invariant.                                                          *)

\* What host h has reported of the slot so far, and what any host has.
Seen(h) == {Views(h)[i].status : i \in 1 .. view[h]}
SeenAny == UNION {Seen(h) : h \in Hosts}
Frozen(frame) == \E x \in SeenAny : x.disconnected /\ x.last_frame = frame

\* The hosts confirm inputs the mesh allows.
Environment ==
    /\ config \in Scenarios
    /\ view \in [Hosts -> Nat] /\ \A h \in Hosts : view[h] \in 1 .. Len(Views(h))
    /\ confirmed \in [Hosts -> Seq(Input)]
    /\ \A h \in Hosts :
           /\ Len(confirmed[h]) <= FrameCount
           /\ \A i \in 1 .. Len(confirmed[h]) : confirmed[h][i] \in config.mesh[i]

Shaped(s) ==
    /\ s \in [hosts : SUBSET Hosts, snapshots : {s.snapshots}, witness : {s.witness},
              epoch : {s.epoch}, status : Status, inputs : [Slots -> HeldInput \cup {None}],
              last_recv_frame : FrameOrNull, diverged : BOOLEAN, committed : Seq(Input)]
    /\ s.snapshots \in [s.hosts -> [Slots -> StagedInput \cup {None}]]
    /\ s.witness \in [s.hosts -> Witness \cup {None}]
    /\ s.epoch \in [s.hosts -> Nat]

\* A ring entry of a host is a frame it has delivered, and the last BufferSize frames
\* it has delivered are there; d counts what each host has delivered.
StagedEntry(x, d, h, i) ==
    /\ x.frame < d[h]
    /\ SlotOf(x.frame) = i
    /\ x.input = confirmed[h][x.frame + 1]
    /\ x.status \in Seen(h)
Staged(s, d) ==
    \A h \in s.hosts :
        /\ \A i \in Slots : s.snapshots[h][i] # None => StagedEntry(s.snapshots[h][i], d, h, i)
        /\ \A f \in Nat : f < d[h] /\ f >= d[h] - BufferSize
               => s.snapshots[h][SlotOf(f)] # None /\ s.snapshots[h][SlotOf(f)].frame = f

\* The committed ring holds the last BufferSize frames that were committed.
InWindow(s, f) == f <= s.last_recv_frame /\ f > s.last_recv_frame - BufferSize
Ring(s) ==
    /\ Len(s.committed) = s.last_recv_frame + 1
    /\ s.last_recv_frame < FrameCount
    /\ \A i \in 1 .. Len(s.committed) : s.committed[i] \in config.mesh[i]
    /\ \A i \in Slots : s.inputs[i] # None
           => InWindow(s, s.inputs[i].frame) /\ SlotOf(s.inputs[i].frame) = i
    /\ \A f \in Nat : InWindow(s, f)
           => s.inputs[SlotOf(f)] = [frame |-> f, input |-> s.committed[f + 1]]

\* No host that stays is further ahead than its ring is long, and none has given
\* another input for a frame of the committed ring.
Agreement(s, d, leaving) ==
    config.ahead <= BufferSize =>
        /\ \A h \in s.hosts : d[h] <= s.last_recv_frame + 1 + BufferSize
        /\ ~s.diverged => \A h \in s.hosts \ leaving : \A f \in Nat :
               f < d[h] /\ InWindow(s, f) => confirmed[h][f + 1] = s.committed[f + 1]

OneMesh == \A i \in DOMAIN config.mesh : \A x, y \in config.mesh[i] : x = y

Tables(s, d, leaving) ==
    /\ d \in [Hosts -> Nat] /\ \A h \in Hosts : d[h] <= Len(confirmed[h])
    /\ Staged(s, d)
    /\ Ring(s)
    /\ Agreement(s, d, leaving)
    /\ OneMesh => ~s.diverged

\* What the session believes of the slot was reported, and since s0 it was reopened
\* only by a host that did.
Follows(s0, s) ==
    s0.status.disconnected =>
        /\ Frozen(s0.status.last_frame)
        /\ IF s.status.disconnected THEN s.status.last_frame <= s0.status.last_frame
           ELSE \E x \in SeenAny : ~x.disconnected /\ x.epoch > 1
Reports(s0, s) ==
    /\ s.status.last_frame < FrameCount
    /\ s.status.disconnected => s.status.epoch = 1 /\ Frozen(s.status.last_frame)
    /\ \A h \in s.hosts : s.witness[h] # None => s.witness[h].epoch = 1
    /\ s0.status.last_frame \in Int
    /\ Follows(s0, s)

Reported(x) ==
    /\ x \in Status
    /\ x.last_frame < FrameCount
    /\ IF x.disconnected THEN x.epoch = 1 /\ Frozen(x.last_frame) ELSE x \in SeenAny

SameTables(s, t) ==
    /\ t.hosts = s.hosts /\ t.snapshots = s.snapshots /\ t.inputs = s.inputs
    /\ t.last_recv_frame = s.last_recv_frame /\ t.diverged = s.diverged
    /\ t.committed = s.committed

-----------------------------------------------------------------------------
(* What the hosts report.                                                  *)

LEMMA ScenarioFacts ==
    ASSUME Environment
    PROVE  /\ config.mesh \in Seq(SUBSET Input) /\ FrameCount \in Nat
           /\ config.views \in Seq(Seq([status : Status, inputs : Seq(Input)]))
           /\ Len(config.views) \in Nat /\ Hosts = 1 .. Len(config.views)
           /\ config.stream_delay \in Nat /\ config.max_frames_behind \in Nat
           /\ config.catchup_speed \in Nat /\ config.ahead \in Nat
           /\ \A h \in Hosts : Views(h) \in Seq([status : Status, inputs : Seq(Input)])
<1>1. config \in Scenarios
  BY DEF Environment
<1>2. /\ config.mesh \in Seq(SUBSET Input)
      /\ config.views \in Seq(Seq([status : Status, inputs : Seq(Input)]))
      /\ {config.stream_delay, config.max_frames_behind, config.catchup_speed, config.ahead} \subseteq Nat
  BY <1>1, ScenarioAssumption
<1>3. FrameCount \in Nat /\ Len(config.views) \in Nat /\ Hosts = 1 .. Len(config.views)
  BY <1>2 DEF FrameCount, Hosts
<1>4. \A h \in Hosts : Views(h) \in Seq([status : Status, inputs : Seq(Input)])
  BY <1>2, <1>3 DEF Views
<1> QED BY <1>2, <1>3, <1>4

LEMMA EntryType ==
    ASSUME NEW S, NEW q \in Seq(S), NEW i \in 1 .. Len(q)
    PROVE  q[i] \in S
  OBVIOUS

\* A reported status is that of a view.
LEMMA SeenIsViewed ==
    ASSUME Environment, NEW x \in SeenAny
    PROVE  \E v \in ScenarioViews(config) : v.status = x /\ x \in Status
<1>1. PICK h \in Hosts : x \in Seen(h)
  BY DEF SeenAny
<1>2. PICK i \in 1 .. view[h] : x = Views(h)[i].status
  BY <1>1 DEF Seen
<1>3. view[h] \in 1 .. Len(Views(h)) /\ Views(h) \in Seq([status : Status, inputs : Seq(Input)])
  BY ScenarioFacts DEF Environment
<1>4. i \in 1 .. Len(Views(h)) /\ DOMAIN Views(h) = 1 .. Len(Views(h))
  BY <1>3
<1>5. Views(h)[i] \in [status : Status, inputs : Seq(Input)]
  BY <1>3, <1>4, EntryType, Zenon
<1>6. Views(h)[i] \in ScenarioViews(config)
  BY <1>4 DEF ScenarioViews, Views, Hosts
<1> QED BY <1>2, <1>5, <1>6

LEMMA SeenFacts ==
    ASSUME Environment
    PROVE  /\ \A x \in SeenAny : /\ x \in Status /\ x.last_frame < FrameCount
                                 /\ x.disconnected <=> x.epoch = 1
           /\ (\E x \in SeenAny : x.epoch > 1)
                => \A f, g : Frozen(f) /\ Frozen(g) => f = g
<1>1. config \in Scenarios
  BY DEF Environment
<1>2. ASSUME NEW x \in SeenAny
      PROVE  /\ x \in Status /\ x.last_frame < FrameCount
             /\ x.disconnected <=> x.epoch = 1
  <2>1. PICK v \in ScenarioViews(config) : v.status = x /\ x \in Status
    BY <1>2, SeenIsViewed
  <2> QED BY <1>1, <2>1, ScenarioAssumption, CycleAssumption DEF FrameCount
<1>3. ASSUME NEW x \in SeenAny, x.epoch > 1, NEW f, NEW g, Frozen(f), Frozen(g)
      PROVE  f = g
  <2>1. PICK y \in SeenAny : y.disconnected /\ y.last_frame = f
    BY <1>3 DEF Frozen
  <2>2. PICK z \in SeenAny : z.disconnected /\ z.last_frame = g
    BY <1>3 DEF Frozen
  <2>3. PICK u \in ScenarioViews(config) : u.status = x
    BY <1>3, SeenIsViewed
  <2>4. PICK v \in ScenarioViews(config) : v.status = y
    BY <2>1, SeenIsViewed
  <2>5. PICK w \in ScenarioViews(config) : w.status = z
    BY <2>2, SeenIsViewed
  <2>6. /\ v.status.disconnected /\ w.status.disconnected
        /\ \E r \in ScenarioViews(config) : r.status.epoch > 1
    BY <1>3, <2>1, <2>2, <2>3, <2>4, <2>5
  <2>7. v.status.last_frame = w.status.last_frame
    BY <1>1, <2>6, CycleAssumption
  <2> QED BY <2>1, <2>2, <2>4, <2>5, <2>7
<1> QED BY <1>2, <1>3

\* What a host reports is Reported.
LEMMA SeenIsReported ==
    ASSUME Environment, NEW h \in Hosts, NEW x \in Seen(h)
    PROVE  x \in SeenAny /\ Reported(x)
<1>1. x \in SeenAny
  BY DEF SeenAny
<1>2. /\ x \in Status /\ x.last_frame < FrameCount
      /\ x.disconnected <=> x.epoch = 1
  BY <1>1, SeenFacts
<1>3. x.disconnected => Frozen(x.last_frame)
  BY <1>1 DEF Frozen
<1> QED BY <1>1, <1>2, <1>3 DEF Reported

LEMMA StatusFields ==
    ASSUME NEW x \in Status
    PROVE  /\ x.disconnected \in BOOLEAN /\ x.last_frame \in FrameOrNull /\ x.epoch \in Nat
           /\ x.last_frame \in Int
  BY DEF Status, FrameOrNull, NULL_FRAME

LEMMA NoneIsNoEntry ==
    /\ None \notin Witness /\ None \notin StagedInput /\ None \notin HeldInput
    /\ None \notin SavedGame /\ None \notin Input
  BY NoneAssumption, InputAssumption

\* A session with another status and other witnesses.
IsRestated(s, t, x, w) == t = [s EXCEPT !.status = x, !.witness = w]
LEMMA Restated ==
    ASSUME NEW s, Shaped(s), NEW x \in Status, NEW w \in [s.hosts -> Witness \cup {None}],
           NEW t, IsRestated(s, t, x, w)
    PROVE  Shaped(t) /\ SameTables(s, t) /\ t.status = x /\ t.witness = w
<1>1. /\ t.hosts = s.hosts /\ t.snapshots = s.snapshots /\ t.witness = w /\ t.epoch = s.epoch
      /\ t.status = x /\ t.inputs = s.inputs /\ t.last_recv_frame = s.last_recv_frame
      /\ t.diverged = s.diverged /\ t.committed = s.committed
  BY DEF Shaped, IsRestated
<1>2. t \in [hosts : SUBSET Hosts, snapshots : {t.snapshots}, witness : {t.witness},
              epoch : {t.epoch}, status : Status, inputs : [Slots -> HeldInput \cup {None}],
              last_recv_frame : FrameOrNull, diverged : BOOLEAN, committed : Seq(Input)]
  BY <1>1 DEF Shaped, IsRestated
<1> QED BY <1>1, <1>2 DEF Shaped, SameTables

LEMMA RewitnessType ==
    ASSUME NEW w \in Witness \cup {None}, NEW x \in Status, x.epoch = 1,
           w # None => w.epoch = 1
    PROVE  Rewitness(w, x) \in Witness /\ Rewitness(w, x).epoch = 1
<1>1. x.last_frame \in FrameOrNull /\ x.last_frame \in Int
  BY StatusFields
<1>2. CASE w = None
  BY <1>1, <1>2 DEF Rewitness, Witness
<1>3. CASE w # None
  <2>1. w \in Witness /\ w.epoch = 1 /\ w.freeze \in FrameOrNull /\ w.freeze \in Int
    BY <1>3 DEF Witness, FrameOrNull, NULL_FRAME
  <2>2. Max({w.freeze, x.last_frame}) \in FrameOrNull
    <3>1. \E a \in {w.freeze, x.last_frame} : \A b \in {w.freeze, x.last_frame} : a >= b
      BY <1>1, <2>1
    <3>2. Max({w.freeze, x.last_frame}) \in {w.freeze, x.last_frame}
      BY <3>1, Zenon DEF Max
    <3> QED BY <1>1, <2>1, <3>2
  <2>3. Rewitness(w, x) = [w EXCEPT !.freeze = Max({w.freeze, x.last_frame})]
    BY <1>3, <2>1 DEF Rewitness
  <2> QED BY <2>1, <2>2, <2>3 DEF Witness
<1> QED BY <1>2, <1>3

-----------------------------------------------------------------------------
(* The status of the slot.                                                 *)

\* A new freeze after s0, not above the one before or after a reopening.
LEMMA FollowsFrozen ==
    ASSUME Environment, NEW s0, NEW s, Reports(s0, s), s.status.last_frame \in Int,
           s.status.disconnected \in BOOLEAN,
           NEW t, t.status.disconnected = TRUE, Frozen(t.status.last_frame),
           t.status.last_frame \in Int,
           s.status.disconnected => t.status.last_frame <= s.status.last_frame
    PROVE  Follows(s0, t)
<1> SUFFICES ASSUME s0.status.disconnected
             PROVE  Frozen(s0.status.last_frame) /\ t.status.last_frame <= s0.status.last_frame
  BY DEF Follows
<1>1. /\ Frozen(s0.status.last_frame) /\ s0.status.last_frame \in Int
      /\ IF s.status.disconnected THEN s.status.last_frame <= s0.status.last_frame
         ELSE \E x \in SeenAny : ~x.disconnected /\ x.epoch > 1
  BY DEF Reports, Follows
<1>2. CASE s.status.disconnected
  BY <1>1, <1>2
<1>3. CASE ~s.status.disconnected
  <2>1. t.status.last_frame = s0.status.last_frame
    BY <1>1, <1>3, SeenFacts
  <2> QED BY <1>1, <2>1
<1> QED BY <1>2, <1>3

LEMMA MergeKeeps ==
    ASSUME Environment, NEW s0, NEW s, Shaped(s), Reports(s0, s), NEW h \in s.hosts,
           NEW x, Reported(x)
    PROVE  LET t == merge_connection_status(s, h, x)
           IN  Shaped(t) /\ SameTables(s, t) /\ Reports(s0, t)
<1> DEFINE t == merge_connection_status(s, h, x)
<1>1. /\ x \in Status /\ x.last_frame \in FrameOrNull /\ x.last_frame \in Int
      /\ x.last_frame < FrameCount /\ x.disconnected \in BOOLEAN /\ x.epoch \in Nat
  BY StatusFields DEF Reported
<1>2. /\ s.status \in Status /\ s.status.last_frame \in FrameOrNull /\ s.status.last_frame \in Int
      /\ s.status.disconnected \in BOOLEAN /\ s.status.epoch \in Nat
      /\ s.witness \in [s.hosts -> Witness \cup {None}]
  BY StatusFields DEF Shaped
<1>3. /\ s.status.last_frame < FrameCount
      /\ \A g \in s.hosts : s.witness[g] # None => s.witness[g].epoch = 1
      /\ s0.status.last_frame \in Int
  BY DEF Reports
<1>4. CASE s.status.disconnected /\ x.disconnected
  <2> DEFINE low == Min({s.status.last_frame, x.last_frame})
             y == [s.status EXCEPT !.last_frame = low]
  <2>1. low \in {s.status.last_frame, x.last_frame} /\ low <= s.status.last_frame
    <3>1. {s.status.last_frame, x.last_frame} \in SUBSET FrameOrNull
      BY <1>1, <1>2
    <3> QED BY <3>1, MinOfFrames
  <2>2. Frozen(low) /\ low \in FrameOrNull /\ low \in Int /\ low < FrameCount
    <3>1. Frozen(s.status.last_frame) /\ Frozen(x.last_frame)
      BY <1>4 DEF Reports, Reported
    <3> QED BY <1>1, <1>2, <1>3, <2>1, <3>1
  <2>3. t = [s EXCEPT !.status.last_frame = low]
    BY <1>4 DEF merge_connection_status
  <2> HIDE DEF low
  <2>4. y \in Status /\ y.last_frame = low /\ y.disconnected = TRUE /\ y.epoch = s.status.epoch
    BY <1>2, <1>4, <2>2 DEF Status
  <2>5. IsRestated(s, t, y, s.witness)
    BY <2>3 DEF Shaped, IsRestated
  <2> HIDE DEF y, t
  <2>6. Shaped(t) /\ SameTables(s, t) /\ t.status = y /\ t.witness = s.witness
    BY <1>2, <2>4, <2>5, Restated
  <2>7. Follows(s0, t)
    BY <1>2, <2>1, <2>2, <2>4, <2>6, FollowsFrozen
  <2>8. s.status.epoch = 1
    BY <1>4 DEF Reports
  <2>9. Reports(s0, t)
    BY <1>3, <2>2, <2>4, <2>6, <2>7, <2>8 DEF Reports, SameTables
  <2> QED BY <2>6, <2>9 DEF t
<1>5. CASE s.status.disconnected /\ ~x.disconnected /\ Witnessed(s, h, x.epoch)
  <2> DEFINE w == [g \in s.hosts |-> None]
  <2>1. IsRestated(s, t, x, w)
    BY <1>5 DEF merge_connection_status, IsRestated
  <2>2. w \in [s.hosts -> Witness \cup {None}] /\ \A g \in s.hosts : w[g] = None
    OBVIOUS
  <2>3. s.witness[h] # None /\ s.witness[h].epoch = 1 /\ x.epoch >= s.witness[h].epoch
    BY <1>3, <1>5 DEF Witnessed
  <2>4. x \in SeenAny /\ x.epoch # 1
    BY <1>5, SeenFacts DEF Reported
  <2>5. x.epoch > 1
    BY <1>1, <2>3, <2>4
  <2> HIDE DEF w, t
  <2>6. Shaped(t) /\ SameTables(s, t) /\ t.status = x /\ t.witness = w
    BY <1>1, <2>1, <2>2, Restated
  <2>7. Follows(s0, t)
    BY <1>5, <2>4, <2>5, <2>6 DEF Follows, Reports
  <2>8. Reports(s0, t)
    BY <1>1, <1>3, <1>5, <2>2, <2>6, <2>7 DEF Reports, SameTables
  <2> QED BY <2>6, <2>8 DEF t
<1>6. CASE ~s.status.disconnected /\ x.disconnected
  <2> DEFINE w == [s.witness EXCEPT ![h] = Rewitness(s.witness[h], x)]
  <2>1. IsRestated(s, t, x, w)
    BY <1>6 DEF merge_connection_status, IsRestated
  <2>2. x.epoch = 1 /\ Frozen(x.last_frame)
    BY <1>6 DEF Reported
  <2>3. Rewitness(s.witness[h], x) \in Witness /\ Rewitness(s.witness[h], x).epoch = 1
    BY <1>1, <1>2, <1>3, <2>2, RewitnessType
  <2>4. /\ w \in [s.hosts -> Witness \cup {None}]
        /\ \A g \in s.hosts : w[g] # None => w[g].epoch = 1
    BY <1>2, <1>3, <2>3
  <2> HIDE DEF w, t
  <2>5. Shaped(t) /\ SameTables(s, t) /\ t.status = x /\ t.witness = w
    BY <1>1, <2>1, <2>4, Restated
  <2>6. Follows(s0, t)
    BY <1>1, <1>2, <1>6, <2>2, <2>5, FollowsFrozen
  <2>7. Reports(s0, t)
    BY <1>1, <1>3, <2>2, <2>4, <2>5, <2>6 DEF Reports, SameTables
  <2> QED BY <2>5, <2>7 DEF t
<1>7. CASE \/ s.status.disconnected /\ ~x.disconnected /\ ~Witnessed(s, h, x.epoch)
           \/ ~s.status.disconnected /\ ~x.disconnected
  <2>1. t = s
    BY <1>7 DEF merge_connection_status
  <2> QED BY <2>1 DEF SameTables
<1> QED BY <1>1, <1>2, <1>4, <1>5, <1>6, <1>7

\* What Snapshot finds.
LEMMA SnapshotIs ==
    ASSUME Environment, NEW s, Shaped(s), NEW d, Staged(s, d), d \in [Hosts -> Nat],
           \A g \in Hosts : d[g] <= Len(confirmed[g]),
           NEW h \in s.hosts, NEW frame \in Int, Snapshot(s, h, frame) # None
    PROVE  LET x == Snapshot(s, h, frame)
           IN  /\ x \in StagedInput /\ x.frame = frame /\ frame \in Nat /\ frame < d[h]
               /\ x.input = confirmed[h][frame + 1] /\ x.input \in Input
               /\ x.input \in config.mesh[frame + 1] /\ frame < FrameCount
               /\ x.status \in Seen(h)
<1> DEFINE i == SlotOf(frame)
           x == s.snapshots[h][i]
<1>1. i \in Slots
  BY SlotType
<1>2. x # None /\ x.frame = frame /\ Snapshot(s, h, frame) = x
  BY DEF Snapshot
<1>3. x \in StagedInput
  BY <1>1, <1>2 DEF Shaped
<1>4. StagedEntry(x, d, h, i)
  BY <1>1, <1>2 DEF Staged
<1> HIDE DEF x, i
<1>5. frame \in Nat /\ x.input \in Input
  BY <1>2, <1>3 DEF StagedInput
<1>6. frame < d[h] /\ x.input = confirmed[h][frame + 1] /\ x.status \in Seen(h)
  BY <1>2, <1>4 DEF StagedEntry
<1>7. h \in Hosts /\ d[h] \in Nat /\ d[h] <= Len(confirmed[h]) /\ Len(confirmed[h]) \in Nat
  BY DEF Shaped, Environment
<1>8. frame + 1 \in 1 .. Len(confirmed[h]) /\ Len(confirmed[h]) <= FrameCount
  BY <1>5, <1>6, <1>7 DEF Environment
<1>9. confirmed[h][frame + 1] \in config.mesh[frame + 1] /\ FrameCount \in Nat
  BY <1>7, <1>8, ScenarioFacts DEF Environment
<1>10. frame < FrameCount
  BY <1>5, <1>7, <1>8, <1>9
<1> QED BY <1>2, <1>3, <1>5, <1>6, <1>9, <1>10

\* Snapshot finds what a host has delivered last.
LEMMA SnapshotFound ==
    ASSUME NEW s, NEW d, Staged(s, d), NEW h \in s.hosts, NEW f \in Nat,
           f < d[h], f >= d[h] - BufferSize
    PROVE  Snapshot(s, h, f) # None
<1>1. s.snapshots[h][SlotOf(f)] # None /\ s.snapshots[h][SlotOf(f)].frame = f
  BY DEF Staged
<1> QED BY <1>1 DEF Snapshot

\* The freezes that hosts report for a frame were reported.
LEMMA FreezesAre ==
    ASSUME Environment, NEW s, Shaped(s), NEW d, Staged(s, d), d \in [Hosts -> Nat],
           \A g \in Hosts : d[g] <= Len(confirmed[g]),
           NEW hosts \in SUBSET s.hosts, NEW frame \in Int
    PROVE  \A f \in Freezes(s, hosts, frame) : Frozen(f) /\ f \in FrameOrNull /\ f < FrameCount
<1> SUFFICES ASSUME NEW f \in Freezes(s, hosts, frame)
             PROVE  Frozen(f) /\ f \in FrameOrNull /\ f < FrameCount
  OBVIOUS
<1>1. PICK h \in hosts : /\ Snapshot(s, h, frame) # None
                         /\ Snapshot(s, h, frame).status.disconnected
                         /\ f = Snapshot(s, h, frame).status.last_frame
  BY DEF Freezes
<1>2. h \in s.hosts /\ h \in Hosts
  BY DEF Shaped
<1>3. Snapshot(s, h, frame).status \in Seen(h)
  BY <1>1, <1>2, SnapshotIs
<1>4. Reported(Snapshot(s, h, frame).status)
  BY <1>2, <1>3, SeenIsReported
<1> QED BY <1>1, <1>4, StatusFields DEF Reported

\* A status lowered to the freezes of other hosts.
Lowered(x, F) == [x EXCEPT !.last_frame = Min({x.last_frame} \cup F)]
LEMMA LoweredStatus ==
    ASSUME Environment, NEW x, Reported(x), x.disconnected,
           NEW F, \A f \in F : Frozen(f) /\ f \in FrameOrNull /\ f < FrameCount
    PROVE  LET y == Lowered(x, F)
           IN  Reported(y) /\ y.disconnected = TRUE /\ y.last_frame <= x.last_frame
                 /\ y.last_frame \in Int
<1> DEFINE S == {x.last_frame} \cup F
           low == Min(S)
           y == [x EXCEPT !.last_frame = low]
<1>1. /\ x \in Status /\ x.last_frame \in FrameOrNull /\ x.last_frame < FrameCount
      /\ x.epoch = 1 /\ Frozen(x.last_frame) /\ x.disconnected = TRUE
  BY StatusFields DEF Reported
<1>2. S \in SUBSET FrameOrNull /\ S # {}
  BY <1>1
<1>3. low \in S /\ low <= x.last_frame
  <2>1. x.last_frame \in S
    OBVIOUS
  <2> HIDE DEF S
  <2> QED BY <1>2, <2>1, MinOfFrames
<1>4. low \in FrameOrNull /\ Frozen(low) /\ low < FrameCount
  BY <1>1, <1>3
<1> HIDE DEF low
<1>5. y \in Status /\ y.last_frame = low /\ y.disconnected = TRUE /\ y.epoch = 1
  BY <1>1, <1>4 DEF Status
<1>6. Reported(y) /\ y.last_frame \in Int
  BY <1>4, <1>5, StatusFields DEF Reported
<1> QED BY <1>3, <1>5, <1>6 DEF low, Lowered

LEMMA ConvergedIsReported ==
    ASSUME Environment, NEW s, Shaped(s), NEW d, Staged(s, d), d \in [Hosts -> Nat],
           \A g \in Hosts : d[g] <= Len(confirmed[g]),
           NEW h \in s.hosts, NEW frame \in Int, Snapshot(s, h, frame) # None, NEW leaving
    PROVE  Reported(ConvergedStatus(s, h, frame, leaving))
<1> DEFINE x == Snapshot(s, h, frame).status
           F == Freezes(s, s.hosts \ (leaving \cup {h}), frame)
<1>1. Reported(x)
  BY SnapshotIs, SeenIsReported DEF Shaped
<1>2. \A f \in F : Frozen(f) /\ f \in FrameOrNull /\ f < FrameCount
  BY FreezesAre
<1>3. ConvergedStatus(s, h, frame, leaving)
        = IF x.disconnected THEN Lowered(x, F) ELSE x
  BY DEF ConvergedStatus, Lowered
<1> HIDE DEF x, F
<1>4. CASE x.disconnected
  BY <1>1, <1>2, <1>3, <1>4, LoweredStatus
<1>5. CASE ~x.disconnected
  BY <1>1, <1>3, <1>5
<1> QED BY <1>4, <1>5

LEMMA LatchedKeeps ==
    ASSUME Environment, NEW s0, NEW s, Shaped(s), Reports(s0, s), NEW d, Staged(s, d),
           d \in [Hosts -> Nat], \A g \in Hosts : d[g] <= Len(confirmed[g]),
           NEW h \in s.hosts, NEW frame \in Int
    PROVE  LET t == converge_latched_drop_status(s, h, frame)
           IN  Shaped(t) /\ SameTables(s, t) /\ Reports(s0, t)
<1> DEFINE t == converge_latched_drop_status(s, h, frame)
           F == Freezes(s, {h}, frame)
           y == Lowered(s.status, F)
<1>1. /\ s.status \in Status /\ s.status.last_frame \in Int /\ s.status.disconnected \in BOOLEAN
      /\ s.witness \in [s.hosts -> Witness \cup {None}]
  BY StatusFields DEF Shaped
<1>2. CASE ~s.status.disconnected
  BY <1>2 DEF converge_latched_drop_status, SameTables
<1>3. CASE s.status.disconnected
  <2>1. \A f \in F : Frozen(f) /\ f \in FrameOrNull /\ f < FrameCount
    BY FreezesAre
  <2>2. Reported(s.status)
    BY <1>1, <1>3 DEF Reported, Reports
  <2>3. t = [s EXCEPT !.status.last_frame = Min({s.status.last_frame} \cup F)]
    BY <1>3 DEF converge_latched_drop_status
  <2> HIDE DEF F
  <2>4. IsRestated(s, t, y, s.witness)
    BY <2>3 DEF Shaped, IsRestated, Lowered
  <2>5. Reported(y) /\ y.disconnected = TRUE /\ y.last_frame <= s.status.last_frame /\ y.last_frame \in Int
    BY <1>3, <2>1, <2>2, LoweredStatus
  <2> HIDE DEF y, t
  <2>6. y \in Status /\ y.last_frame < FrameCount /\ y.epoch = 1 /\ Frozen(y.last_frame)
    BY <2>5 DEF Reported
  <2>7. Shaped(t) /\ SameTables(s, t) /\ t.status = y /\ t.witness = s.witness
    BY <1>1, <2>4, <2>6, Restated
  <2>8. Follows(s0, t)
    BY <1>1, <2>5, <2>6, <2>7, FollowsFrozen
  <2>9. Reports(s0, t)
    BY <2>6, <2>7, <2>8 DEF Reports, SameTables
  <2> QED BY <2>7, <2>9 DEF t
<1> QED BY <1>1, <1>2, <1>3

-----------------------------------------------------------------------------
(* The tables.                                                             *)

\* What a poll that began with the session s0 keeps, for the hosts H.
Poll(s0, s, d, H, leaving) ==
    /\ Shaped(s)
    /\ s.hosts = H
    /\ Tables(s, d, leaving)
    /\ Reports(s0, s)
    /\ s0.last_recv_frame \in FrameOrNull
    /\ s.last_recv_frame >= s0.last_recv_frame

\* Tables says nothing of the status.
LEMMA SameTablesKept ==
    ASSUME NEW s, NEW t, SameTables(s, t), NEW d, NEW leaving, Tables(s, d, leaving)
    PROVE  Tables(t, d, leaving)
<1>1. /\ t.hosts = s.hosts /\ t.snapshots = s.snapshots /\ t.inputs = s.inputs
      /\ t.last_recv_frame = s.last_recv_frame /\ t.diverged = s.diverged
      /\ t.committed = s.committed
  BY DEF SameTables
<1>2. Staged(t, d)
  BY <1>1 DEF Tables, Staged
<1>3. Ring(t)
  BY <1>1 DEF Tables, Ring, InWindow
<1>4. Agreement(t, d, leaving)
  BY <1>1 DEF Tables, Agreement, InWindow
<1> QED BY <1>1, <1>2, <1>3, <1>4 DEF Tables

LEMMA FrameFacts ==
    ASSUME NEW s, Shaped(s)
    PROVE  /\ s.last_recv_frame \in FrameOrNull /\ s.last_recv_frame \in Int
           /\ s.last_recv_frame >= -1 /\ s.hosts \subseteq Hosts
           /\ s.committed \in Seq(Input) /\ Len(s.committed) \in Nat
           /\ s.diverged \in BOOLEAN
  BY DEF Shaped, FrameOrNull, NULL_FRAME

\* What stays of a host's ring and what is new in it when it stages its next frame.
StagedNext(s, h, frame, input, status) ==
    [witness_host_status_reports(s, h, status)
        EXCEPT !.snapshots[h][SlotOf(frame)] = [frame |-> frame, input |-> input, status |-> status]]

IsStaged(s, t, h, x) ==
    /\ t.hosts = s.hosts /\ t.inputs = s.inputs /\ t.last_recv_frame = s.last_recv_frame
    /\ t.diverged = s.diverged /\ t.committed = s.committed
    /\ t.snapshots = [s.snapshots EXCEPT ![h][SlotOf(x.frame)] = x]

LEMMA StagedFields ==
    ASSUME Environment, NEW s0, NEW s, Shaped(s), Reports(s0, s), NEW h \in s.hosts,
           NEW frame \in Nat, NEW input \in Input, NEW status \in Seen(h)
    PROVE  LET t == StagedNext(s, h, frame, input, status)
           IN  /\ Shaped(t) /\ Reports(s0, t)
               /\ IsStaged(s, t, h, [frame |-> frame, input |-> input, status |-> status])
<1> DEFINE x == [frame |-> frame, input |-> input, status |-> status]
           t == StagedNext(s, h, frame, input, status)
           e == [s.epoch EXCEPT ![h] = Max({s.epoch[h], status.epoch})]
           w == [s.witness EXCEPT ![h] = IF status.disconnected /\ status.epoch >= s.epoch[h]
                                         THEN Rewitness(s.witness[h], status) ELSE s.witness[h]]
           n == [s.snapshots EXCEPT ![h][SlotOf(frame)] = x]
<1>1. Reported(status) /\ status \in Status /\ status.epoch \in Nat
        /\ (status.disconnected => status.epoch = 1)
  BY SeenIsReported, StatusFields DEF Shaped, Reported
<1>2. /\ s.epoch \in [s.hosts -> Nat] /\ s.witness \in [s.hosts -> Witness \cup {None}]
      /\ s.snapshots \in [s.hosts -> [Slots -> StagedInput \cup {None}]]
  BY DEF Shaped
<1>3. e \in [s.hosts -> Nat]
  <2>1. Max({s.epoch[h], status.epoch}) \in Nat
    <3>1. s.epoch[h] \in Nat
      BY <1>2
    <3>2. \E a \in {s.epoch[h], status.epoch} : \A b \in {s.epoch[h], status.epoch} : a >= b
      BY <1>1, <3>1
    <3>3. Max({s.epoch[h], status.epoch}) \in {s.epoch[h], status.epoch}
      BY <3>2, Zenon DEF Max
    <3> QED BY <1>1, <3>1, <3>3
  <2> QED BY <1>2, <2>1
<1>4. /\ w \in [s.hosts -> Witness \cup {None}]
      /\ \A g \in s.hosts : w[g] # None => w[g].epoch = 1
  <2>1. \A g \in s.hosts : s.witness[g] # None => s.witness[g].epoch = 1
    BY DEF Reports
  <2>2. status.disconnected
          => Rewitness(s.witness[h], status) \in Witness /\ Rewitness(s.witness[h], status).epoch = 1
    BY <1>1, <1>2, <2>1, RewitnessType
  <2> QED BY <1>2, <2>1, <2>2
<1>5. n \in [s.hosts -> [Slots -> StagedInput \cup {None}]]
  <2>1. x \in StagedInput
    BY <1>1 DEF StagedInput
  <2>2. SlotOf(frame) \in Slots
    BY SlotType
  <2> QED BY <1>2, <2>1, <2>2
<1>6. t = [s EXCEPT !.epoch = e, !.witness = w, !.snapshots = n]
  BY DEF StagedNext, witness_host_status_reports, Shaped
<1> HIDE DEF e, w, n, t
<1>7. /\ t.hosts = s.hosts /\ t.snapshots = n /\ t.witness = w /\ t.epoch = e
      /\ t.status = s.status /\ t.inputs = s.inputs /\ t.last_recv_frame = s.last_recv_frame
      /\ t.diverged = s.diverged /\ t.committed = s.committed
  BY <1>6 DEF Shaped
<1>8. t \in [hosts : SUBSET Hosts, snapshots : {t.snapshots}, witness : {t.witness},
              epoch : {t.epoch}, status : Status, inputs : [Slots -> HeldInput \cup {None}],
              last_recv_frame : FrameOrNull, diverged : BOOLEAN, committed : Seq(Input)]
  BY <1>6, <1>7 DEF Shaped
<1>9. Shaped(t)
  BY <1>3, <1>4, <1>5, <1>7, <1>8 DEF Shaped
<1>10. Reports(s0, t)
  BY <1>4, <1>7 DEF Reports, Follows
<1>11. x.frame = frame
  OBVIOUS
<1> HIDE DEF x
<1>12. IsStaged(s, t, h, x)
  BY <1>7, <1>11 DEF n, IsStaged
<1> QED BY <1>9, <1>10, <1>12 DEF x, t

\* A host stages the next frame it delivers.
LEMMA StagedKeeps ==
    ASSUME Environment, NEW s, Shaped(s), NEW d \in [Hosts -> Nat], Staged(s, d), NEW h \in s.hosts,
           NEW x \in StagedInput, x.frame = d[h], x.input = confirmed[h][x.frame + 1],
           x.status \in Seen(h), NEW t, Shaped(t), t.hosts = s.hosts,
           t.snapshots = [s.snapshots EXCEPT ![h][SlotOf(x.frame)] = x]
    PROVE  Staged(t, [d EXCEPT ![h] = @ + 1])
<1> DEFINE e == [d EXCEPT ![h] = @ + 1]
           k == SlotOf(x.frame)
<1>1. h \in Hosts /\ d[h] \in Nat /\ x.frame \in Nat
  BY DEF Shaped, StagedInput
<1>2. e[h] = d[h] + 1 /\ \A g \in s.hosts : g # h => e[g] = d[g]
  BY <1>1, FrameFacts
<1>3. k \in Slots /\ x # None
  BY <1>1, SlotType, NoneIsNoEntry
<1>4. s.snapshots \in [s.hosts -> [Slots -> StagedInput \cup {None}]]
  BY DEF Shaped
<1> HIDE DEF e, k
<1>5. /\ t.snapshots[h][k] = x
      /\ \A i \in Slots : i # k => t.snapshots[h][i] = s.snapshots[h][i]
      /\ \A g \in s.hosts : g # h => t.snapshots[g] = s.snapshots[g]
  BY <1>3, <1>4 DEF k
<1>6. ASSUME NEW g \in t.hosts, NEW i \in Slots, t.snapshots[g][i] # None
      PROVE  StagedEntry(t.snapshots[g][i], e, g, i)
  <2>1. CASE g = h /\ i = k
    <3>1. t.snapshots[g][i] = x
      BY <1>5, <2>1
    <3>2. x.frame < e[g] /\ SlotOf(x.frame) = i
      BY <1>1, <1>2, <2>1 DEF k
    <3> QED BY <2>1, <3>1, <3>2 DEF StagedEntry
  <2>2. CASE ~(g = h /\ i = k)
    <3>1. t.snapshots[g][i] = s.snapshots[g][i] /\ g \in s.hosts
      BY <1>5, <2>2
    <3>2. StagedEntry(s.snapshots[g][i], d, g, i)
      BY <1>6, <3>1 DEF Staged
    <3>3. s.snapshots[g][i] \in StagedInput /\ d[g] \in Nat /\ e[g] \in {d[g], d[g] + 1}
      BY <1>2, <1>4, <1>6, <3>1 DEF Shaped
    <3>4. s.snapshots[g][i].frame < e[g]
      BY <3>2, <3>3 DEF StagedEntry, StagedInput
    <3> QED BY <3>1, <3>2, <3>4 DEF StagedEntry
  <2> QED BY <2>1, <2>2
<1>7. ASSUME NEW g \in t.hosts, NEW f \in Nat, f < e[g], f >= e[g] - BufferSize
      PROVE  t.snapshots[g][SlotOf(f)] # None /\ t.snapshots[g][SlotOf(f)].frame = f
  <2>1. SlotOf(f) \in Slots /\ g \in s.hosts /\ d[g] \in Nat
    BY SlotType DEF Shaped
  <2>2. CASE g = h /\ f = d[h]
    BY <1>3, <1>5, <2>2 DEF k
  <2>3. CASE g = h /\ f # d[h]
    <3>1. f < d[h] /\ f >= d[h] - BufferSize /\ f + BufferSize > d[h]
      BY <1>1, <1>2, <1>7, <2>3, SizeType
    <3>2. SlotOf(f) # k
      BY <1>1, <3>1, SlotsApart, SizeType DEF k
    <3>3. s.snapshots[h][SlotOf(f)] # None /\ s.snapshots[h][SlotOf(f)].frame = f
      BY <3>1 DEF Staged
    <3> QED BY <1>5, <2>1, <2>3, <3>2, <3>3
  <2>4. CASE g # h
    <3>1. f < d[g] /\ f >= d[g] - BufferSize
      BY <1>2, <1>7, <2>1, <2>4
    <3>2. s.snapshots[g][SlotOf(f)] # None /\ s.snapshots[g][SlotOf(f)].frame = f
      BY <2>1, <3>1 DEF Staged
    <3> QED BY <1>5, <2>1, <2>4, <3>2
  <2> QED BY <2>2, <2>3, <2>4
<1>8. Staged(t, e)
  BY <1>6, <1>7 DEF Staged
<1> QED BY <1>8 DEF e

\* What a commit changes.
Committed(s, t, frame, input) ==
    /\ t.hosts = s.hosts /\ t.snapshots = s.snapshots /\ t.diverged = s.diverged
    /\ t.last_recv_frame = frame /\ t.committed = Append(s.committed, input)
    /\ t.inputs = [s.inputs EXCEPT ![SlotOf(frame)] = [frame |-> frame, input |-> input]]
LEMMA CommitFields ==
    ASSUME Environment, NEW s0, NEW s, Shaped(s), Reports(s0, s), NEW d, NEW leaving,
           Tables(s, d, leaving), NEW h \in s.hosts, NEW frame \in Nat,
           Snapshot(s, h, frame) # None
    PROVE  LET t == commit_canonical_snapshot(s, h, frame, leaving)
           IN  Shaped(t) /\ Reports(s0, t) /\ Committed(s, t, frame, Snapshot(s, h, frame).input)
<1> DEFINE input == Snapshot(s, h, frame).input
           x == ConvergedStatus(s, h, frame, leaving)
           i == [s.inputs EXCEPT ![SlotOf(frame)] = [frame |-> frame, input |-> input]]
           c == Append(s.committed, input)
           r == [s EXCEPT !.inputs = i, !.committed = c]
           m == merge_connection_status(r, h, x)
           t == [m EXCEPT !.last_recv_frame = frame]
<1>1. /\ d \in [Hosts -> Nat] /\ Staged(s, d)
      /\ \A g \in Hosts : d[g] <= Len(confirmed[g])
  BY DEF Tables
<1>2. input \in Input /\ Reported(x)
  BY <1>1, SnapshotIs, ConvergedIsReported
<1>3. commit_canonical_snapshot(s, h, frame, leaving) = t
  BY DEF commit_canonical_snapshot
<1> HIDE DEF input, x
<1>4. i \in [Slots -> HeldInput \cup {None}] /\ c \in Seq(Input)
  <2>1. [frame |-> frame, input |-> input] \in HeldInput
    BY <1>2 DEF HeldInput
  <2>2. s.inputs \in [Slots -> HeldInput \cup {None}] /\ s.committed \in Seq(Input)
    BY DEF Shaped
  <2>3. SlotOf(frame) \in Slots
    BY SlotType
  <2> QED BY <1>2, <2>1, <2>2, <2>3
<1> HIDE DEF i, c
<1>5. /\ r.hosts = s.hosts /\ r.snapshots = s.snapshots /\ r.witness = s.witness /\ r.epoch = s.epoch
      /\ r.status = s.status /\ r.inputs = i /\ r.last_recv_frame = s.last_recv_frame
      /\ r.diverged = s.diverged /\ r.committed = c
  BY DEF Shaped
<1>6. r \in [hosts : SUBSET Hosts, snapshots : {r.snapshots}, witness : {r.witness},
              epoch : {r.epoch}, status : Status, inputs : [Slots -> HeldInput \cup {None}],
              last_recv_frame : FrameOrNull, diverged : BOOLEAN, committed : Seq(Input)]
  BY <1>4, <1>5 DEF Shaped
<1> HIDE DEF r
<1>7. Shaped(r)
  BY <1>5, <1>6 DEF Shaped
<1>8. Reports(s0, r)
  BY <1>5 DEF Reports, Follows
<1>9. Shaped(m) /\ SameTables(r, m) /\ Reports(s0, m)
  BY <1>2, <1>5, <1>7, <1>8, MergeKeeps
<1> HIDE DEF m
<1>10. /\ t.hosts = m.hosts /\ t.snapshots = m.snapshots /\ t.witness = m.witness /\ t.epoch = m.epoch
       /\ t.status = m.status /\ t.inputs = m.inputs /\ t.last_recv_frame = frame
       /\ t.diverged = m.diverged /\ t.committed = m.committed
  BY <1>9 DEF Shaped
<1>11. t \in [hosts : SUBSET Hosts, snapshots : {t.snapshots}, witness : {t.witness},
              epoch : {t.epoch}, status : Status, inputs : [Slots -> HeldInput \cup {None}],
              last_recv_frame : FrameOrNull, diverged : BOOLEAN, committed : Seq(Input)]
  <2>1. frame \in FrameOrNull
    BY DEF FrameOrNull
  <2> QED BY <1>9, <1>10, <2>1 DEF Shaped
<1> HIDE DEF t
<1>12. Shaped(t)
  BY <1>9, <1>10, <1>11 DEF Shaped
<1>13. Reports(s0, t)
  BY <1>9, <1>10 DEF Reports, Follows
<1>14. /\ t.hosts = s.hosts /\ t.snapshots = s.snapshots /\ t.diverged = s.diverged
       /\ t.last_recv_frame = frame /\ t.committed = c /\ t.inputs = i
  BY <1>5, <1>9, <1>10 DEF SameTables
<1> QED BY <1>3, <1>12, <1>13, <1>14 DEF c, i, input, Committed

\* The ring of the committed frames after the next one.
LEMMA CommitRing ==
    ASSUME Environment, NEW s, Shaped(s), Ring(s), NEW frame, frame = s.last_recv_frame + 1,
           frame < FrameCount, NEW input \in Input, input \in config.mesh[frame + 1],
           NEW t, Committed(s, t, frame, input)
    PROVE  Ring(t) /\ t.committed[frame + 1] = input
             /\ \A i \in 1 .. frame : t.committed[i] = s.committed[i]
<1> DEFINE x == [frame |-> frame, input |-> input]
           k == SlotOf(frame)
<1>1. /\ s.last_recv_frame \in Int /\ s.last_recv_frame >= -1 /\ frame \in Nat
      /\ s.committed \in Seq(Input) /\ t.last_recv_frame = frame
  BY FrameFacts DEF Committed
<1>2. Len(s.committed) = frame
  BY <1>1 DEF Ring
<1>3. /\ Len(t.committed) = frame + 1 /\ t.committed[frame + 1] = input
      /\ \A i \in 1 .. frame : t.committed[i] = s.committed[i]
  BY <1>1, <1>2 DEF Committed
<1>4. \A i \in 1 .. Len(t.committed) : t.committed[i] \in config.mesh[i]
  <2>1. \A i \in 1 .. frame : s.committed[i] \in config.mesh[i]
    BY <1>2 DEF Ring
  <2>2. \A i \in 1 .. frame + 1 : i = frame + 1 \/ i \in 1 .. frame
    BY <1>1
  <2> QED BY <1>3, <2>1, <2>2
<1>5. k \in Slots /\ s.inputs \in [Slots -> HeldInput \cup {None}] /\ x \in HeldInput
  BY <1>1, SlotType DEF Shaped, HeldInput
<1>6. x.frame = frame /\ x.input = input
  OBVIOUS
<1> HIDE DEF x
<1>7. t.inputs[k] = x /\ \A i \in Slots : i # k => t.inputs[i] = s.inputs[i]
  BY <1>5 DEF k, x, Committed
<1> HIDE DEF k
<1>8. ASSUME NEW i \in Slots, t.inputs[i] # None
      PROVE  InWindow(t, t.inputs[i].frame) /\ SlotOf(t.inputs[i].frame) = i
  <2>1. CASE i = k
    BY <1>1, <1>6, <1>7, <2>1, SizeType DEF InWindow, k
  <2>2. CASE i # k
    <3>1. t.inputs[i] = s.inputs[i] /\ s.inputs[i] \in HeldInput
      BY <1>5, <1>7, <1>8, <2>2
    <3> DEFINE g == s.inputs[i].frame
    <3>2. InWindow(s, g) /\ SlotOf(g) = i /\ g \in Nat
      BY <1>8, <3>1 DEF Ring, HeldInput
    <3> HIDE DEF g
    <3>3. g # frame - BufferSize
      BY <1>1, <2>2, <3>2, SlotBack DEF k
    <3>4. InWindow(t, g)
      BY <1>1, <3>2, <3>3, SizeType DEF InWindow
    <3> QED BY <3>1, <3>2, <3>4 DEF g
  <2> QED BY <2>1, <2>2
<1>9. ASSUME NEW f \in Nat, InWindow(t, f)
      PROVE  t.inputs[SlotOf(f)] = [frame |-> f, input |-> t.committed[f + 1]]
  <2>1. CASE f = frame
    BY <1>3, <1>7, <2>1 DEF k, x
  <2>2. CASE f # frame
    <3>1. f < frame /\ frame < f + BufferSize /\ InWindow(s, f) /\ f + 1 \in 1 .. frame
      BY <1>1, <1>9, <2>2, SizeType DEF InWindow
    <3>2. SlotOf(f) # k /\ SlotOf(f) \in Slots
      <4>1. f \in Int /\ frame \in Int /\ ~(frame >= f + BufferSize)
        BY <1>1, <3>1, SizeType
      <4>2. SlotOf(f) # SlotOf(frame)
        BY <3>1, <4>1, SlotsApart
      <4> QED BY <4>1, <4>2, SlotType DEF k
    <3>3. s.inputs[SlotOf(f)] = [frame |-> f, input |-> s.committed[f + 1]]
      BY <3>1 DEF Ring
    <3> QED BY <1>3, <1>7, <3>1, <3>2, <3>3
  <2> QED BY <2>1, <2>2
<1>10. Len(t.committed) = t.last_recv_frame + 1 /\ t.last_recv_frame < FrameCount
  BY <1>1, <1>3
<1>11. Ring(t)
  BY <1>4, <1>8, <1>9, <1>10 DEF Ring
<1> QED BY <1>3, <1>11

\* A flag raised for a contradiction.
LEMMA DivergedKeeps ==
    ASSUME NEW s0, NEW s, NEW d, NEW H, NEW leaving,
           Shaped(s), s.hosts = H, d \in [Hosts -> Nat],
           \A h \in Hosts : d[h] <= Len(confirmed[h]), Staged(s, d), Ring(s), Reports(s0, s),
           config.ahead <= BufferSize => \A h \in s.hosts : d[h] <= s.last_recv_frame + 1 + BufferSize,
           s0.last_recv_frame \in FrameOrNull, s.last_recv_frame >= s0.last_recv_frame, ~OneMesh
    PROVE  Poll(s0, [s EXCEPT !.diverged = TRUE], d, H, leaving)
<1> DEFINE t == [s EXCEPT !.diverged = TRUE]
<1>1. /\ t.hosts = s.hosts /\ t.snapshots = s.snapshots /\ t.witness = s.witness /\ t.epoch = s.epoch
      /\ t.status = s.status /\ t.inputs = s.inputs /\ t.last_recv_frame = s.last_recv_frame
      /\ t.diverged = TRUE /\ t.committed = s.committed
  BY DEF Shaped
<1>2. t \in [hosts : SUBSET Hosts, snapshots : {t.snapshots}, witness : {t.witness},
              epoch : {t.epoch}, status : Status, inputs : [Slots -> HeldInput \cup {None}],
              last_recv_frame : FrameOrNull, diverged : BOOLEAN, committed : Seq(Input)]
  BY <1>1 DEF Shaped
<1> HIDE DEF t
<1>3. Shaped(t)
  BY <1>1, <1>2 DEF Shaped
<1>4. Staged(t, d)
  BY <1>1 DEF Staged
<1>5. Ring(t)
  BY <1>1 DEF Ring, InWindow
<1>6. Agreement(t, d, leaving)
  BY <1>1 DEF Agreement
<1>7. Reports(s0, t)
  BY <1>1 DEF Reports, Follows
<1>8. Poll(s0, t, d, H, leaving)
  BY <1>1, <1>3, <1>4, <1>5, <1>6, <1>7 DEF Poll, Tables
<1> QED BY <1>8 DEF t

\* One round of try_commit_ready_frames.
LEMMA CommitNextKeeps ==
    ASSUME Environment, NEW s0, NEW s, NEW d, NEW H, NEW leaving, Poll(s0, s, d, H, leaving),
           NEW h \in H, NEW compared \in SUBSET H, H \ leaving \subseteq compared
    PROVE  Poll(s0, CommitNext(s, h, compared, leaving), d, H, leaving)
<1> DEFINE frame == s.last_recv_frame + 1
           input == Snapshot(s, h, frame).input
           t == commit_canonical_snapshot(s, h, frame, leaving)
<1>1. /\ Shaped(s) /\ s.hosts = H /\ Tables(s, d, leaving) /\ Reports(s0, s)
      /\ s0.last_recv_frame \in FrameOrNull /\ s.last_recv_frame >= s0.last_recv_frame
  BY DEF Poll
<1>2. /\ d \in [Hosts -> Nat] /\ Staged(s, d) /\ Ring(s) /\ Agreement(s, d, leaving)
      /\ \A g \in Hosts : d[g] <= Len(confirmed[g])
      /\ OneMesh => ~s.diverged
  BY <1>1 DEF Tables
<1>3. s.last_recv_frame \in Int /\ s.last_recv_frame >= -1 /\ frame \in Nat /\ H \subseteq Hosts
        /\ s0.last_recv_frame \in Int
  BY <1>1, FrameFacts DEF FrameOrNull, NULL_FRAME
<1>4. CASE s.diverged \/ Snapshot(s, h, frame) = None
  BY <1>4 DEF CommitNext
<1>5. CASE /\ ~(s.diverged \/ Snapshot(s, h, frame) = None)
           /\ \E o \in compared \ {h} : Contradicts(s, o, frame, input)
  <2>1. PICK o \in compared : Snapshot(s, o, frame) # None /\ Snapshot(s, o, frame).input # input
    BY <1>5 DEF Contradicts
  <2>2. input \in config.mesh[frame + 1] /\ frame < FrameCount
    BY <1>1, <1>2, <1>3, <1>5, SnapshotIs
  <2>3. Snapshot(s, o, frame).input \in config.mesh[frame + 1]
    BY <1>1, <1>2, <1>3, <2>1, SnapshotIs
  <2>4. frame + 1 \in DOMAIN config.mesh
    <3>1. DOMAIN config.mesh = 1 .. FrameCount /\ FrameCount \in Nat
      BY ScenarioFacts DEF FrameCount
    <3> QED BY <1>3, <2>2, <3>1
  <2>5. ~OneMesh
    BY <2>1, <2>2, <2>3, <2>4 DEF OneMesh
  <2>6. Poll(s0, [s EXCEPT !.diverged = TRUE], d, H, leaving)
    BY <1>1, <1>2, <2>5, DivergedKeeps DEF Agreement
  <2> QED BY <1>5, <2>6 DEF CommitNext
<1>6. CASE /\ ~(s.diverged \/ Snapshot(s, h, frame) = None)
           /\ ~\E o \in compared \ {h} : Contradicts(s, o, frame, input)
  <2>1. CommitNext(s, h, compared, leaving) = t
    BY <1>6 DEF CommitNext
  <2>2. /\ input \in Input /\ input \in config.mesh[frame + 1] /\ frame < FrameCount
        /\ input = confirmed[h][frame + 1]
    BY <1>1, <1>2, <1>3, <1>6, SnapshotIs
  <2>3. Shaped(t) /\ Reports(s0, t) /\ Committed(s, t, frame, input)
    BY <1>1, <1>3, <1>6, CommitFields
  <2>10. /\ t.hosts = s.hosts /\ t.snapshots = s.snapshots /\ t.diverged = s.diverged
        /\ t.last_recv_frame = frame
    BY <2>3 DEF Committed
  <2>4. \A o \in compared : Snapshot(s, o, frame) # None => Snapshot(s, o, frame).input = input
    BY <1>6 DEF Contradicts
  <2> HIDE DEF t, input
  <2>5. /\ Ring(t) /\ t.committed[frame + 1] = input
        /\ \A i \in 1 .. frame : t.committed[i] = s.committed[i]
    BY <1>1, <1>2, <2>2, <2>3, CommitRing
  <2>6. Staged(t, d)
    BY <1>2, <2>10 DEF Staged
  <2>7. Agreement(t, d, leaving)
    <3> SUFFICES ASSUME config.ahead <= BufferSize
                 PROVE  /\ \A g \in t.hosts : d[g] <= t.last_recv_frame + 1 + BufferSize
                        /\ \A g \in t.hosts \ leaving : \A f \in Nat :
                              f < d[g] /\ InWindow(t, f) => confirmed[g][f + 1] = t.committed[f + 1]
      BY DEF Agreement
    <3>1. /\ \A g \in H : d[g] <= s.last_recv_frame + 1 + BufferSize
          /\ \A g \in H \ leaving : \A f \in Nat :
                 f < d[g] /\ InWindow(s, f) => confirmed[g][f + 1] = s.committed[f + 1]
      BY <1>1, <1>2, <1>6 DEF Agreement
    <3>2. \A g \in H : d[g] \in Nat
      BY <1>2, <1>3
    <3>3. \A g \in t.hosts : d[g] <= t.last_recv_frame + 1 + BufferSize
      BY <1>1, <1>3, <2>10, <3>1, <3>2, SizeType
    <3>4. ASSUME NEW g \in t.hosts \ leaving, NEW f \in Nat, f < d[g], InWindow(t, f)
          PROVE  confirmed[g][f + 1] = t.committed[f + 1]
      <4>1. g \in H \ leaving /\ g \in compared
        BY <1>1, <2>10
      <4>2. CASE f = frame
        <5>1. f >= d[g] - BufferSize
          BY <1>3, <3>1, <3>2, <4>1, <4>2, SizeType
        <5>2. Snapshot(s, g, f) # None
          BY <1>1, <1>2, <3>4, <4>1, <5>1, SnapshotFound
        <5>3. Snapshot(s, g, f).input = confirmed[g][f + 1]
          BY <1>1, <1>2, <4>1, <5>2, SnapshotIs
        <5> QED BY <2>4, <2>5, <4>1, <4>2, <5>2, <5>3
      <4>3. CASE f # frame
        <5>1. InWindow(s, f) /\ f + 1 \in 1 .. frame
          BY <1>3, <2>10, <3>4, <4>3, SizeType DEF InWindow
        <5>2. confirmed[g][f + 1] = s.committed[f + 1]
          BY <3>1, <3>4, <4>1, <5>1
        <5> QED BY <2>5, <5>1, <5>2
      <4> QED BY <4>2, <4>3
    <3> QED BY <3>3, <3>4
  <2>8. t.last_recv_frame >= s0.last_recv_frame
    BY <1>1, <1>3, <2>10
  <2>9. Poll(s0, t, d, H, leaving)
    BY <1>1, <1>2, <2>10, <2>5, <2>6, <2>7, <2>8, <2>3 DEF Poll, Tables
  <2> QED BY <2>1, <2>9
<1> QED BY <1>4, <1>5, <1>6

\* try_commit_ready_frames.
LEMMA TryCommitKeeps ==
    ASSUME Environment, NEW s0, NEW s, NEW d, NEW H, NEW leaving, Poll(s0, s, d, H, leaving),
           NEW pending, pending = {} \/ \E h \in H : pending = {h}
    PROVE  Poll(s0, try_commit_ready_frames(s, leaving, pending), d, H, leaving)
<1> DEFINE canonical == Canonical(s, leaving, pending)
           compared  == Compared(s, leaving)
           c == Min(canonical)
           y == try_commit_ready_frames(s, leaving, pending)
<1>1. s.hosts = H /\ H \subseteq Hosts /\ Shaped(s)
  BY FrameFacts DEF Poll
<1>2. \/ canonical = {} /\ y = s
      \/ /\ canonical # {}
         /\ \E f : IsLoop(f, BufferSize, s, "commit", c, compared, leaving) /\ y = f[BufferSize]
  BY CommitLoop
<1>3. compared \in SUBSET H /\ H \ leaving \subseteq compared
  BY <1>1 DEF Compared
<1>4. canonical # {} => c \in H
  <2>1. \A S \in SUBSET H : S # {} => Min(S) \in S
    <3>1. H \subseteq FrameOrNull
      BY <1>1, ScenarioFacts DEF FrameOrNull
    <3> QED BY <3>1, MinOfFrames
  <2>2. s.hosts \ leaving # {} => Min(s.hosts \ leaving) \in H
    BY <1>1, <2>1
  <2>3. canonical \in SUBSET H
    BY <2>2 DEF Canonical
  <2> HIDE DEF canonical
  <2> QED BY <2>1, <2>3
<1> HIDE DEF canonical, compared, y, c
<1>5. CASE canonical # {}
  <2>1. PICK f : IsLoop(f, BufferSize, s, "commit", c, compared, leaving) /\ y = f[BufferSize]
    BY <1>2, <1>5
  <2>2. f[0] = s /\ \A n \in 1 .. BufferSize : f[n] = CommitNext(f[n - 1], c, compared, leaving)
    <3>1. \A n, x : Round("commit", c, compared, leaving, n, x) = CommitNext(x, c, compared, leaving)
      BY DEF Round
    <3> QED BY <2>1, <3>1, LoopValues, SizeType
  <2> DEFINE G == {n \in 0 .. BufferSize : Poll(s0, f[n], d, H, leaving)}
  <2>3. 0 \in G
    BY <2>2, SizeType
  <2>4. ASSUME NEW n \in 1 .. BufferSize, n - 1 \in G PROVE n \in G
    <3>1. Poll(s0, f[n - 1], d, H, leaving)
      BY <2>4
    <3>2. Poll(s0, CommitNext(f[n - 1], c, compared, leaving), d, H, leaving)
      BY <1>3, <1>4, <1>5, <3>1, CommitNextKeeps
    <3> QED BY <2>2, <3>2, SizeType
  <2>5. \A n \in 0 .. BufferSize : n \in G
    <3> HIDE DEF G
    <3> QED BY <2>3, <2>4, RoundInduction, SizeType
  <2>6. Poll(s0, f[BufferSize], d, H, leaving)
    BY <2>5, SizeType
  <2> QED BY <2>1, <2>6 DEF y
<1>6. CASE canonical = {}
  BY <1>2, <1>6 DEF y
<1> QED BY <1>5, <1>6


-----------------------------------------------------------------------------
(* A poll.                                                                 *)

\* handle_host_input, of the next frame of a host.
LEMMA HandleKeeps ==
    ASSUME Environment, NEW s0, NEW s, NEW d, NEW H, NEW leaving, Poll(s0, s, d, H, leaving),
           NEW h \in H, NEW frame, frame = d[h], frame < Len(confirmed[h]),
           config.ahead <= BufferSize => frame <= s.last_recv_frame + BufferSize,
           NEW input, input = confirmed[h][frame + 1], NEW status \in Seen(h)
    PROVE  Poll(s0, handle_host_input(s, h, frame, input, status, leaving),
                [d EXCEPT ![h] = @ + 1], H, leaving)
<1> DEFINE e == [d EXCEPT ![h] = @ + 1]
           x == [frame |-> frame, input |-> input, status |-> status]
           t == StagedNext(s, h, frame, input, status)
           pending == h \in leaving
           compareAll == pending /\ s.hosts \subseteq leaving
           others == IF compareAll THEN s.hosts ELSE s.hosts \ leaving
           low == IF pending THEN t ELSE converge_latched_drop_status(t, h, frame)
           found == (~pending \/ compareAll) /\ detect_staged_input_disagreement(t, h, frame, input, others)
           r == handle_host_input(s, h, frame, input, status, leaving)
<1>1. /\ Shaped(s) /\ s.hosts = H /\ Tables(s, d, leaving) /\ Reports(s0, s)
      /\ s0.last_recv_frame \in FrameOrNull /\ s.last_recv_frame >= s0.last_recv_frame
  BY DEF Poll
<1>2. /\ d \in [Hosts -> Nat] /\ Staged(s, d) /\ Ring(s) /\ Agreement(s, d, leaving)
      /\ \A g \in Hosts : d[g] <= Len(confirmed[g])
      /\ OneMesh => ~s.diverged
  BY <1>1 DEF Tables
<1>3. /\ s.last_recv_frame \in Int /\ s.last_recv_frame >= -1 /\ H \subseteq Hosts
      /\ h \in s.hosts /\ h \in Hosts /\ frame \in Nat
  BY <1>1, <1>2, FrameFacts
<1>4. confirmed[h] \in Seq(Input) /\ Len(confirmed[h]) \in Nat /\ Len(confirmed[h]) <= FrameCount
        /\ FrameCount \in Nat /\ DOMAIN config.mesh = 1 .. FrameCount
  <2>1. FrameCount \in Nat /\ DOMAIN config.mesh = 1 .. FrameCount
    BY ScenarioFacts DEF FrameCount
  <2>2. confirmed[h] \in Seq(Input) /\ Len(confirmed[h]) <= FrameCount
    BY <1>3 DEF Environment
  <2> QED BY <2>1, <2>2
<1>5. frame + 1 \in 1 .. Len(confirmed[h]) /\ frame + 1 \in DOMAIN config.mesh
  BY <1>3, <1>4
<1>6. input \in Input /\ input \in config.mesh[frame + 1]
  BY <1>3, <1>4, <1>5, EntryType DEF Environment
<1>7. Shaped(t) /\ Reports(s0, t) /\ IsStaged(s, t, h, x)
  BY <1>1, <1>3, <1>6, StagedFields
<1>8. x \in StagedInput /\ x.frame = frame /\ x.input = input /\ x.status = status
  <2>1. status \in Status
    BY <1>3, SeenIsReported DEF Reported
  <2> QED BY <1>3, <1>6, <2>1 DEF StagedInput
<1>9. r = IF found THEN [t EXCEPT !.diverged = TRUE]
          ELSE IF frame > s.last_recv_frame
          THEN try_commit_ready_frames(low, leaving, IF pending THEN {h} ELSE {})
          ELSE low
  BY DEF handle_host_input, StagedNext
<1> HIDE DEF x, t
<1>10. /\ t.hosts = s.hosts /\ t.inputs = s.inputs /\ t.last_recv_frame = s.last_recv_frame
       /\ t.diverged = s.diverged /\ t.committed = s.committed
       /\ t.snapshots = [s.snapshots EXCEPT ![h][SlotOf(x.frame)] = x]
  BY <1>7 DEF IsStaged
<1>11. Staged(t, e)
  <2>1. /\ x.frame = d[h] /\ x.input = confirmed[h][x.frame + 1] /\ x.status \in Seen(h)
        /\ t.snapshots = [s.snapshots EXCEPT ![h][SlotOf(x.frame)] = x]
    BY <1>7, <1>10, <1>8
  <2>2. Shaped(s) /\ d \in [Hosts -> Nat] /\ Staged(s, d) /\ h \in s.hosts /\ Shaped(t) /\ t.hosts = s.hosts
    BY <1>1, <1>2, <1>3, <1>7, <1>10
  <2> QED BY <1>8, <2>1, <2>2, StagedKeeps, Zenon
<1>12. /\ e \in [Hosts -> Nat] /\ e[h] = frame + 1 /\ \A g \in Hosts : g # h => e[g] = d[g]
  BY <1>2, <1>3
<1>13. \A g \in Hosts : e[g] <= Len(confirmed[g])
  BY <1>2, <1>3, <1>4, <1>12
<1>14. Ring(t)
  BY <1>2, <1>7, <1>10 DEF Ring, InWindow
<1> HIDE DEF e
<1>15. config.ahead <= BufferSize => \A g \in t.hosts : e[g] <= t.last_recv_frame + 1 + BufferSize
  BY <1>1, <1>2, <1>3, <1>7, <1>10, <1>12, SizeType DEF Agreement
<1>16. CASE found
  <2>1. ~OneMesh
    <3>1. CASE \E o \in others \ {h} : Contradicts(t, o, frame, input)
      <4>1. PICK o \in s.hosts : Snapshot(t, o, frame) # None /\ Snapshot(t, o, frame).input # input
        BY <3>1 DEF Contradicts
      <4>2. Snapshot(t, o, frame).input \in config.mesh[frame + 1]
        BY <1>3, <1>7, <1>10, <1>11, <1>12, <1>13, <4>1, SnapshotIs
      <4> QED BY <1>5, <1>6, <4>1, <4>2 DEF OneMesh
    <3>2. CASE ~\E o \in others \ {h} : Contradicts(t, o, frame, input)
      <4> DEFINE y == s.inputs[SlotOf(frame)]
      <4>1. frame <= s.last_recv_frame /\ y # None /\ y.frame = frame /\ y.input # input
        BY <1>7, <1>10, <1>16, <3>2 DEF detect_staged_input_disagreement
      <4>2. SlotOf(frame) \in Slots
        BY <1>3, SlotType
      <4>3. InWindow(s, frame)
        BY <1>2, <4>1, <4>2 DEF Ring
      <4>4. y = [frame |-> frame, input |-> s.committed[frame + 1]]
        BY <1>2, <1>3, <4>3 DEF Ring
      <4>5. y.input = s.committed[frame + 1]
        BY <4>4
      <4>6. frame + 1 \in 1 .. Len(s.committed)
        BY <1>2, <1>3, <4>1 DEF Ring
      <4>7. y.input \in config.mesh[frame + 1]
        BY <1>2, <4>5, <4>6 DEF Ring
      <4> QED BY <1>5, <1>6, <4>1, <4>7 DEF OneMesh
    <3> QED BY <3>1, <3>2
  <2>2. Poll(s0, [t EXCEPT !.diverged = TRUE], e, H, leaving)
    BY <1>1, <1>7, <1>10, <1>11, <1>12, <1>13, <1>14, <1>15, <2>1, DivergedKeeps
  <2> QED BY <1>9, <1>16, <2>2 DEF e
<1>17. CASE ~found
  <2>1. ASSUME config.ahead <= BufferSize, ~t.diverged, NEW g \in t.hosts \ leaving, NEW f \in Nat,
               f < e[g], InWindow(t, f)
        PROVE  confirmed[g][f + 1] = t.committed[f + 1]
    <3>1. g \in s.hosts \ leaving /\ g \in Hosts /\ InWindow(s, f)
      BY <1>1, <1>3, <1>7, <1>10, <2>1 DEF InWindow
    <3>2. CASE g = h /\ f = frame
      <4>1. s.inputs[SlotOf(f)] = [frame |-> f, input |-> s.committed[f + 1]]
        BY <1>2, <3>1 DEF Ring
      <4>2. [frame |-> f, input |-> s.committed[f + 1]] \in HeldInput
        <5>1. f + 1 \in 1 .. Len(s.committed) /\ s.committed \in Seq(Input)
          BY <1>1, <1>2, <1>3, <3>1, FrameFacts DEF Ring, InWindow
        <5>2. s.committed[f + 1] \in Input
          BY <5>1, EntryType
        <5> QED BY <5>2 DEF HeldInput
      <4>3. s.inputs[SlotOf(f)] # None
        BY <4>1, <4>2, NoneIsNoEntry
      <4>4. /\ s.inputs[SlotOf(f)].frame = f /\ s.inputs[SlotOf(f)].input = s.committed[f + 1]
            /\ f <= s.last_recv_frame
        BY <3>1, <4>1 DEF InWindow
      <4>5. ~pending
        BY <3>1, <3>2
      <4>6. input = s.committed[f + 1]
        BY <1>7, <1>10, <1>17, <3>2, <4>3, <4>4, <4>5 DEF detect_staged_input_disagreement
      <4> QED BY <1>7, <1>10, <3>2, <4>6
    <3>3. CASE ~(g = h /\ f = frame)
      <4>1. f < d[g]
        BY <1>2, <1>3, <1>12, <2>1, <3>1, <3>3
      <4> QED BY <1>2, <1>7, <1>10, <2>1, <3>1, <4>1 DEF Agreement
    <3> QED BY <3>2, <3>3
  <2>2. Agreement(t, e, leaving)
    BY <1>15, <2>1 DEF Agreement
  <2>3. Tables(t, e, leaving)
    BY <1>2, <1>7, <1>10, <1>11, <1>12, <1>13, <1>14, <2>2 DEF Tables
  <2>4. Shaped(low) /\ SameTables(t, low) /\ Reports(s0, low)
    <3>1. CASE pending
      BY <1>7, <1>10, <3>1 DEF SameTables
    <3>2. CASE ~pending
      <4>1. h \in t.hosts /\ frame \in Int
        BY <1>3, <1>7, <1>10
      <4>2. LET u == converge_latched_drop_status(t, h, frame)
            IN  Shaped(u) /\ SameTables(t, u) /\ Reports(s0, u)
        BY <1>7, <1>10, <1>11, <1>12, <1>13, <4>1, LatchedKeeps
      <4> QED BY <3>2, <4>2
    <3> QED BY <3>1, <3>2
  <2> HIDE DEF low
  <2>5. Tables(low, e, leaving)
    BY <2>3, <2>4, SameTablesKept
  <2>6. Poll(s0, low, e, H, leaving)
    BY <1>1, <1>7, <1>10, <2>4, <2>5 DEF Poll, SameTables
  <2>7. Poll(s0, try_commit_ready_frames(low, leaving, IF pending THEN {h} ELSE {}), e, H, leaving)
    <3> DEFINE q == IF pending THEN {h} ELSE {}
    <3>1. q = {} \/ \E g \in H : q = {g}
      OBVIOUS
    <3> HIDE DEF q
    <3>2. Poll(s0, try_commit_ready_frames(low, leaving, q), e, H, leaving)
      BY <2>6, <3>1, TryCommitKeeps
    <3> QED BY <3>2 DEF q
  <2> QED BY <1>9, <1>17, <2>6, <2>7 DEF e
<1> QED BY <1>16, <1>17

\* The frames of one host, one after the other.
LEMMA BatchKeeps ==
    ASSUME Environment, NEW s0, NEW s, NEW d, NEW H, NEW leaving, Poll(s0, s, d, H, leaving),
           NEW h \in H, NEW count \in Nat, d[h] = delivered[h],
           delivered[h] + count <= Len(confirmed[h]),
           config.ahead <= BufferSize /\ count > 0
               => delivered[h] + count - 1 <= s0.last_recv_frame + BufferSize
    PROVE  Poll(s0, HandleBatch(s, h, count, leaving), [d EXCEPT ![h] = @ + count], H, leaving)
<1> DEFINE status == Views(h)[view[h]].status
           at(n) == [d EXCEPT ![h] = @ + n]
<1>1. d \in [Hosts -> Nat] /\ h \in Hosts /\ d[h] \in Nat /\ s0.last_recv_frame \in Int
  BY FrameFacts DEF Poll, Tables, FrameOrNull, NULL_FRAME
<1>2. Len(confirmed[h]) \in Nat
  BY <1>1 DEF Environment
<1>3. status \in Seen(h)
  <2>1. view[h] \in 1 .. view[h]
    BY <1>1 DEF Environment
  <2> QED BY <2>1 DEF Seen
<1>4. PICK f : /\ IsLoop(f, count, s, "batch", h, {}, leaving)
               /\ HandleBatch(s, h, count, leaving) = f[count]
  BY BatchLoop
<1>5. /\ f[0] = s
      /\ \A n \in 1 .. count :
             f[n] = handle_host_input(f[n - 1], h, delivered[h] + n - 1, confirmed[h][delivered[h] + n],
                                      status, leaving)
  <2>1. \A n, x : Round("batch", h, {}, leaving, n, x)
                    = handle_host_input(x, h, delivered[h] + n - 1, confirmed[h][delivered[h] + n],
                                        status, leaving)
    BY DEF Round
  <2> HIDE DEF status
  <2> QED BY <1>4, <2>1, LoopValues
<1> HIDE DEF status
<1> DEFINE G == {n \in 0 .. count : Poll(s0, f[n], at(n), H, leaving)}
<1>6. 0 \in G
  <2>1. at(0) = d
    BY <1>1
  <2> QED BY <1>5, <2>1
<1>7. ASSUME NEW n \in 1 .. count, n - 1 \in G PROVE n \in G
  <2> DEFINE b == at(n - 1)
             frame == delivered[h] + n - 1
             input == confirmed[h][delivered[h] + n]
             y == [b EXCEPT ![h] = @ + 1]
  <2>1. Poll(s0, f[n - 1], b, H, leaving)
    BY <1>7
  <2>2. frame = b[h] /\ frame < Len(confirmed[h]) /\ delivered[h] + n = frame + 1 /\ frame \in Nat
    BY <1>1, <1>2
  <2>3. config.ahead <= BufferSize => frame <= f[n - 1].last_recv_frame + BufferSize
    <3>1. f[n - 1].last_recv_frame >= s0.last_recv_frame /\ f[n - 1].last_recv_frame \in Int
      BY <2>1, FrameFacts DEF Poll
    <3>2. SUFFICES ASSUME config.ahead <= BufferSize
                   PROVE  frame <= f[n - 1].last_recv_frame + BufferSize
      OBVIOUS
    <3>3. count > 0 /\ delivered[h] \in Nat
      BY <1>1
    <3>4. delivered[h] + count - 1 <= s0.last_recv_frame + BufferSize
      BY <3>2, <3>3
    <3>5. frame <= delivered[h] + count - 1 /\ delivered[h] + count - 1 \in Int
      BY <3>3
    <3> HIDE DEF frame
    <3> QED BY <1>1, <2>2, <3>1, <3>4, <3>5, SizeType
  <2>4. y = at(n)
    BY <1>1
  <2>5. input = confirmed[h][frame + 1]
    BY <2>2
  <2> HIDE DEF at, b, frame, input
  <2>6. Poll(s0, handle_host_input(f[n - 1], h, frame, input, status, leaving),
             y, H, leaving)
    BY <1>3, <2>1, <2>2, <2>3, <2>5, HandleKeeps
  <2> HIDE DEF y
  <2>7. f[n] = handle_host_input(f[n - 1], h, frame, input, status, leaving)
    BY <1>5 DEF frame, input
  <2>8. Poll(s0, f[n], at(n), H, leaving) /\ n \in 0 .. count
    BY <2>4, <2>6, <2>7
  <2> QED BY <2>8
<1>8. \A n \in 0 .. count : n \in G
  <2> HIDE DEF G
  <2> QED BY <1>6, <1>7, RoundInduction
<1>9. Poll(s0, f[count], at(count), H, leaving)
  <2> HIDE DEF at
  <2> QED BY <1>8
<1> QED BY <1>4, <1>9

\* The tables of the hosts that leave are of no matter.
LEMMA RemoveKeeps ==
    ASSUME Environment, NEW s0, NEW s, NEW d, NEW H, NEW leaving, Poll(s0, s, d, H, leaving)
    PROVE  Poll(s0, remove_disconnected_hosts(s, leaving), d, H \ leaving, {})
<1> DEFINE K == s.hosts \ leaving
           n == [h \in K |-> s.snapshots[h]]
           w == [h \in K |-> s.witness[h]]
           e == [h \in K |-> s.epoch[h]]
           t == remove_disconnected_hosts(s, leaving)
<1>1. /\ Shaped(s) /\ s.hosts = H /\ Tables(s, d, leaving) /\ Reports(s0, s)
      /\ s0.last_recv_frame \in FrameOrNull /\ s.last_recv_frame >= s0.last_recv_frame
  BY DEF Poll
<1>2. t = [s EXCEPT !.hosts = K, !.snapshots = n, !.witness = w, !.epoch = e]
  BY <1>1 DEF remove_disconnected_hosts, Shaped
<1>3. /\ n \in [K -> [Slots -> StagedInput \cup {None}]] /\ \A h \in K : n[h] = s.snapshots[h]
      /\ w \in [K -> Witness \cup {None}] /\ \A h \in K : w[h] = s.witness[h]
      /\ e \in [K -> Nat] /\ K \in SUBSET Hosts /\ K \subseteq s.hosts /\ K = H \ leaving
  BY <1>1 DEF Shaped
<1> HIDE DEF n, w, e, K
<1>4. /\ t.hosts = K /\ t.snapshots = n /\ t.witness = w /\ t.epoch = e
      /\ t.status = s.status /\ t.inputs = s.inputs /\ t.last_recv_frame = s.last_recv_frame
      /\ t.diverged = s.diverged /\ t.committed = s.committed
  BY <1>1, <1>2 DEF Shaped
<1>5. t \in [hosts : SUBSET Hosts, snapshots : {t.snapshots}, witness : {t.witness},
              epoch : {t.epoch}, status : Status, inputs : [Slots -> HeldInput \cup {None}],
              last_recv_frame : FrameOrNull, diverged : BOOLEAN, committed : Seq(Input)]
  BY <1>1, <1>2, <1>3, <1>4 DEF Shaped
<1> HIDE DEF t
<1>6. Shaped(t)
  BY <1>3, <1>4, <1>5 DEF Shaped
<1>7. Staged(t, d)
  <2>1. \A h \in t.hosts : h \in s.hosts /\ t.snapshots[h] = s.snapshots[h]
    BY <1>3, <1>4
  <2>2. Staged(s, d)
    BY <1>1 DEF Tables
  <2> QED BY <2>1, <2>2 DEF Staged
<1>8. Ring(t)
  BY <1>1, <1>4 DEF Tables, Ring, InWindow
<1>9. Agreement(t, d, {})
  BY <1>1, <1>3, <1>4 DEF Tables, Agreement, InWindow, K
<1>10. Reports(s0, t)
  BY <1>1, <1>3, <1>4 DEF Reports, Follows
<1>11. Poll(s0, t, d, H \ leaving, {})
  BY <1>1, <1>3, <1>4, <1>6, <1>7, <1>8, <1>9, <1>10 DEF Poll, Tables
<1> QED BY <1>11 DEF t

\* What each host has delivered after a poll that brought batch.
DeliveredAfter(batch) ==
    [h \in Hosts |-> IF h \in session.hosts THEN delivered[h] + batch[h] ELSE delivered[h]]

LEMMA PolledKeeps ==
    ASSUME Environment, Poll(session, session, delivered, session.hosts, {}),
           current_frame \in Int, current_frame <= session.last_recv_frame,
           NEW batch \in Batches, NEW leaving \in SUBSET session.hosts
    PROVE  Poll(session, Polled(batch, leaving), DeliveredAfter(batch), session.hosts \ leaving, {})
<1> DEFINE H == session.hosts
           N == Len(config.views)
           at(n) == [h \in Hosts |-> IF h \in H /\ h <= n THEN delivered[h] + batch[h] ELSE delivered[h]]
<1>1. /\ Shaped(session) /\ Tables(session, delivered, {}) /\ delivered \in [Hosts -> Nat]
      /\ session.last_recv_frame \in Int /\ H \subseteq Hosts
  BY FrameFacts DEF Poll, Tables
<1>2. N \in Nat /\ Hosts = 1 .. N /\ config.ahead \in Nat
  BY ScenarioFacts
<1>3. /\ batch \in [H -> 0 .. MaxBatch]
      /\ \A h \in H : /\ delivered[h] + batch[h] <= Len(confirmed[h])
                      /\ batch[h] > 0 => delivered[h] + batch[h] - 1 <= current_frame + config.ahead
  BY DEF Batches
<1>4. \A h \in H : batch[h] \in Nat /\ delivered[h] \in Nat
  BY <1>1, <1>3, SizeType
<1>5. PICK f : /\ IsLoop(f, N, session, "poll", batch, {}, leaving)
               /\ Polled(batch, leaving)
                    = try_commit_ready_frames(remove_disconnected_hosts(f[N], leaving), {}, {})
  BY <1>2, PollLoop
<1>6. /\ f[0] = session
      /\ \A n \in 1 .. N : f[n] = IF n \in H THEN HandleBatch(f[n - 1], n, batch[n], leaving) ELSE f[n - 1]
  <2>1. \A n, x : Round("poll", batch, {}, leaving, n, x)
                    = IF n \in H THEN HandleBatch(x, n, batch[n], leaving) ELSE x
    BY DEF Round
  <2> QED BY <1>2, <1>5, <2>1, LoopValues
<1> DEFINE G == {n \in 0 .. N : Poll(session, f[n], at(n), H, leaving)}
<1>7. 0 \in G
  <2>1. at(0) = delivered
    BY <1>1, <1>2
  <2>2. Agreement(session, delivered, leaving)
    BY <1>1 DEF Tables, Agreement
  <2>3. Poll(session, session, delivered, H, leaving)
    BY <2>2 DEF Poll, Tables
  <2> QED BY <1>2, <1>6, <2>1, <2>3
<1>8. ASSUME NEW n \in 1 .. N, n - 1 \in G PROVE n \in G
  <2> DEFINE b == at(n - 1)
             y == [b EXCEPT ![n] = @ + batch[n]]
  <2>1. Poll(session, f[n - 1], b, H, leaving)
    BY <1>8
  <2>2. CASE n \in H
    <3>1. /\ b[n] = delivered[n] /\ batch[n] \in Nat
          /\ delivered[n] + batch[n] <= Len(confirmed[n])
          /\ batch[n] > 0 => delivered[n] + batch[n] - 1 <= current_frame + config.ahead
      BY <1>1, <1>2, <1>3, <1>4, <2>2
    <3>2. config.ahead <= BufferSize /\ batch[n] > 0
             => delivered[n] + batch[n] - 1 <= session.last_recv_frame + BufferSize
      <4> SUFFICES ASSUME config.ahead <= BufferSize, batch[n] > 0
                   PROVE  delivered[n] + batch[n] - 1 <= session.last_recv_frame + BufferSize
        OBVIOUS
      <4>1. delivered[n] + batch[n] - 1 \in Int /\ delivered[n] + batch[n] - 1 <= current_frame + config.ahead
        BY <1>4, <2>2, <3>1
      <4> QED BY <1>1, <1>2, <4>1, SizeType
    <3>3. y = at(n)
      <4>1. \A h \in Hosts : h # n => (h <= n - 1 <=> h <= n)
        BY <1>2
      <4>2. n \in Hosts /\ n \in H /\ n <= n /\ ~(n <= n - 1)
        BY <1>2, <2>2
      <4>3. \A h \in Hosts : at(n)[h] = y[h]
        BY <4>1, <4>2
      <4> QED BY <4>3
    <3> HIDE DEF at, b
    <3>4. Poll(session, HandleBatch(f[n - 1], n, batch[n], leaving),
               y, H, leaving)
      BY <2>1, <2>2, <3>1, <3>2, BatchKeeps
    <3> HIDE DEF y
    <3>5. Poll(session, f[n], at(n), H, leaving) /\ n \in 0 .. N
      BY <1>2, <1>6, <2>2, <3>3, <3>4
    <3> QED BY <3>5
  <2>3. CASE n \notin H
    <3>1. b = at(n)
      <4>1. \A h \in H : h <= n - 1 <=> h <= n
        BY <1>1, <1>2, <2>3
      <4> QED BY <4>1
    <3> HIDE DEF at, b
    <3> QED BY <1>6, <2>1, <2>3, <3>1
  <2> QED BY <2>2, <2>3
<1>9. \A n \in 0 .. N : n \in G
  <2> HIDE DEF G, N
  <2> QED BY <1>2, <1>7, <1>8, RoundInduction
<1>10. at(N) = DeliveredAfter(batch)
  BY <1>1, <1>2 DEF DeliveredAfter
<1>11. Poll(session, f[N], DeliveredAfter(batch), H, leaving)
  <2> HIDE DEF at
  <2> QED BY <1>2, <1>9, <1>10
<1>12. Poll(session, remove_disconnected_hosts(f[N], leaving), DeliveredAfter(batch), H \ leaving, {})
  BY <1>11, RemoveKeeps
<1>13. Poll(session, try_commit_ready_frames(remove_disconnected_hosts(f[N], leaving), {}, {}),
            DeliveredAfter(batch), H \ leaving, {})
  BY <1>12, TryCommitKeeps
<1> QED BY <1>5, <1>13

-----------------------------------------------------------------------------
(* Playback.                                                               *)

\* Every saved state is of a frame that was committed, and is the game before it.
Cells(table, last) ==
    \A i \in Slots : table[i] # None => table[i].frame <= last /\ Len(table[i].game) = table[i].frame

\* What the loop of advance_frame keeps: a frame it has played is one the committed
\* ring still holds, so that the next one cannot be found overwritten.
Playing(p, s) ==
    /\ p \in [frame : Int, game : Seq(Input), saved : [Slots -> SavedGame \cup {None}], stop : BOOLEAN]
    /\ p.frame >= current_frame /\ p.frame <= s.last_recv_frame
    /\ Len(p.game) = p.frame + 1
    /\ Cells(p.saved, s.last_recv_frame)
    /\ p.frame > current_frame => InWindow(s, p.frame)

\* The state that playback works on.
Playback(s) ==
    /\ current_frame \in FrameOrNull /\ current_frame <= s.last_recv_frame
    /\ game \in Seq(Input) /\ Len(game) = current_frame + 1
    /\ saved \in [Slots -> SavedGame \cup {None}] /\ Cells(saved, s.last_recv_frame)

LEMMA ViewableFrame ==
    ASSUME Environment, NEW s, Shaped(s)
    PROVE  viewable_frame(s) \in Int /\ viewable_frame(s) <= s.last_recv_frame
<1>1. s.last_recv_frame \in Int /\ s.last_recv_frame >= -1 /\ config.stream_delay \in Nat
  BY FrameFacts, ScenarioFacts
<1> DEFINE a == s.last_recv_frame - config.stream_delay
           b == NULL_FRAME
<1>2. a \in Int /\ b \in Int /\ a <= s.last_recv_frame /\ b <= s.last_recv_frame
  BY <1>1 DEF NULL_FRAME
<1>3. viewable_frame(s) = s.last_recv_frame \/ viewable_frame(s) = Max({a, b})
  BY DEF viewable_frame
<1> HIDE DEF a, b
<1>4. Max({a, b}) \in {a, b}
  <2>1. \E x \in {a, b} : \A y \in {a, b} : x >= y
    BY <1>2
  <2> QED BY <2>1, Zenon DEF Max
<1> QED BY <1>1, <1>2, <1>3, <1>4

\* What inputs_at_frame answers.
LEMMA InputsAtFrame ==
    ASSUME Environment, NEW s, Shaped(s), Ring(s), NEW frame \in Nat
    PROVE  \/ inputs_at_frame(s, frame) \in Errors /\ ~InWindow(s, frame)
           \/ inputs_at_frame(s, frame) \in Input \ Errors /\ InWindow(s, frame)
<1> DEFINE held == s.inputs[SlotOf(frame)]
           freeze == s.status.last_frame
           frozen == IF freeze = NULL_FRAME THEN None ELSE s.inputs[SlotOf(freeze)]
           r == inputs_at_frame(s, frame)
<1>1. /\ SlotOf(frame) \in Slots /\ held \in HeldInput \cup {None}
      /\ s.inputs \in [Slots -> HeldInput \cup {None}]
  BY SlotType DEF Shaped
<1>2. freeze \in Int /\ SlotOf(freeze) \in Slots
  BY SlotType, StatusFields DEF Shaped
<1>3. frozen \in HeldInput \cup {None}
  BY <1>1, <1>2
<1>4. \A x \in HeldInput : x.frame \in Nat /\ x.input \in Input
  BY DEF HeldInput
<1>5. r = IF held = None THEN "PredictionThreshold"
          ELSE IF held.frame > frame THEN "SpectatorTooFarBehind"
          ELSE IF held.frame < frame THEN "PredictionThreshold"
          ELSE IF s.status.disconnected /\ freeze < frame /\ frozen # None /\ frozen.frame = freeze
          THEN frozen.input
          ELSE held.input
  BY DEF inputs_at_frame
<1>6. InWindow(s, frame) => held # None /\ held.frame = frame
  <2> SUFFICES ASSUME InWindow(s, frame) PROVE held # None /\ held.frame = frame
    OBVIOUS
  <2>1. held = [frame |-> frame, input |-> s.committed[frame + 1]]
    BY DEF Ring
  <2>2. frame + 1 \in 1 .. Len(s.committed) /\ s.committed \in Seq(Input)
    BY FrameFacts DEF Ring, InWindow
  <2>3. s.committed[frame + 1] \in Input
    BY <2>2, EntryType
  <2>4. [frame |-> frame, input |-> s.committed[frame + 1]] \in HeldInput
    BY <2>3 DEF HeldInput
  <2> QED BY <2>1, <2>4, NoneIsNoEntry
<1>7. held # None => InWindow(s, held.frame)
  BY <1>1 DEF Ring
<1>8. {"PredictionThreshold", "SpectatorTooFarBehind"} = Errors /\ Input \cap Errors = {}
  BY InputAssumption DEF Errors
<1> HIDE DEF held, freeze, frozen, r
<1>9. CASE held = None \/ held.frame > frame \/ held.frame < frame
  <2>1. r \in Errors
    BY <1>5, <1>8, <1>9
  <2>2. ~InWindow(s, frame)
    BY <1>6, <1>9
  <2> QED BY <2>1, <2>2 DEF r
<1>10. CASE ~(held = None \/ held.frame > frame \/ held.frame < frame)
  <2>1. held \in HeldInput /\ held.frame = frame /\ held.input \in Input
    BY <1>1, <1>4, <1>10
  <2>2. r \in Input
    BY <1>3, <1>4, <1>5, <1>10, <2>1
  <2> QED BY <1>7, <1>8, <1>10, <2>1, <2>2 DEF r
<1> QED BY <1>9, <1>10

LEMMA PlayNextKeeps ==
    ASSUME Environment, NEW s, Shaped(s), Ring(s), Playback(s), NEW p, Playing(p, s)
    PROVE  Playing(PlayNext(p, s), s)
<1> DEFINE frame == p.frame + 1
           input == inputs_at_frame(s, frame)
           q == PlayNext(p, s)
<1>1. /\ p \in [frame : Int, game : Seq(Input), saved : [Slots -> SavedGame \cup {None}], stop : BOOLEAN]
      /\ p.frame \in Int /\ p.frame >= current_frame /\ p.frame <= s.last_recv_frame
      /\ Len(p.game) = p.frame + 1 /\ Cells(p.saved, s.last_recv_frame)
      /\ p.frame > current_frame => InWindow(s, p.frame)
      /\ p.game \in Seq(Input) /\ p.saved \in [Slots -> SavedGame \cup {None}]
  BY DEF Playing
<1>2. current_frame \in Int /\ current_frame >= -1 /\ frame \in Nat
  BY <1>1 DEF Playback, FrameOrNull, NULL_FRAME
<1>3. s.last_recv_frame \in Int /\ viewable_frame(s) \in Int /\ viewable_frame(s) <= s.last_recv_frame
  BY FrameFacts, ViewableFrame
<1>4. \/ input \in Errors /\ ~InWindow(s, frame)
      \/ input \in Input \ Errors /\ InWindow(s, frame)
  BY <1>2, InputsAtFrame
<1>5. q = IF p.stop \/ frame > viewable_frame(s) THEN [p EXCEPT !.stop = TRUE]
          ELSE IF input = "SpectatorTooFarBehind"
          THEN [p EXCEPT !.game = game, !.saved = saved, !.stop = TRUE]
          ELSE IF input \in Errors THEN [p EXCEPT !.stop = TRUE]
          ELSE [frame |-> frame,
                game  |-> Append(p.game, input),
                saved |-> IF config.rewind
                          THEN [p.saved EXCEPT ![SlotOf(frame)] = [frame |-> frame, game |-> p.game]]
                          ELSE p.saved,
                stop  |-> FALSE]
  BY DEF PlayNext
<1> HIDE DEF input, q
<1>6. Playing([p EXCEPT !.stop = TRUE], s)
  BY <1>1 DEF Playing
<1>7. CASE ~(p.stop \/ frame > viewable_frame(s)) /\ input = "SpectatorTooFarBehind"
  <2>1. q = [p EXCEPT !.game = game, !.saved = saved, !.stop = TRUE]
    BY <1>5, <1>7
  <2>2. ~InWindow(s, frame)
    BY <1>4, <1>7 DEF Errors
  <2>3. p.frame = current_frame
    BY <1>1, <1>2, <1>3, <1>7, <2>2, SizeType DEF InWindow
  <2>4. /\ game \in Seq(Input) /\ Len(game) = current_frame + 1
        /\ saved \in [Slots -> SavedGame \cup {None}] /\ Cells(saved, s.last_recv_frame)
    BY DEF Playback
  <2>5. q \in [frame : Int, game : Seq(Input), saved : [Slots -> SavedGame \cup {None}], stop : BOOLEAN]
          /\ q.frame = p.frame /\ q.game = game /\ q.saved = saved
    BY <1>1, <2>1, <2>4
  <2>6. Playing(q, s)
    BY <1>1, <1>2, <2>3, <2>4, <2>5 DEF Playing
  <2> QED BY <2>6 DEF q
<1>8. CASE ~(p.stop \/ frame > viewable_frame(s)) /\ input \notin Errors
  <2> DEFINE x == [frame |-> frame, game |-> p.game]
             table == IF config.rewind THEN [p.saved EXCEPT ![SlotOf(frame)] = x] ELSE p.saved
             g == Append(p.game, input)
  <2>1. input # "SpectatorTooFarBehind" /\ input \in Input /\ InWindow(s, frame)
    BY <1>4, <1>8 DEF Errors
  <2>2. q = [frame |-> frame, game |-> g, saved |-> table, stop |-> FALSE]
    BY <1>5, <1>8, <2>1
  <2>3. x \in SavedGame /\ x.frame = frame /\ x.game = p.game /\ SlotOf(frame) \in Slots
    BY <1>1, <1>2, SlotType DEF SavedGame
  <2>4. frame <= s.last_recv_frame
    BY <1>2, <1>3, <1>8
  <2> HIDE DEF x
  <2>5. table \in [Slots -> SavedGame \cup {None}] /\ Cells(table, s.last_recv_frame)
    <3>1. \A i \in Slots : table[i] = x \/ table[i] = p.saved[i]
      BY <1>1, <2>3
    <3>2. table \in [Slots -> SavedGame \cup {None}]
      BY <1>1, <2>3
    <3> HIDE DEF table
    <3> QED BY <1>1, <2>3, <2>4, <3>1, <3>2 DEF Cells
  <2>6. g \in Seq(Input) /\ Len(g) = frame + 1
    BY <1>1, <1>2, <2>1
  <2> HIDE DEF table, g
  <2>7. q \in [frame : Int, game : Seq(Input), saved : [Slots -> SavedGame \cup {None}], stop : BOOLEAN]
          /\ q.frame = frame /\ q.game = g /\ q.saved = table
    BY <1>2, <2>2, <2>5, <2>6
  <2>8. Playing(q, s)
    BY <1>1, <1>2, <2>1, <2>4, <2>5, <2>6, <2>7 DEF Playing
  <2> QED BY <2>8 DEF q
<1>9. CASE \/ p.stop \/ frame > viewable_frame(s)
           \/ input # "SpectatorTooFarBehind" /\ input \in Errors
  <2>1. q = [p EXCEPT !.stop = TRUE]
    BY <1>5, <1>9
  <2> QED BY <1>6, <2>1 DEF q
<1> QED BY <1>7, <1>8, <1>9

LEMMA AdvancedKeeps ==
    ASSUME Environment, NEW s, Shaped(s), Ring(s), Playback(s)
    PROVE  Playing(Advanced(s), s)
<1> DEFINE N == frames_to_advance(s)
           begin == [frame |-> current_frame, game |-> game, saved |-> saved, stop |-> FALSE]
<1>1. N \in Nat
  BY ScenarioFacts DEF frames_to_advance
<1>2. PICK f : IsLoop(f, N, begin, "play", s, {}, {}) /\ Advanced(s) = f[N]
  BY <1>1, PlayLoop
<1>3. Playing(begin, s)
  <2>1. begin \in [frame : Int, game : Seq(Input), saved : [Slots -> SavedGame \cup {None}], stop : BOOLEAN]
    BY DEF Playback, FrameOrNull, NULL_FRAME
  <2>2. begin.frame = current_frame /\ begin.game = game /\ begin.saved = saved /\ current_frame \in Int
    BY DEF Playback, FrameOrNull, NULL_FRAME
  <2> HIDE DEF begin
  <2> QED BY <2>1, <2>2 DEF Playing, Playback
<1> HIDE DEF begin, N
<1>4. f[0] = begin /\ \A n \in 1 .. N : f[n] = PlayNext(f[n - 1], s)
  <2>1. \A n, x : Round("play", s, {}, {}, n, x) = PlayNext(x, s)
    BY DEF Round
  <2> QED BY <1>1, <1>2, <2>1, LoopValues
<1> DEFINE G == {n \in 0 .. N : Playing(f[n], s)}
<1>5. 0 \in G
  BY <1>1, <1>3, <1>4
<1>6. ASSUME NEW n \in 1 .. N, n - 1 \in G PROVE n \in G
  <2>1. Playing(PlayNext(f[n - 1], s), s)
    BY <1>6, PlayNextKeeps
  <2> QED BY <1>1, <1>4, <2>1
<1>7. \A n \in 0 .. N : n \in G
  <2> HIDE DEF G
  <2> QED BY <1>1, <1>5, <1>6, RoundInduction
<1> QED BY <1>1, <1>2, <1>7

-----------------------------------------------------------------------------
(* The steps.                                                              *)

SpectatorInvariant ==
    /\ Environment
    /\ Poll(session, session, delivered, session.hosts, {})
    /\ Playback(session)

LEMMA InitInvariant == Init => SpectatorInvariant
<1> SUFFICES ASSUME Init PROVE SpectatorInvariant
  OBVIOUS
<1>1. Environment
  <2>1. config \in Scenarios /\ config.mesh \in Seq(SUBSET Input)
    BY ScenarioAssumption DEF Init
  <2>2. \A h \in Hosts : Len(Views(h)) > 0 /\ Len(Views(h)) \in Nat
    <3>1. /\ config.views \in Seq(Seq([status : Status, inputs : Seq(Input)]))
          /\ \A h \in DOMAIN config.views : Len(config.views[h]) > 0
      BY <2>1, ScenarioAssumption
    <3> QED BY <3>1 DEF Hosts, Views
  <2>3. view = [h \in Hosts |-> 1] /\ confirmed = [h \in Hosts |-> <<>>]
    BY DEF Init
  <2>4. view \in [Hosts -> Nat] /\ \A h \in Hosts : view[h] \in 1 .. Len(Views(h))
    BY <2>2, <2>3
  <2>5. \A h \in Hosts : confirmed[h] = <<>>
    BY <2>3
  <2>6. confirmed \in [Hosts -> Seq(Input)] /\ \A h \in Hosts : Len(confirmed[h]) = 0
    BY <2>3, <2>5
  <2>7. FrameCount \in Nat
    BY <2>1 DEF FrameCount
  <2> QED BY <2>1, <2>4, <2>6, <2>7 DEF Environment
<1>2. FrameCount \in Nat
  BY <1>1, ScenarioFacts
<1>3. /\ session.hosts = Hosts
      /\ session.snapshots = [h \in Hosts |-> [i \in Slots |-> None]]
      /\ session.witness = [h \in Hosts |-> None] /\ session.epoch = [h \in Hosts |-> 0]
      /\ session.status = Connected(0) /\ session.inputs = [i \in Slots |-> None]
      /\ session.last_recv_frame = -1 /\ session.diverged = FALSE /\ session.committed = <<>>
  BY DEF Init, NewSession, NULL_FRAME
<1>4. /\ Connected(0) \in Status /\ Connected(0).disconnected = FALSE
      /\ Connected(0).last_frame = -1
  BY DEF Connected, Status, FrameOrNull, NULL_FRAME
<1>5. session \in [hosts : SUBSET Hosts, snapshots : {session.snapshots}, witness : {session.witness},
              epoch : {session.epoch}, status : Status, inputs : [Slots -> HeldInput \cup {None}],
              last_recv_frame : FrameOrNull, diverged : BOOLEAN, committed : Seq(Input)]
  BY <1>3, <1>4 DEF Init, NewSession, FrameOrNull, NULL_FRAME
<1>6. Shaped(session)
  BY <1>3, <1>5 DEF Shaped
<1>7. /\ \A h \in Hosts : session.witness[h] = None
      /\ \A h \in Hosts : \A i \in Slots : session.snapshots[h][i] = None
      /\ \A i \in Slots : session.inputs[i] = None
  BY <1>3
<1>8. delivered \in [Hosts -> Nat] /\ \A h \in Hosts : delivered[h] = 0
  BY DEF Init
<1>9. \A h \in Hosts : delivered[h] <= Len(confirmed[h])
  BY <1>1, <1>8 DEF Environment
<1>10. Staged(session, delivered)
  BY <1>3, <1>7, <1>8 DEF Staged
<1>11. Ring(session)
  <2>1. Len(session.committed) = 0
    BY <1>3
  <2> QED BY <1>2, <1>3, <1>7, <2>1 DEF Ring, InWindow
<1>12. Agreement(session, delivered, {})
  BY <1>3, <1>8, SizeType DEF Agreement
<1>13. Reports(session, session)
  BY <1>2, <1>3, <1>4, <1>7 DEF Reports, Follows
<1>14. Poll(session, session, delivered, session.hosts, {})
  BY <1>3, <1>6, <1>8, <1>9, <1>10, <1>11, <1>12, <1>13 DEF Poll, Tables, FrameOrNull, NULL_FRAME
<1>15. Playback(session)
  <2>1. saved \in [Slots -> SavedGame \cup {None}] /\ \A i \in Slots : saved[i] = None
    BY DEF Init
  <2>2. current_frame = -1 /\ game = <<>>
    BY DEF Init, NULL_FRAME
  <2> QED BY <1>3, <2>1, <2>2 DEF Playback, Cells, FrameOrNull, NULL_FRAME
<1> QED BY <1>1, <1>14, <1>15 DEF SpectatorInvariant

\* The hosts only ever see and confirm more.
Grows ==
    /\ config' = config
    /\ \A h \in Hosts :
           /\ view[h] <= view'[h]
           /\ Len(confirmed[h]) <= Len(confirmed'[h])
           /\ \A i \in 1 .. Len(confirmed[h]) : confirmed'[h][i] = confirmed[h][i]

LEMMA SameEnvironment ==
    ASSUME Environment, UNCHANGED <<config, view, confirmed>>
    PROVE  Environment' /\ Grows
<1>1. Hosts' = Hosts /\ FrameCount' = FrameCount
  BY DEF Hosts, FrameCount
<1>2. Environment'
  BY <1>1 DEF Environment, Views
<1>3. \A h \in Hosts : view[h] \in Nat /\ Len(confirmed[h]) \in Nat
  BY DEF Environment
<1>4. Grows
  BY <1>3 DEF Grows
<1> QED BY <1>2, <1>4

LEMMA EnvironmentKept ==
    ASSUME Environment, [Next]_vars
    PROVE  Environment' /\ Grows
<1>1. CASE \E h \in Hosts : HostConfirms(h)
  <2>1. PICK h \in Hosts : HostConfirms(h)
    BY <1>1
  <2> DEFINE v == Views(h)[view[h]]
             n == Len(confirmed[h]) + 1
             q == Append(confirmed[h], v.inputs[n])
  <2>2. /\ config' = config /\ view' = view /\ Len(confirmed[h]) < Len(v.inputs)
        /\ confirmed' = [confirmed EXCEPT ![h] = q]
    BY <2>1 DEF HostConfirms
  <2>3. Hosts' = Hosts /\ FrameCount' = FrameCount
    BY <2>2 DEF Hosts, FrameCount
  <2>4. /\ config \in Scenarios /\ confirmed \in [Hosts -> Seq(Input)]
        /\ \A g \in Hosts : /\ confirmed[g] \in Seq(Input) /\ Len(confirmed[g]) \in Nat
                            /\ Len(confirmed[g]) <= FrameCount /\ view[g] \in Nat
                            /\ \A i \in 1 .. Len(confirmed[g]) : confirmed[g][i] \in config.mesh[i]
    BY DEF Environment
  <2>5. view[h] \in 1 .. Len(Views(h)) /\ Views(h) \in Seq([status : Status, inputs : Seq(Input)])
    BY ScenarioFacts DEF Environment
  <2>6. v.inputs \in Seq(Input) /\ v \in ScenarioViews(config)
    <3>1. v \in [status : Status, inputs : Seq(Input)]
      BY <2>5, EntryType
    <3>2. view[h] \in DOMAIN Views(h)
      BY <2>5
    <3> QED BY <3>1, <3>2 DEF ScenarioViews, Views, Hosts
  <2>7. Len(v.inputs) <= FrameCount /\ \A i \in DOMAIN v.inputs : v.inputs[i] \in config.mesh[i]
    BY <2>4, <2>6, ScenarioAssumption DEF FrameCount
  <2>8. n \in 1 .. Len(v.inputs) /\ n \in DOMAIN v.inputs /\ FrameCount \in Nat
    <3>1. FrameCount \in Nat
      BY ScenarioFacts
    <3>2. Len(confirmed[h]) \in Nat /\ Len(v.inputs) \in Nat /\ DOMAIN v.inputs = 1 .. Len(v.inputs)
      BY <2>4, <2>6
    <3> HIDE DEF v
    <3> QED BY <2>2, <3>1, <3>2
  <2>9. v.inputs[n] \in Input /\ v.inputs[n] \in config.mesh[n] /\ n <= FrameCount
    <3>1. v.inputs[n] \in Input
      BY <2>6, <2>8, EntryType
    <3>2. n <= FrameCount
      BY <2>6, <2>7, <2>8
    <3> QED BY <2>7, <2>8, <3>1, <3>2
  <2> DEFINE x == v.inputs[n]
  <2> HIDE DEF v, x
  <2>10. /\ q \in Seq(Input) /\ Len(q) = n /\ q[n] = x
         /\ \A i \in 1 .. Len(confirmed[h]) : q[i] = confirmed[h][i]
    BY <2>4, <2>9 DEF x
  <2>11. \A i \in 1 .. Len(q) : q[i] \in config.mesh[i]
    <3>1. \A i \in 1 .. n : i = n \/ i \in 1 .. Len(confirmed[h])
      BY <2>4
    <3> QED BY <2>4, <2>9, <2>10, <3>1 DEF x
  <2> HIDE DEF q
  <2>12. confirmed' \in [Hosts -> Seq(Input)] /\ confirmed'[h] = q
           /\ \A g \in Hosts : g # h => confirmed'[g] = confirmed[g]
    BY <2>2, <2>4, <2>10
  <2>13. \A g \in Hosts : /\ Len(confirmed'[g]) <= FrameCount
                          /\ \A i \in 1 .. Len(confirmed'[g]) : confirmed'[g][i] \in config.mesh[i]
    BY <2>4, <2>9, <2>10, <2>11, <2>12
  <2>14. Environment'
    BY <2>2, <2>3, <2>12, <2>13 DEF Environment, Views
  <2>15. \A g \in Hosts : /\ view[g] <= view'[g] /\ Len(confirmed[g]) <= Len(confirmed'[g])
                          /\ \A i \in 1 .. Len(confirmed[g]) : confirmed'[g][i] = confirmed[g][i]
    BY <2>2, <2>4, <2>10, <2>12
  <2> QED BY <2>2, <2>14, <2>15 DEF Grows
<1>2. CASE \E h \in Hosts : HostChangesView(h)
  <2>1. PICK h \in Hosts : HostChangesView(h)
    BY <1>2
  <2>2. /\ config' = config /\ confirmed' = confirmed /\ view' = [view EXCEPT ![h] = view[h] + 1]
        /\ view[h] < Len(Views(h))
    BY <2>1 DEF HostChangesView
  <2>3. Hosts' = Hosts /\ FrameCount' = FrameCount
    BY <2>2 DEF Hosts, FrameCount
  <2>4. \A g \in Hosts : Len(Views(g)) \in Nat /\ view[g] \in 1 .. Len(Views(g)) /\ view[g] \in Nat
    BY ScenarioFacts DEF Environment
  <2>5. view' \in [Hosts -> Nat] /\ \A g \in Hosts : view'[g] \in 1 .. Len(Views(g)) /\ view[g] <= view'[g]
    BY <2>2, <2>4 DEF Environment
  <2>6. Environment'
    BY <2>2, <2>3, <2>5 DEF Environment, Views
  <2>7. \A g \in Hosts : Len(confirmed[g]) \in Nat
    BY DEF Environment
  <2> QED BY <2>2, <2>5, <2>6, <2>7 DEF Grows
<1>3. CASE \/ \E batch \in Batches, leaving \in SUBSET session.hosts : PollRemoteClients(batch, leaving)
           \/ \E batch \in Batches, leaving \in SUBSET session.hosts : AdvanceFrame(batch, leaving)
           \/ \E target \in 0 .. FrameCount - 1 : SeekToFrame(target)
           \/ UNCHANGED vars
  <2>1. UNCHANGED <<config, view, confirmed>>
    BY <1>3 DEF PollRemoteClients, AdvanceFrame, SeekToFrame, vars
  <2> QED BY <2>1, SameEnvironment
<1> QED BY <1>1, <1>2, <1>3 DEF Next

\* What a poll, or no poll, makes of the session stands in the next state.
LEMMA PollStays ==
    ASSUME Environment, Environment', Grows,
           Poll(session, session', delivered', session'.hosts, {})
    PROVE  Poll(session, session, delivered, session.hosts, {})'
<1>1. /\ Shaped(session') /\ Tables(session', delivered', {}) /\ Reports(session, session')
  BY DEF Poll
<1>2. Hosts' = Hosts /\ FrameCount' = FrameCount /\ config' = config
  BY DEF Grows, Hosts, FrameCount
<1>3. \A h \in Hosts : Seen(h) \subseteq Seen(h)'
  <2>1. \A h \in Hosts : view[h] \in Nat /\ view'[h] \in Nat /\ view[h] <= view'[h]
    BY <1>2 DEF Environment, Grows
  <2>2. \A h \in Hosts : 1 .. view[h] \subseteq 1 .. view'[h]
    BY <2>1
  <2> QED BY <1>2, <2>2 DEF Seen, Views
<1>4. SeenAny \subseteq SeenAny'
  BY <1>2, <1>3 DEF SeenAny
<1>5. Shaped(session)'
  BY <1>1, <1>2 DEF Shaped
<1>6. /\ delivered' \in [Hosts -> Nat]
      /\ \A h \in Hosts : /\ delivered'[h] \in Nat /\ delivered'[h] <= Len(confirmed[h])
                          /\ Len(confirmed[h]) \in Nat /\ Len(confirmed'[h]) \in Nat
                          /\ delivered'[h] <= Len(confirmed'[h])
                          /\ \A f \in Nat : f < delivered'[h] => confirmed'[h][f + 1] = confirmed[h][f + 1]
  <2>1. delivered' \in [Hosts -> Nat] /\ \A h \in Hosts : delivered'[h] <= Len(confirmed[h])
    BY <1>1 DEF Tables
  <2>2. \A h \in Hosts : Len(confirmed[h]) \in Nat /\ Len(confirmed'[h]) \in Nat
    BY <1>2 DEF Environment
  <2>3. \A h \in Hosts : /\ Len(confirmed[h]) <= Len(confirmed'[h])
                         /\ \A i \in 1 .. Len(confirmed[h]) : confirmed'[h][i] = confirmed[h][i]
    BY DEF Grows
  <2>4. ASSUME NEW h \in Hosts, NEW f \in Nat, f < delivered'[h]
        PROVE  confirmed'[h][f + 1] = confirmed[h][f + 1]
    <3>1. f + 1 \in 1 .. Len(confirmed[h])
      BY <2>1, <2>2, <2>4
    <3> QED BY <2>3, <3>1
  <2> QED BY <2>1, <2>2, <2>3, <2>4
<1>7. session'.hosts \subseteq Hosts
  BY <1>1, FrameFacts
<1>8. Staged(session, delivered)'
  <2>1. Staged(session', delivered')
    BY <1>1 DEF Tables
  <2>2. ASSUME NEW h \in session'.hosts, NEW i \in Slots, session'.snapshots[h][i] # None
        PROVE  /\ session'.snapshots[h][i].frame < delivered'[h]
               /\ SlotOf(session'.snapshots[h][i].frame) = i
               /\ session'.snapshots[h][i].input = confirmed'[h][session'.snapshots[h][i].frame + 1]
               /\ session'.snapshots[h][i].status \in Seen(h)'
    <3> DEFINE x == session'.snapshots[h][i]
    <3>1. StagedEntry(x, delivered', h, i)
      BY <2>1, <2>2 DEF Staged
    <3>2. x \in StagedInput /\ h \in Hosts
      BY <1>1, <1>7, <2>2 DEF Shaped
    <3> HIDE DEF x
    <3>3. x.frame \in Nat
      BY <3>2 DEF StagedInput
    <3>4. /\ x.frame < delivered'[h] /\ SlotOf(x.frame) = i /\ x.input = confirmed[h][x.frame + 1]
          /\ x.status \in Seen(h)
      BY <3>1 DEF StagedEntry
    <3> QED BY <1>3, <1>6, <3>2, <3>3, <3>4 DEF x
  <2>3. \A h \in session'.hosts : \A f \in Nat : f < delivered'[h] /\ f >= delivered'[h] - BufferSize
            => session'.snapshots[h][SlotOf(f)] # None /\ session'.snapshots[h][SlotOf(f)].frame = f
    BY <2>1 DEF Staged
  <2> QED BY <2>2, <2>3 DEF Staged, StagedEntry, Slots, SlotOf
<1>9. Ring(session)'
  <2>1. Ring(session')
    BY <1>1 DEF Tables
  <2> QED BY <1>2, <2>1 DEF Ring, InWindow, Slots, SlotOf
<1>10. Agreement(session, delivered, {})'
  <2>1. Agreement(session', delivered', {})
    BY <1>1 DEF Tables
  <2> QED BY <1>2, <1>6, <1>7, <2>1 DEF Agreement, InWindow
<1>11. (OneMesh => ~session.diverged)'
  BY <1>1, <1>2 DEF Tables, OneMesh
<1>12. Tables(session, delivered, {})'
  <2>1. \A h \in Hosts' : delivered'[h] <= Len(confirmed'[h])
    BY <1>2, <1>6
  <2> QED BY <1>2, <1>6, <1>8, <1>9, <1>10, <1>11, <2>1 DEF Tables
<1>13. Reports(session, session)'
  <2>1. session'.status \in Status /\ session'.status.last_frame \in Int
    BY <1>1, StatusFields DEF Shaped
  <2>2. session'.status.disconnected
          => \E x \in SeenAny' : x.disconnected /\ x.last_frame = session'.status.last_frame
    BY <1>1, <1>4 DEF Reports, Frozen
  <2>3. /\ session'.status.last_frame < FrameCount
        /\ session'.status.disconnected => session'.status.epoch = 1
        /\ \A h \in session'.hosts : session'.witness[h] # None => session'.witness[h].epoch = 1
    BY <1>1 DEF Reports
  <2> QED BY <1>2, <2>1, <2>2, <2>3 DEF Reports, Follows, Frozen
<1>14. session'.last_recv_frame \in FrameOrNull /\ session'.last_recv_frame >= session'.last_recv_frame
  BY <1>1, FrameFacts
<1> QED BY <1>5, <1>12, <1>13, <1>14 DEF Poll

\* Every step keeps Poll, from the session before it to the one after it.
LEMMA PollStep ==
    ASSUME SpectatorInvariant, [Next]_vars
    PROVE  Poll(session, session', delivered', session'.hosts, {})
<1>1. Environment /\ Poll(session, session, delivered, session.hosts, {}) /\ Playback(session)
  BY DEF SpectatorInvariant
<1>2. CASE session' = session /\ delivered' = delivered
  BY <1>1, <1>2
<1>3. ASSUME NEW batch \in Batches, NEW leaving \in SUBSET session.hosts,
             session' = Polled(batch, leaving), Deliver(batch)
      PROVE  Poll(session, session', delivered', session'.hosts, {})
  <2>1. current_frame \in Int /\ current_frame <= session.last_recv_frame
    BY <1>1 DEF Playback, FrameOrNull, NULL_FRAME
  <2>2. Poll(session, Polled(batch, leaving), DeliveredAfter(batch), session.hosts \ leaving, {})
    BY <1>1, <2>1, PolledKeeps
  <2>3. delivered' = DeliveredAfter(batch)
    BY <1>3 DEF Deliver, DeliveredAfter
  <2>4. Poll(session, session', delivered', session.hosts \ leaving, {})
    BY <1>3, <2>2, <2>3
  <2>5. session'.hosts = session.hosts \ leaving
    BY <2>4 DEF Poll
  <2> QED BY <2>4, <2>5
<1>4. CASE \E h \in Hosts : HostConfirms(h)
  BY <1>2, <1>4 DEF HostConfirms
<1>5. CASE \E h \in Hosts : HostChangesView(h)
  BY <1>2, <1>5 DEF HostChangesView
<1>6. CASE \E batch \in Batches, leaving \in SUBSET session.hosts : PollRemoteClients(batch, leaving)
  BY <1>3, <1>6 DEF PollRemoteClients
<1>7. CASE \E batch \in Batches, leaving \in SUBSET session.hosts : AdvanceFrame(batch, leaving)
  BY <1>3, <1>7 DEF AdvanceFrame
<1>8. CASE \E target \in 0 .. FrameCount - 1 : SeekToFrame(target)
  BY <1>2, <1>8 DEF SeekToFrame
<1>9. CASE UNCHANGED vars
  BY <1>2, <1>9 DEF vars
<1> QED BY <1>4, <1>5, <1>6, <1>7, <1>8, <1>9 DEF Next

\* More frames committed are no matter to playback.
LEMMA PlaybackGrows ==
    ASSUME NEW s, NEW t, Playback(s), s.last_recv_frame \in Int, t.last_recv_frame \in Int,
           t.last_recv_frame >= s.last_recv_frame
    PROVE  Playback(t)
<1>1. current_frame \in FrameOrNull /\ current_frame \in Int /\ current_frame <= s.last_recv_frame
  BY DEF Playback, FrameOrNull, NULL_FRAME
<1>2. saved \in [Slots -> SavedGame \cup {None}] /\ Cells(saved, s.last_recv_frame)
  BY DEF Playback
<1>3. \A i \in Slots : saved[i] # None => saved[i].frame \in Nat
  BY <1>2 DEF SavedGame
<1>4. Cells(saved, t.last_recv_frame)
  BY <1>2, <1>3 DEF Cells
<1> QED BY <1>1, <1>4 DEF Playback

\* Playback, of the session after the step.
LEMMA PlaybackStep ==
    ASSUME SpectatorInvariant, [Next]_vars
    PROVE  Playback(session)'
<1>1. Environment /\ Poll(session, session, delivered, session.hosts, {}) /\ Playback(session)
  BY DEF SpectatorInvariant
<1>2. Poll(session, session', delivered', session'.hosts, {})
  BY PollStep
<1>3. /\ Shaped(session) /\ Shaped(session') /\ Ring(session')
      /\ session.last_recv_frame \in Int /\ session'.last_recv_frame \in Int
      /\ session'.last_recv_frame >= session.last_recv_frame
  BY <1>1, <1>2, FrameFacts DEF Poll, Tables
<1>4. Playback(session')
  BY <1>1, <1>3, PlaybackGrows
<1>5. CASE UNCHANGED <<current_frame, game, saved>>
  BY <1>4, <1>5 DEF Playback, Cells
<1>6. ASSUME NEW p, Playing(p, session'), current_frame' = p.frame, game' = p.game, saved' = p.saved
      PROVE  Playback(session)'
  <2>1. p.frame \in Int /\ p.game \in Seq(Input) /\ p.saved \in [Slots -> SavedGame \cup {None}]
    BY <1>6 DEF Playing
  <2>2. p.frame \in FrameOrNull
    <3>1. current_frame \in Int /\ current_frame >= -1
      BY <1>1 DEF Playback, FrameOrNull, NULL_FRAME
    <3> QED BY <1>6, <2>1, <3>1 DEF Playing, FrameOrNull, NULL_FRAME
  <2>3. p.frame <= session'.last_recv_frame /\ Len(p.game) = p.frame + 1
          /\ Cells(p.saved, session'.last_recv_frame)
    BY <1>6 DEF Playing
  <2> QED BY <1>6, <2>1, <2>2, <2>3 DEF Playback, Cells, Slots
<1>7. CASE \E h \in Hosts : HostConfirms(h)
  BY <1>5, <1>7 DEF HostConfirms
<1>8. CASE \E h \in Hosts : HostChangesView(h)
  BY <1>5, <1>8 DEF HostChangesView
<1>9. CASE \E batch \in Batches, leaving \in SUBSET session.hosts : PollRemoteClients(batch, leaving)
  BY <1>5, <1>9 DEF PollRemoteClients
<1>10. CASE \E batch \in Batches, leaving \in SUBSET session.hosts : AdvanceFrame(batch, leaving)
  <2>1. CASE session'.diverged
    BY <1>5, <1>10, <2>1 DEF AdvanceFrame
  <2>2. CASE ~session'.diverged
    <3> DEFINE p == Advanced(session')
    <3>1. Playing(p, session')
      BY <1>1, <1>3, <1>4, AdvancedKeeps
    <3>2. current_frame' = p.frame /\ game' = p.game /\ saved' = p.saved
      BY <1>10, <2>2 DEF AdvanceFrame
    <3> HIDE DEF p
    <3> QED BY <1>6, <3>1, <3>2
  <2> QED BY <2>1, <2>2
<1>11. CASE \E target \in 0 .. FrameCount - 1 : SeekToFrame(target)
  <2>1. PICK target \in 0 .. FrameCount - 1 : SeekToFrame(target)
    BY <1>11
  <2> DEFINE cell == saved[SlotOf(target + 1)]
  <2>2. /\ cell # None /\ cell.frame = target + 1 /\ game' = cell.game /\ current_frame' = target
        /\ saved' = saved /\ session' = session
    BY <2>1 DEF SeekToFrame, SeekLabel
  <2>3. target \in Nat /\ SlotOf(target + 1) \in Slots
    <3>1. target \in Nat
      BY <1>1, ScenarioFacts
    <3> QED BY <3>1, SlotType
  <2>4. cell \in SavedGame /\ cell.frame <= session.last_recv_frame /\ Len(cell.game) = cell.frame
    BY <1>1, <2>2, <2>3 DEF Playback, Cells
  <2> HIDE DEF cell
  <2>5. cell.game \in Seq(Input)
    BY <2>4 DEF SavedGame
  <2>6. /\ current_frame' \in FrameOrNull /\ current_frame' <= session'.last_recv_frame
        /\ game' \in Seq(Input) /\ Len(game') = current_frame' + 1
    BY <1>3, <2>2, <2>3, <2>4, <2>5 DEF FrameOrNull
  <2> QED BY <1>4, <2>2, <2>6 DEF Playback, Cells, Slots
<1>12. CASE UNCHANGED vars
  BY <1>5, <1>12 DEF vars
<1> QED BY <1>7, <1>8, <1>9, <1>10, <1>11, <1>12 DEF Next

-----------------------------------------------------------------------------
(* The theorems.                                                           *)

LEMMA InvariantHolds == Spec => []SpectatorInvariant
<1>1. ASSUME SpectatorInvariant, [Next]_vars PROVE SpectatorInvariant'
  <2>1. Environment' /\ Grows
    BY <1>1, EnvironmentKept DEF SpectatorInvariant
  <2>2. Poll(session, session, delivered, session.hosts, {})'
    BY <1>1, <2>1, PollStep, PollStays DEF SpectatorInvariant
  <2>3. Playback(session)'
    BY <1>1, PlaybackStep
  <2> QED BY <2>1, <2>2, <2>3 DEF SpectatorInvariant
<1> QED BY <1>1, InitInvariant, PTL DEF Spec

\* The tables of the spectator session keep their types, a ring entry is of its slot,
\* and playback never passes what is committed, whatever the hosts send and the
\* application seeks.
THEOREM SpectatorTyped == Spec => []TypeOK
<1>1. SpectatorInvariant => TypeOK
  <2> SUFFICES ASSUME SpectatorInvariant PROVE TypeOK
    OBVIOUS
  <2>1. /\ Environment /\ Shaped(session) /\ Staged(session, delivered) /\ Ring(session)
        /\ Reports(session, session) /\ Playback(session)
    BY DEF SpectatorInvariant, Poll, Tables
  <2>2. FrameCount \in Nat
    BY <2>1, ScenarioFacts
  <2>3. session.hosts \subseteq Hosts /\ session.last_recv_frame \in NULL_FRAME .. FrameCount - 1
    BY <2>1, <2>2, FrameFacts DEF Ring, NULL_FRAME
  <2>4. session.status.last_frame \in NULL_FRAME .. FrameCount - 1
    <3>1. session.status.last_frame \in FrameOrNull /\ session.status.last_frame < FrameCount
      BY <2>1, StatusFields DEF Shaped, Reports
    <3> QED BY <2>2, <3>1 DEF FrameOrNull, NULL_FRAME
  <2>5. \A i \in Slots : session.inputs[i] # None =>
           session.inputs[i].input \in Input /\ SlotOf(session.inputs[i].frame) = i
    BY <2>1 DEF Shaped, Ring, HeldInput
  <2>6. \A h \in session.hosts : \A i \in Slots : session.snapshots[h][i] # None =>
           SlotOf(session.snapshots[h][i].frame) = i
    BY <2>1 DEF Staged, StagedEntry
  <2>7. current_frame \in NULL_FRAME .. session.last_recv_frame
    BY <2>1, FrameFacts DEF Playback, FrameOrNull, NULL_FRAME
  <2> QED BY <2>1, <2>3, <2>4, <2>5, <2>6, <2>7 DEF TypeOK, Playback
<1> QED BY <1>1, InvariantHolds, PTL

\* A session that goes on holds no frame for which a host it listens to gave another
\* input: detect_staged_input_disagreement, or the comparison of a commit, has seen
\* every pair of hosts on every frame the ring still holds.
THEOREM ConflictsAreFound == Spec => []NoSilentConflict
<1>1. SpectatorInvariant => NoSilentConflict
  <2> SUFFICES ASSUME SpectatorInvariant, config.ahead <= BufferSize, ~session.diverged,
                      NEW h \in session.hosts,
                      NEW i \in 1 .. Min({delivered[h], Len(session.committed)}),
                      i - 1 > session.last_recv_frame - BufferSize
               PROVE  confirmed[h][i] = session.committed[i]
    BY DEF NoSilentConflict
  <2>1. /\ Shaped(session) /\ Tables(session, delivered, {})
    BY DEF SpectatorInvariant, Poll
  <2>2. /\ delivered \in [Hosts -> Nat] /\ Ring(session) /\ Agreement(session, delivered, {})
        /\ session.hosts \subseteq Hosts /\ session.last_recv_frame \in Int
    BY <2>1, FrameFacts DEF Tables
  <2> DEFINE a == delivered[h]
             b == Len(session.committed)
  <2>3. a \in Nat /\ b = session.last_recv_frame + 1 /\ b \in Nat
    BY <2>1, <2>2, FrameFacts DEF Ring
  <2>4. Min({a, b}) \in {a, b} /\ Min({a, b}) <= a /\ Min({a, b}) <= b
    <3>1. {a, b} \in SUBSET FrameOrNull /\ {a, b} # {}
      BY <2>3 DEF FrameOrNull
    <3> HIDE DEF a, b
    <3> QED BY <3>1, MinOfFrames
  <2>5. i \in Nat /\ i >= 1 /\ i <= a /\ i <= b
    BY <2>3, <2>4
  <2>6. i - 1 \in Nat /\ i - 1 < delivered[h] /\ InWindow(session, i - 1) /\ (i - 1) + 1 = i
    BY <2>2, <2>3, <2>5 DEF InWindow
  <2> QED BY <2>2, <2>6 DEF Agreement
<1> QED BY <1>1, InvariantHolds, PTL

\* Hosts that agree are never found to disagree: an overwritten ring slot, a frame of
\* another cycle or a host that leaves is never mistaken for a divergence.
THEOREM AgreementIsSafe == Spec => []AgreeingHostsPlayOn
<1>1. SpectatorInvariant => AgreeingHostsPlayOn
  BY DEF SpectatorInvariant, Poll, Tables, OneMesh, AgreeingHostsPlayOn
<1> QED BY <1>1, InvariantHolds, PTL

\* merge_connection_status and converge_latched_drop_status only lower the freeze
\* frame of a dropped slot, and take the slot for reopened only after some host has
\* reopened it in a later epoch.
THEOREM FreezesAreFollowed == Spec => FreezeHolds
<1> DEFINE A == session.status.disconnected =>
                    IF session'.status.disconnected
                    THEN session'.status.last_frame <= session.status.last_frame
                    ELSE \E h \in Hosts : \E i \in 1 .. view[h] :
                             /\ ~Views(h)[i].status.disconnected
                             /\ Views(h)[i].status.epoch > session.status.epoch
<1>1. ASSUME SpectatorInvariant, [Next]_vars PROVE A
  <2> SUFFICES ASSUME session.status.disconnected
               PROVE  IF session'.status.disconnected
                      THEN session'.status.last_frame <= session.status.last_frame
                      ELSE \E h \in Hosts : \E i \in 1 .. view[h] :
                               /\ ~Views(h)[i].status.disconnected
                               /\ Views(h)[i].status.epoch > session.status.epoch
    OBVIOUS
  <2>1. Follows(session, session')
    BY <1>1, PollStep DEF Poll, Reports
  <2>2. session.status.epoch = 1
    BY <1>1 DEF SpectatorInvariant, Poll, Reports
  <2>3. CASE session'.status.disconnected
    BY <2>1, <2>3 DEF Follows
  <2>4. CASE ~session'.status.disconnected
    <3>1. PICK x \in SeenAny : ~x.disconnected /\ x.epoch > 1
      BY <2>1, <2>4 DEF Follows
    <3>2. PICK h \in Hosts : x \in Seen(h)
      BY <3>1 DEF SeenAny
    <3>3. PICK i \in 1 .. view[h] : x = Views(h)[i].status
      BY <3>2 DEF Seen
    <3> QED BY <2>2, <2>4, <3>1, <3>3
  <2> QED BY <2>3, <2>4
<1>2. SpectatorInvariant /\ [Next]_vars => [A]_vars
  BY <1>1
<1> QED BY <1>2, InvariantHolds, PTL DEF Spec, FreezeHolds

-----------------------------------------------------------------------------
(* What is played, in a mesh whose frozen inputs stay.                     *)

\* The input at which a host freezes the slot is one the mesh has for it from then on:
\* so it is until the slot is reopened, and for good when it is not.
FrozenInputStays ==
    \A v \in ScenarioViews(config) : \A i \in DOMAIN config.mesh :
        v.status.disconnected /\ v.status.last_frame # NULL_FRAME /\ i > v.status.last_frame + 1
            => config.mesh[v.status.last_frame + 1] \subseteq config.mesh[i]

InMesh(g) == \A i \in 1 .. Len(g) : g[i] \in config.mesh[i]
CellsInMesh(cells) == \A i \in Slots : cells[i] # None => InMesh(cells[i].game)

\* A frame in the window is held in its slot, with an input the mesh has for it.
LEMMA WindowEntry ==
    ASSUME Environment, NEW s, Shaped(s), Ring(s), NEW f \in Nat, InWindow(s, f)
    PROVE  /\ s.inputs[SlotOf(f)] # None
           /\ s.inputs[SlotOf(f)].frame = f
           /\ s.inputs[SlotOf(f)].input \in config.mesh[f + 1]
           /\ f + 1 \in 1 .. FrameCount
<1> DEFINE held == s.inputs[SlotOf(f)]
           input == s.committed[f + 1]
<1>1. s.last_recv_frame \in Int /\ FrameCount \in Nat
  BY FrameFacts, ScenarioFacts
<1>2. held = [frame |-> f, input |-> input]
  BY DEF Ring
<1>3. f + 1 \in 1 .. Len(s.committed) /\ f + 1 \in 1 .. FrameCount /\ s.committed \in Seq(Input)
  BY <1>1, FrameFacts DEF Ring, InWindow
<1>4. input \in Input /\ input \in config.mesh[f + 1]
  BY <1>3, EntryType DEF Ring
<1>5. [frame |-> f, input |-> input] \in HeldInput
  BY <1>4 DEF HeldInput
<1>6. held # None
  BY <1>2, <1>5, NoneIsNoEntry
<1> HIDE DEF held, input
<1>7. held.frame = f /\ held.input = input
  BY <1>2
<1> QED BY <1>3, <1>4, <1>6, <1>7 DEF held

\* A frame of the ring is played with its own input or with that of the freeze.
LEMMA InputIsInMesh ==
    ASSUME Environment, FrozenInputStays, NEW s, Shaped(s), Ring(s),
           s.status.disconnected => Frozen(s.status.last_frame),
           NEW frame \in Nat, InWindow(s, frame)
    PROVE  inputs_at_frame(s, frame) \in config.mesh[frame + 1]
<1> DEFINE held == s.inputs[SlotOf(frame)]
           freeze == s.status.last_frame
           frozen == IF freeze = NULL_FRAME THEN None ELSE s.inputs[SlotOf(freeze)]
<1>3. held # None /\ held.frame = frame /\ held.input \in config.mesh[frame + 1]
      /\ frame + 1 \in 1 .. FrameCount
  BY WindowEntry
<1>4. inputs_at_frame(s, frame) =
          IF s.status.disconnected /\ freeze < frame /\ frozen # None /\ frozen.frame = freeze
          THEN frozen.input ELSE held.input
  BY <1>3 DEF inputs_at_frame
<1>5. freeze \in FrameOrNull /\ freeze \in Int
  BY StatusFields DEF Shaped
<1>6. ASSUME s.status.disconnected, freeze < frame, frozen # None, frozen.frame = freeze
      PROVE  frozen.input \in config.mesh[frame + 1]
  <2>1. freeze # NULL_FRAME /\ frozen = s.inputs[SlotOf(freeze)] /\ freeze \in Nat
    BY <1>5, <1>6 DEF FrameOrNull, NULL_FRAME
  <2>2. InWindow(s, freeze)
    <3>1. SlotOf(freeze) \in Slots
      BY <1>5, SlotType
    <3> QED BY <1>6, <2>1, <3>1 DEF Ring
  <2> HIDE DEF frozen, freeze
  <2>3. frozen.input \in config.mesh[freeze + 1]
    <3>1. s.inputs[SlotOf(freeze)].input \in config.mesh[freeze + 1]
      BY <2>1, <2>2, WindowEntry
    <3> QED BY <2>1, <3>1
  <2>4. PICK x \in SeenAny : x.disconnected /\ x.last_frame = freeze
    BY <1>6 DEF Frozen, freeze
  <2>5. PICK v \in ScenarioViews(config) : v.status = x
    BY <2>4, SeenIsViewed
  <2>6. frame + 1 \in DOMAIN config.mesh /\ frame + 1 > freeze + 1
    <3>1. DOMAIN config.mesh = 1 .. FrameCount
      BY ScenarioFacts DEF FrameCount
    <3>2. frame + 1 > freeze + 1
      BY <1>5, <1>6
    <3> QED BY <1>3, <3>1, <3>2
  <2>7. config.mesh[freeze + 1] \subseteq config.mesh[frame + 1]
    <3>1. v.status.disconnected /\ v.status.last_frame = freeze
      BY <2>4, <2>5
    <3> QED BY <2>1, <2>6, <3>1 DEF FrozenInputStays
  <2> QED BY <2>3, <2>7
<1> QED BY <1>3, <1>4, <1>6

LEMMA PlayNextInMesh ==
    ASSUME Environment, FrozenInputStays, NEW s, Shaped(s), Ring(s), Playback(s),
           s.status.disconnected => Frozen(s.status.last_frame),
           InMesh(game), CellsInMesh(saved),
           NEW p, Playing(p, s), InMesh(p.game), CellsInMesh(p.saved)
    PROVE  InMesh(PlayNext(p, s).game) /\ CellsInMesh(PlayNext(p, s).saved)
<1> DEFINE frame == p.frame + 1
           input == inputs_at_frame(s, frame)
           q == PlayNext(p, s)
<1>1. /\ p \in [frame : Int, game : Seq(Input), saved : [Slots -> SavedGame \cup {None}], stop : BOOLEAN]
      /\ p.frame \in Int /\ p.frame >= current_frame /\ Len(p.game) = p.frame + 1
      /\ p.game \in Seq(Input) /\ p.saved \in [Slots -> SavedGame \cup {None}]
  BY DEF Playing
<1>2. frame \in Nat
  BY <1>1 DEF Playback, FrameOrNull, NULL_FRAME
<1>3. q = IF p.stop \/ frame > viewable_frame(s) THEN [p EXCEPT !.stop = TRUE]
          ELSE IF input = "SpectatorTooFarBehind"
          THEN [p EXCEPT !.game = game, !.saved = saved, !.stop = TRUE]
          ELSE IF input \in Errors THEN [p EXCEPT !.stop = TRUE]
          ELSE [frame |-> frame,
                game  |-> Append(p.game, input),
                saved |-> IF config.rewind
                          THEN [p.saved EXCEPT ![SlotOf(frame)] = [frame |-> frame, game |-> p.game]]
                          ELSE p.saved,
                stop  |-> FALSE]
  BY DEF PlayNext
<1>4. \/ input \in Errors
      \/ input \in Input \ Errors /\ InWindow(s, frame)
  BY <1>2, InputsAtFrame
<1> HIDE DEF input, q
<1>5. CASE q = [p EXCEPT !.stop = TRUE]
  BY <1>1, <1>5 DEF q
<1>6. CASE q = [p EXCEPT !.game = game, !.saved = saved, !.stop = TRUE]
  BY <1>1, <1>6 DEF q
<1>7. CASE /\ input \notin Errors
           /\ q = [frame |-> frame,
                   game  |-> Append(p.game, input),
                   saved |-> IF config.rewind
                             THEN [p.saved EXCEPT ![SlotOf(frame)] = [frame |-> frame, game |-> p.game]]
                             ELSE p.saved,
                   stop  |-> FALSE]
  <2>1. InWindow(s, frame) /\ input \in Input
    BY <1>4, <1>7
  <2>2. input \in config.mesh[frame + 1]
    BY <1>2, <2>1, InputIsInMesh DEF input
  <2>3. InMesh(q.game)
    <3>1. q.game = Append(p.game, input)
      BY <1>7
    <3>2. Len(q.game) = Len(p.game) + 1 /\ q.game[Len(p.game) + 1] = input
          /\ \A i \in 1 .. Len(p.game) : q.game[i] = p.game[i]
      BY <1>1, <2>1, <3>1
    <3>3. Len(p.game) + 1 = frame + 1 /\ Len(p.game) \in Nat
      BY <1>1
    <3>4. \A i \in 1 .. Len(p.game) + 1 : i \in 1 .. Len(p.game) \/ i = Len(p.game) + 1
      BY <3>3
    <3> QED BY <2>2, <3>2, <3>3, <3>4 DEF InMesh
  <2>4. CellsInMesh(q.saved)
    <3>1. PICK x : x = [frame |-> frame, game |-> p.game]
      OBVIOUS
    <3>2. x.game = p.game
      BY <3>1
    <3>3. \A i \in Slots : q.saved[i] = p.saved[i] \/ q.saved[i] = x
      BY <1>1, <1>7, <3>1
    <3>4. ASSUME NEW i \in Slots, q.saved[i] # None PROVE InMesh(q.saved[i].game)
      BY <3>2, <3>3, <3>4 DEF CellsInMesh
    <3> QED BY <3>4 DEF CellsInMesh
  <2> QED BY <2>3, <2>4 DEF q
<1> QED BY <1>3, <1>5, <1>6, <1>7

LEMMA AdvancedInMesh ==
    ASSUME Environment, FrozenInputStays, NEW s, Shaped(s), Ring(s), Playback(s),
           s.status.disconnected => Frozen(s.status.last_frame),
           InMesh(game), CellsInMesh(saved)
    PROVE  InMesh(Advanced(s).game) /\ CellsInMesh(Advanced(s).saved)
<1> DEFINE N == frames_to_advance(s)
           begin == [frame |-> current_frame, game |-> game, saved |-> saved, stop |-> FALSE]
           Good(p) == Playing(p, s) /\ InMesh(p.game) /\ CellsInMesh(p.saved)
<1>1. N \in Nat
  BY ScenarioFacts DEF frames_to_advance
<1>2. PICK f : IsLoop(f, N, begin, "play", s, {}, {}) /\ Advanced(s) = f[N]
  BY <1>1, PlayLoop
<1>3. Good(begin)
  <2>1. begin \in [frame : Int, game : Seq(Input), saved : [Slots -> SavedGame \cup {None}], stop : BOOLEAN]
    BY DEF Playback, FrameOrNull, NULL_FRAME
  <2>2. begin.frame = current_frame /\ begin.game = game /\ begin.saved = saved /\ current_frame \in Int
    BY DEF Playback, FrameOrNull, NULL_FRAME
  <2> HIDE DEF begin
  <2>3. Playing(begin, s)
    BY <2>1, <2>2 DEF Playing, Playback
  <2> QED BY <2>2, <2>3
<1> HIDE DEF begin, N
<1>4. f[0] = begin /\ \A n \in 1 .. N : f[n] = PlayNext(f[n - 1], s)
  <2>1. \A n, x : Round("play", s, {}, {}, n, x) = PlayNext(x, s)
    BY DEF Round
  <2> QED BY <1>1, <1>2, <2>1, LoopValues
<1> DEFINE G == {n \in 0 .. N : Good(f[n])}
<1>5. 0 \in G
  BY <1>1, <1>3, <1>4
<1>6. ASSUME NEW n \in 1 .. N, n - 1 \in G PROVE n \in G
  <2>1. Good(PlayNext(f[n - 1], s))
    BY <1>6, PlayNextKeeps, PlayNextInMesh
  <2> QED BY <1>1, <1>4, <2>1
<1>7. \A n \in 0 .. N : n \in G
  <2> HIDE DEF G
  <2> QED BY <1>1, <1>5, <1>6, RoundInduction
<1> QED BY <1>1, <1>2, <1>7

Faithful == FrozenInputStays => InMesh(game) /\ CellsInMesh(saved)

LEMMA FaithfulStep ==
    ASSUME SpectatorInvariant, Faithful, [Next]_vars
    PROVE  Faithful'
<1>1. /\ Environment /\ Playback(session) /\ config' = config
      /\ Poll(session, session, delivered, session.hosts, {})
  BY EnvironmentKept DEF SpectatorInvariant, Grows
<1>2. Poll(session, session', delivered', session'.hosts, {})
  BY PollStep
<1>3. /\ Shaped(session) /\ Shaped(session') /\ Ring(session') /\ Reports(session, session')
      /\ session.last_recv_frame \in Int /\ session'.last_recv_frame \in Int
      /\ session'.last_recv_frame >= session.last_recv_frame
  BY <1>1, <1>2, FrameFacts DEF Poll, Tables
<1>4. Playback(session')
  BY <1>1, <1>3, PlaybackGrows
<1>5. FrozenInputStays' = FrozenInputStays /\ \A g : InMesh(g)' = InMesh(g)
  BY <1>1 DEF FrozenInputStays, InMesh
<1> SUFFICES ASSUME FrozenInputStays
             PROVE  InMesh(game') /\ CellsInMesh(saved')
  BY <1>1, <1>5 DEF Faithful, InMesh, CellsInMesh, Slots
<1>6. InMesh(game) /\ CellsInMesh(saved)
  BY DEF Faithful
<1>7. CASE UNCHANGED <<game, saved>>
  BY <1>6, <1>7
<1>8. CASE \E h \in Hosts : HostConfirms(h) \/ HostChangesView(h)
  BY <1>7, <1>8 DEF HostConfirms, HostChangesView
<1>9. CASE \E batch \in Batches, leaving \in SUBSET session.hosts : PollRemoteClients(batch, leaving)
  BY <1>7, <1>9 DEF PollRemoteClients
<1>10. CASE \E batch \in Batches, leaving \in SUBSET session.hosts : AdvanceFrame(batch, leaving)
  <2>1. CASE session'.diverged
    BY <1>7, <1>10, <2>1 DEF AdvanceFrame
  <2>2. CASE ~session'.diverged
    <3>1. game' = Advanced(session').game /\ saved' = Advanced(session').saved
      BY <1>10, <2>2 DEF AdvanceFrame
    <3>2. session'.status.disconnected => Frozen(session'.status.last_frame)
      BY <1>3 DEF Reports
    <3>3. InMesh(Advanced(session').game) /\ CellsInMesh(Advanced(session').saved)
      BY <1>1, <1>3, <1>4, <1>6, <3>2, AdvancedInMesh
    <3> QED BY <3>1, <3>3
  <2> QED BY <2>1, <2>2
<1>11. CASE \E target \in 0 .. FrameCount - 1 : SeekToFrame(target)
  <2>1. PICK target \in 0 .. FrameCount - 1 : SeekToFrame(target)
    BY <1>11
  <2> DEFINE cell == saved[SlotOf(target + 1)]
  <2>2. cell # None /\ game' = cell.game /\ saved' = saved
    BY <2>1 DEF SeekToFrame, SeekLabel
  <2>3. SlotOf(target + 1) \in Slots
    <3>1. target \in Nat
      BY <1>1, ScenarioFacts
    <3> QED BY <3>1, SlotType
  <2> QED BY <1>6, <2>2, <2>3 DEF CellsInMesh
<1>12. CASE UNCHANGED vars
  BY <1>7, <1>12 DEF vars
<1> QED BY <1>8, <1>9, <1>10, <1>11, <1>12 DEF Next

\* Whichever hosts the frames come from, through lowered freezes, failovers, rewinds and
\* ring slots that are used again, the game plays for each frame an input that the mesh
\* has for it, if the mesh keeps a frozen input for the frames after it (advance_frame,
\* inputs_at_frame, seek_to_frame).
THEOREM PlayedInMesh == Spec => [](FrozenInputStays => PlayedIsMeshInput)
<1>1. Init => Faithful
  <2> SUFFICES ASSUME Init PROVE InMesh(game) /\ CellsInMesh(saved)
    BY DEF Faithful
  <2>1. game = <<>> /\ \A i \in Slots : saved[i] = None
    BY DEF Init
  <2> QED BY <2>1 DEF InMesh, CellsInMesh
<1>2. SpectatorInvariant /\ Faithful /\ [Next]_vars => Faithful'
  BY FaithfulStep
<1>3. SpectatorInvariant /\ Faithful => (FrozenInputStays => PlayedIsMeshInput)
  <2>1. SpectatorInvariant => game \in Seq(Input)
    BY DEF SpectatorInvariant, Playback
  <2> QED BY <2>1 DEF Faithful, InMesh, PlayedIsMeshInput
<1> QED BY <1>1, <1>2, <1>3, InvariantHolds, PTL DEF Spec
=============================================================================
