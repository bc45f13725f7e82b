--------------------------- MODULE CoordinatedDrop ---------------------------
(***************************************************************************)
(* The barrier by which the survivors of a P2P mesh drop a player together *)
(* (coordinated_drop_* and drive_coordinated_drop in                       *)
(* src/src/sessions/p2p_session.rs): the inventory of what each survivor   *)
(* holds of the target's inputs, the cut all derive from it, backfill,     *)
(* ready certificates, commit, supersession of concurrent operations,      *)
(* timeouts and aborts.                                                    *)
(*                                                                         *)
(* Peers are numbered by their player handle, one player each, and no slot *)
(* is ever refilled, so that an operation is named by its target and its   *)
(* coordinator.  Control messages may be lost, duplicated and reordered: a *)
(* message once sent may be received at any time, any number of times.     *)
(*                                                                         *)
(* A poll handles messages and then drives the operation; other calls of   *)
(* the same peer cannot come in between (busy).  The retained inputs are   *)
(* those of the input queue's contract (InputQueue): contiguous, appended  *)
(* in order, discarded from the front.                                     *)
(***************************************************************************)
EXTENDS Integers, Sequences, FiniteSets, FiniteSetsExt

CONSTANTS
    Scenarios,   \* meshes: the peers, the players that may be dropped with the inputs
                 \* each submits, and who may ask for whose drop
    Input, DefaultInput,
    Known,       \* how many inputs of a target every peer has at the start
    None

ASSUME InputAssumption == DefaultInput \in Input /\ None \notin Input
ASSUME ScenarioAssumption ==
    \A m \in Scenarios :
        /\ m.peers \subseteq Nat /\ IsFiniteSet(m.peers)
        /\ DOMAIN m.stream \subseteq m.peers /\ DOMAIN m.stream # {}
        /\ \A t \in DOMAIN m.stream : m.stream[t] \in Seq(Input) /\ Len(m.stream[t]) >= Known
        /\ m.requests \subseteq {r \in m.peers \X DOMAIN m.stream : r[1] # r[2]}
ASSUME KnownAssumption == Known \in Nat

\* An operation, what is said of it, and an attempt at it (CoordinatedDropAttempt).
Operation == [target : Nat, coordinator : Nat]
Report == [type : {"Inventory"}, op : Operation, participant : Nat, exposed : Int,
           available_from : Int, through : Int]
CertificateOf(type) == [type : {type}, op : Operation, participant : Nat,
                        cut : Int \cup {None}, digest : Input \cup {None}]
CommitOrder == [type : {"Commit"}, op : Operation, cut : Int \cup {None}, digest : Input \cup {None}]
Chunk == [type : {"Backfill"}, op : Operation, index : Int, count : Int, frame : Int, value : Input]
Phases == {"Inventory", "Backfill", "Ready", "Committed"}
CoordinatedDropAttempt ==
    [op : Operation, participants : SUBSET Nat, held_at : Int, phase : Phases,
     reports : SUBSET Report, ready : SUBSET Nat, transcripts : SUBSET CertificateOf("Ready"),
     committed_acks : SUBSET Nat, cut : Int \cup {None}, cut_digest : Input \cup {None},
     pending_commit : CommitOrder \cup {None},
     backfill_chunks : SUBSET Chunk, relayed_backfill : SUBSET Chunk, next_backfill_chunk : Int]

\* DropAbortReason
Reasons == {"ConflictingHistory", "MissingHistory", "GenerationChanged", "ResourceLimit",
            "ParticipantLost", "Timeout", "Superseded"}

ASSUME NoneAssumption == None \notin Int /\ None \notin Reasons /\ None \notin CoordinatedDropAttempt

NULL_FRAME == -1

VARIABLES
    peer,      \* the coordinated_drop state of each peer and what it touches
    busy,      \* inside a poll: messages handled, drive still to come
    net,       \* the control messages sent so far
    expired,   \* history: some attempt has run into its timeout
    mesh       \* the scenario

vars == <<peer, busy, net, expired, mesh>>

Peers == mesh.peers
stream == mesh.stream
Targets == DOMAIN stream
LastFrame == Max({0} \cup {Len(stream[t]) - 1 : t \in Targets})
Others(p) == Targets \ {p}
Survivors == {p \in Peers : Others(p) # {}}   \* the peers with a part in some drop

\* The fields of a session the barrier reads and writes; per target the retained
\* inputs (values[f + 1], those below first discarded), local_connect_status
\* (receipt, dropped) and, over all, the running endpoints.
NewPeer(p) ==
    [values    |-> [t \in Others(p) |-> SubSeq(stream[t], 1, Known)],
     first     |-> [t \in Others(p) |-> 0],
     receipt   |-> [t \in Others(p) |-> Known - 1],
     dropped   |-> [t \in Others(p) |-> NULL_FRAME],
     running   |-> Peers \ {p},
     exposed   |-> Known - 1,
     ceiling   |-> None,
     active    |-> None,
     queued    |-> {},
     deferred  |-> <<>>,
     closed    |-> {},
     failure   |-> None]

Init ==
    /\ mesh \in Scenarios
    /\ expired = FALSE
    /\ peer = [p \in Peers |-> NewPeer(p)]
    /\ busy = [p \in Peers |-> FALSE]
    /\ net = {}

Through(s, t) == Len(s.values[t]) - 1

\* The input of a frame, if it is retained.  Backfill, overlap checks and digests
\* read the queue's ring, which still answers for a discarded frame until its slot
\* is written again; here a discarded frame is gone at once, which can only make
\* more inputs missing.
Held(s, t, frame) ==
    IF frame < s.first[t] \/ frame > Through(s, t) THEN None ELSE s.values[t][frame + 1]

-----------------------------------------------------------------------------
(* A handler works on a record: the peer s, the messages it sends (out)    *)
(* and the reason it fails with (error), if any.                           *)

Work(s) == [s |-> s, out |-> {}, error |-> None]
Fails(w, reason) == [w EXCEPT !.error = reason]

\* coordinated_drop_broadcast: to every running endpoint but the target's.
Broadcast(w, p, t, bodies) ==
    [w EXCEPT !.out = @ \cup {[from |-> p, to |-> q, body |-> b] :
                                 q \in w.s.running \ {t}, b \in bodies}]

Prepare(op, participants) == [type |-> "Prepare", op |-> op, participants |-> participants]
Inventory(op, p, exposed, from, through) ==
    [type |-> "Inventory", op |-> op, participant |-> p, exposed |-> exposed,
     available_from |-> from, through |-> through]
Certificate(type, op, p, cut, digest) ==
    [type |-> type, op |-> op, participant |-> p, cut |-> cut, digest |-> digest]
Backfill(op, index, count, frame, value) ==
    [type |-> "Backfill", op |-> op, index |-> index, count |-> count, frame |-> frame, value |-> value]
Commit(op, cut, digest) == [type |-> "Commit", op |-> op, cut |-> cut, digest |-> digest]
Abort(op, reason) == [type |-> "Abort", op |-> op, reason |-> reason]

\* enter_fail_closed_disconnect_state_at
FailClosedAt(s, frame) ==
    [s EXCEPT !.ceiling = IF @ = None THEN frame ELSE Min({@, frame})]

Close(s) == [s EXCEPT !.closed = @ \cup {s.active.op}, !.active = None]

\* coordinated_drop_fail_closed
FailClosed(w, p, reason, relay) ==
    LET a == w.s.active
        told == IF relay THEN Broadcast(w, p, a.op.target, {Abort(a.op, reason)}) ELSE w
    IN  IF a = None THEN [w EXCEPT !.error = None]
        ELSE [told EXCEPT !.s = [FailClosedAt(Close(@), a.held_at) EXCEPT !.failure = reason],
                          !.error = None]

OrFail(w, p) == IF w.error = None THEN w ELSE FailClosed(w, p, w.error, TRUE)

\* Where confirmation is held: the newest frame exposed so far.  The call of
\* confirmed_frame at this point is a ConfirmedFrame step before this one.
HoldAt(s) == Max({s.exposed, 0})

\* coordinated_drop_inventory: a peer without any input of the target, that has
\* exposed nothing past frame 0, materialises the default input for frame 0.
Materialised(s, t, held) ==
    IF s.values[t] = <<>> /\ held = 0 THEN [s EXCEPT !.values[t] = <<DefaultInput>>] ELSE s

InventoryOf(s, p, op, held) ==
    IF s.values[op.target] = <<>> THEN Inventory(op, p, held, NULL_FRAME, NULL_FRAME)
    ELSE Inventory(op, p, held, s.first[op.target], Through(s, op.target))

Attempt(op, participants, held, report) ==
    [op |-> op, participants |-> participants, held_at |-> held, phase |-> "Inventory",
     reports |-> {report}, ready |-> {}, transcripts |-> {}, committed_acks |-> {},
     cut |-> None, cut_digest |-> None, pending_commit |-> None,
     backfill_chunks |-> {}, relayed_backfill |-> {}, next_backfill_chunk |-> 0]

\* The attempt a peer enters, as the one who asks for it or on a prepare.
Enter(w, p, op, participants) ==
    LET held   == HoldAt(w.s)
        s      == Materialised(w.s, op.target, held)
        report == InventoryOf(s, p, op, held)
    IN  Broadcast([w EXCEPT !.s = [s EXCEPT !.active = Attempt(op, participants, held, report)]],
                  p, op.target, {report})

-----------------------------------------------------------------------------
(* drive_coordinated_drop for an active attempt, stage by stage.           *)

\* Mutant of Missing: the frame after the first one missed.
Missing_OffByOne(a) == {r.through + 2 : r \in {i \in a.reports : i.through < a.cut}}

\* coordinated_drop_required_start: the first frame some participant misses.
Missing(a) == {r.through + 1 : r \in {i \in a.reports : i.through < a.cut}}

\* coordinated_drop_selected_donor, as a set: the first participant with it all.
Donors(a) ==
    {r.participant : r \in {i \in a.reports : i.available_from <= Min(Missing(a)) /\ i.through >= a.cut}}

\* Mutant of BackfillValue: every chunk carries the input at the cut.
BackfillValue_AtCut(s, a, frame) == Held(s, a.op.target, a.cut)

BackfillValue(s, a, frame) == Held(s, a.op.target, frame)

\* coordinated_drop_send_backfill, one frame to a chunk.
SendBackfill(w, p) ==
    LET a     == w.s.active
        start == Min(Missing(a))
        frames == start .. a.cut
    IN  IF \E f \in frames : BackfillValue(w.s, a, f) = None THEN Fails(w, "MissingHistory")
        ELSE Broadcast(w, p, a.op.target,
                 {Backfill(a.op, f - start, Cardinality(frames), f, BackfillValue(w.s, a, f)) : f \in frames})

\* The cut: the highest frame any participant exposed or holds.
Cut(a) == Max({r.exposed : r \in a.reports} \cup {r.through : r \in a.reports})

ChosenCut(a) ==
    IF a.cut = None /\ Cardinality(a.reports) = Cardinality(a.participants)
    THEN [a EXCEPT !.cut = Cut(a), !.phase = "Backfill"] ELSE a

\* The ready certificates received before the cut was known.
ReadyConflict(a) ==
    a.cut # None /\ \E r \in a.transcripts :
        r.cut # a.cut \/ (\E o \in a.transcripts : o.digest # r.digest)
                      \/ (a.cut_digest # None /\ a.cut_digest # r.digest)
CountReady(a) ==
    IF a.cut = None \/ a.transcripts = {} THEN a
    ELSE [a EXCEPT !.cut_digest = (CHOOSE r \in a.transcripts : TRUE).digest,
                   !.ready = @ \cup {r.participant : r \in a.transcripts}]

\* coordinated_drop_mark_ready: the digest is of the target's input at the cut.
MarkReady(w, p) ==
    LET a      == w.s.active
        digest == Held(w.s, a.op.target, a.cut)
        cert   == Certificate("Ready", a.op, p, a.cut, digest)
    IN  IF a.cut_digest \notin {None, digest} THEN Fails(w, "ConflictingHistory")
        ELSE Broadcast([w EXCEPT !.s.active = [a EXCEPT !.cut_digest = digest, !.phase = "Ready",
                                                        !.ready = @ \cup {p},
                                                        !.transcripts = @ \cup {cert}]],
                       p, a.op.target, {cert})

\* coordinated_drop_apply_commit: the queue is frozen at the cut, the slot
\* disconnected there and its endpoint stopped.
ApplyCommit(w, p, commit) ==
    LET a == w.s.active
        t == a.op.target
        s == [w.s EXCEPT !.dropped[t] = a.cut, !.receipt[t] = a.cut, !.running = @ \ {t},
                         !.active = [a EXCEPT !.phase = "Committed", !.pending_commit = commit,
                                              !.committed_acks = @ \cup {p}]]
    IN  IF commit # Commit(a.op, a.cut, a.cut_digest) THEN Fails(w, "ConflictingHistory")
        ELSE IF w.s.dropped[t] # NULL_FRAME THEN Fails(w, "GenerationChanged")
        ELSE IF Held(w.s, t, a.cut) = None THEN Fails(w, "MissingHistory")
        ELSE Broadcast([w EXCEPT !.s = s], p, t,
                       {commit, Certificate("Committed", a.op, p, a.cut, a.cut_digest)})

AllReady(a) == a.phase = "Ready" /\ a.ready = a.participants

CommitWhenReady(w, p) ==
    LET a      == w.s.active
        commit == IF a.pending_commit # None THEN a.pending_commit
                  ELSE Commit(a.op, a.cut, a.cut_digest)
    IN  IF ~AllReady(a) THEN w
        ELSE OrFail(ApplyCommit(Broadcast(w, p, a.op.target, {commit}), p, commit), p)

ReadyWhenComplete(w, p) ==
    LET a == w.s.active
    IN  IF a.phase = "Backfill" /\ Held(w.s, a.op.target, a.cut) # None
        THEN OrFail(MarkReady(w, p), p) ELSE w

\* From the choice of the cut to the commit, as far as what is known allows.
Reconcile(w, p) ==
    LET chosen  == ChosenCut(w.s.active)
        counted == [w EXCEPT !.s.active = CountReady(chosen)]
        filled  == IF Missing(chosen) # {} /\ p = Min(Donors(chosen))
                   THEN OrFail(SendBackfill(counted, p), p) ELSE counted
        ready   == IF filled.s.active = None THEN filled ELSE ReadyWhenComplete(filled, p)
    IN  IF ReadyConflict(chosen)
        THEN FailClosed([w EXCEPT !.s.active = chosen], p, "ConflictingHistory", TRUE)
        ELSE IF chosen.cut = None THEN counted
        ELSE IF Missing(chosen) # {} /\ Donors(chosen) = {}
        THEN FailClosed(counted, p, "MissingHistory", TRUE)
        ELSE IF ready.s.active = None THEN ready ELSE CommitWhenReady(ready, p)

\* What every poll sends again.
Rebroadcast(w, p) ==
    LET a == w.s.active
        own == CASE a.phase = "Ready" -> {Certificate("Ready", a.op, p, a.cut, a.cut_digest)}
                 [] a.phase = "Committed" -> {Commit(a.op, a.cut, a.cut_digest),
                                              Certificate("Committed", a.op, p, a.cut, a.cut_digest)}
                 [] OTHER -> {}
    IN  Broadcast(w, p, a.op.target, {Prepare(a.op, a.participants)} \cup a.reports
                                         \cup a.transcripts \cup a.relayed_backfill \cup own)

ParticipantLost(s, p) == ~(s.active.participants \subseteq s.running \cup {p})

\* An active attempt is driven; after two seconds it is given up, or no longer
\* retransmitted once it is committed.
DriveActive(w, p, timeout) ==
    LET a == w.s.active
    IN  IF timeout /\ a.phase = "Committed" THEN [w EXCEPT !.s = Close(@)]
        ELSE IF timeout THEN FailClosed(w, p, "Timeout", TRUE)
        ELSE IF a.phase # "Committed" /\ ParticipantLost(w.s, p)
        THEN FailClosed(w, p, "ParticipantLost", TRUE)
        ELSE IF a.phase # "Committed" THEN Reconcile(Rebroadcast(w, p), p)
        ELSE IF a.committed_acks = a.participants
        THEN [Rebroadcast(w, p) EXCEPT !.s = Close(@)]
        ELSE Rebroadcast(w, p)

\* Mutant of SurvivorsOf: the asking peer forgets itself.
SurvivorsOf_Remote(s, p, t) == s.running \ {t}

SurvivorsOf(s, p, t) == (s.running \cup {p}) \ {t}

\* begin_coordinated_drop: queued behind an active attempt for another player; a
\* peer that is the only survivor commits at once.
Begin(w, p, t) ==
    LET participants == SurvivorsOf(w.s, p, t)
        op           == [target |-> t, coordinator |-> Min(participants)]
        entered      == Broadcast(Enter(w, p, op, participants), p, t, {Prepare(op, participants)})
    IN  IF w.s.active # None
        THEN IF w.s.active.op.target = t THEN w ELSE [w EXCEPT !.s.queued = @ \cup {t}]
        ELSE IF participants = {p} THEN DriveActive(entered, p, FALSE) ELSE entered

-----------------------------------------------------------------------------
(* The handlers of the control messages.                                   *)

\* coordinated_drop_operation_cmp: by the target set's digest, then by coordinator.
Precedes(op, other) ==
    op.target < other.target \/ (op.target = other.target /\ op.coordinator < other.coordinator)

Requeue(s) == [Close(s) EXCEPT !.queued = @ \cup {s.active.op.target}]

AcceptPrepare(w, p, m) ==
    LET s == w.s
        a == s.active
        t == m.op.target
    IN  IF m.op \in s.closed \/ (a # None /\ a.op = m.op) \/ t = p THEN w
        ELSE IF s.dropped[t] # NULL_FRAME \/ p \notin m.participants \/ t \in m.participants
        THEN Fails(w, "GenerationChanged")
        ELSE IF a = None THEN Enter(w, p, m.op, m.participants)
        ELSE IF a.phase = "Committed"
        THEN IF \E i \in DOMAIN s.deferred : s.deferred[i].op = m.op THEN w
             ELSE IF Len(s.deferred) >= Cardinality(Peers) THEN Fails(w, "ResourceLimit")
             ELSE [w EXCEPT !.s.deferred = Append(@, m)]
        ELSE IF ~Precedes(m.op, a.op) THEN Broadcast(w, p, t, {Abort(m.op, "Superseded")})
        ELSE IF a.phase # "Inventory" THEN Fails(w, "ParticipantLost")
        ELSE Enter([Broadcast(w, p, a.op.target, {Abort(a.op, "Superseded")}) EXCEPT !.s = Requeue(@)],
                   p, m.op, m.participants)

\* A report, once accepted, is relayed to everyone.
Accept(w, p, a, m) == Broadcast([w EXCEPT !.s.active = a], p, m.op.target, {m})

AcceptInventory(w, p, m) ==
    LET a == w.s.active
    IN  IF m.through = NULL_FRAME \/ m.available_from > m.through \/ m.exposed > m.through
        THEN Fails(w, "MissingHistory")
        ELSE IF \E r \in a.reports : r.participant = m.participant /\ r # m
        THEN Fails(w, "ConflictingHistory")
        ELSE IF m \in a.reports THEN w
        ELSE Accept(w, p, [a EXCEPT !.reports = @ \cup {m}], m)

\* Before the cut is known a certificate is only kept, and not relayed.
AcceptReady(w, p, m) ==
    LET a    == w.s.active
        kept == [a EXCEPT !.transcripts = @ \cup {m}]
        new  == [kept EXCEPT !.cut_digest = m.digest, !.ready = @ \cup {m.participant}]
    IN  IF \E r \in a.transcripts : r.participant = m.participant /\ r # m
        THEN Fails(w, "ConflictingHistory")
        ELSE IF a.cut = None THEN [w EXCEPT !.s.active = kept]
        ELSE IF a.cut # m.cut \/ a.cut_digest \notin {None, m.digest}
        THEN Fails([w EXCEPT !.s.active = kept], "ConflictingHistory")
        ELSE IF m \in a.transcripts THEN [w EXCEPT !.s.active = new]
        ELSE Accept(w, p, new, m)

AcceptCommitted(w, p, m) ==
    LET a   == w.s.active
        new == [a EXCEPT !.cut_digest = m.digest, !.committed_acks = @ \cup {m.participant},
                         !.pending_commit = Commit(m.op, m.cut, m.digest)]
    IN  IF a.cut # m.cut \/ a.cut_digest \notin {None, m.digest} THEN Fails(w, "ConflictingHistory")
        ELSE IF m.participant \in a.committed_acks THEN [w EXCEPT !.s.active = new]
        ELSE Accept(w, p, new, m)

AcceptReport(w, p, m) ==
    IF w.s.active = None THEN w
    ELSE IF w.s.active.op # m.op THEN w
    ELSE IF m.participant \notin w.s.active.participants THEN Fails(w, "GenerationChanged")
    ELSE CASE m.type = "Inventory" -> AcceptInventory(w, p, m)
           [] m.type = "Ready" -> AcceptReady(w, p, m)
           [] m.type = "Committed" -> AcceptCommitted(w, p, m)

\* install_missing_backfill of one frame: an overlap must agree with what is
\* held, a missing frame must be the next one.
Install(w, t, m) ==
    IF m.frame <= Through(w.s, t)
    THEN IF Held(w.s, t, m.frame) = m.value THEN w
         ELSE Fails(w, IF Held(w.s, t, m.frame) = None THEN "MissingHistory" ELSE "ConflictingHistory")
    ELSE IF m.frame = Through(w.s, t) + 1 THEN [w EXCEPT !.s.values[t] = Append(@, m.value)]
    ELSE Fails(w, "MissingHistory")

\* Mutant of InstallNext: the number of the next chunk stays where it is, so that
\* only the first one is ever installed.
InstallNext_Stuck(w) ==
    LET a    == w.s.active
        next == {c \in a.backfill_chunks : c.index = a.next_backfill_chunk}
        c    == CHOOSE x \in next : TRUE
        done == [w EXCEPT !.s.active = [a EXCEPT !.backfill_chunks = @ \ {c}]]
    IN  IF w.error # None \/ next = {} THEN w ELSE Install(done, a.op.target, c)

\* The next chunk in order is installed, if it is there.
InstallNext(w) ==
    LET a    == w.s.active
        next == {c \in a.backfill_chunks : c.index = a.next_backfill_chunk}
        c    == CHOOSE x \in next : TRUE
        done == [w EXCEPT !.s.active = [a EXCEPT !.backfill_chunks = @ \ {c},
                                                 !.next_backfill_chunk = @ + 1]]
    IN  IF w.error # None \/ next = {} THEN w ELSE Install(done, a.op.target, c)

\* As many as there are.
InstallChunks(w) ==
    LET step[n \in 0 .. LastFrame + 1] == IF n = 0 THEN w ELSE InstallNext(step[n - 1])
    IN  step[LastFrame + 1]

\* A chunk seen before is ignored: a copy of an installed one is never read again.
AcceptBackfill(w, p, m) ==
    LET a    == w.s.active
        kept == [a EXCEPT !.backfill_chunks = @ \cup {m}, !.relayed_backfill = @ \cup {m}]
        same == {c \in a.relayed_backfill : c.index = m.index}
    IN  IF a = None THEN w
        ELSE IF a.op # m.op \/ a.phase = "Committed" \/ a.cut = None THEN w
        ELSE IF Missing(a) = {} THEN w
        ELSE IF Donors(a) = {} \/ m.frame < Min(Missing(a)) \/ m.frame > a.cut
                \/ (\E c \in a.relayed_backfill : c.count # m.count) \/ same \notin {{}, {m}}
        THEN Fails(w, "ConflictingHistory")
        ELSE IF m \in a.relayed_backfill THEN w
        ELSE InstallChunks(Accept(w, p, kept, m))

AcceptCommit(w, p, m) ==
    LET a == w.s.active
    IN  IF a = None THEN w
        ELSE IF a.op # m.op \/ w.s.dropped[m.op.target] = m.cut THEN w
        ELSE IF a.cut \notin {None, m.cut} \/ a.cut_digest \notin {None, m.digest}
        THEN Fails(w, "ConflictingHistory")
        ELSE [w EXCEPT !.s.active.pending_commit = m]

\* A superseded inventory is queued again; any other abort fails closed and, as
\* its sender has told everyone, is not relayed.
AcceptAbort(w, p, m) ==
    LET a == w.s.active
    IN  IF a = None THEN w
        ELSE IF a.op # m.op THEN w
        ELSE IF m.reason = "Superseded" /\ a.phase = "Inventory" THEN [w EXCEPT !.s = Requeue(@)]
        ELSE FailClosed(w, p, m.reason, FALSE)

Handle(w, p, m) ==
    CASE m.type = "Prepare" -> AcceptPrepare(w, p, m)
      [] m.type \in {"Inventory", "Ready", "Committed"} -> AcceptReport(w, p, m)
      [] m.type = "Backfill" -> AcceptBackfill(w, p, m)
      [] m.type = "Commit" -> AcceptCommit(w, p, m)
      [] m.type = "Abort" -> AcceptAbort(w, p, m)

-----------------------------------------------------------------------------
(* drive_coordinated_drop: what is waiting is started, then driven.        *)

\* The next prepare received while an earlier commit was closing: one that names
\* another set of survivors is asked for again instead.
StartNextDeferred(w, p) ==
    LET m    == Head(w.s.deferred)
        t    == m.op.target
        u    == [w EXCEPT !.s.deferred = Tail(@)]
        live == w.s.dropped[t] = NULL_FRAME
    IN  IF w.s.active # None \/ w.s.deferred = <<>> \/ w.error # None THEN w
        ELSE IF m.participants # SurvivorsOf(w.s, p, t)
        THEN [u EXCEPT !.s.queued = IF live THEN @ \cup {t} ELSE @, !.s.closed = @ \cup {m.op}]
        ELSE AcceptPrepare(u, p, m)

StartDeferred(w, p) ==
    LET step[n \in 0 .. Cardinality(Peers)] ==
            IF n = 0 THEN w ELSE StartNextDeferred(step[n - 1], p)
    IN  step[Cardinality(Peers)]

StartQueued(w, p) ==
    LET t == Min(w.s.queued)
        u == [w EXCEPT !.s.queued = @ \ {t}]
    IN  IF w.s.active # None \/ w.s.queued = {} THEN w
        ELSE IF w.s.dropped[t] # NULL_FRAME THEN u
        ELSE Begin(u, p, t)

DriveAll(w, p, timeout) ==
    LET d == StartDeferred(w, p)
        v == IF d.error = None THEN StartQueued(d, p) ELSE d
    IN  IF v.s.active = None THEN [v EXCEPT !.error = None] ELSE DriveActive(v, p, timeout)

-----------------------------------------------------------------------------
(* Steps.                                                                  *)

\* A handler's result takes effect.
Effect(p, w) ==
    /\ peer' = [peer EXCEPT ![p] = w.s]
    /\ net' = net \cup w.out
    /\ UNCHANGED mesh

\* remove_player, or the timeout of t's endpoint (ContinueWithout).  Bound: not
\* asked for again by a session that has already failed closed on it.
RemovePlayer(p, t) ==
    /\ ~busy[p]
    /\ \A op \in peer[p].closed : op.target # t
    /\ peer[p].dropped[t] = NULL_FRAME
    /\ Effect(p, Begin(Work(peer[p]), p, t))
    /\ UNCHANGED <<busy, expired>>

\* poll_coordinated_drop takes a message from a running endpoint; one that changes
\* nothing is not a step.
Handled(p, m) == OrFail(Handle(Work(peer[p]), p, m.body), p)
IsNews(p, w) == w.s # peer[p] \/ ~(w.out \subseteq net)
Receive(p, m) ==
    /\ m.to = p
    /\ m.from \in peer[p].running
    /\ \E w \in {Handled(p, m)} : IsNews(p, w) /\ Effect(p, w)
    /\ busy' = [busy EXCEPT ![p] = TRUE]
    /\ UNCHANGED expired

\* The end of every poll; the clock may have run out on the active attempt.
Drive(p, timeout) ==
    /\ timeout => peer[p].active # None
    /\ Effect(p, DriveAll(Work(peer[p]), p, timeout))
    /\ busy' = [busy EXCEPT ![p] = FALSE]
    /\ expired' = (expired \/ timeout)

\* Event::Input: the target's next input by local_connect_status.  One the queue
\* already has, from a backfill, is refused, and that halts the session.
ReceiveInput(p, t) ==
    LET s     == peer[p]
        frame == s.receipt[t] + 1
    IN  /\ ~busy[p]
        /\ s.dropped[t] = NULL_FRAME
        /\ frame < Len(stream[t])
        /\ peer' = [peer EXCEPT ![p] =
                       IF frame = Through(s, t) + 1
                       THEN [s EXCEPT !.values[t] = Append(@, stream[t][frame + 1]),
                                      !.receipt[t] = frame]
                       ELSE FailClosedAt(s, s.exposed)]
        /\ UNCHANGED <<busy, net, expired, mesh>>

\* How far confirmed_frame can reach for slot t: what every survivor has received,
\* as their packets report it; a slot dropped here counts until all others have
\* dropped it too.
SlotBound(p, t) ==
    LET s       == peer[p]
        voters  == s.running \ {t}
        reports == {peer[q].receipt[t] : q \in voters}
    IN  IF s.dropped[t] = NULL_FRAME THEN Min(reports \cup {s.receipt[t]})
        ELSE IF \E q \in voters : peer[q].dropped[t] = NULL_FRAME THEN Min(reports)
        ELSE LastFrame

\* Mutant of Holds: nothing holds confirmation while a drop is agreed.
Holds_Never(s) == {}

\* The hold of an active drop and the ceiling of a halted session.
Holds(s) ==
    (IF s.ceiling = None THEN {} ELSE {s.ceiling})
        \cup (IF s.active = None THEN {}
              ELSE IF s.active.phase = "Committed" THEN {} ELSE {s.active.held_at})

ConfirmedBound(p) ==
    Min({LastFrame} \cup {SlotBound(p, t) : t \in Others(p)} \cup Holds(peer[p]))

\* confirmed_frame is read: packets with reports may be late, so any frame up to
\* the bound, from the last answer on, may be the answer.
Confirmable(p, frame) ==
    /\ ~busy[p]
    /\ frame >= peer[p].exposed
    /\ frame <= ConfirmedBound(p)
    /\ UNCHANGED <<busy, net, expired, mesh>>
ConfirmedFrame(p, frame) ==
    /\ Confirmable(p, frame)
    /\ peer' = [peer EXCEPT ![p].exposed = frame]

\* advance_frame of a running session also discards what is confirmed.
AdvanceFrame(p, frame) ==
    LET s == peer[p]
    IN  /\ Confirmable(p, frame)
        /\ s.ceiling = None
        /\ peer' = [peer EXCEPT ![p].exposed = frame,
                                ![p].first = [t \in Others(p) |->
                                    Max({s.first[t], Min({frame - 1, Through(s, t)})})]]

Next ==
    \/ \E r \in mesh.requests : RemovePlayer(r[1], r[2])
    \/ \E m \in net : Receive(m.to, m)
    \/ \E p \in Survivors, timeout \in BOOLEAN : Drive(p, timeout)
    \/ \E p \in Peers : \E t \in Others(p) : ReceiveInput(p, t)
    \/ \E p \in Survivors, frame \in 0 .. LastFrame : ConfirmedFrame(p, frame)
    \/ \E p \in Survivors, frame \in 0 .. LastFrame : AdvanceFrame(p, frame)

Spec == Init /\ [][Next]_vars

\* Peer p has a message to handle, or something for drive to do.
HasNews(p) == ~expired /\ p \in Survivors /\
                  \E m \in net : m.to = p /\ m.from \in peer[p].running /\ IsNews(p, Handled(p, m))
CanDrive(p) == ~expired /\ p \in Survivors /\ (busy[p] \/ IsNews(p, DriveAll(Work(peer[p]), p, FALSE)))

\* Polls go on: each drives the operation, and since an active attempt is sent again
\* by every poll, each message that still matters is received in the end.  Nothing
\* is assumed once an attempt has expired: its messages are not sent again.
Fairness ==
    \A p \in UNION {m.peers : m \in Scenarios} :
        /\ []<>~HasNews(p) \/ []<><<~expired /\ \E m \in net : Receive(p, m)>>_vars
        /\ []<>~CanDrive(p) \/ []<><<~expired /\ Drive(p, FALSE)>>_vars

FairSpec == Spec /\ Fairness

-----------------------------------------------------------------------------
(* Properties.                                                             *)

Frame == 0 .. LastFrame
FrameOrNull == Frame \cup {NULL_FRAME}

TypeOK ==
    \A p \in Peers :
        /\ busy[p] \in BOOLEAN
        /\ peer[p].running \subseteq Peers \ {p}
        /\ peer[p].exposed \in FrameOrNull
        /\ peer[p].ceiling \in FrameOrNull \cup {None}
        /\ peer[p].queued \subseteq Others(p)
        /\ \A t \in Others(p) :
               /\ peer[p].values[t] \in Seq(Input)
               /\ {peer[p].receipt[t], peer[p].dropped[t]} \subseteq FrameOrNull
               /\ peer[p].first[t] \in Frame
        /\ peer[p].active # None =>
               /\ peer[p].active.phase \in Phases
               /\ p \in peer[p].active.participants
               /\ {peer[p].active.held_at} \cup ({peer[p].active.cut} \ {None}) \subseteq Frame

Dropped(p, t) == p # t /\ peer[p].dropped[t] # NULL_FRAME

\* No survivor has reported a frame past the cut as confirmed before it has itself
\* dropped the player: what it reported used the player's real inputs.
ExposedBelowCut ==
    \A t \in Targets : \A p, q \in Peers \ {t} :
        Dropped(p, t) /\ ~Dropped(q, t) => peer[q].exposed <= peer[p].dropped[t]

\* Survivors that drop a player drop it at the same frame, and hold the inputs it
\* really gave up to there, received from it or filled in by a donor, whatever was
\* lost or came late between them.
SurvivorsAgree ==
    \A t \in Targets : \A p \in Peers : Dropped(p, t) =>
        /\ \A q \in Peers : Dropped(q, t) => peer[q].dropped[t] = peer[p].dropped[t]
        /\ \A f \in peer[p].first[t] .. peer[p].dropped[t] :
               Held(peer[p], t, f) = stream[t][f + 1]

\* Survivors that have dropped a player, at whatever point of the session, play the
\* same inputs of it up to the cut.
SurvivorsShareHistory ==
    \A t \in Targets : \A p, q \in Peers : Dropped(p, t) /\ Dropped(q, t) =>
        \A f \in Max({peer[p].first[t], peer[q].first[t]}) .. peer[p].dropped[t] :
            Held(peer[p], t, f) = Held(peer[q], t, f)

\* A survivor that has not dropped the player has discarded an input of it that
\* another one's inventory does not claim to hold.
Overtaken ==
    \E m \in net : m.body.type = "Inventory" /\
        \E q \in Peers \ {m.body.op.target} :
            /\ ~Dropped(q, m.body.op.target)
            /\ peer[q].first[m.body.op.target] > m.body.through + 1

\* A drop fails for missing history only when a survivor has gone on confirming and
\* discarding inputs past what another had already put into its inventory: nobody who
\* holds confirmation gives up what someone else still needs.
NeededHistoryIsKept == (\E p \in Peers : peer[p].failure = "MissingHistory") => Overtaken

\* A drop fails for missing history only when some survivor does lack an input of the
\* player that another one has: what everyone holds needs no donor.
MissingHistoryIsReal ==
    (\E p \in Peers : peer[p].failure = "MissingHistory") =>
        \E t \in Targets : \E p, q \in Peers \ {t} : Through(peer[p], t) < Through(peer[q], t)

OneTarget == Cardinality(Targets) = 1

\* Once a drop is under way every survivor drops the player, in whatever order the
\* messages come, unless some attempt runs into its timeout or is overtaken (and
\* unless another player is dropped at the same time, which may cost an attempt its
\* participants).
DropCompletes ==
    []~expired /\ []~Overtaken /\ []OneTarget =>
        ((\E p \in Peers : peer[p].active # None)
            ~> (\A t \in Targets : \A p \in Peers \ {t} : Dropped(p, t)))
=============================================================================
