---------------------------- MODULE AuditTrail -----------------------------
(***************************************************************************)
(* From the kernel's audit ring buffer to the lines an operator reads: the *)
(* lock-free reader of the ring (kennel-lib-bpf ringbuf.rs), the drain     *)
(* thread and its stop (kenneld bpf_audit.rs), the writer's level filter   *)
(* and fan-out (kennel-lib-audit writer.rs), the bounded queue and worker  *)
(* of every sink (timeout.rs), and the rotation of the file sink           *)
(* (sinks.rs), with the order run_kennel tears them down in.               *)
(*                                                                         *)
(* The ring is RingSize cells; positions only grow and are masked.  The    *)
(* kernel's side (reserve, commit, discard) is external.                   *)
(***************************************************************************)
EXTENDS Naturals, Sequences, FiniteSets, SequencesExt

CONSTANTS
    CPUs,           \* where the cgroup's programs run
    RingSize,       \* cells of the ring
    Kinds,          \* events: [outcome, size]; outcome "foreign" does not parse as this kennel's
    Levels,         \* the levels [audit].net may have
    SinkOrder,      \* the sinks in the order of [audit].sinks; "file" is the rotating one
    Failing,        \* the sinks whose own writes may fail
    QueueCap,       \* DEFAULT_CAPACITY
    Limit,          \* rotate_at_bytes, in lines
    Retain,         \* retain_count
    SameSecond,     \* whether two rotations may fall in one second
    MaxEvents,      \* bound: events of a behaviour
    Nothing         \* no reservation

ASSUME AuditAssumption ==
    /\ {RingSize, QueueCap, Limit, Retain, MaxEvents} \subseteq Nat \ {0}
    /\ \A e \in Kinds : e.size \in 1 .. RingSize
    /\ Levels \subseteq {"off", "denies", "summary", "full"} /\ SinkOrder \in Seq(Range(SinkOrder))
    /\ Failing \subseteq Range(SinkOrder) /\ SameSecond \in BOOLEAN
    /\ Nothing \notin [pos : Nat, number : Nat]

VARIABLES
    ring,       \* the data area: offset -> record header and sample
    prod, cons, \* the positions in the two shared pages
    cpu,        \* what each CPU has reserved and not committed: [pos, number]
    log,        \* history: the events reserved, in order
    drain,      \* the drain thread: "poll", "read", "emit", "advance" or "ended"
    final,      \* whether it is in the final sweep
    handed,     \* history: the numbers of the events it has taken, in order
    level,
    queue,      \* the channel of each sink
    lost,       \* history: what each full channel refused
    diag,       \* history: drops reported on stderr only
    written,    \* what the sinks other than the file sink have written
    live,       \* the file sink's files, by stem
    rotated,    \* and its rotated ones: [stem, secs] -> lines
    retired,    \* history: lines retention has removed
    clock,      \* seconds
    run         \* run_kennel: "up", "exited", "logged", "stopped", "closing" or "done"

ringVars == <<ring, prod, cons, cpu, log>>
drainVars == <<drain, final, handed>>
sinkVars == <<queue, lost, diag>>
fileVars == <<written, live, rotated, retired, clock>>
auditVars == <<ringVars, drainVars, level, sinkVars, fileVars, run>>

Sinks == Range(SinkOrder)

\* The records: the events by their number from 1, the lifecycle.kennel-exit,
\* and the lifecycle.audit-drop of each sink.
Exit == 0
Drop(k) == MaxEvents + CHOOSE i \in DOMAIN SinkOrder : SinkOrder[i] = k

\* file_stem: ring events are of the resource net, the others lifecycle.
Stems == {"network", "lifecycle"}
Stem(r) == IF r \in 1 .. MaxEvents THEN "network" ELSE "lifecycle"

Offset(pos) == pos % RingSize
Empty == [busy |-> FALSE, len |-> 0, sample |-> 0]

AuditTypeOK ==
    /\ prod \in Nat /\ cons \in Nat
    /\ \A c \in CPUs : cpu[c] = Nothing \/ cpu[c] \in [pos : Nat, number : DOMAIN log]
    /\ \A n \in DOMAIN log : log[n] \in Kinds
    /\ drain \in {"poll", "read", "emit", "advance", "ended"} /\ final \in BOOLEAN
    /\ level \in Levels
    /\ \A k \in Sinks : Len(queue[k]) <= QueueCap
    /\ run \in {"up", "exited", "logged", "stopped", "closing", "done"}

AuditInit ==
    /\ ring = [o \in 0 .. RingSize - 1 |-> Empty] /\ prod = 0 /\ cons = 0
    /\ cpu = [c \in CPUs |-> Nothing] /\ log = <<>>
    /\ drain = "poll" /\ final = FALSE /\ handed = <<>>
    /\ level \in Levels
    /\ queue = [k \in Sinks |-> <<>>] /\ lost = [k \in Sinks |-> {}] /\ diag = {}
    /\ written = [k \in Sinks \ {"file"} |-> {}]
    /\ live = [s \in Stems |-> {}] /\ rotated = <<>> /\ retired = {} /\ clock = 0 /\ run = "up"

----------------------------------------------------------------------------
(* The kernel's side of the ring.                                          *)

\* bpf_ringbuf_reserve: the header is busy before the position is published.
Reserve(c, e) ==
    /\ run = "up" /\ cpu[c] = Nothing /\ Len(log) < MaxEvents
    /\ prod + e.size - cons <= RingSize
    /\ ring' = [ring EXCEPT ![Offset(prod)] = [busy |-> TRUE, len |-> e.size, sample |-> 0]]
    /\ prod' = prod + e.size
    /\ cpu' = [cpu EXCEPT ![c] = [pos |-> prod, number |-> Len(log) + 1]]
    /\ log' = Append(log, e)
    /\ UNCHANGED <<cons, drainVars, level, sinkVars, fileVars, run>>

\* bpf_ringbuf_submit, in any order among the CPUs.
Commit(c) ==
    /\ cpu[c] # Nothing
    /\ ring' = [ring EXCEPT ![Offset(cpu[c].pos)].busy = FALSE,
                            ![Offset(cpu[c].pos)].sample = cpu[c].number]
    /\ cpu' = [cpu EXCEPT ![c] = Nothing]
    /\ UNCHANGED <<prod, cons, log, drainVars, level, sinkVars, fileVars, run>>

----------------------------------------------------------------------------
(* The writer and its sinks.                                               *)

\* should_emit, for the ring's events.  They carry no target, so under summary
\* no allow is ever a repetition.
Passes(e) ==
    \/ level \in {"full", "summary"}
    \/ level = "denies" /\ e.outcome = "deny"

\* TimeoutSink::write.
Full(q) == Len(q) >= QueueCap
Send(q, r) == IF Full(q) THEN q ELSE Append(q, r)

\* One sink of fan_out, with report_drop: a sink that refuses the record is
\* reported to the others at once, before the later ones get the record.
Offer(r, st, k) ==
    IF ~Full(st.queue[k])
    THEN [st EXCEPT !.queue[k] = Append(@, r)]
    ELSE [queue |-> [j \in Sinks |-> IF j = k THEN st.queue[k] ELSE Send(st.queue[j], Drop(k))],
          lost |-> [st.lost EXCEPT ![k] = @ \cup {r}],
          diag |-> IF \A j \in Sinks \ {k} : Full(st.queue[j]) THEN st.diag \cup {k} ELSE st.diag]

\* The sinks in their order, from the state st0 of the channels.
Offered(r, st0) ==
    LET st[i \in 0 .. Len(SinkOrder)] ==
          IF i = 0 THEN st0 ELSE Offer(r, st[i - 1], SinkOrder[i])
    IN st[Len(SinkOrder)]

FanOut(r) ==
    LET st == Offered(r, [queue |-> queue, lost |-> lost, diag |-> diag])
    IN queue' = st.queue /\ lost' = st.lost /\ diag' = st.diag

Rotates(r) == Cardinality(live[Stem(r)]) + 1 > Limit

\* maybe_rotate with enforce_retention: the live file takes the second's name,
\* and the oldest files of its stem beyond retain_count are removed.
Rotate(stem, secs) ==
    LET new == [stem |-> stem, secs |-> secs]
        all == [f \in DOMAIN rotated \cup {new} |-> IF f = new THEN live[stem] ELSE rotated[f]]
        old == {f \in DOMAIN all :
                  /\ f.stem = stem
                  /\ Cardinality({g \in DOMAIN all : g.stem = stem /\ g.secs > f.secs}) >= Retain}
    IN /\ rotated' = [f \in DOMAIN all \ old |-> all[f]]
       /\ retired' = retired \cup UNION {all[f] : f \in old}
       /\ clock' = secs

\* The worker writes the oldest record of the channel; an error of its sink is
\* swallowed.
Taken(k) ==
    /\ queue[k] # <<>>
    /\ queue' = [queue EXCEPT ![k] = Tail(@)]
    /\ UNCHANGED <<ringVars, drainVars, level, lost, diag, run>>

Line(k, ok) == IF ok THEN {Head(queue[k])} ELSE {}

WorkerWrites(k, ok) ==
    /\ Taken(k) /\ k # "file"
    /\ written' = [written EXCEPT ![k] = @ \cup Line(k, ok)]
    /\ UNCHANGED <<live, rotated, retired, clock>>

FileAppends(ok) ==
    /\ Taken("file") /\ ~Rotates(Head(queue["file"]))
    /\ live' = [live EXCEPT ![Stem(Head(queue["file"]))] = @ \cup Line("file", ok)]
    /\ UNCHANGED <<written, rotated, retired, clock>>

FileRotates(ok, secs) ==
    LET stem == Stem(Head(queue["file"]))
    IN /\ Taken("file") /\ Rotates(Head(queue["file"]))
       /\ Rotate(stem, secs)
       /\ live' = [live EXCEPT ![stem] = Line("file", ok)]
       /\ UNCHANGED written

Outcomes(k) == IF k \in Failing THEN BOOLEAN ELSE {TRUE}
Seconds == {clock + 1} \cup (IF SameSecond THEN {clock} ELSE {})

----------------------------------------------------------------------------
(* The drain thread.                                                       *)

Stopping == run \in {"stopped", "closing", "done"}

\* Mutant: no sweep after the stop.
AfterStopNone == "ended"

AfterStop == "read"

\* drain_loop: woken by the ring (the stop may have been set since it last
\* looked), or leaving for the stop, which is followed by one last sweep.
DrainWakes ==
    /\ drain = "poll"
    /\ \/ prod > cons /\ drain' = "read" /\ UNCHANGED final
       \/ Stopping /\ drain' = AfterStop /\ final' = TRUE
    /\ UNCHANGED <<ringVars, handed, level, sinkVars, fileVars, run>>

\* Mutant: a record is read whether or not it has been committed.
BusyIgnored(header) == FALSE

Busy(header) == header.busy

\* RingBuffer::consume up to the sample: nothing published, or a record still
\* being written, ends the sweep.
ConsumeHeader ==
    /\ drain = "read"
    /\ \/ cons < prod /\ ~Busy(ring[Offset(cons)]) /\ drain' = "emit"
       \/ /\ cons >= prod \/ Busy(ring[Offset(cons)])
          /\ drain' = IF final THEN "ended" ELSE "poll"
    /\ UNCHANGED <<ringVars, final, handed, level, sinkVars, fileVars, run>>

\* The callback reads the sample where it lies: parse_event and emit.
EmitSample ==
    LET n == ring[Offset(cons)].sample
        e == IF n \in DOMAIN log THEN log[n] ELSE [outcome |-> "foreign"]
    IN /\ drain = "emit"
       /\ handed' = Append(handed, n)
       /\ IF e.outcome # "foreign" /\ Passes(e) THEN FanOut(n) ELSE UNCHANGED sinkVars
       /\ drain' = "advance"
       /\ UNCHANGED <<ringVars, final, level, fileVars, run>>

\* The consumer position moves past the record once it has been handled.
ConsumeAdvance ==
    /\ drain = "advance"
    /\ cons' = cons + ring[Offset(cons)].len
    /\ drain' = "read"
    /\ UNCHANGED <<ring, prod, cpu, log, final, handed, level, sinkVars, fileVars, run>>

----------------------------------------------------------------------------
(* The end of run_kennel.                                                  *)

\* The workload and its cgroup are gone; no program is half way.
WorkloadGone ==
    /\ run = "up" /\ \A c \in CPUs : cpu[c] = Nothing
    /\ run' = "exited"
    /\ UNCHANGED <<ringVars, drainVars, level, sinkVars, fileVars>>

\* The lifecycle events, which no level filters.
LogExit ==
    /\ run = "exited" /\ FanOut(Exit) /\ run' = "logged"
    /\ UNCHANGED <<ringVars, drainVars, level, fileVars>>

\* Drain::stop sets the flag, then joins; then the writer is dropped, and
\* with it the channels, whose workers are joined.
StopDrain ==
    /\ run = "logged" /\ run' = "stopped"
    /\ UNCHANGED <<ringVars, drainVars, level, sinkVars, fileVars>>

DropWriter ==
    /\ \/ run = "stopped" /\ drain = "ended" /\ run' = "closing"
       \/ run = "closing" /\ (\A k \in Sinks : queue[k] = <<>>) /\ run' = "done"
    /\ UNCHANGED <<ringVars, drainVars, level, sinkVars, fileVars>>

AuditNext ==
    \/ \E c \in CPUs : Commit(c) \/ \E e \in Kinds : Reserve(c, e)
    \/ \E k \in Sinks, ok \in BOOLEAN :
          /\ ok \in Outcomes(k)
          /\ \/ WorkerWrites(k, ok)
             \/ k = "file" /\ (FileAppends(ok) \/ \E secs \in Seconds : FileRotates(ok, secs))
    \/ DrainWakes \/ ConsumeHeader \/ EmitSample \/ ConsumeAdvance
    \/ WorkloadGone \/ LogExit \/ StopDrain \/ DropWriter

AuditSpec == AuditInit /\ [][AuditNext]_auditVars

----------------------------------------------------------------------------
(* Properties.                                                             *)

\* The reader takes every record once, whole, and in the order the records
\* were reserved, however the CPUs' commits interleave and however often the
\* ring has wrapped (ringbuf.rs, consume).
RingExact == handed = [i \in 1 .. Len(handed) |-> i]

\* What sink k has written, retention aside.
Kept(k) ==
    IF k = "file"
    THEN (UNION Range(live)) \cup (UNION Range(rotated)) \cup retired ELSE written[k]

\* The events the level asks for.
Due(n) ==
    \/ log[n].outcome = "deny" /\ level # "off"
    \/ log[n].outcome \in {"allow", "info"} /\ level \in {"summary", "full"}

\* Once a kennel is torn down, every event its programs could put in the ring
\* and its level asks for, and its exit, is in each sink, unless that sink's
\* channel was full; and a sink that refused something was reported, in another
\* sink or on stderr (bpf_audit.rs, the final sweep; timeout.rs, the flush on
\* drop; writer.rs, report_drop).
TrailComplete ==
    run = "done" =>
        \A k \in Sinks :
            /\ \A r \in {n \in DOMAIN log : Due(n)} \cup {Exit} : r \in Kept(k) \cup lost[k]
            /\ lost[k] # {} => k \in diag \/ \E j \in Sinks \ {k} : Drop(k) \in Kept(j)
=============================================================================
