--------------------------- MODULE AdapterStatus ---------------------------
(***************************************************************************)
(* The core's view of one gateway-hosted adapter: the observer of          *)
(* gateway.adapter.* frames (comms_mcp/adapter_status_observer.py), the    *)
(* in-child crash handler (comms_mcp/handlers.py) and the reconciler that  *)
(* folds their two crash signals into incidents                            *)
(* (comms_mcp/crash_incident_reconciler.py).  The daemon's runner gives    *)
(* every notification a task of its own, so a frame is observed in two     *)
(* steps around the await of its audit row, and the awaits of several      *)
(* frames end in any order.                                                *)
(***************************************************************************)
EXTENDS Integers, Sequences, FiniteSets

CONSTANTS
    MaxSeq,         \* bound on the gateway's restart counter
    MaxIncidents,   \* _MAX_INCIDENTS_PER_ADAPTER, 64 in the code
    MaxFrames       \* bound on the notifications delivered

VARIABLES
    gateway,        \* the supervisor's side: the last frame it sent
    frames,         \* the frames delivered so far, in the order of the wire
    tasks,          \* notifications waiting for their audit append
    rows,           \* the audit rows written
    folds,          \* every fold the reconciler returned
    current,        \* _AdapterState.current_incarnation
    incidents,      \* _AdapterState.incidents, oldest first
    latest,         \* the observer's snapshot: a position in frames, 0 for none
    lost            \* an audit append failed: AdapterStatusAuditWriteError

vars == <<gateway, frames, tasks, rows, folds, current, incidents, latest, lost>>

Kinds == {"up", "down", "crashed", "breaker_open", "child"}

\* A frame: what it reports, of which incarnation, and for `up` whether its
\* epoch is the one this core booted with.
Frame(kind, seq, fresh) == [kind |-> kind, seq |-> seq, fresh |-> fresh]

Init ==
    /\ gateway = Frame("down", 0, TRUE)
    /\ frames = <<>> /\ tasks = {} /\ rows = {} /\ folds = {}
    /\ current = 0 /\ incidents = <<>> /\ latest = 0 /\ lost = FALSE
-----------------------------------------------------------------------------
\* The reconciler.

Incident(seq, id, gw, child) == [seq |-> seq, id |-> id, gw |-> gw, child |-> child]

IncidentsOf(seq) == {i \in DOMAIN incidents : incidents[i].seq = seq}

\* A uuid no incident of this adapter had before.
FreshId == Cardinality({f.id : f \in folds}) + 1

\* Variant: the newest incident is forgotten.
EvictNewest(table) ==
    IF Len(table) > MaxIncidents THEN SubSeq(table, 1, MaxIncidents) ELSE table

\* while len(incidents) > cap: incidents.popitem(last=False)
Evict(table) == IF Len(table) > MaxIncidents THEN Tail(table) ELSE table

\* The incident of incarnation seq with the signal `source` noted on it, and
\* the table that holds it.
FoldTable(seq, gw, child) ==
    IF IncidentsOf(seq) = {}
    THEN Evict(Append(incidents, Incident(seq, FreshId, gw, child)))
    ELSE [i \in DOMAIN incidents |->
            IF i \in IncidentsOf(seq)
            THEN Incident(seq, incidents[i].id, gw \/ incidents[i].gw, child \/ incidents[i].child)
            ELSE incidents[i]]

FoldId(seq) == IF IncidentsOf(seq) = {} THEN FreshId
               ELSE incidents[CHOOSE i \in IncidentsOf(seq) : TRUE].id

GatewayDuplicate(seq) == \E i \in IncidentsOf(seq) : incidents[i].gw

ChildDuplicate(seq) == \E i \in IncidentsOf(seq) : incidents[i].child

\* What the caller stamps on its row; `at` is the notification it came from.
Fold(at, source, seq, duplicate) ==
    [at |-> at, source |-> source, seq |-> seq, id |-> FoldId(seq), duplicate |-> duplicate]

Bigger(a, b) == IF a > b THEN a ELSE b

observe_gateway_crash(at, seq) ==
    /\ folds' = folds \cup {Fold(at, "gateway", seq, GatewayDuplicate(seq))}
    /\ incidents' = FoldTable(seq, TRUE, FALSE)
    /\ current' = Bigger(current, seq)

observe_child_crash(at) ==
    /\ folds' = folds \cup {Fold(at, "child", current, ChildDuplicate(current))}
    /\ incidents' = FoldTable(current, FALSE, TRUE)
    /\ UNCHANGED current

note_incarnation(seq) == current' = Bigger(current, seq)
-----------------------------------------------------------------------------
\* The notifications: each opens a task that runs to its audit await.

Deliver(f) ==
    /\ Len(frames) < MaxFrames
    /\ frames' = Append(frames, f)
    /\ tasks' = tasks \cup {Len(frames) + 1}
    /\ UNCHANGED <<rows, latest, lost>>

\* What the supervisor may report next of an adapter: `up` for a served
\* incarnation, `crashed` once for one that was up or failed to spawn, and
\* `down` or `breaker_open` at the end.
Reports(kind, seq) ==
    \/ kind = "up" /\ gateway.kind = "down" /\ seq = 0
    \/ kind \in {"up", "crashed"} /\ gateway.kind = "crashed" /\ seq = gateway.seq + 1
    \/ kind = "crashed" /\ gateway.kind = "up" /\ seq = gateway.seq
    \/ kind = "down" /\ gateway.kind \in {"up", "crashed"} /\ seq = gateway.seq
    \/ kind = "breaker_open" /\ gateway.kind = "crashed" /\ seq = gateway.seq

Reported(kind, seq) ==
    gateway' = Frame(IF kind \in {"down", "breaker_open"} THEN "end" ELSE kind, seq, TRUE)

\* Up, down and breaker_open frames: nothing is folded before the await.
Observe(kind, seq, fresh) ==
    /\ kind # "crashed"
    /\ Reports(kind, seq) /\ Reported(kind, seq)
    /\ Deliver(Frame(kind, seq, fresh \/ kind # "up"))
    /\ UNCHANGED <<folds, current, incidents>>

\* The fold happens before the row is built: the await comes after it.
ObserveCrashed(seq) ==
    /\ Reports("crashed", seq) /\ Reported("crashed", seq)
    /\ Deliver(Frame("crashed", seq, TRUE))
    /\ observe_gateway_crash(Len(frames) + 1, seq)

\* send_status_frame without a core transport: the frame is dropped.
FrameDropped(kind, seq) ==
    /\ Reports(kind, seq) /\ Reported(kind, seq)
    /\ UNCHANGED <<frames, tasks, rows, folds, current, incidents, latest, lost>>

\* The same crashed frame delivered again.
ObserveCrashedAgain ==
    /\ gateway.kind = "crashed"
    /\ Deliver(gateway)
    /\ observe_gateway_crash(Len(frames) + 1, gateway.seq)
    /\ UNCHANGED gateway

\* AdapterCrashHandler.process: the crash the child reports of itself.
ChildCrash ==
    /\ gateway.kind # "end"
    /\ Deliver(Frame("child", current, TRUE))
    /\ observe_child_crash(Len(frames) + 1)
    /\ UNCHANGED gateway
-----------------------------------------------------------------------------
\* The audit await ends.

\* An `up` of another epoch is refused: its row is a rejection.
Rejected(f) == f.kind = "up" /\ ~f.fresh

Snapshot(n) == latest' = IF frames[n].kind = "child" \/ Rejected(frames[n]) THEN latest ELSE n

Appended(n) ==
    /\ n \in tasks
    /\ tasks' = tasks \ {n}
    /\ rows' = rows \cup {n}
    /\ Snapshot(n)
    /\ IF frames[n].kind = "up" /\ ~Rejected(frames[n])
       THEN note_incarnation(frames[n].seq)
       ELSE UNCHANGED current
    /\ UNCHANGED <<gateway, frames, folds, incidents, lost>>

\* append_schema raises: no row, and the snapshot keeps what it said.
AppendFails(n) ==
    /\ n \in tasks
    /\ tasks' = tasks \ {n}
    /\ lost' = TRUE
    /\ UNCHANGED <<gateway, frames, rows, folds, current, incidents, latest>>

Next ==
    \/ \E kind \in Kinds, seq \in 0..MaxSeq, fresh \in BOOLEAN : Observe(kind, seq, fresh)
    \/ \E seq \in 0..MaxSeq : ObserveCrashed(seq)
    \/ \E kind \in Kinds, seq \in 0..MaxSeq : FrameDropped(kind, seq)
    \/ ObserveCrashedAgain
    \/ ChildCrash
    \/ \E n \in tasks : Appended(n)
    \/ \E n \in tasks : AppendFails(n)

Spec == Init /\ [][Next]_vars
-----------------------------------------------------------------------------
\* The reconciler's table stays within its cap and keeps one incident for an
\* incarnation; a task is a delivered notification without a row.
TypeOK ==
    /\ \A i \in DOMAIN frames : frames[i].kind \in Kinds /\ frames[i].seq \in 0..MaxSeq
    /\ tasks \cup rows \subseteq DOMAIN frames /\ tasks \cap rows = {}
    /\ Len(incidents) <= MaxIncidents
    /\ \A i, j \in DOMAIN incidents : incidents[i].seq = incidents[j].seq => i = j
    /\ current \in 0..MaxSeq /\ latest \in 0..Len(frames) /\ lost \in BOOLEAN

\* A crash is counted once: whatever the order of the gateway's and the
\* child's signals, and although the table forgets its oldest incidents, two
\* folds carry the same crash_incident_id exactly when they are of the same
\* incarnation.
OneIncidentPerIncarnation ==
    \A f, g \in folds : f.id = g.id <=> f.seq = g.seq

\* What makes it inductive. The gateway's numbers only grow, so a fold is never
\* of an incarnation older than one folded before it; the table is in that
\* order, every entry of it was folded, and its last entry is of the newest
\* fold: what the table has forgotten is never asked for again. The ids handed
\* out so far are 1 .. n.
Tabled(table, known, newest) ==
    /\ table \in Seq([seq : Nat, id : Nat, gw : BOOLEAN, child : BOOLEAN])
    /\ \A i, j \in 1 .. Len(table) : i < j => table[i].seq < table[j].seq
    /\ \A i \in 1 .. Len(table) : \E f \in known : f.seq = table[i].seq /\ f.id = table[i].id
    /\ \A f \in known : /\ f.seq \in Nat /\ f.seq <= newest
                        /\ table # <<>> /\ f.seq <= table[Len(table)].seq
Numbered(known) == \E n \in Nat : {f.id : f \in known} = 1 .. n
Ascending ==
    /\ gateway \in [kind : Kinds \cup {"end"}, seq : Nat, fresh : BOOLEAN]
    /\ gateway.kind = "down" => gateway.seq = 0
    /\ current \in Nat /\ current <= gateway.seq
    /\ frames \in Seq([kind : Kinds, seq : Nat, fresh : BOOLEAN])
    /\ tasks \subseteq 1 .. Len(frames)
    /\ \A n \in 1 .. Len(frames) : frames[n].seq <= gateway.seq
IncidentInv ==
    /\ Ascending
    /\ Tabled(incidents, folds, current)
    /\ Numbered(folds)
    /\ OneIncidentPerIncarnation

\* "cannot mask a later genuine gateway crash": the gateway's first crashed
\* frame of an incarnation is never stamped as a duplicate, whatever the child
\* said before it, and a frame delivered again always is.
GatewayCrashNotMasked ==
    \A f \in folds : f.source = "gateway" =>
        (f.duplicate <=> \E g \in folds : g.source = "gateway" /\ g.seq = f.seq /\ g.at < f.at)

\* "records the latest per-adapter status": once nothing is pending and no
\* append failed, the snapshot is the last accepted frame the gateway sent.
SnapshotIsLatest ==
    tasks = {} /\ ~lost =>
        \A n \in DOMAIN frames :
            frames[n].kind # "child" /\ ~Rejected(frames[n]) => n <= latest
=============================================================================
