--------------------------- MODULE GatewayResume ---------------------------
(***************************************************************************)
(* The resumable path of an inbound frame: the client (and the hosted      *)
(* adapters) hand frames to the gateway, the leg scheduler numbers and     *)
(* writes them, the core commits them durably and acknowledges, and after  *)
(* a core restart the gateway replays what was not acknowledged.           *)
(* Composes the leg's replay buffer, the link-state machine and the        *)
(* core's ack tracker with the four tasks that drive them                  *)
(* (alfred/gateway/core_link.py, leg_scheduler.py, relay.py, and the       *)
(* core's end in cli/daemon/_comms_boot.py and comms_mcp/inbound.py).      *)
(*                                                                         *)
(* One action is one stretch of a task between two suspension points.  A   *)
(* frame is its leg and its position in that leg's input.                  *)
(***************************************************************************)
EXTENDS ReplayBuffer, LinkState, SeqTracker

CONSTANTS
    Legs, Tui,
    FramesPerLeg,    \* bound on the frames each source hands over
    QueueCap,        \* frames the scheduler queues per leg
    MaxInFlight,     \* concurrent dispatches of the core's runner
    MaxBoots         \* bound on the boots of the core; the last one stays up

ASSUME ResumeAssumption == /\ Tui \in Legs
                           /\ FramesPerLeg \in Nat /\ QueueCap \in Nat \ {0}
                           /\ MaxInFlight \in Nat \ {0} /\ MaxBoots \in Nat \ {0}

VARIABLES
    produced,    \* leg -> frames its source has handed over
    clientPc,    \* the relay's client pump: "gate", "read" or "halted"
    queue,       \* leg -> the scheduler's queue
    registered,  \* the legs the scheduler serves
    buffer, sendSeq, generation,   \* the legs (see GatewayLeg)
    minted,      \* leg -> the payloads of the numbers minted this generation
    inHand,      \* the frame of a drain suspended in escalate_if_breaker_tripped
    link,        \* the LinkStateMachine
    linkPc,      \* where GatewayCoreLink.run is suspended
    conn,        \* the connection run works on, the boot it was made to
    transport,   \* _current_core_transport: a boot, None before and between
    gate,        \* _replay_pending: set while no replay is due
    pending,     \* _pending_replay
    up, down,    \* the connection's two directions
    boot, coreUp, accepted, goingDown,  \* the core process and its one-shot listener
    inflight,    \* the runner's dispatch tasks
    tracker, lastEmitted,  \* the connection's ack tracker and its timer
    finished,    \* numbers whose dispatch task ended on this connection
    committed,   \* durable: the idempotency rows
    dispatched,  \* durable: turns run for each frame
    dropped      \* frames given up with a log line

sourceVars == <<produced, clientPc>>
legVars == <<buffer, sendSeq, generation, minted>>
schedVars == <<queue, registered, inHand>>
linkVars == <<link, linkPc, conn, transport, gate, pending>>
procVars == <<boot, coreUp, accepted, goingDown>>
taskVars == <<inflight, tracker, lastEmitted, finished>>
durable == <<committed, dispatched>>
vars == <<sourceVars, legVars, schedVars, linkVars, up, down, procVars, taskVars,
          durable, dropped>>

None == 0
Frames == [leg : Legs, n : 1 .. FramesPerLeg]
NoFrame == [leg |-> Tui, n |-> 0, seq |-> 0, gen |-> 0]

Init ==
    /\ produced = [l \in Legs |-> 0] /\ clientPc = "gate"
    /\ queue = [l \in Legs |-> <<>>] /\ registered = Legs /\ inHand = NoFrame
    /\ buffer = [l \in Legs |-> EmptyBuffer] /\ sendSeq = [l \in Legs |-> 0]
    /\ generation = [l \in Legs |-> 0] /\ minted = [l \in Legs |-> <<>>]
    /\ link = "up" /\ linkPc = "dial" /\ conn = None /\ transport = None
    /\ gate = TRUE /\ pending = <<>>
    /\ up = <<>> /\ down = <<>>
    /\ boot \in {0, 1} /\ coreUp = (boot = 1) /\ accepted = FALSE /\ goingDown = FALSE
    /\ inflight = {} /\ tracker = NewTracker /\ lastEmitted = -1 /\ finished = {}
    /\ committed = {} /\ dispatched = [f \in Frames |-> 0] /\ dropped = {}

ConnAlive(c) == c # None /\ c = boot /\ coreUp

Queued(l) == {[leg |-> l, n |-> n] : n \in Range(queue[l])}
Retention(l) == {[leg |-> l, n |-> minted[l][e.seq + 1]] : e \in Range(buffer[l].retained)}
-----------------------------------------------------------------------------
\* The relay's client pump: halts for good on a tripped breaker, waits for
\* the replay gate, then reads one unit and submits it.
ClientPassGate ==
    /\ clientPc = "gate"
    /\ clientPc' = IF buffer[Tui].breakerTripped THEN "halted" ELSE "read"
    /\ buffer[Tui].breakerTripped \/ gate
    /\ UNCHANGED <<produced, legVars, schedVars, linkVars, up, down, procVars, taskVars,
                   durable, dropped>>

\* submit_tui_unit: the ingress gate may refuse, an isolated leg and a full
\* queue drop, all of them logged.
ClientRead ==
    LET f == [leg |-> Tui, n |-> produced[Tui] + 1]
    IN  /\ clientPc = "read"
        /\ produced[Tui] < FramesPerLeg
        /\ produced' = [produced EXCEPT ![Tui] = @ + 1]
        /\ clientPc' = "gate"
        /\ \E admitted \in BOOLEAN :
              IF admitted /\ Tui \in registered /\ Len(queue[Tui]) < QueueCap
              THEN /\ queue' = [queue EXCEPT ![Tui] = Append(@, f.n)]
                   /\ UNCHANGED dropped
              ELSE /\ dropped' = dropped \cup {f}
                   /\ UNCHANGED queue
        /\ UNCHANGED <<registered, inHand, legVars, linkVars, up, down, procVars,
                       taskVars, durable>>

\* The router enqueues a hosted adapter's frame; a full queue makes it wait.
forward_adapter_inbound(l, n) ==
    /\ l \in registered /\ Len(queue[l]) < QueueCap
    /\ queue' = [queue EXCEPT ![l] = Append(@, n)]
    /\ UNCHANGED dropped

\* A hosted adapter's forward runner: a full queue pauses its reader, a leg
\* that is gone drops the frame with a log line.
AdapterForward(l) ==
    /\ l # Tui /\ produced[l] < FramesPerLeg
    /\ produced' = [produced EXCEPT ![l] = @ + 1]
    /\ \/ forward_adapter_inbound(l, produced[l] + 1)
       \/ /\ l \notin registered
          /\ dropped' = dropped \cup {[leg |-> l, n |-> produced[l] + 1]}
          /\ UNCHANGED queue
    /\ UNCHANGED <<clientPc, registered, inHand, legVars, linkVars, up, down, procVars,
                   taskVars, durable>>
-----------------------------------------------------------------------------
\* record_for_send past its checks.
Record(l, n) ==
    /\ buffer' = [buffer EXCEPT ![l] = Appended(@, sendSeq[l], 1, 0)]
    /\ sendSeq' = [sendSeq EXCEPT ![l] = @ + 1]
    /\ minted' = [minted EXCEPT ![l] = Append(@, n)]
    /\ UNCHANGED generation

\* write_leg_unit: without a live transport the write is dropped, the frame
\* stays retained.
WriteUnit(l, seq, n) ==
    up' = IF ConnAlive(transport) THEN Append(up, [leg |-> l, seq |-> seq, n |-> n]) ELSE up

\* A leg whose buffer refuses the frame is torn down with all it holds.
IsolateLeg(l) ==
    /\ registered' = registered \ {l}
    /\ dropped' = dropped \cup Queued(l) \cup Retention(l)
    /\ queue' = [queue EXCEPT ![l] = <<>>]
    /\ buffer' = [buffer EXCEPT ![l] = Discard(@)]
    /\ sendSeq' = [sendSeq EXCEPT ![l] = @ + 1]
    /\ minted' = [minted EXCEPT ![l] = Append(@, Head(queue[l]))]
    /\ UNCHANGED <<generation, inHand, link, up>>

\* _drain_one_frame: pop, record, and write in one stretch unless the append
\* tripped the breaker and the escalation has something to tell the client.
DrainFrame(l) ==
    /\ gate /\ inHand = NoFrame
    /\ l \in registered /\ queue[l] # <<>>
    /\ IF AppendOutcome(buffer[l], sendSeq[l], 1, 0) # "none"
       THEN IsolateLeg(l)
       ELSE LET n == Head(queue[l])
                escalation == Feed(link, "breaker_tripped")
            IN  /\ Record(l, n)
                /\ queue' = [queue EXCEPT ![l] = Tail(@)]
                /\ IF buffer'[l].breakerTripped /\ escalation.control # "none"
                   THEN /\ link' = escalation.state
                        /\ inHand' = [leg |-> l, n |-> n, seq |-> sendSeq[l],
                                      gen |-> generation[l]]
                        /\ UNCHANGED up
                   ELSE WriteUnit(l, sendSeq[l], n) /\ UNCHANGED <<link, inHand>>
                /\ UNCHANGED <<registered, dropped>>
    /\ UNCHANGED <<sourceVars, linkPc, conn, transport, gate, pending, down, procVars,
                   taskVars, durable>>

\* Variant: writes without comparing the generations.
ResumeDrainUnguarded ==
    /\ inHand # NoFrame
    /\ WriteUnit(inHand.leg, inHand.seq, inHand.n)
    /\ inHand' = NoFrame
    /\ UNCHANGED <<sourceVars, queue, registered, legVars, linkVars, down, procVars,
                   taskVars, durable, dropped>>

\* The drain resumes: the write is stale if the leg was reset meanwhile.
ResumeDrain ==
    /\ inHand # NoFrame
    /\ IF generation[inHand.leg] = inHand.gen
       THEN WriteUnit(inHand.leg, inHand.seq, inHand.n)
       ELSE UNCHANGED up
    /\ inHand' = NoFrame
    /\ UNCHANGED <<sourceVars, queue, registered, legVars, linkVars, down, procVars,
                   taskVars, durable, dropped>>

\* _buffer_evict_loop, started after the first flush, drops the frames older
\* than the retention window; how many of the oldest are that old is left open.
EvictExpiredFrames ==
    \E k \in 1 .. Len(buffer[Tui].retained) :
        /\ \/ generation[Tui] > 1
           \/ generation[Tui] = 1 /\ linkPc \notin {"ready", "flush"}
        /\ buffer' = [buffer EXCEPT ![Tui] = WithoutPrefix(@, k, @.lastNow)]
        /\ dropped' = dropped \cup {[leg |-> Tui, n |-> minted[Tui][buffer[Tui].retained[i].seq + 1]] :
                                      i \in 1 .. k}
        /\ UNCHANGED <<sourceVars, sendSeq, generation, minted, schedVars, linkVars, up, down,
                       procVars, taskVars, durable>>
-----------------------------------------------------------------------------
\* The link task: dial, handshake, announce, flush, pump.

\* _dial reaches the listener, which accepts once per boot.
Dial ==
    /\ linkPc = "dial" /\ coreUp /\ ~accepted
    /\ linkPc' = "ack" /\ conn' = boot /\ accepted' = TRUE /\ down' = <<>>
    /\ UNCHANGED <<sourceVars, legVars, schedVars, link, transport, gate, pending, up,
                   boot, coreUp, goingDown, taskVars, durable, dropped>>

\* Variant: a handshake cut short by a crash is not caught.
ConnectFailsDialOnly ==
    /\ linkPc = "dial" /\ link = "up" /\ ~(coreUp /\ ~accepted)
    /\ linkPc' = "crash" /\ link' = Feed(link, "core_crash_eof").state
    /\ UNCHANGED <<sourceVars, legVars, schedVars, conn, transport, gate, pending, up,
                   down, procVars, taskVars, durable, dropped>>

\* A failed first dial or handshake opens the gap; a failed redial, or a
\* handshake that fails during one, goes round the redial loop.
ConnectFails ==
    /\ \/ linkPc = "dial" /\ link = "up" /\ ~(coreUp /\ ~accepted)
       \/ linkPc = "ack" /\ ~ConnAlive(conn)
    /\ IF link = "up"
       THEN linkPc' = "crash" /\ link' = Feed(link, "core_crash_eof").state
       ELSE linkPc' = "dial" /\ link' = Feed(link, "redial_started").state
    /\ conn' = None
    /\ UNCHANGED <<sourceVars, legVars, schedVars, transport, gate, pending, up, down,
                   procVars, taskVars, durable, dropped>>

\* run() binds the transport and enters the flush, which is over at once and
\* opens the gate when there is nothing to replay.
BindAndFlush(frames) ==
    /\ transport' = conn
    /\ pending' = frames
    /\ linkPc' = IF frames = <<>> THEN "pump" ELSE "flush"
    /\ gate' = (frames = <<>>)

\* Variant: the un-acked frames are replaced, not appended to a remainder, and
\* the gate is left as it was.
UngatedCapture(frames) ==
    /\ pending' = frames
    /\ UNCHANGED gate

\* _peer_handshake closes the gate when it captured frames to replay.
CaptureReplay(frames) ==
    /\ pending' = frames
    /\ gate' = (gate /\ frames = <<>>)

\* The end of _peer_handshake, after the reply is sent: capture the frames the
\* core has not acknowledged, restart the leg's numbers, feed CORE_READY.  The
\* task is suspended before binding only when the machine has a control to send.
Handshake ==
    LET unacked == [i \in 1 .. Len(buffer[Tui].retained) |->
                       minted[Tui][buffer[Tui].retained[i].seq + 1]]
        ready   == Feed(link, "core_ready")
    IN  /\ linkPc = "ack" /\ ConnAlive(conn)
        /\ buffer' = [buffer EXCEPT ![Tui] = ResetForNewEpoch(@)]
        /\ sendSeq' = [sendSeq EXCEPT ![Tui] = 0]
        /\ generation' = [generation EXCEPT ![Tui] = @ + 1]
        /\ minted' = [minted EXCEPT ![Tui] = <<>>]
        /\ link' = ready.state
        /\ IF ready.control = "none"
           THEN BindAndFlush(pending \o unacked)
           ELSE /\ CaptureReplay(pending \o unacked)
                /\ linkPc' = "ready"
                /\ UNCHANGED transport
        /\ UNCHANGED <<sourceVars, schedVars, conn, up, down, procVars, taskVars,
                       durable, dropped>>

Bind ==
    /\ linkPc = "ready"
    /\ BindAndFlush(pending)
    /\ UNCHANGED <<sourceVars, legVars, schedVars, link, conn, up, down, procVars,
                   taskVars, durable, dropped>>

\* Variant: the gate is opened only by a flush with nothing to send.
FlushFrameParks ==
    /\ linkPc = "flush"
    /\ AppendOutcome(buffer[Tui], sendSeq[Tui], 1, 0) = "none"
    /\ Record(Tui, Head(pending)) /\ WriteUnit(Tui, sendSeq[Tui], Head(pending))
    /\ pending' = Tail(pending)
    /\ linkPc' = IF Tail(pending) = <<>> THEN "pump" ELSE "flush"
    /\ UNCHANGED <<sourceVars, schedVars, link, conn, transport, gate, down, procVars,
                   taskVars, durable, dropped>>

\* One frame of _flush_pending_replay; the last one opens the gate.
FlushFrame ==
    LET n == Head(pending)
    IN  /\ linkPc = "flush"
        /\ IF AppendOutcome(buffer[Tui], sendSeq[Tui], 1, 0) = "none"
           THEN Record(Tui, n) /\ WriteUnit(Tui, sendSeq[Tui], n) /\ UNCHANGED dropped
           ELSE /\ dropped' = dropped \cup {[leg |-> Tui, n |-> n]}
                /\ sendSeq' = [sendSeq EXCEPT ![Tui] = @ + 1]
                /\ minted' = [minted EXCEPT ![Tui] = Append(@, n)]
                /\ UNCHANGED <<buffer, generation, up>>
        /\ pending' = Tail(pending)
        /\ gate' = (Tail(pending) = <<>>)
        /\ linkPc' = IF Tail(pending) = <<>> THEN "pump" ELSE "flush"
        /\ UNCHANGED <<sourceVars, schedVars, link, conn, transport, down, procVars,
                       taskVars, durable>>

\* Variant: the ack is taken for the number of frames acknowledged.
RouteUnitOffByOne ==
    /\ linkPc = "pump" /\ down # <<>>
    /\ down' = Tail(down)
    /\ IF Head(down).type = "ack"
       THEN /\ buffer' = [buffer EXCEPT ![Tui] = TrimToAck(@, Head(down).ack + 1)]
            /\ UNCHANGED link
       ELSE link' = Feed(link, "core_going_down").state /\ UNCHANGED buffer
    /\ UNCHANGED <<sourceVars, sendSeq, generation, minted, schedVars, linkPc, conn,
                   transport, gate, pending, up, procVars, taskVars, durable, dropped>>

\* _pump_once with _route_unit: a daemon.comms.ack trims the TUI leg.
RouteUnit ==
    /\ linkPc = "pump" /\ down # <<>>
    /\ down' = Tail(down)
    /\ IF Head(down).type = "ack"
       THEN /\ buffer' = [buffer EXCEPT ![Tui] = TrimToAck(@, Head(down).ack)]
            /\ UNCHANGED link
       ELSE link' = Feed(link, "core_going_down").state /\ UNCHANGED buffer
    /\ UNCHANGED <<sourceVars, sendSeq, generation, minted, schedVars, linkPc, conn,
                   transport, gate, pending, up, procVars, taskVars, durable, dropped>>

\* _reconnect_closing up to the next dial; if feed raises the link task is over.
StartRedial(state) ==
    LET redial == Feed(state, "redial_started")
    IN  /\ transport' = None /\ conn' = None
        /\ linkPc' = IF redial.control = "raises" THEN "dead" ELSE "dial"
        /\ link' = redial.state

\* The read ends: what the dead core had sent may be lost.  The gap is told
\* to the client first, unless a going_down already did.
PumpEof ==
    LET eof == Feed(link, "core_crash_eof")
    IN  /\ linkPc = "pump" /\ ~ConnAlive(conn)
        /\ IF eof.control = "none"
           THEN StartRedial(eof.state)
           ELSE linkPc' = "crash" /\ link' = eof.state /\ UNCHANGED <<transport, conn>>
        /\ UNCHANGED <<sourceVars, legVars, schedVars, gate, pending, up, down, procVars,
                       taskVars, durable, dropped>>

CloseStale ==
    /\ linkPc = "crash"
    /\ StartRedial(link)
    /\ UNCHANGED <<sourceVars, legVars, schedVars, gate, pending, up, down, procVars,
                   taskVars, durable, dropped>>
-----------------------------------------------------------------------------
\* The core process.  A boot serves one connection, with a tracker of its own.

BootCore ==
    /\ ~coreUp /\ boot < MaxBoots
    /\ coreUp' = TRUE /\ boot' = boot + 1 /\ accepted' = FALSE /\ goingDown' = FALSE
    /\ UNCHANGED <<sourceVars, legVars, schedVars, linkVars, up, down, taskVars, durable,
                   dropped>>

\* The process dies: what it had not read and its tasks are gone.
CrashCore ==
    /\ coreUp /\ boot < MaxBoots
    /\ coreUp' = FALSE
    /\ up' = <<>> /\ inflight' = {} /\ tracker' = NewTracker /\ lastEmitted' = -1
    /\ finished' = {}
    /\ UNCHANGED <<sourceVars, legVars, schedVars, linkVars, down, boot, accepted,
                   goingDown, durable, dropped>>

\* A planned stop is announced first.
AnnounceGoingDown ==
    /\ coreUp /\ boot < MaxBoots /\ conn = boot /\ linkPc # "ack" /\ ~goingDown
    /\ goingDown' = TRUE
    /\ down' = Append(down, [type |-> "going_down", ack |-> 0])
    /\ UNCHANGED <<sourceVars, legVars, schedVars, linkVars, up, boot, coreUp, accepted,
                   taskVars, durable, dropped>>

\* The runner's pump reads a unit and starts its dispatch task.
Receive ==
    /\ coreUp /\ up # <<>> /\ Cardinality(inflight) < MaxInFlight
    /\ up' = Tail(up)
    /\ inflight' = inflight \cup
          {[leg |-> Head(up).leg, seq |-> Head(up).seq, n |-> Head(up).n, stage |-> "admit"]}
    /\ UNCHANGED <<sourceVars, legVars, schedVars, linkVars, down, procVars, tracker,
                   lastEmitted, finished, durable, dropped>>

FrameOf(t) == [leg |-> t.leg, n |-> t.n]
Finish(t) == inflight' = inflight \ {t} /\ finished' = finished \cup {t.seq}
Advance(t, stage) ==
    /\ inflight' = (inflight \ {t}) \cup
          {[leg |-> t.leg, seq |-> t.seq, n |-> t.n, stage |-> stage]}
    /\ UNCHANGED finished

coreStepUnchanged == <<sourceVars, legVars, schedVars, linkVars, up, down, procVars,
                       lastEmitted, dropped>>

\* Variant: the TUI's frames are checked like forwarded ones and never committed.
AdmitReadsOnly(t) ==
    /\ t.stage = "admit"
    /\ IF FrameOf(t) \in committed
       THEN Finish(t) /\ tracker' = Observe(tracker, t.seq)
       ELSE Advance(t, "dispatch") /\ UNCHANGED tracker
    /\ UNCHANGED <<committed, dispatched, coreStepUnchanged>>

\* The idempotency gate of process_inbound_message.  The TUI's frames are
\* committed and observed here, a replay is only audited; a forwarded frame is
\* let through unless it is committed already, and then it is observed.
Admit(t) ==
    /\ t.stage = "admit"
    /\ IF FrameOf(t) \in committed
       THEN /\ Finish(t)
            /\ tracker' = IF t.leg = Tui THEN tracker ELSE Observe(tracker, t.seq)
            /\ UNCHANGED committed
       ELSE /\ Advance(t, "dispatch")
            /\ IF t.leg = Tui
               THEN /\ committed' = committed \cup {FrameOf(t)}
                    /\ tracker' = Observe(tracker, t.seq)
               ELSE UNCHANGED <<committed, tracker>>
    /\ UNCHANGED <<dispatched, coreStepUnchanged>>

\* orchestrator.dispatch runs the turn or raises.
Dispatch(t) ==
    /\ t.stage = "dispatch"
    /\ \E ok \in BOOLEAN :
          /\ dispatched' = IF ok THEN [dispatched EXCEPT ![FrameOf(t)] = @ + 1] ELSE dispatched
          /\ IF ok /\ t.leg # Tui THEN Advance(t, "commit") ELSE Finish(t)
    /\ UNCHANGED <<committed, tracker, coreStepUnchanged>>

\* The dispatched edge of a forwarded frame.
CommitAtEdge(t) ==
    /\ t.stage = "commit"
    /\ committed' = committed \cup {FrameOf(t)}
    /\ tracker' = Observe(tracker, t.seq)
    /\ Finish(t)
    /\ UNCHANGED <<dispatched, coreStepUnchanged>>

\* The durable-intake ack timer.
EmitAck ==
    /\ coreUp /\ conn = boot /\ tracker.high > lastEmitted
    /\ down' = Append(down, [type |-> "ack", ack |-> Max({tracker.high, 0})])
    /\ lastEmitted' = tracker.high
    /\ UNCHANGED <<sourceVars, legVars, schedVars, linkVars, up, procVars, inflight,
                   tracker, finished, durable, dropped>>
-----------------------------------------------------------------------------
SchedulerStep == (\E l \in Legs : DrainFrame(l)) \/ ResumeDrain
LinkStep == Dial \/ ConnectFails \/ Handshake \/ Bind \/ FlushFrame \/ RouteUnit
            \/ PumpEof \/ CloseStale
TaskStep == \E t \in inflight : Admit(t) \/ Dispatch(t) \/ CommitAtEdge(t)

Next ==
    \/ ClientPassGate \/ ClientRead \/ (\E l \in Legs : AdapterForward(l))
    \/ SchedulerStep \/ EvictExpiredFrames
    \/ LinkStep
    \/ BootCore \/ CrashCore \/ AnnounceGoingDown
    \/ Receive \/ TaskStep \/ EmitAck

\* The event loops run every ready task, and an operator restarts the core.
Fairness ==
    /\ WF_vars(ClientPassGate) /\ WF_vars(SchedulerStep) /\ WF_vars(LinkStep)
    /\ WF_vars(BootCore) /\ WF_vars(Receive) /\ WF_vars(TaskStep) /\ WF_vars(EmitAck)

Spec == Init /\ [][Next]_vars
FairSpec == Spec /\ Fairness
-----------------------------------------------------------------------------
\* Types of the gateway's and the core's state.
TypeOK ==
    /\ produced \in [Legs -> 0 .. FramesPerLeg]
    /\ clientPc \in {"gate", "read", "halted"}
    /\ \A l \in Legs : queue[l] \in Seq(1 .. FramesPerLeg)
    /\ registered \subseteq Legs
    /\ buffer \in [Legs -> BufferType]
    /\ sendSeq \in [Legs -> Nat] /\ generation \in [Legs -> Nat]
    /\ link \in LinkStates /\ linkPc \in {"dial", "ack", "ready", "flush", "pump", "crash", "dead"}
    /\ {conn, transport} \subseteq 0 .. MaxBoots
    /\ pending \in Seq(1 .. FramesPerLeg)
    /\ tracker \in TrackerType /\ lastEmitted \in Nat \cup {-1}
    /\ committed \subseteq Frames /\ dropped \subseteq Frames
    /\ dispatched \in [Frames -> Nat]

HandedOver == {f \in Frames : f.n <= produced[f.leg]}
Replaying == {[leg |-> Tui, n |-> n] : n \in Range(pending)}

\* A frame the gateway took is queued, awaiting replay, retained, durably
\* committed, or was given up with a log line: no ack, reset, replay or
\* restart of the core loses one silently.
NoSilentLoss ==
    \A f \in HandedOver :
        \/ f \in committed \/ f \in dropped
        \/ f \in Queued(f.leg) \/ f \in Retention(f.leg) \/ f \in Replaying

\* A TUI frame runs at most one turn, however often it is replayed.
TurnAtMostOnce == \A f \in Frames : f.leg = Tui => dispatched[f] <= 1

\* What travels on the live connection under a number is the frame that the
\* leg minted the number for since its last reset: a drain that was suspended
\* across a reconnect never writes a number of the old epoch.
NoStaleNumber ==
    ConnAlive(transport) =>
        \A i \in 1 .. Len(up) :
            /\ up[i].seq < Len(minted[up[i].leg])
            /\ minted[up[i].leg][up[i].seq + 1] = up[i].n

\* On one connection the frames of a leg travel in the order their source gave
\* them: replayed frames precede fresh ones.
SourceOrder ==
    \A i, j \in 1 .. Len(up) :
        i < j /\ up[i].leg = up[j].leg => up[i].seq < up[j].seq /\ up[i].n < up[j].n

\* A forwarded frame is committed only when a turn ran for it: a retry is never
\* answered from the ledger without one.
ForwardedCommitRan ==
    \A f \in Frames : f.leg # Tui /\ f \in committed => dispatched[f] > 0

\* A parked client pump and scheduler are released: whatever crashes, the
\* replay gate opens again.
GateReopens == ~gate ~> gate

\* Once the core stays up the link is bound to it: no failure of a dial, of a
\* handshake or of the state machine ends the link task (run, _reconnect).
LinkRestored == <>[](transport = boot)

\* ADR-0032: the buffer "drains on a healthy link instead of stalling", so when
\* a live link has come to rest the core has seen every retained TUI frame.
HealthyLinkDelivers ==
    linkPc = "pump" /\ ConnAlive(transport) /\ up = <<>> /\ inflight = {} /\ inHand = NoFrame
        => \A e \in Range(buffer[Tui].retained) : e.seq \in finished

\* ADR-0032: the ack is the "highest CONTIGUOUS client->core seq the core has
\* DURABLY intaken", so a frame that is durable when its task ends is counted.
DurableIsCounted ==
    \A i \in 1 .. Len(minted[Tui]) :
        (ConnAlive(transport) /\ i - 1 \in finished /\ [leg |-> Tui, n |-> minted[Tui][i]] \in committed)
            => Observed(tracker, i - 1)

\* comms.md: a forwarded frame that was not committed "the leg replays ... on
\* reconnect": every frame the gateway took is committed or given up.
ForwardedEventuallySettled ==
    \A l \in Legs \ {Tui} : \A n \in 1 .. FramesPerLeg :
        (produced[l] >= n) ~> ([leg |-> l, n |-> n] \in committed \cup dropped)
=============================================================================
