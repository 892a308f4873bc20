--------------------------- MODULE InboundPipeline ---------------------------
(***************************************************************************)
(* The inbound pipeline of the core: process_inbound_message               *)
(* (alfred/comms_mcp/inbound.py) on its two paths, with the receiver of    *)
(* forwarded messages (forwarded_inbound_receiver.py) in front of one and  *)
(* the disposition of the session (plugins/inbound_disposition.py) above.  *)
(*                                                                         *)
(* A task handles one delivery; its stage names the await it stands at.    *)
(* Tasks interleave at every await, any await may raise, and the process   *)
(* may die between any two.  The ledger, the attempt counts and the audit  *)
(* log are durable, the tracker and the tasks are not.                     *)
(***************************************************************************)
EXTENDS SeqTracker

CONSTANTS Edge,           \* messages forwarded by an adapter: committed after dispatch
          Direct,         \* messages of the terminal: committed on receipt
          Ceiling,        \* _FORWARDED_DISPATCH_ATTEMPT_CEILING
          MaxInFlight,    \* the runner's bound on dispatch tasks
          MaxDeliveries,  \* bound: deliveries per boot
          MaxBoots        \* bound: boots of the core

Messages == Edge \cup Direct

ASSUME PipelineAssumption ==
    /\ Edge \cap Direct = {}
    /\ Ceiling \in Nat \ {0} /\ MaxInFlight \in Nat \ {0}
    /\ MaxDeliveries \in Nat /\ MaxBoots \in Nat

VARIABLES committed,   \* the accept-once ledger
          attempts,    \* the dispatch-attempt ledger
          refused,     \* messages with the audit row of a refusal
          runs,        \* how often the turn of a message ran to its end
          tasks,       \* the dispatch tasks in flight
          carried,     \* what each number of this connection carries
          nextSeq,     \* the next number of this connection
          tracker,     \* the durable-intake tracker of this connection
          returned,    \* numbers whose task ended without an error
          restart,     \* a restart of the session was requested
          boots

durable == <<committed, attempts, refused, runs>>
conn == <<carried, nextSeq>>
vars == <<durable, tasks, conn, tracker, returned, restart, boots>>

AuditStages == {"drop", "replay", "capped", "poison", "binding", "burst", "failed"}
Stages == AuditStages \cup {"receive", "gate", "limit", "attempts", "resolve",
                            "extract", "count", "promote", "dispatch", "commit"}

Task == [seq : Nat, msg : Messages, stage : Stages]

TypeOK ==
    /\ committed \subseteq Messages
    /\ attempts \in [Edge -> Nat]
    /\ refused \subseteq Messages
    /\ runs \in [Messages -> Nat]
    /\ tasks \subseteq Task
    /\ carried \subseteq [seq : Nat, msg : Messages]
    /\ nextSeq \in Nat
    /\ tracker \in TrackerType
    /\ returned \subseteq Nat
    /\ restart \in BOOLEAN
    /\ boots \in Nat

Init ==
    /\ committed = {} /\ refused = {}
    /\ attempts = [m \in Edge |-> 0]
    /\ runs = [m \in Messages |-> 0]
    /\ tasks = {} /\ carried = {} /\ nextSeq = 0
    /\ tracker = NewTracker /\ returned = {}
    /\ restart = FALSE
    /\ boots = 1
-----------------------------------------------------------------------------
\* The task returns, raises, or reaches its next await.
Return(t) == tasks' = tasks \ {t} /\ returned' = returned \cup {t.seq}
Abort(t) == tasks' = tasks \ {t} /\ UNCHANGED returned
Goto(t, stage) ==
    /\ tasks' = (tasks \ {t}) \cup {[seq |-> t.seq, msg |-> t.msg, stage |-> stage]}
    /\ UNCHANGED returned
Drain(t) == tracker' = Observe(tracker, t.seq)

\* The runner starts a task for a unit it read.  The same message may arrive
\* any number of times: replayed by the gateway, or sent again by its adapter.
Deliver(m) ==
    /\ nextSeq < MaxDeliveries /\ Cardinality(tasks) < MaxInFlight
    /\ tasks' = tasks \cup {[seq |-> nextSeq, msg |-> m,
                             stage |-> IF m \in Edge THEN "receive" ELSE "gate"]}
    /\ carried' = carried \cup {[seq |-> nextSeq, msg |-> m]}
    /\ nextSeq' = nextSeq + 1
    /\ UNCHANGED <<durable, tracker, returned, restart, boots>>

\* The body parses and names the adapter of its envelope, or it is dropped.
reparse_forwarded_inbound(t) == \E parsed \in BOOLEAN : Goto(t, IF parsed THEN "gate" ELSE "drop")

\* An unknown adapter, and any other fault of the receiver, are dropped too.
AdmitAndReparse(t) ==
    /\ t.stage = "receive"
    /\ Goto(t, "drop") \/ reparse_forwarded_inbound(t)
    /\ UNCHANGED <<durable, conn, tracker, restart, boots>>

\* cheap_validate refuses an empty body: the task returns, nothing is written.
CheapValidateRefuses(t) ==
    /\ t.stage = "gate"
    /\ Return(t)
    /\ UNCHANGED <<durable, conn, tracker, restart, boots>>

\* The accept-once gate: a forwarded message is looked up, a message of the
\* terminal is inserted, and its number observed in the same segment.
Gate(t) ==
    /\ t.stage = "gate"
    /\ IF t.msg \in committed
       THEN Goto(t, "replay") /\ UNCHANGED <<committed, tracker>>
       ELSE /\ Goto(t, "limit")
            /\ IF t.msg \in Direct
               THEN committed' = committed \cup {t.msg} /\ Drain(t)
               ELSE UNCHANGED <<committed, tracker>>
    /\ UNCHANGED <<attempts, refused, runs, conn, restart, boots>>

\* The coarse limiter in front of the resolver.
PreResolutionLimit(t) ==
    /\ t.stage = "limit"
    /\ \E within \in BOOLEAN :
          Goto(t, IF ~within THEN "capped"
                  ELSE IF t.msg \in Edge THEN "attempts" ELSE "resolve")
    /\ UNCHANGED <<durable, conn, tracker, restart, boots>>

\* Variant: the ceiling is read and never reached.
NeverPoisons(t) ==
    /\ t.stage = "attempts"
    /\ Goto(t, "resolve")
    /\ UNCHANGED <<durable, conn, tracker, restart, boots>>

\* A forwarded message that used up its attempts is dead-lettered.
ReadAttempts(t) ==
    /\ t.stage = "attempts"
    /\ Goto(t, IF attempts[t.msg] >= Ceiling THEN "poison" ELSE "resolve")
    /\ UNCHANGED <<durable, conn, tracker, restart, boots>>

\* An unbound sender becomes a binding request.  A bound one passes the burst
\* limiter; what that drops ends silently on the direct path.
ResolveAndAcquire(t) ==
    /\ t.stage = "resolve"
    /\ \E outcome \in {"unbound", "dropped", "acquired"} :
          IF outcome = "dropped" /\ t.msg \in Direct
          THEN Return(t)
          ELSE Goto(t, IF outcome = "unbound" THEN "binding"
                       ELSE IF outcome = "dropped" THEN "burst" ELSE "extract")
    /\ UNCHANGED <<durable, conn, tracker, restart, boots>>

\* Sub-payload promotion and the quarantined extraction.
Extract(t) ==
    /\ t.stage = "extract"
    /\ Goto(t, IF t.msg \in Edge THEN "count" ELSE "promote")
    /\ UNCHANGED <<durable, conn, tracker, restart, boots>>

\* The attempt is counted before anything that may fail after the extraction.
CountAttempt(t) ==
    /\ t.stage = "count"
    /\ attempts' = [attempts EXCEPT ![t.msg] = @ + 1]
    /\ Goto(t, "promote")
    /\ UNCHANGED <<committed, refused, runs, conn, tracker, restart, boots>>

\* The promotion row, and the ingest into the orchestrator.
PromoteAndIngest(t) ==
    /\ t.stage = "promote"
    /\ Goto(t, "dispatch")
    /\ UNCHANGED <<durable, conn, tracker, restart, boots>>

\* orchestrator.dispatch runs the turn to its end.
Dispatch(t) ==
    /\ t.stage = "dispatch"
    /\ runs' = [runs EXCEPT ![t.msg] = @ + 1]
    /\ IF t.msg \in Edge THEN Goto(t, "commit") ELSE Return(t)
    /\ UNCHANGED <<committed, attempts, refused, conn, tracker, restart, boots>>

\* A forwarded dispatch that raised is audited before the error goes on.
DispatchFails(t) ==
    /\ t.stage = "dispatch" /\ t.msg \in Edge
    /\ Goto(t, "failed")
    /\ UNCHANGED <<durable, conn, tracker, restart, boots>>

\* The dispatched edge: the commit, and the observation in the same segment.
CommitAtDispatchEdge(t) ==
    /\ t.stage = "commit"
    /\ committed' = committed \cup {t.msg}
    /\ Drain(t)
    /\ Return(t)
    /\ UNCHANGED <<attempts, refused, runs, conn, restart, boots>>

\* A refusal of the forwarded path releases its number once it is audited; a
\* dispatch failure does not, and the direct path observes only commits.
Drains(t) == t.msg \in Edge /\ t.stage # "failed"

\* The rows whose loss stops the session: ForwardedInboundAuditWriteError.
Escalates(t) == t.msg \in Edge /\ t.stage \in {"drop", "replay", "poison", "failed"}

\* What the rows say: a failed dispatch is no refusal.
RowOf(t) == IF t.stage = "failed" THEN {} ELSE {t.msg}

\* The audit row of a terminal outcome, then the drain.
Audit(t) ==
    /\ t.stage \in AuditStages
    /\ refused' = refused \cup RowOf(t)
    /\ IF Drains(t) THEN Drain(t) ELSE UNCHANGED tracker
    /\ IF t.stage = "failed" THEN Abort(t) ELSE Return(t)
    /\ UNCHANGED <<committed, attempts, runs, conn, restart, boots>>

\* Variant: the number is released although the row was lost.
AuditFailsDrained(t) ==
    /\ t.stage \in AuditStages
    /\ restart' = (restart \/ Escalates(t))
    /\ IF Drains(t) THEN Drain(t) ELSE UNCHANGED tracker
    /\ Abort(t)
    /\ UNCHANGED <<durable, conn, boots>>

\* The audit write raises: the disposition asks for a restart or goes on.
AuditFails(t) ==
    /\ t.stage \in AuditStages
    /\ restart' = (restart \/ Escalates(t))
    /\ Abort(t)
    /\ UNCHANGED <<durable, conn, tracker, boots>>

\* Any other await raises, and a missing promoter is raised at the gate; the
\* disposition logs it and goes on.
Raises(t) ==
    /\ t.stage \in {"gate", "attempts", "resolve", "extract", "count", "promote", "commit"}
          \/ (t.stage = "dispatch" /\ t.msg \in Direct)
    /\ Abort(t)
    /\ UNCHANGED <<durable, conn, tracker, restart, boots>>

\* The core dies, or is restarted; a new connection starts its numbers afresh.
Restart ==
    /\ boots < MaxBoots
    /\ boots' = boots + 1
    /\ tasks' = {} /\ carried' = {} /\ nextSeq' = 0
    /\ tracker' = NewTracker
    /\ returned' = {}
    /\ restart' = FALSE
    /\ UNCHANGED durable

Step(t) ==
    \/ AdmitAndReparse(t) \/ CheapValidateRefuses(t) \/ Gate(t)
    \/ PreResolutionLimit(t) \/ ReadAttempts(t) \/ ResolveAndAcquire(t)
    \/ Extract(t) \/ CountAttempt(t) \/ PromoteAndIngest(t)
    \/ Dispatch(t) \/ DispatchFails(t) \/ CommitAtDispatchEdge(t)
    \/ Audit(t) \/ AuditFails(t) \/ Raises(t)

Next ==
    \/ \E m \in Messages : Deliver(m)
    \/ \E t \in tasks : Step(t)
    \/ Restart

Spec == Init /\ [][Next]_vars
-----------------------------------------------------------------------------
\* A message the gateway may forget: committed, or refused with a row.
Accounted(m) ==
    m \in committed \cup refused

\* What the tracker counts, and so lets the gateway drop, is committed or has
\* the audit row of its refusal, whatever was lost or failed on the way
\* (audit before drain, and commit and observe together on both paths).
AckedIsAccounted ==
    \A c \in carried : Observed(tracker, c.seq) => Accounted(c.msg)

\* A forwarded message is committed only once its turn has run, so a crash
\* before that leaves it to be replayed; a terminal message runs at most once.
CommitMeansRan ==
    /\ \A m \in Edge : m \in committed => runs[m] > 0
    /\ \A m \in Direct : runs[m] <= (IF m \in committed THEN 1 ELSE 0)

\* A message that keeps failing is dispatched at most Ceiling times, and once
\* more for each further task that read the count before it was raised.
AttemptsBounded ==
    \A m \in Edge : runs[m] <= attempts[m] /\ attempts[m] < Ceiling + MaxInFlight

\* A forwarded delivery that ended without an error has released its number:
\* one that is refused the same way on every replay must not hold the
\* high-water back (_drain_forwarded_seq).
RefusalDrains ==
    \A c \in carried : c.msg \in Edge /\ c.seq \in returned => Observed(tracker, c.seq)
=============================================================================
