----------------------------- MODULE CommsRunner -----------------------------
(***************************************************************************)
(* The runner of one comms plugin (alfred/plugins/comms_runner.py) as the  *)
(* daemon uses it: one reader of the plugin's frames, a tracked task for   *)
(* every notification, requests answered through a table of futures, and   *)
(* the teardown of all three.                                              *)
(*                                                                         *)
(* An action is what the event loop runs between two awaits.  Callers of   *)
(* send_request are the tasks of this runner (Notes) and the turns of      *)
(* another adapter that are bound to this runner's sender (Others).        *)
(***************************************************************************)
EXTENDS Integers, Sequences, FiniteSets

CONSTANTS Notes,         \* notifications the plugin sends, one task each
          Others,        \* callers of send_request outside the runner's tasks
          Nobody,        \* no caller
          MaxInFlight,   \* comms_max_in_flight_notifications
          PerCaller,     \* bound: requests of one caller
          WireLimit      \* bound: frames in the pipe

Callers == Notes \cup Others
Requests == Callers \X (1 .. PerCaller)
Ids == 1 .. Cardinality(Callers) * PerCaller

\* The reasons Supervisor.request_plugin_restart accepts, and the pump's own.
PluginRestartReasons ==
    {"unknown_notification", "handler_repeated_failures", "manifest_handshake_failure"}
MalformedFrameReason == "malformed_frame"

VARIABLES reader,    \* where the reader is
          stopped,   \* _reader_stopped
          cause,     \* why the reader left its loop
          restarts,  \* restart reasons the supervisor accepted
          wire,      \* frames the plugin wrote and the reader has not read
          unsent,    \* notifications the plugin has not written yet
          plugin,    \* the plugin's end: "up" or "gone"
          sent,      \* requests the plugin has received: <<id, request>>
          pending,   \* _pending: the caller behind an id
          nextId,    \* _next_request_id
          caller,    \* the callers of send_request
          shutdown   \* the supervisor's shutdown event

readerVars == <<reader, stopped, cause, restarts>>
pluginVars == <<wire, unsent, plugin, sent>>
vars == <<readerVars, pluginVars, pending, nextId, caller, shutdown>>

\* asked: requests made; id, fut: the current request; answer: what it was told.
Caller(stage, asked, id, fut, answer) ==
    [stage |-> stage, asked |-> asked, id |-> id, fut |-> fut, answer |-> answer]
To(c, stage) == Caller(stage, caller[c].asked, caller[c].id, caller[c].fut, caller[c].answer)
Becomes(c, r) == caller' = [caller EXCEPT ![c] = r]

Note(n) == [kind |-> "note", note |-> n]
Reply(id, r) == [kind |-> "reply", id |-> id, to |-> r]
Frame(kind) == [kind |-> kind]
Live == {"ready", "sending", "waiting"}
inflight == {n \in Notes : caller[n].stage \in Live}

TypeOK ==
    /\ reader \in {"handshake", "read", "capacity", "crash", "drain", "cancel", "closed"}
    /\ stopped \in BOOLEAN /\ shutdown \in BOOLEAN
    /\ cause \in {"none", "handshake", "shutdown", "malformed", "crash", "eof", "cancelled"}
    /\ restarts \subseteq PluginRestartReasons
    /\ Len(wire) <= WireLimit /\ unsent \subseteq Notes /\ plugin \in {"up", "gone"}
    /\ sent \subseteq Ids \X Requests
    /\ pending \in [Ids -> Callers \cup {Nobody}]
    /\ nextId \in 1 .. Cardinality(Ids) + 1
    /\ \A c \in Callers :
          /\ caller[c].stage \in Live \cup {"idle", "ended"}
          /\ caller[c].asked \in 0 .. PerCaller /\ caller[c].id \in Ids \cup {0}
          /\ caller[c].fut \in {"none", "open", "answered", "failed"}
          /\ caller[c].answer \in Requests \cup {Nobody}

Init ==
    /\ reader = "handshake" /\ stopped = FALSE /\ cause = "none" /\ restarts = {}
    /\ wire = <<>> /\ unsent = Notes /\ plugin = "up" /\ sent = {}
    /\ pending = [i \in Ids |-> Nobody] /\ nextId = 1
    /\ caller = [c \in Callers |-> Caller("idle", 0, 0, "none", Nobody)]
    /\ shutdown = FALSE
-----------------------------------------------------------------------------
(* The callers of send_request.                                            *)

Pop(i) == pending' = [pending EXCEPT ![i] = Nobody]

\* A turn of another adapter comes to its reply.
OtherBegins(c) ==
    /\ c \in Others /\ caller[c].stage = "idle"
    /\ Becomes(c, To(c, "ready"))
    /\ UNCHANGED <<readerVars, pluginVars, pending, nextId, shutdown>>

\* The future is registered before the frame is sent.
Register(c, i, next) ==
    /\ Becomes(c, Caller("sending", caller[c].asked + 1, i, "open", Nobody))
    /\ pending' = [pending EXCEPT ![i] = c]
    /\ nextId' = next
    /\ UNCHANGED <<readerVars, pluginVars, shutdown>>

Wants(c) == caller[c].stage = "ready" /\ caller[c].asked < PerCaller

\* Variant: a request is registered after the reader has stopped.
SendRequestUnchecked(c) == Wants(c) /\ Register(c, nextId, nextId + 1)

SendRequest(c) ==
    /\ Wants(c) /\ ~stopped
    /\ Register(c, nextId, nextId + 1)

\* Once the reader has stopped a request is refused and its caller fails.
SendRefused(c) ==
    /\ Wants(c) /\ stopped
    /\ Becomes(c, To(c, "ended"))
    /\ UNCHANGED <<readerVars, pluginVars, pending, nextId, shutdown>>

Sent(c) ==
    /\ caller[c].stage = "sending" /\ reader # "closed"
    /\ sent' = sent \cup {<<caller[c].id, <<c, caller[c].asked>>>>}
    /\ Becomes(c, To(c, "waiting"))
    /\ UNCHANGED <<readerVars, wire, unsent, plugin, pending, nextId, shutdown>>

SendFails(c) ==
    /\ caller[c].stage = "sending"
    /\ Pop(caller[c].id)
    /\ Becomes(c, Caller("ended", caller[c].asked, 0, "none", Nobody))
    /\ UNCHANGED <<readerVars, pluginVars, nextId, shutdown>>

\* The future is settled: the handler goes on, or fails with a PluginError.
Returns(c) ==
    /\ caller[c].stage = "waiting" /\ caller[c].fut \in {"answered", "failed"}
    /\ Becomes(c, Caller(IF caller[c].fut = "answered" THEN "ready" ELSE "ended",
                         caller[c].asked, 0, "none", Nobody))
    /\ UNCHANGED <<readerVars, pluginVars, pending, nextId, shutdown>>

\* Variant: a request has no timeout.
TimesOutNever(c) == FALSE /\ UNCHANGED vars

\* The thirty seconds of a request are over.
TimesOut(c) ==
    /\ caller[c].stage = "waiting" /\ caller[c].fut = "open"
    /\ Pop(caller[c].id)
    /\ Becomes(c, Caller("ended", caller[c].asked, 0, "none", Nobody))
    /\ UNCHANGED <<readerVars, pluginVars, nextId, shutdown>>

\* The handler returns, or its failure is swallowed by the disposition.
Finish(c) ==
    /\ caller[c].stage = "ready"
    /\ Becomes(c, To(c, "ended"))
    /\ UNCHANGED <<readerVars, pluginVars, pending, nextId, shutdown>>

\* A cancelled task leaves; one that waited does not take its entry with it.
TaskCancelled(n) ==
    /\ reader = "cancel" /\ n \in inflight
    /\ Becomes(n, Caller("ended", caller[n].asked, 0, "none", Nobody))
    /\ IF caller[n].stage = "sending" THEN Pop(caller[n].id) ELSE pending' = pending
    /\ UNCHANGED <<readerVars, pluginVars, nextId, shutdown>>
-----------------------------------------------------------------------------
(* The reader.                                                             *)

Settle(c, fut, answer) ==
    [caller EXCEPT ![c] = Caller(caller[c].stage, caller[c].asked, caller[c].id, fut, answer)]

\* Callers whose open future the table still holds.
Reachable == {c \in Callers : caller[c].fut = "open" /\ \E i \in Ids : pending[i] = c}

FailAllPending ==
    /\ caller' = [c \in Callers |-> IF c \in Reachable
                                    THEN Caller(caller[c].stage, caller[c].asked,
                                                caller[c].id, "failed", Nobody)
                                    ELSE caller[c]]
    /\ pending' = [i \in Ids |-> Nobody]

KeepTable == UNCHANGED <<caller, pending>>
Take == wire # <<>> /\ wire' = Tail(wire) /\ UNCHANGED <<unsent, plugin, sent>>
Keep == UNCHANGED <<stopped, cause, restarts>>

\* The loop is left: the flag goes up and the tasks are drained or cancelled.
Leave(how, why) ==
    /\ reader' = how /\ stopped' = TRUE /\ cause' = why

\* The top of the loop looks at the shutdown event before it reads.
LoopTop ==
    IF shutdown THEN Leave("drain", "shutdown") /\ UNCHANGED restarts
                ELSE reader' = "read" /\ Keep

\* lifecycle.start: other frames are dropped until its answer comes.
HandshakeAnswered ==
    /\ reader = "handshake" /\ Take /\ Head(wire).kind = "hello"
    /\ LoopTop /\ KeepTable
    /\ UNCHANGED <<nextId, shutdown>>

HandshakeDrops ==
    /\ reader = "handshake" /\ Take /\ Head(wire).kind \in {"note", "reply"}
    /\ KeepTable
    /\ UNCHANGED <<readerVars, nextId, shutdown>>

\* The pipe ends, or the session refuses the answer: nothing is left running.
HandshakeFails ==
    /\ reader = "handshake" /\ Take /\ Head(wire).kind \notin {"note", "reply"}
    /\ FailAllPending
    /\ reader' = "closed" /\ cause' = "handshake"
    /\ UNCHANGED <<stopped, restarts, nextId, shutdown>>

ReadNote ==
    /\ reader = "read" /\ Take /\ Head(wire).kind = "note"
    /\ Becomes(Head(wire).note, Caller("ready", 0, 0, "none", Nobody))
    /\ IF Cardinality(inflight) + 1 >= MaxInFlight
       THEN reader' = "capacity" /\ Keep
       ELSE LoopTop
    /\ UNCHANGED <<pending, nextId, shutdown>>

CapacityFree ==
    /\ reader = "capacity" /\ Cardinality(inflight) < MaxInFlight
    /\ LoopTop
    /\ UNCHANGED <<pluginVars, pending, nextId, caller, shutdown>>

ReadReplyAs(i) ==
    /\ LET c == pending[i]
       IN  /\ Pop(i)
           /\ IF c \in Callers /\ caller[c].fut = "open"
              THEN \E fut \in {"answered", "failed"} : caller' = Settle(c, fut, Head(wire).to)
              ELSE caller' = caller
    /\ LoopTop
    /\ UNCHANGED <<nextId, shutdown>>

\* A reply settles the future it finds; a late or unknown one is ignored.
ReadReply ==
    /\ reader = "read" /\ Take /\ Head(wire).kind = "reply"
    /\ ReadReplyAs(Head(wire).id)

\* request_plugin_restart refuses a reason it does not know with a ValueError,
\* which the pump raises on.
_request_restart(reason) ==
    IF reason \in PluginRestartReasons
    THEN Leave("drain", "malformed") /\ restarts' = restarts \cup {reason}
    ELSE Leave("cancel", "malformed") /\ UNCHANGED restarts

ReadMalformed ==
    /\ reader = "read" /\ Take /\ Head(wire).kind = "malformed"
    /\ FailAllPending
    /\ _request_restart(MalformedFrameReason)
    /\ UNCHANGED <<nextId, shutdown>>

ReadBroken ==
    /\ reader = "read" /\ Take /\ Head(wire).kind = "broken"
    /\ FailAllPending
    /\ reader' = "crash" /\ Keep
    /\ UNCHANGED <<nextId, shutdown>>

\* The crash handler has returned, or its failure was logged.
CrashRouted ==
    /\ reader = "crash"
    /\ Leave("drain", "crash")
    /\ UNCHANGED <<pluginVars, restarts, pending, nextId, caller, shutdown>>

ReadEof ==
    /\ reader = "read" /\ Take /\ Head(wire).kind = "eof"
    /\ FailAllPending
    /\ Leave("drain", "eof")
    /\ UNCHANGED <<restarts, nextId, shutdown>>

\* The shutdown event ends a wait for a frame.
SeeShutdown ==
    /\ reader = "read" /\ shutdown
    /\ Leave("drain", "shutdown")
    /\ UNCHANGED <<pluginVars, restarts, pending, nextId, caller, shutdown>>

\* The supervisor cancels the pump: from its loop or from its drain.
Cancel ==
    /\ reader \in {"read", "capacity", "crash", "drain"}
    /\ Leave("cancel", IF stopped THEN cause ELSE "cancelled")
    /\ UNCHANGED <<pluginVars, restarts, pending, nextId, caller, shutdown>>

\* Every task has ended: what is left in the table fails and the pipe closes.
Close ==
    /\ reader \in {"drain", "cancel"} /\ inflight = {}
    /\ FailAllPending
    /\ reader' = "closed"
    /\ UNCHANGED <<pluginVars, stopped, cause, restarts, nextId, shutdown>>
-----------------------------------------------------------------------------
(* The plugin and the supervisor.                                          *)

Writes(f) ==
    /\ plugin = "up" /\ Len(wire) < WireLimit
    /\ wire' = Append(wire, f)

PluginAnswersHello ==
    /\ reader = "handshake" /\ Writes(Frame("hello"))
    /\ \A k \in 1 .. Len(wire) : wire[k].kind # "hello"
    /\ UNCHANGED <<readerVars, unsent, plugin, sent, pending, nextId, caller, shutdown>>

PluginNotifies(n) ==
    /\ n \in unsent /\ Writes(Note(n))
    /\ unsent' = unsent \ {n}
    /\ UNCHANGED <<readerVars, plugin, sent, pending, nextId, caller, shutdown>>

\* A request may be answered late, or twice.
PluginReplies(s) ==
    /\ s \in sent /\ Writes(Reply(s[1], s[2]))
    /\ UNCHANGED <<readerVars, unsent, plugin, sent, pending, nextId, caller, shutdown>>

PluginEnds(kind) ==
    /\ Writes(Frame(kind))
    /\ plugin' = "gone"
    /\ UNCHANGED <<readerVars, unsent, sent, pending, nextId, caller, shutdown>>

Shutdown ==
    /\ ~shutdown /\ shutdown' = TRUE
    /\ UNCHANGED <<readerVars, pluginVars, pending, nextId, caller>>

Task(c) ==
    \/ SendRequest(c) \/ SendRefused(c) \/ Sent(c) \/ SendFails(c)
    \/ Returns(c) \/ TimesOut(c) \/ Finish(c) \/ TaskCancelled(c)

Reader ==
    \/ HandshakeAnswered \/ HandshakeDrops \/ HandshakeFails \/ ReadNote \/ CapacityFree
    \/ ReadReply \/ ReadMalformed \/ ReadBroken \/ CrashRouted \/ ReadEof \/ SeeShutdown \/ Close

Next ==
    \/ \E c \in Callers : Task(c) \/ OtherBegins(c)
    \/ Reader
    \/ Cancel
    \/ PluginAnswersHello
    \/ \E n \in Notes : PluginNotifies(n)
    \/ \E s \in sent : PluginReplies(s)
    \/ \E kind \in {"malformed", "broken", "eof"} : PluginEnds(kind)
    \/ Shutdown

Spec == Init /\ [][Next]_vars

\* The loop runs the reader and every task that can go on; a timer fires.
LiveSpec == Spec /\ WF_vars(Reader) /\ \A c \in Callers : WF_vars(Task(c))
-----------------------------------------------------------------------------
\* A reply settles the request it answers: a late reply of a request that timed
\* out never reaches another one (send_request, _resolve_pending).
RepliesMatch ==
    \A c \in Callers : caller[c].answer # Nobody => caller[c].answer = <<c, caller[c].asked>>

\* Once the pump has closed no task of it runs, nothing is registered and no
\* caller is left with an open future (pump).
ClosedIsQuiet ==
    reader = "closed" /\ cause # "handshake" =>
        /\ inflight = {}
        /\ \A i \in Ids : pending[i] = Nobody
        /\ \A c \in Callers : caller[c].fut # "open"

\* A shutdown ends the pump: the drain outlives no request (pump, send_request).
ShutDown == shutdown /\ reader # "handshake"
Closed == reader = "closed"
ShutdownCloses == ShutDown ~> Closed

\* While the reader waits for room an outbound answer is still read: it does not
\* wait only for tasks that wait for the reader (comment in _pump).
AcksReadAtCap ==
    reader = "capacity" /\ inflight # {} => \E n \in inflight : caller[n].fut # "open"

\* No drain waits for a request that nobody will resolve (_reader_stopped).
DrainNeverHangs ==
    reader = "drain" => \A n \in inflight : caller[n].fut # "open"

\* A malformed frame asks the supervisor for a restart (_pump).
MalformedRestarts == cause = "malformed" => MalformedFrameReason \in restarts
=============================================================================
