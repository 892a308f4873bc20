---------------------------- MODULE PluginSession ----------------------------
(***************************************************************************)
(* A plugin session of the core and the transports under it: the one       *)
(* connection a socket listener accepts, the handshake and its gate check, *)
(* the routing of what the plugin sends afterwards (with the failure       *)
(* counter that trips the adapter's breaker), the quarantine of a plugin   *)
(* that breaks the protocol, and the request/answer pipe of a stdio child. *)
(*                                                                         *)
(* Sources: plugins/session.py, plugins/inbound_disposition.py,            *)
(* plugins/comms_socket_transport.py, plugins/comms_stdio_transport.py,    *)
(* plugins/stdio_transport.py, utils/sliding_window_counter.py,            *)
(* comms_mcp/handlers.py.                                                  *)
(*                                                                         *)
(* A notification runs as a task of its own; its steps are the code        *)
(* between two awaits.  Audit writes and hooks may fail at every await.    *)
(***************************************************************************)
EXTENDS Naturals, FiniteSets, Sequences

CONSTANTS Peers,        \* connections to the socket
          Strangers,    \* those whose uid is not the daemon's
          Notes,        \* notifications of the plugin
          Calls,        \* requests over a stdio pipe
          Nobody,       \* no peer
          Permits,      \* the dispatch semaphore
          Threshold,    \* _HANDLER_FAILURE_THRESHOLD
          FailureSpan   \* _HANDLER_FAILURE_WINDOW

VARIABLES carrier,    \* what carries the session: a socket, a stdio child
          accepted,   \* the future accept() waits on
          listener,   \* the listening socket: "bound", "accepting", "closed"
          conn,       \* the connection of every peer
          session,    \* the life of the session
          plugin,     \* the plugin process
          note,       \* the task of every notification
          failures,   \* ages of the events of the SlidingWindowCounter
          failed,     \* ages of the handler failures whose row is written
          asked,      \* what was asked of the supervisor
          call,       \* the state of every request
          pipes       \* frames under way on the child's stdin and stdout

pvars == <<carrier, accepted, listener, conn, session, plugin, note, failures,
           failed, asked, call, pipes>>

Init ==
  /\ carrier \in {"socket", "stdio"}
  /\ accepted = [state |-> "none", peer |-> Nobody]
  /\ listener = IF carrier = "socket" THEN "bound" ELSE "closed"
  /\ conn = [p \in Peers |-> "away"]
  /\ session = "new"
  /\ plugin = IF carrier = "socket" THEN "alive" ELSE "unspawned"
  /\ note = [n \in Notes |-> "unsent"]
  /\ failures = <<>> /\ failed = <<>>
  /\ asked = {}
  /\ call = [k \in Calls |-> "unsent"]
  /\ pipes = [in |-> <<>>, out |-> <<>>]

Socket == <<accepted, listener, conn>>
Routing == <<note, failures, failed, asked>>
Pipe == <<call, pipes>>

(***************************************************************************)
(* The listener.                                                           *)
(***************************************************************************)
accept ==
  /\ listener = "bound" /\ accepted.state = "none"
  /\ listener' = "accepting"
  /\ accepted' = [accepted EXCEPT !.state = "pending"]
  /\ UNCHANGED <<carrier, conn, session, plugin, Routing, Pipe>>

Refused(p) == conn' = [conn EXCEPT ![p] = "closed"] /\ UNCHANGED accepted

\* A second peer is closed; a stranger is reported first, which takes an await.
_on_connect(p) ==
  /\ listener = "accepting" /\ conn[p] = "away"
  /\ \/ accepted.state # "pending" /\ Refused(p)
     \/ /\ accepted.state = "pending" /\ p \in Strangers
        /\ conn' = [conn EXCEPT ![p] = "reporting"] /\ UNCHANGED accepted
     \/ /\ accepted.state = "pending" /\ p \notin Strangers
        /\ conn' = [conn EXCEPT ![p] = "open"]
        /\ accepted' = [state |-> "made", peer |-> p]
  /\ UNCHANGED <<carrier, listener, session, plugin, Routing, Pipe>>

\* Variant: the failed report settles the future without looking whether it is settled.
ReportFailsUnchecked(p) ==
  /\ conn[p] = "reporting"
  /\ IF accepted.state = "pending"
     THEN /\ conn' = [conn EXCEPT ![p] = "closed"]
          /\ accepted' = [accepted EXCEPT !.state = "failed"]
     ELSE /\ conn' = [conn EXCEPT ![p] = "open"]
          /\ UNCHANGED accepted
  /\ UNCHANGED <<carrier, listener, session, plugin, Routing, Pipe>>

\* The report of a stranger fails: accept() fails with it unless a peer came meanwhile.
ReportFails(p) ==
  /\ conn[p] = "reporting"
  /\ conn' = [conn EXCEPT ![p] = "closed"]
  /\ accepted' = IF accepted.state = "pending" THEN [accepted EXCEPT !.state = "failed"]
                 ELSE accepted
  /\ UNCHANGED <<carrier, listener, session, plugin, Routing, Pipe>>

Reported(p) ==
  /\ conn[p] = "reporting"
  /\ Refused(p)
  /\ UNCHANGED <<carrier, listener, session, plugin, Routing, Pipe>>

\* The awaiting task is cancelled (the daemon stops); the future is done with it.
AcceptCancelled ==
  /\ accepted.state = "pending"
  /\ accepted' = [accepted EXCEPT !.state = "failed"]
  /\ UNCHANGED <<carrier, listener, conn, session, plugin, Routing, Pipe>>

\* The listener closes once the session over it has ended or none came about.
aclose ==
  /\ listener = "accepting"
  /\ accepted.state = "failed" \/ session = "ended"
  /\ listener' = "closed"
  /\ UNCHANGED <<carrier, accepted, conn, session, plugin, Routing, Pipe>>

(***************************************************************************)
(* Handshake.                                                              *)
(***************************************************************************)
_spawn ==
  /\ carrier = "stdio" /\ plugin = "unspawned"
  /\ plugin' \in {"alive", "failed"}
  /\ session' = IF plugin' = "failed" THEN "ended" ELSE session
  /\ UNCHANGED <<carrier, Socket, Routing, Pipe>>

Ready == plugin = "alive" /\ (carrier = "socket" => accepted.state = "made")

\* The manifest does not parse: a refusal row, and no session.
create ==
  /\ session = "new" /\ Ready
  /\ session' \in {"parsed", "ended"}
  /\ UNCHANGED <<carrier, Socket, plugin, Routing, Pipe>>

\* The gate refuses the load, or the session is loaded before its row is written.
_on_handshake_complete ==
  /\ session = "parsed"
  /\ session' \in {"loaded", "ended"}
  /\ UNCHANGED <<carrier, Socket, plugin, Routing, Pipe>>

Ended ==
  /\ session = "loaded"
  /\ session' = "ended"
  /\ conn' = [p \in Peers |-> IF accepted.peer = p THEN "closed" ELSE conn[p]]
  /\ UNCHANGED <<carrier, accepted, listener, plugin, Routing, Pipe>>

(***************************************************************************)
(* What the plugin sends after the handshake.                              *)
(***************************************************************************)
Loaded == session = "loaded" /\ carrier = "socket"
Becomes(n, s) == note' = [note EXCEPT ![n] = s]
Handling == {n \in Notes : note[n] \in {"handling", "emitting", "tripping"}}
InSpan(s) == SelectSeq(s, LAMBDA a : a < FailureSpan)

\* By method: a disallowed one or a false sandbox report tears down, a status frame has its
\* route, a comms notification waits for a permit, any other is unknown.
_on_post_handshake_method(n) ==
  \E s \in {"waiting", "routed", "unknown", "killing", "done"} : Becomes(n, s)

\* Spawn requests and forwarded messages have their own route; the rest is the session's.
dispatch(n) ==
  /\ Loaded /\ plugin = "alive" /\ note[n] = "unsent"
  /\ Becomes(n, "routed") \/ _on_post_handshake_method(n)
  /\ UNCHANGED <<carrier, Socket, session, plugin, failures, failed, asked, Pipe>>

\* A status frame, a forwarded message or a spawn request: its handler's row cannot be
\* written, which asks for a restart, or it ends (refused, answered, failed and logged).
Routed(n) ==
  /\ note[n] = "routed"
  /\ Becomes(n, "done")
  /\ asked' \in {asked, asked \cup {"restart"}}
  /\ UNCHANGED <<carrier, Socket, session, plugin, failures, failed, Pipe>>

\* An unknown notification is audited and then asks for a restart.
_emit_unknown_notification(n) ==
  /\ note[n] = "unknown"
  /\ Becomes(n, "done")
  /\ asked' \in {asked, asked \cup {"restart"}}
  /\ UNCHANGED <<carrier, Socket, session, plugin, failures, failed, Pipe>>

\* A disallowed method, or a sandbox other than the declared one: the process is killed,
\* and the row is written whether or not that succeeded.
_quarantine_teardown(n) ==
  /\ note[n] = "killing"
  /\ plugin' \in {"alive", "killed"}
  /\ Becomes(n, "done")
  /\ asked' = asked \cup {"quarantined"}
  /\ UNCHANGED <<carrier, Socket, session, failures, failed, Pipe>>

_dispatch_comms_notification(n) ==
  /\ note[n] = "waiting" /\ Cardinality(Handling) < Permits
  /\ Becomes(n, "handling")
  /\ UNCHANGED <<carrier, Socket, session, plugin, failures, failed, asked, Pipe>>

_route_comms_notification(n) ==
  /\ note[n] = "handling"
  /\ \E s \in {"done", "emitting"} : Becomes(n, s)
  /\ UNCHANGED <<carrier, Socket, session, plugin, failures, failed, asked, Pipe>>

\* exceeds() after increment().
exceeds(s) == IF Len(InSpan(Append(s, 0))) >= Threshold THEN "tripping" ELSE "done"

\* The row of a failed handler: unwritten, the failure is not counted.
_emit_handler_failed(n) ==
  /\ note[n] = "emitting"
  /\ \/ /\ Becomes(n, "done")
        /\ UNCHANGED <<failures, failed>>
     \/ /\ failures' = InSpan(Append(failures, 0))
        /\ failed' = Append(failed, 0)
        /\ Becomes(n, exceeds(failures))
  /\ UNCHANGED <<carrier, Socket, session, plugin, asked, Pipe>>

trip_breaker(n) ==
  /\ note[n] = "tripping"
  /\ asked' = asked \cup {"trip"}
  /\ Becomes(n, "done")
  /\ UNCHANGED <<carrier, Socket, session, plugin, failures, failed, Pipe>>

Tick ==
  /\ \E k \in DOMAIN failed : failed[k] < FailureSpan
  /\ LET Older(s) == [k \in DOMAIN s |-> IF s[k] < FailureSpan THEN s[k] + 1 ELSE s[k]]
     IN  failures' = Older(failures) /\ failed' = Older(failed)
  /\ UNCHANGED <<carrier, Socket, session, plugin, note, asked, Pipe>>

(***************************************************************************)
(* The request/answer pipe of a stdio child: one request at a time.        *)
(***************************************************************************)
Pending == {k \in Calls : call[k] \in {"scanning", "sent", "scanned"}}
Goes(k, s) == call' = [call EXCEPT ![k] = s]

StdioDispatch(k) ==
  /\ carrier = "stdio" /\ session = "loaded" /\ plugin = "alive"
  /\ call[k] = "unsent" /\ Pending = {}
  /\ Goes(k, "scanning")
  /\ UNCHANGED <<carrier, Socket, session, plugin, Routing, pipes>>

\* The outbound scan refuses (with its row), or the frame is written with its secrets.
Write(k) ==
  /\ call[k] = "scanning"
  /\ \/ Goes(k, "refused") /\ UNCHANGED pipes
     \/ /\ plugin = "alive" /\ Goes(k, "sent")
        /\ pipes' = [pipes EXCEPT !.in = Append(@, k)]
     \/ plugin # "alive" /\ Goes(k, "failed") /\ UNCHANGED pipes
  /\ UNCHANGED <<carrier, Socket, session, plugin, Routing>>

ChildAnswers ==
  /\ plugin = "alive" /\ pipes.in # <<>>
  /\ pipes' = [in |-> Tail(pipes.in), out |-> Append(pipes.out, Head(pipes.in))]
  /\ UNCHANGED <<carrier, Socket, session, plugin, Routing, call>>

\* The frame is read whole, or it is too long, or the pipe ends.
_read_length_prefixed(k) ==
  /\ call[k] = "sent"
  /\ \/ /\ pipes.out # <<>> /\ Goes(k, "scanned")
        /\ pipes' = [pipes EXCEPT !.out = Tail(@)]
     \/ Goes(k, "failed") /\ UNCHANGED pipes
  /\ UNCHANGED <<carrier, Socket, session, plugin, Routing>>

\* The inbound scan trips, or the answer is returned (staged under a handle if content).
ScanInbound(k) ==
  /\ call[k] = "scanned"
  /\ \E s \in {"tripped", "answered"} : Goes(k, s)
  /\ UNCHANGED <<carrier, Socket, session, plugin, Routing, pipes>>

\* kill() and close(): stdin is closed, and a child that does not end is killed.
close ==
  /\ carrier = "stdio" /\ plugin = "alive" /\ session = "ended"
  /\ plugin' = "killed"
  /\ UNCHANGED <<carrier, Socket, session, Routing, Pipe>>

Listen(p) == _on_connect(p) \/ ReportFails(p) \/ Reported(p)
Route(n) == \/ dispatch(n) \/ Routed(n) \/ _emit_unknown_notification(n)
            \/ _quarantine_teardown(n) \/ _dispatch_comms_notification(n)
            \/ _route_comms_notification(n) \/ _emit_handler_failed(n) \/ trip_breaker(n)
Request(k) == StdioDispatch(k) \/ Write(k) \/ _read_length_prefixed(k) \/ ScanInbound(k)

Next ==
  \/ accept \/ AcceptCancelled \/ aclose
  \/ \E p \in Peers : Listen(p)
  \/ _spawn \/ create \/ _on_handshake_complete \/ Ended \/ close
  \/ \E n \in Notes : Route(n)
  \/ \E k \in Calls : Request(k)
  \/ ChildAnswers \/ Tick

Spec == Init /\ [][Next]_pvars

-------------------------------------------------------------------------------
\* The listener serves one connection: every other one is closed by the handler that
\* took it, also when the report of a stranger fails after a peer was accepted.
LoneTransport ==
  \A p \in Peers : conn[p] = "open" => accepted = [state |-> "made", peer |-> p]

\* Threshold handler failures whose rows fall into one window have tripped the
\* adapter's breaker, or the last of them is about to, however their tasks interleaved.
RepeatedFailuresTrip ==
  Len(InSpan(failed)) >= Threshold
    => "trip" \in asked \/ \E n \in Notes : note[n] = "tripping"
===============================================================================
