--------------------------- MODULE GatewayFrontDoor ---------------------------
(***************************************************************************)
(* `alfred gateway start`: the command of cli/gateway/_commands.py runs    *)
(* four tasks in one TaskGroup, the three egress planes and the gateway    *)
(* process.  gateway/process.py binds the client socket, accepts one       *)
(* client, shakes hands with it (client_link.py) and then runs the relay,  *)
(* the adapter supervisor and the ingress sweep until the relay ends.      *)
(* gateway/egress_proxy.py serves CONNECT tunnels on two of the planes;    *)
(* adapter_child_factory.py spawns one child per hosted adapter.           *)
(***************************************************************************)
EXTENDS Naturals, Sequences, FiniteSets

CONSTANTS
    Adapters,       \* the adapters the gateway hosts
    MaxBoots,       \* _DEFAULT_MAX_CONCURRENT_BOOTS
    MaxRestarts,    \* crashes that open an adapter's breaker
    MaxPreAck,      \* _MAX_PRE_ACK_FRAMES
    Planes,         \* the egress planes: "proxy", "relay" and "adapter"
    Tunnels         \* the connections a plane may be asked for

VARIABLES
    cmd,        \* the command: "config", "group" or "ended"
    exitCode,   \* what the command ended with
    shutdown,   \* shutdown_event
    failure,    \* the kind of the first error raised in the TaskGroup
    plane,      \* per egress plane: the state of its serve()
    conn,       \* per connection: its plane, its step and its open upstream
    door,       \* the step of GatewayProcess.run
    drops,      \* frames dropped before the client's ack
    relay,      \* relay_task
    sweep,      \* sweep_task
    sup,        \* per adapter: the step of supervise_one
    restarts,   \* per adapter: crashes counted by its breaker
    told,       \* per adapter: whether its task has been cancelled
    child,      \* adapters with a live child process
    epoch,      \* the core link has shaken hands once; it is never forgotten
    legs,       \* "none", "held" or "discarded"
    listener    \* the client socket is bound

vars == <<cmd, exitCode, shutdown, failure, plane, conn, door, drops, relay,
          sweep, sup, restarts, told, child, epoch, legs, listener>>

planeVars == <<plane, conn>>
doorVars == <<door, drops, relay, sweep, epoch, legs, listener>>
supVars == <<sup, restarts, told, child>>

NoConn == [plane |-> "none", at |-> "none", upstream |-> FALSE]

\* The tasks of supervise_all that have not ended.
Alive == {a \in Adapters : sup[a] \notin {"off", "done", "raised", "cancelled", "left"}}

TypeOK ==
    /\ cmd \in {"config", "group", "ended"}
    /\ shutdown \in BOOLEAN /\ listener \in BOOLEAN /\ epoch \in BOOLEAN
    /\ plane \in [Planes -> {"unbound", "serving", "closing", "draining", "ended", "failed"}]
    /\ conn \in [Tunnels -> [plane : Planes \cup {"none"}, upstream : BOOLEAN,
                   at : {"none", "reading", "resolving", "opening", "tunnel", "done"}]]
    /\ door \in {"unbound", "accepting", "handshake", "serving", "gathering", "closing", "ended"}
    /\ drops \in 0..MaxPreAck
    /\ relay \in {"off", "running", "done", "failed"}
    /\ sweep \in {"off", "running", "done", "failed"}
    /\ restarts \in [Adapters -> 0..MaxRestarts]
    /\ child \subseteq Adapters
    /\ legs \in {"none", "held", "discarded"}

Init ==
    /\ cmd = "config" /\ exitCode = "none"
    /\ shutdown = FALSE /\ failure = "none"
    /\ plane = [p \in Planes |-> "unbound"]
    /\ conn = [c \in Tunnels |-> NoConn]
    /\ door = "unbound" /\ drops = 0
    /\ relay = "off" /\ sweep = "off" /\ epoch = FALSE /\ legs = "none" /\ listener = FALSE
    /\ sup = [a \in Adapters |-> "off"]
    /\ restarts = [a \in Adapters |-> 0]
    /\ told = [a \in Adapters |-> FALSE]
    /\ child = {}

------------------------------------------------------------------------------
(* The command.                                                            *)

\* An adapter whose manifest cannot be read refuses the start.
_resolve_hosted_adapter_ids ==
    /\ cmd = "config"
    /\ \/ cmd' = "group" /\ UNCHANGED exitCode
       \/ cmd' = "ended" /\ exitCode' = "config_failed"
    /\ UNCHANGED <<shutdown, failure, planeVars, doorVars, supVars>>

\* SIGTERM or SIGINT.
_request_shutdown ==
    /\ cmd = "group"
    /\ shutdown' = TRUE
    /\ UNCHANGED <<cmd, exitCode, failure, planeVars, doorVars, supVars>>

\* One failure makes the TaskGroup cancel its other tasks.
Aborting == failure # "none"

\* _reraise_first_meaningful: the leaves of the group come in the order the
\* tasks failed, and the first one is raised again.
_reraise_first_meaningful(kind) == failure' = IF Aborting THEN failure ELSE kind

\* The except clauses of start_gateway: the kinds with a friendly exit code.
ExitCode ==
    IF ~Aborting THEN "stopped"
    ELSE IF failure \in Planes \cup {"bind", "handshake", "credential"}
    THEN failure ELSE "traceback"

start_gateway ==
    /\ cmd = "group"
    /\ door = "ended"
    /\ \A p \in Planes : plane[p] \in {"ended", "failed"}
    /\ cmd' = "ended"
    /\ exitCode' = ExitCode
    /\ UNCHANGED <<shutdown, failure, planeVars, doorVars, supVars>>

------------------------------------------------------------------------------
(* The egress planes.                                                      *)

ConnsOf(p) == {c \in Tunnels : conn[c].plane = p /\ conn[c].at # "done"}

serve(p) ==
    /\ cmd = "group" /\ plane[p] = "unbound" /\ ~Aborting
    /\ plane' = [plane EXCEPT ![p] = "serving"]
    /\ UNCHANGED <<cmd, exitCode, shutdown, failure, conn, doorVars, supVars>>

\* An OSError of the bind becomes the plane's own error.
_serve_egress_proxy_failclosed(p) ==
    /\ cmd = "group" /\ plane[p] = "unbound" /\ ~Aborting
    /\ plane' = [plane EXCEPT ![p] = "failed"]
    /\ _reraise_first_meaningful(p)
    /\ UNCHANGED <<cmd, exitCode, shutdown, conn, doorVars, supVars>>

\* `async with server` closes the listening socket, then waits.
ServeEnds(p) ==
    /\ plane[p] = "serving" /\ shutdown
    /\ plane' = [plane EXCEPT ![p] = "closing"]
    /\ UNCHANGED <<cmd, exitCode, shutdown, failure, conn, doorVars, supVars>>

\* Server.wait_closed returns when every accepted connection is closed.
ServerClosed(p) ==
    /\ plane[p] = "closing" /\ ConnsOf(p) = {}
    /\ plane' = [plane EXCEPT ![p] = "draining"]
    /\ UNCHANGED <<cmd, exitCode, shutdown, failure, conn, doorVars, supVars>>

ServeCancelled(p) ==
    /\ Aborting /\ plane[p] \in {"unbound", "serving", "closing"}
    /\ plane' = [plane EXCEPT ![p] = IF @ = "unbound" THEN "ended" ELSE "draining"]
    /\ UNCHANGED <<cmd, exitCode, shutdown, failure, conn, doorVars, supVars>>

\* Variant: the listener goes away and the tunnels are left to themselves.
LeaveConnections(p) == conn

\* Every connection task is cancelled and awaited.
CancelConnections(p) ==
    [c \in Tunnels |->
        IF c \in ConnsOf(p) THEN [conn[c] EXCEPT !.at = "done", !.upstream = FALSE]
        ELSE conn[c]]

_drain_connections(p) ==
    /\ plane[p] = "draining"
    /\ conn' = CancelConnections(p)
    /\ plane' = [plane EXCEPT ![p] = "ended"]
    /\ UNCHANGED <<cmd, exitCode, shutdown, failure, doorVars, supVars>>

_handle_client(c, p) ==
    /\ plane[p] = "serving" /\ conn[c] = NoConn
    /\ conn' = [conn EXCEPT ![c] = [plane |-> p, at |-> "reading", upstream |-> FALSE]]
    /\ UNCHANGED <<cmd, exitCode, shutdown, failure, plane, doorVars, supVars>>

ConnTo(c, from, to) ==
    /\ conn[c].at = from
    /\ conn' = [conn EXCEPT ![c].at = to, ![c].upstream = (to = "tunnel")]
    /\ UNCHANGED <<cmd, exitCode, shutdown, failure, plane, doorVars, supVars>>

\* Refused or failed: the client hears why and is closed.
_deny(c, from) == ConnTo(c, from, "done")

\* The CONNECT line is well formed; or malformed, late or missing.
_read_connect_target(c) ==
    ConnTo(c, "reading", "resolving") \/ _deny(c, "reading")

\* The host is listed, no literal address, and resolves to a global one.
_authorize(c) ==
    ConnTo(c, "resolving", "opening") \/ _deny(c, "resolving")

\* The upstream opens and the client hears 200; or the open or the answer fails.
_tunnel(c) ==
    ConnTo(c, "opening", "tunnel") \/ _deny(c, "opening")

\* One side of the splice ends or breaks; both ends are closed.
_pipe(c) == ConnTo(c, "tunnel", "done")

------------------------------------------------------------------------------
(* The gateway process.                                                    *)

bind ==
    /\ cmd = "group" /\ door = "unbound" /\ ~Aborting
    /\ \/ /\ door' = "accepting" /\ listener' = TRUE
          /\ UNCHANGED <<shutdown, failure>>
       \/ /\ door' = "ended" /\ shutdown' = TRUE
          /\ _reraise_first_meaningful("bind")
          /\ UNCHANGED listener
    /\ UNCHANGED <<cmd, exitCode, planeVars, drops, relay, sweep, epoch, legs, supVars>>

\* A client accepted in the tick of the shutdown is kept.
_accept_racing_shutdown ==
    /\ door = "accepting"
    /\ \/ door' = "handshake"
       \/ shutdown /\ door' = "closing"
    /\ UNCHANGED <<cmd, exitCode, shutdown, failure, planeVars, drops, relay,
                   sweep, epoch, legs, listener, supVars>>

\* GatewayHandshakeError: the client hung up, sent too much before its ack, or
\* answered with something that is no agreement.
HandshakeFails ==
    /\ door' = "closing"
    /\ _reraise_first_meaningful("handshake")
    /\ UNCHANGED <<drops, relay, sweep, legs, sup>>

\* A leg for the client and one per adapter, registered with the scheduler.
wire_leg_scheduler == legs' = "held"

\* The agreement: the legs are built and the three tasks start.
_negotiate_from_result ==
    /\ door' = "serving"
    /\ wire_leg_scheduler
    /\ relay' = "running" /\ sweep' = "running"
    /\ sup' = [a \in Adapters |-> "waiting"]
    /\ UNCHANGED <<drops, failure>>

client_handshake ==
    /\ door = "handshake" /\ ~Aborting
    /\ \/ HandshakeFails
       \/ _negotiate_from_result
       \/ /\ drops < MaxPreAck
          /\ drops' = drops + 1
          /\ UNCHANGED <<door, failure, relay, sweep, legs, sup>>
    /\ UNCHANGED <<cmd, exitCode, shutdown, planeVars, epoch, listener, restarts, told, child>>

\* GatewayRelay.run returns once its core link has seen the shutdown.
RelayEnds ==
    /\ relay = "running"
    /\ \/ shutdown /\ relay' = "done"
       \/ relay' = "failed"
    /\ UNCHANGED <<cmd, exitCode, shutdown, failure, planeVars, door, drops,
                   sweep, epoch, legs, listener, supVars>>

\* The core answers the link's handshake.
_peer_handshake ==
    /\ relay = "running" /\ epoch' = TRUE
    /\ UNCHANGED <<cmd, exitCode, shutdown, failure, planeVars, door, drops, relay,
                   sweep, legs, listener, supVars>>

_ingress_sweep_loop ==
    /\ sweep = "running" /\ sweep' = "failed"
    /\ UNCHANGED <<cmd, exitCode, shutdown, failure, planeVars, door, drops,
                   relay, epoch, legs, listener, supVars>>

\* The kinds of error the three tasks have ended with.
Raised ==
    (IF sweep = "failed" \/ relay = "failed" THEN {"other"} ELSE {})
    \cup (IF Alive = {} /\ \E a \in Adapters : sup[a] = "raised"
          THEN {"credential", "spawn"} ELSE {})

\* A background task that raised is surfaced, the relay's own error last.
TaskResults ==
    IF Raised = {} THEN UNCHANGED failure
    ELSE \E kind \in Raised : _reraise_first_meaningful(kind)

\* The relay has ended, a task has raised, or the group cancels the process:
\* the tasks still running are cancelled and awaited together.
_run_relay_and_scheduler ==
    /\ door = "serving"
    /\ \/ (relay # "running" \/ Raised # {}) /\ TaskResults
       \/ Aborting /\ UNCHANGED failure
    /\ door' = "gathering"
    /\ relay' = "done" /\ sweep' = "done"
    /\ UNCHANGED <<cmd, exitCode, shutdown, planeVars, drops, epoch, legs, listener, supVars>>

\* scheduler.aclose discards every leg's buffer.
aclose == legs' = "discarded"

Gathered ==
    /\ door = "gathering" /\ Alive = {}
    /\ door' = "closing"
    /\ aclose
    /\ UNCHANGED <<cmd, exitCode, shutdown, failure, planeVars, drops, relay,
                   sweep, epoch, listener, supVars>>

\* run's finally, then _run_gateway's, which stops the planes with the process.
ReapListener ==
    /\ \/ door = "closing"
       \/ Aborting /\ door \in {"unbound", "accepting", "handshake"}
    /\ door' = "ended" /\ listener' = FALSE /\ shutdown' = TRUE
    /\ UNCHANGED <<cmd, exitCode, failure, planeVars, drops, relay, sweep, epoch, legs, supVars>>

------------------------------------------------------------------------------
(* The adapters.                                                           *)

\* A sibling that raised makes the TaskGroup cancel the others, once; so does
\* the process that gathers its tasks.  The task meets the cancellation where
\* it is suspended, before anything else.
CancelPending(a) ==
    /\ a \in Alive /\ ~told[a]
    /\ door = "gathering" \/ \E b \in Adapters : sup[b] = "raised"

SupTo(a, from, to) ==
    /\ sup[a] = from /\ ~CancelPending(a)
    /\ sup' = [sup EXCEPT ![a] = to]
    /\ UNCHANGED <<cmd, exitCode, shutdown, failure, planeVars, doorVars, told>>

\* The semaphore of supervise_all is held until supervise_one returns.
supervise_all(a) ==
    /\ Cardinality({b \in Alive : sup[b] # "waiting"}) < MaxBoots
    /\ SupTo(a, "waiting", "spawning")
    /\ UNCHANGED <<restarts, child>>

\* The child inherits the read end of the credential pipe as fd 3.
_spawn_in_fd3_window(a) == child' = child \cup {a}

_terminate_and_reap(a) == child' = child \ {a}

\* The credential round trip needs the core link, which may be down and which
\* ends with the relay; a child spawned for nothing is reaped.
spawn_and_handshake(a) ==
    /\ \/ /\ relay = "running" /\ epoch
          /\ _spawn_in_fd3_window(a)
          /\ SupTo(a, "spawning", "handshaking")
       \/ UNCHANGED child /\ SupTo(a, "spawning", "awaiting")
    /\ UNCHANGED restarts

HandshakeOk(a) == SupTo(a, "handshaking", "entering") /\ UNCHANGED <<restarts, child>>

\* The up frame is sent to the core before the child is waited on.
_enter_up(a) == SupTo(a, "entering", "up") /\ UNCHANGED <<restarts, child>>

\* _CoreEpochCredSeam: the probe asks for an epoch, not for a live link.
is_available == epoch

\* A parked adapter tries again once an epoch is known; after enough probes
\* without one its breaker opens.
_wait_cred_or_stop(a) ==
    /\ SupTo(a, "awaiting", IF is_available THEN "spawning" ELSE "done")
    /\ UNCHANGED <<restarts, child>>

\* The first spawn's failure is raised; a later one is a crash like another,
\* and the last crash the breaker allows ends the supervision.
AfterFailure(a, from) ==
    IF from # "up" /\ restarts[a] = 0 THEN "raised"
    ELSE IF restarts[a] = MaxRestarts THEN "done" ELSE "backoff"

\* The child is terminated and reaped before the error travels on.
Crash(a, from) ==
    /\ SupTo(a, from, AfterFailure(a, from))
    /\ restarts' = [restarts EXCEPT
           ![a] = IF AfterFailure(a, from) = "backoff" THEN @ + 1 ELSE @]
    /\ _terminate_and_reap(a)

\* The launch target is refused, the launcher does not start, or the core
\* refuses the credential.
SpawnRefused(a) == Crash(a, "spawning")

_spawn_or_terminal(a) == Crash(a, "handshaking")

_handle_crash(a) == Crash(a, "up")

_next_backoff(a) == SupTo(a, "backoff", "spawning") /\ UNCHANGED <<restarts, child>>

_stop(a) == SupTo(a, "up", "done") /\ _terminate_and_reap(a) /\ UNCHANGED restarts

\* spawn_and_handshake turns a cancellation met in the handshake into
\* GatewayAdapterSpawnError; everywhere else it ends the task.  The wait on the
\* child reaps it, the await of the up frame does not.
SupCancelled(a) ==
    /\ CancelPending(a)
    /\ LET to == CASE sup[a] = "handshaking" -> AfterFailure(a, "handshaking")
                   [] sup[a] = "entering" -> "left"
                   [] OTHER -> "cancelled"
       IN /\ sup' = [sup EXCEPT ![a] = to]
          /\ restarts' = [restarts EXCEPT ![a] = IF to = "backoff" THEN @ + 1 ELSE @]
          /\ IF to = "left" THEN UNCHANGED child ELSE _terminate_and_reap(a)
    /\ told' = [told EXCEPT ![a] = TRUE]
    /\ UNCHANGED <<cmd, exitCode, shutdown, failure, planeVars, doorVars>>

------------------------------------------------------------------------------
\* What the gateway does by itself.
GatewayStep ==
    \/ _resolve_hosted_adapter_ids \/ start_gateway
    \/ \E p \in Planes : serve(p) \/ _serve_egress_proxy_failclosed(p) \/ ServeEnds(p)
                         \/ ServerClosed(p) \/ ServeCancelled(p) \/ _drain_connections(p)
    \/ bind \/ _run_relay_and_scheduler \/ Gathered \/ ReapListener
    \/ \E a \in Adapters : supervise_all(a) \/ spawn_and_handshake(a)
                           \/ _next_backoff(a) \/ SupCancelled(a)
                           \/ _wait_cred_or_stop(a) \/ _enter_up(a)

\* What clients, children, upstreams, signals and faults decide.
OutsideStep ==
    \/ _request_shutdown \/ _accept_racing_shutdown \/ client_handshake
    \/ RelayEnds \/ _peer_handshake \/ _ingress_sweep_loop
    \/ \E c \in Tunnels :
          \/ \E p \in Planes \ {"relay"} : _handle_client(c, p)
          \/ _read_connect_target(c) \/ _authorize(c) \/ _tunnel(c) \/ _pipe(c)
    \/ \E a \in Adapters : HandshakeOk(a) \/ _spawn_or_terminal(a)
                           \/ SpawnRefused(a) \/ _handle_crash(a) \/ _stop(a)

\* The command has ended.
Ended == cmd = "ended" /\ UNCHANGED vars

Next == GatewayStep \/ OutsideStep \/ Ended

Spec == Init /\ [][Next]_vars

\* The event loop runs every task that can go on; a handshake with a child is
\* bounded by its own timeout, and the relay notices the shutdown.
FairSpec ==
    /\ Spec
    /\ WF_vars(GatewayStep)
    /\ \A a \in Adapters : WF_vars(SupCancelled(a))
    /\ WF_vars(shutdown /\ RelayEnds)
    /\ \A a \in Adapters : WF_vars(HandshakeOk(a) \/ _spawn_or_terminal(a))

------------------------------------------------------------------------------
\* When the command has ended nothing it opened is left: the client socket is
\* unbound, every leg that was built has been discarded, no tunnel is open and
\* no task runs, however the start ended; and no child of an adapter lives but
\* one whose task was cancelled while it sent the up frame
\* (process.py `_run_relay_and_scheduler`, `run`; egress_proxy.py `serve`).
NothingLeftBehind ==
    (cmd = "ended") =>
        /\ ~listener /\ legs # "held" /\ Alive = {}
        /\ child \subseteq {a \in Adapters : sup[a] = "left"}
        /\ \A c \in Tunnels : ~conn[c].upstream

\* "stopped" is only said when nothing failed: a plane that could not bind, a
\* broken client, an adapter refused at its first spawn, a dead sweep or relay
\* is never lost in the teardown (process.py: "surfaced promptly, not absorbed
\* at teardown").
FailureIsNamed ==
    [][((sweep = "failed" \/ relay = "failed") /\ door = "serving" /\ door' # "serving")
          => failure' # "none"]_vars

\* The gathering of the tasks ends (process.py: "cancelled/reaped on shutdown
\* (correction #5) so a future non-empty set cannot block the stop").
StopNotBlocked == (door = "gathering") ~> (door # "gathering")

\* An adapter's refused spawn ends no sibling (adapter_supervisor.py: "One
\* adapter's fail-closed GatewayAdapterSpawnError does NOT stop the siblings").
SiblingsGoOn ==
    [][(door # "gathering") => \A a \in Adapters : sup'[a] \in {"cancelled", "left"} => sup'[a] = sup[a]]_vars
==============================================================================
