-------------------------- MODULE DaemonLifecycle --------------------------
(***************************************************************************)
(* The daemon process from `alfred daemon start` to its exit, and the      *)
(* supervisor's task group that runs beside it.                            *)
(*                                                                         *)
(* _start_async walks a chain of boot checks, each of which may refuse;    *)
(* builds the comms graph, which spawns the quarantine child; and enters   *)
(* one try block that writes the pidfile, starts the supervisor, binds the *)
(* adapter listener and the control socket, announces ready and parks in   *)
(* wait_for_shutdown.  Its finally announces going_down, stops the         *)
(* supervisor and releases what the boot took.  Concurrently run the       *)
(* supervisor's TaskGroup (the capability heartbeat, the dispatch loop and *)
(* the adapter pump), the control connections, outages of the database,    *)
(* signals, and kills; a killed daemon may be started again.               *)
(***************************************************************************)
EXTENDS Integers, Sequences, FiniteSets

CONSTANTS MaxBoots,       \* boots of the daemon in a behaviour
          MaxOutages,     \* database outages in a behaviour
          Conns,          \* control connections
          MaxServe        \* _MAX_CONCURRENT_SERVE

VARIABLES step,           \* where _start_async stands
          held,           \* what this process holds and must give back
          stranded,       \* the part of it no release will give back any more
          left,           \* what earlier processes left on disk
          boots,          \* boots so far
          failing,        \* boot_failure is not None
          exitCode,       \* of the last exit: "none", "ok", "refused", "audit", "error", "killed"
          told,           \* the daemon rows and lifecycle frames of this boot, in order
          group,          \* the TaskGroup: "none", "open", "failed", "ended"
          members,        \* its live tasks
          failClosed,     \* CapabilityGateMonitor._in_fail_closed
          beat,           \* the heartbeat: "idle", or the transition row it is writing
          storeUp,        \* the database answers
          outages,        \* outages so far
          termed,         \* a SIGTERM or SIGINT reached wait_for_shutdown's handler
          conns,          \* the control connections being served
          inFlight        \* DaemonControlServer._in_flight

bootVars == <<step, held, stranded, left, boots, failing, exitCode, told, termed>>
taskVars == <<group, members, failClosed, beat>>
envVars  == <<storeUp, outages>>
srvVars  == <<conns, inFlight>>
dvars    == <<bootVars, taskVars, envVars, srvVars>>

(* The refusable checks before anything is held, in the order of the code. *)
Checks == <<"settings", "unsandboxed", "launcher", "snapshot", "handshake",
            "infra", "grant", "nonce", "secrets", "multi_adapter">>
(* What the finally gives back after the supervisor stopped, in its order, *)
(* and the resource each of its steps gives back.                          *)
Releases == <<"reap_child", "close_store", "close_listener", "close_control", "delete_pidfile">>
ReleaseOf == [reap_child |-> "child", close_store |-> "content_store",
              close_listener |-> "listener", close_control |-> "control",
              delete_pidfile |-> "pidfile"]
(* What would outlive the process if nobody released it; the stdio         *)
(* adapter's child is closed by its pump, the rest by the finally.         *)
Outliving == {"adapter", "child", "listener", "control", "pidfile"}
OnDisk == {"listener", "control", "pidfile"}
(* The part of the boot inside the try, before wait_for_shutdown.          *)
Trying == <<"supervisor", "pidfile", "start", "carrier", "control",
            "completed", "hook", "ready_row", "ready_wire">>

NextOf(seq, s) == seq[1 + (CHOOSE i \in DOMAIN seq : seq[i] = s)]

DaemonInit ==
  /\ step = "off" /\ held = {} /\ stranded = {} /\ left = {} /\ boots = 0
  /\ failing = FALSE /\ exitCode = "none" /\ told = <<>> /\ termed = FALSE
  /\ group = "none" /\ members = {} /\ failClosed = FALSE /\ beat = "idle"
  /\ storeUp = TRUE /\ outages = 0
  /\ conns = {} /\ inFlight = 0

------------------------------------------------------------------------------
(* Boot checks.  A process begins with none of the tasks of the last one.  *)
start_daemon ==
  /\ step = "off" /\ boots < MaxBoots
  /\ step' = Checks[1] /\ boots' = boots + 1
  /\ failing' = FALSE /\ exitCode' = "none" /\ told' = <<>> /\ termed' = FALSE
  /\ group' = "none" /\ members' = {} /\ failClosed' = FALSE /\ beat' = "idle"
  /\ held' = {} /\ stranded' = {} /\ left' = left \cup (held \cap OnDisk)
  /\ UNCHANGED <<envVars, srvVars>>

ExitWith(code) == step' = "off" /\ exitCode' = code

(* _refuse_boot: the boot.failed hook runs before the row and is           *)
(* fail-closed, so a raising subscriber takes the place of the row.        *)
_refuse_boot(hookRaises) ==
  IF hookRaises THEN [code |-> "error", row |-> <<>>]
  ELSE IF storeUp THEN [code |-> "refused", row |-> <<"failed">>]
  ELSE [code |-> "audit", row |-> <<>>]

(* One check: it passes, when it can, to the next; or the boot is refused. *)
Check(s, canPass) ==
  /\ step = s
  /\ \/ /\ canPass /\ s # Checks[Len(Checks)] /\ step' = NextOf(Checks, s)
        /\ UNCHANGED <<exitCode, told>>
     \/ /\ canPass /\ s = Checks[Len(Checks)]       \* with or without comms adapters
        /\ step' \in {"content_store", "supervisor"}
        /\ UNCHANGED <<exitCode, told>>
     \/ \E h \in BOOLEAN : /\ ExitWith(_refuse_boot(h).code)
                           /\ told' = told \o _refuse_boot(h).row
  /\ UNCHANGED <<held, stranded, left, boots, failing, termed, taskVars, envVars, srvVars>>

_load_settings_or_die            == Check("settings", TRUE)
RefuseUnsandboxed                == Check("unsandboxed", TRUE)
probe_launcher_policy_resolving  == Check("launcher", TRUE)
probe_snapshot_ref_init          == Check("snapshot", TRUE)
probe_capability_gate_handshake  == Check("handshake", storeUp)
InstallBootInfra                 == Check("infra", storeUp)
RequireFirstPartyGrant           == Check("grant", TRUE)
create_and_register_t3_nonce     == Check("nonce", TRUE)
_build_boot_outbound_dlp         == Check("secrets", TRUE)
RefuseMultiAdapter               == Check("multi_adapter", TRUE)

(* _build_comms_boot_graph: the content store, then the extractor with its *)
(* child, then everything that takes nothing more.                         *)
GraphStep(s, next, what) ==
  /\ step = s /\ step' = next
  /\ held' = held \cup what
  /\ UNCHANGED <<stranded, left, boots, failing, exitCode, told, termed, taskVars, envVars, srvVars>>

OpenContentStore               == GraphStep("content_store", "child", {"content_store"})
_build_comms_inbound_extractor == GraphStep("child", "wiring", {"child"})
WireGraph                      == GraphStep("wiring", "supervisor", {})
_build_comms_boot_graph == OpenContentStore \/ _build_comms_inbound_extractor \/ WireGraph

(* A failure of the graph closes what it had taken, each close suppressed  *)
(* on its own; it is refused when its class is one the caller names,       *)
(* raised otherwise.                                                       *)
GraphFails ==
  /\ step \in {"content_store", "child", "wiring"}
  /\ stranded' \in SUBSET held /\ held' = stranded'
  /\ \/ \E h \in BOOLEAN : ExitWith(_refuse_boot(h).code) /\ told' = told \o _refuse_boot(h).row
     \/ ExitWith("error") /\ told' = told
  /\ UNCHANGED <<left, boots, failing, termed, taskVars, envVars, srvVars>>

------------------------------------------------------------------------------
(* The try block.  Unwind is `except BaseException`: it marks boot_failure *)
(* and enters the finally; exitCode already says how the process will end. *)
Unwind(code) == failing' = TRUE /\ exitCode' = code /\ step' = "going_down"
Raises(s) == /\ step = s /\ Unwind("error")
             /\ UNCHANGED <<held, stranded, left, boots, told, termed, taskVars, envVars, srvVars>>
Takes(s, what) == /\ step = s /\ step' = NextOf(Trying, s)
                  /\ held' = held \cup what /\ left' = left \ what
                  /\ UNCHANGED <<stranded, boots, failing, exitCode, termed>>

ConstructSupervisor ==
  \/ Takes("supervisor", {}) /\ UNCHANGED <<told, taskVars, envVars, srvVars>>
  \/ Raises("supervisor")

(* pidfile_path is set before the write, so a failed write is unlinked too.*)
write_pidfile ==
  \/ Takes("pidfile", {"pidfile"}) /\ UNCHANGED <<told, taskVars, envVars, srvVars>>
  \/ Raises("pidfile")

start ==
  /\ Takes("start", {}) /\ group' = "open" /\ members' = {"heartbeat", "dispatch"}
  /\ UNCHANGED <<told, failClosed, beat, envVars, srvVars>>

(* The one enabled adapter: a socket carrier binds its listener, a stdio   *)
(* carrier handshakes with its child, and either registers its pump with a *)
(* task group that must still be open.  Without a graph there is none.     *)
Carried(what) ==
  /\ "child" \in held /\ group = "open" /\ Takes("carrier", what)
  /\ members' = members \cup {"pump"}
  /\ UNCHANGED <<told, group, failClosed, beat, envVars, srvVars>>
(* An unknown kind, a bad manifest or a missing promoter refuses the boot; *)
(* so does a failed bind or handshake, which closes what it had opened.    *)
_build_comms_adapter_wiring ==
  \E h \in BOOLEAN : Unwind(_refuse_boot(h).code) /\ told' = told \o _refuse_boot(h).row
(* The carrier kind is resolved before either; anything else raises.       *)
RefusedOrRaised ==
  /\ step = "carrier" /\ "child" \in held
  /\ _build_comms_adapter_wiring \/ (Unwind("error") /\ UNCHANGED told)
  /\ UNCHANGED <<held, stranded, left, boots, termed, taskVars, envVars, srvVars>>
(* register_plugin_task raises once the group is going down: the listener  *)
(* just bound, or the child just greeted, has no owner yet.                *)
Unregistered(what) ==
  /\ step = "carrier" /\ "child" \in held /\ group # "open" /\ Unwind("error")
  /\ held' = held \cup what /\ stranded' = stranded \cup what
  /\ UNCHANGED <<left, boots, told, termed, taskVars, envVars, srvVars>>
_listen_socket_comms_adapter ==
  Carried({"listener"}) \/ Unregistered({"listener"}) \/ RefusedOrRaised
_spawn_comms_adapter ==
  Carried({"adapter"}) \/ Unregistered({"adapter"}) \/ RefusedOrRaised
NoAdapter == /\ "child" \notin held /\ Takes("carrier", {})
             /\ UNCHANGED <<told, taskVars, envVars, srvVars>>

StartControlServer ==
  \/ Takes("control", {"control"}) /\ UNCHANGED <<told, taskVars, envVars, srvVars>>
  \/ Raises("control")

(* _emit_or_quarantine: an unwritable row is exit 3.                       *)
_emit_or_quarantine(s, row) ==
  /\ step = s
  /\ IF storeUp THEN Takes(s, {}) /\ told' = Append(told, row)
     ELSE Unwind("audit") /\ UNCHANGED <<held, stranded, left, boots, told, termed>>
  /\ UNCHANGED <<taskVars, envVars, srvVars>>

EmitCompleted == _emit_or_quarantine("completed", "completed")
_invoke_boot_completed ==
  \/ Takes("hook", {}) /\ UNCHANGED <<told, taskVars, envVars, srvVars>>
  \/ Raises("hook")
(* The ready row; then its frame to each registered peer, which cannot     *)
(* fail the boot.                                                          *)
_emit_ready == _emit_or_quarantine("ready_row", "ready")
broadcast_ready ==
  /\ step = "ready_wire" /\ step' = "waiting"
  /\ UNCHANGED <<held, stranded, left, boots, failing, exitCode, told, termed,
                 taskVars, envVars, srvVars>>

(* Before wait_for_shutdown installs its handlers a SIGINT cancels the     *)
(* main task at its await.                                                 *)
Interrupt ==
  /\ step \in {Trying[i] : i \in DOMAIN Trying} \ {"supervisor", "pidfile"}
  /\ Unwind("error")
  /\ group' = IF step = "start" THEN "open" ELSE group
  /\ members' = IF step = "start" THEN {"heartbeat", "dispatch"} ELSE members
  /\ UNCHANGED <<held, stranded, left, boots, told, termed, failClosed, beat, envVars, srvVars>>

Signal ==
  /\ step = "waiting"
  /\ termed' = TRUE /\ step' = "going_down" /\ exitCode' = "ok"
  /\ UNCHANGED <<held, stranded, left, boots, failing, told, taskVars, envVars, srvVars>>

(* SIGTERM with no handler installed, SIGINT before the try, SIGKILL,      *)
(* power loss: no finally.                                                 *)
Killed ==
  /\ step # "off"
  /\ left' = left \cup (held \cap OnDisk)
  /\ held' = {} /\ stranded' = {} /\ ExitWith("killed")
  /\ group' = "none" /\ members' = {} /\ beat' = "idle" /\ failClosed' = FALSE
  /\ conns' = {} /\ inFlight' = 0
  /\ UNCHANGED <<boots, failing, told, termed, envVars>>

------------------------------------------------------------------------------
(* The finally.  ready_emitted is TRUE exactly when the boot had reached   *)
(* wait_for_shutdown; a failing row is exit 3 and still goes on to stop(). *)
_emit_going_down ==
  /\ step = "going_down"
  /\ step' = IF group = "none" THEN Releases[1] ELSE "draining"
  /\ IF ~termed THEN UNCHANGED <<told, failing, exitCode>>
     ELSE IF storeUp THEN /\ told' = Append(told, "going_down")
                          /\ UNCHANGED <<failing, exitCode>>
     ELSE failing' = TRUE /\ exitCode' = "audit" /\ UNCHANGED told
  /\ UNCHANGED <<held, stranded, left, boots, termed, taskVars, envVars, srvVars>>

(* Supervisor.stop: the shutdown event is set, so each task ends at its    *)
(* next check; past the drain timeout the group is cancelled.              *)
Drained ==
  /\ step = "draining" /\ members = {} /\ step' = "saving"
  /\ group' = IF group = "open" THEN "ended" ELSE group
  /\ UNCHANGED <<held, stranded, left, boots, failing, exitCode, told, termed,
                 members, failClosed, beat, envVars, srvVars>>

(* A cancelled pump closes its child, unless it was already closing it     *)
(* when the cancellation came, which then cuts the close short.            *)
PumpCancelled ==
  /\ held' \in {held \ {"adapter"}, held}
  /\ stranded' = stranded \cup ({"adapter"} \cap held')

ForceCancel ==
  /\ step = "draining" /\ members # {} /\ step' = "saving"
  /\ members' = {} /\ beat' = "idle" /\ group' = "ended"
  /\ PumpCancelled
  /\ UNCHANGED <<left, boots, failing, exitCode, told, termed,
                 failClosed, envVars, srvVars>>

(* The breakers are saved and the stopped row written, or the save fails   *)
(* and stop() raises; the raise surfaces only if nothing else is unwinding.*)
SaveBreakers ==
  /\ step = "saving" /\ step' = Releases[1]
  /\ IF storeUp
     THEN /\ told' = Append(told, IF group = "failed" THEN "stopped_with_errors" ELSE "stopped")
          /\ UNCHANGED exitCode
     ELSE /\ exitCode' = IF failing THEN exitCode ELSE "error"
          /\ told' \in {told, Append(told, "persistence_failed")}
  /\ UNCHANGED <<held, stranded, left, boots, failing, termed, taskVars, envVars, srvVars>>

(* Each release is awaited in turn and an exception of one is suppressed,  *)
(* so that the next is reached; only the pidfile's, the last, escapes and  *)
(* becomes the exit.  The control server waits for its connections.        *)
ReleaseSteps == {Releases[i] : i \in DOMAIN Releases}
AfterRelease == IF step = Releases[Len(Releases)] THEN "off" ELSE NextOf(Releases, step)
Pending == ReleaseOf[step] \in held \ stranded
Freed == IF Pending THEN held \ {ReleaseOf[step]} ELSE held
Strands(what) == stranded' = stranded \cup (what \cap held')

(* Variant: a release that raises ends the finally there. *)
ReleaseUnisolated ==
  /\ step \in ReleaseSteps
  /\ (step = "close_control") => conns = {}
  /\ \E raises \in {FALSE, Pending} :
       /\ held' = IF raises THEN held ELSE Freed
       /\ Strands(IF raises THEN {ReleaseOf[step]} ELSE {})
       /\ step' = IF raises THEN "off" ELSE AfterRelease
       /\ exitCode' = IF raises THEN "error" ELSE exitCode
  /\ UNCHANGED <<left, boots, failing, told, termed, taskVars, envVars, srvVars>>

Release ==
  /\ step \in ReleaseSteps
  /\ (step = "close_control") => conns = {}
  /\ \E raises \in {FALSE, Pending} :
       /\ held' = IF raises THEN held ELSE Freed
       /\ Strands(IF raises THEN {ReleaseOf[step]} ELSE {})
       /\ exitCode' = IF raises /\ step = "delete_pidfile" THEN "error" ELSE exitCode
  /\ step' = AfterRelease
  /\ UNCHANGED <<left, boots, failing, told, termed, taskVars, envVars, srvVars>>

(* A SIGINT in the finally of a boot that never parked cancels the await   *)
(* it meets.  In stop() the releases still run; at a release it is no      *)
(* Exception, so it ends the finally: what this release and the later ones *)
(* hold stays, but the content store is closed behind the child.           *)
From(s) == {ReleaseOf[Releases[j]] : j \in {k \in DOMAIN Releases :
                \E i \in 1 .. k : Releases[i] = s}}
InterruptStop ==
  /\ step \in {"draining", "saving"} /\ ~termed /\ step' = Releases[1] /\ exitCode' = "error"
  /\ members' = {} /\ beat' = "idle"
  /\ group' = IF group = "open" THEN "ended" ELSE group
  /\ IF members = {} THEN UNCHANGED <<held, stranded>> ELSE PumpCancelled
  /\ UNCHANGED <<left, boots, failing, told, termed, failClosed, envVars, srvVars>>
InterruptRelease ==
  /\ step \in ReleaseSteps \ {"delete_pidfile"} /\ ~termed /\ Pending /\ ExitWith("error")
  /\ \E kept \in {held, Freed} :
       held' = IF step = "reap_child" THEN kept \ {"content_store"} ELSE kept
  /\ Strands(From(step))
  /\ conns' = {} /\ inFlight' = 0
  /\ UNCHANGED <<left, boots, failing, told, termed, taskVars, envVars>>

------------------------------------------------------------------------------
(* The supervisor's tasks.  shutdown_event is set by stop().               *)
Stopping == step = "draining"
GroupFails == /\ group' = "failed" /\ members' = {} /\ beat' = "idle"
              /\ held' = held \ {"adapter"}
taskless == <<step, stranded, left, boots, failing, exitCode, told, termed>>

(* run_one_heartbeat reads the gate's backing store ...                    *)
run_one_heartbeat ==
  /\ group = "open" /\ "heartbeat" \in members /\ beat = "idle" /\ ~Stopping
  /\ failClosed = storeUp
  /\ beat' = IF storeUp THEN "exiting" ELSE "entering"
  /\ UNCHANGED <<bootVars, group, members, failClosed, envVars, srvVars>>

(* ... and flips only after the transition row is written; the row that    *)
(* cannot be written raises out of the heartbeat into the TaskGroup.       *)
_emit_transition ==
  /\ beat # "idle"
  /\ IF storeUp THEN /\ failClosed' = (beat = "entering") /\ beat' = "idle"
                     /\ UNCHANGED <<held, group, members>>
                ELSE GroupFails /\ UNCHANGED failClosed
  /\ UNCHANGED <<taskless, envVars, srvVars>>

(* A loop sees the event between two rounds; the pump also ends with its   *)
(* peer, or raises out of its handshake.                                   *)
TaskEnds ==
  /\ group = "open"
  /\ \E m \in members : /\ Stopping \/ m = "pump"
                        /\ (m = "heartbeat") => beat = "idle"
                        /\ members' = members \ {m}
                        /\ held' = IF m = "pump" THEN held \ {"adapter"} ELSE held
  /\ UNCHANGED <<taskless, group, failClosed, beat, envVars, srvVars>>

_accept_and_pump ==
  /\ group = "open" /\ "pump" \in members /\ GroupFails
  /\ UNCHANGED <<taskless, failClosed, envVars, srvVars>>

------------------------------------------------------------------------------
(* Control connections: over the cap a connection is closed unread; every  *)
(* way a served one can end (answered, refused peer, over-long line, the   *)
(* exchange timeout) passes the finally that returns its slot.             *)
Listening == "control" \in held \ stranded

_on_connect ==
  /\ Listening /\ step # "close_control"
  /\ \E c \in Conns \ conns : /\ inFlight < MaxServe
                              /\ conns' = conns \cup {c} /\ inFlight' = inFlight + 1
  /\ UNCHANGED <<bootVars, taskVars, envVars>>

_serve_connection ==
  /\ \E c \in conns : conns' = conns \ {c} /\ inFlight' = inFlight - 1
  /\ UNCHANGED <<bootVars, taskVars, envVars>>

StoreLost ==
  /\ storeUp /\ outages < MaxOutages /\ storeUp' = FALSE /\ outages' = outages + 1
  /\ UNCHANGED <<bootVars, taskVars, srvVars>>
StoreBack ==
  /\ ~storeUp /\ storeUp' = TRUE
  /\ UNCHANGED <<bootVars, taskVars, srvVars, outages>>

Checking == \/ _load_settings_or_die \/ RefuseUnsandboxed \/ probe_launcher_policy_resolving
            \/ probe_snapshot_ref_init \/ probe_capability_gate_handshake
            \/ InstallBootInfra \/ RequireFirstPartyGrant \/ create_and_register_t3_nonce
            \/ _build_boot_outbound_dlp \/ RefuseMultiAdapter
Booting  == \/ start_daemon \/ Checking \/ _build_comms_boot_graph \/ GraphFails
            \/ ConstructSupervisor \/ write_pidfile \/ start
            \/ _listen_socket_comms_adapter \/ _spawn_comms_adapter \/ NoAdapter
            \/ StartControlServer \/ EmitCompleted \/ _invoke_boot_completed
            \/ _emit_ready \/ broadcast_ready \/ Interrupt
Finally  == _emit_going_down \/ Drained \/ ForceCancel \/ SaveBreakers \/ Release
Tasks    == run_one_heartbeat \/ _emit_transition \/ TaskEnds \/ _accept_and_pump
Control  == _on_connect \/ _serve_connection
DaemonNext == \/ Booting \/ Signal \/ InterruptStop \/ InterruptRelease \/ Killed
              \/ Finally \/ Tasks \/ Control \/ StoreLost \/ StoreBack

DaemonSpec == DaemonInit /\ [][DaemonNext]_dvars
(* The finally runs on the event loop and each of its waits is bounded by  *)
(* a timeout, as is a control exchange.                                    *)
FairDaemonSpec == DaemonSpec /\ WF_dvars(Finally) /\ WF_dvars(_serve_connection)

------------------------------------------------------------------------------
(* Every exit but a kill gives back the quarantine child, the adapter's    *)
(* child, the sockets and the pidfile, whatever failed on the way out: a   *)
(* release that raises strands only what it was releasing, a SIGINT in the *)
(* finally only what was still to come, a failed registration only what it *)
(* was to own.  And the control server's count of connections is right.    *)
ExitReleases ==
  /\ (step = "off" /\ exitCode # "killed") => held \cap Outliving \subseteq stranded
  /\ inFlight = Cardinality(conns)

(* Nothing is torn down under a daemon that announced itself until it has  *)
(* tried to announce its departure: once a shutdown signal was taken, a    *)
(* resource is released only after the going_down row, or after that row   *)
(* failed and became the exit code.                                        *)
DepartureFirst ==
  (termed /\ step # "off" /\ step # "going_down" /\ exitCode # "killed") =>
    \/ "going_down" \in {told[i] : i \in DOMAIN told}
    \/ exitCode = "audit"

(* The exit code never loses the first failure: once something is          *)
(* unwinding, a later failure of stop() cannot replace an audited refusal. *)
FailureNotMasked ==
  [][(failing /\ failing' /\ step' # "off" /\ ~InterruptStop) => exitCode' \in {exitCode, "audit"}]_dvars

(* A shutdown signal ends the process.                                     *)
SignalEnds == termed ~> step = "off"

(* A task group that failed is noticed: the daemon does not stay parked    *)
(* with none of its supervised tasks alive.                                *)
FailureSurfaces == (group = "failed") ~> (step # "waiting")

------------------------------------------------------------------------------
\* The invariants behind ExitReleases.

\* What a process may hold at a step of its boot and of its way out.
CheckSteps == {Checks[i] : i \in DOMAIN Checks}
TrySteps == {Trying[i] : i \in DOMAIN Trying}
EndSteps == {"waiting", "going_down", "draining", "saving"}
HeldAt(s) ==
  CASE s \in CheckSteps \cup {"off", "content_store"} -> {}
    [] s = "child" -> {"content_store"}
    [] s = "wiring" -> {"content_store", "child"}
    [] s = "close_store" -> {"content_store", "listener", "control", "pidfile"}
    [] s = "close_listener" -> {"listener", "control", "pidfile"}
    [] s = "close_control" -> {"control", "pidfile"}
    [] s = "delete_pidfile" -> {"pidfile"}
    [] OTHER -> (Outliving \ {"adapter"}) \cup {"content_store"}

\* The steps at which the task group is not open.
ShutSteps == CheckSteps \cup ReleaseSteps \cup {"off", "content_store", "child", "wiring",
               "supervisor", "pidfile", "start", "saving"}

HoldInv == held \ {"adapter"} \subseteq HeldAt(step) \cup stranded
PumpInv ==
  /\ group = "open" => step \notin ShutSteps
  /\ group # "open" => members = {}
  /\ "adapter" \in held => "pump" \in members \/ "adapter" \in stranded
SlotInv == IsFiniteSet(conns) /\ inFlight = Cardinality(conns)
==============================================================================
