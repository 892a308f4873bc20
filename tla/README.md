# AlfredOS: TLA+ models and proofs

AlfredOS is an always-on assistant daemon. A privileged **core** process runs the
turns; an always-up **gateway** process faces the chat platforms and the terminal
client, survives core restarts, and replays what the core has not yet made
durable. This directory models the stateful, concurrent parts of
`src/src/alfred`, checks them with TLC on small instances, and proves the
central invariants with TLAPS for every value of the constants. Paths below are
relative to `src/src/alfred` unless they start with `docs/`.

## 1. The system

| part | state | what is hard about it | module |
|---|---|---|---|
| gateway legs (`gateway/replay_buffer.py`, `gateway_leg.py`, `global_replay_cap.py`) | un-acked frames, send counter, byte budget | four callers share a buffer; a reservation must be rolled back when the append refuses | ReplayBuffer, GatewayLeg |
| core link (`gateway/core_link.py`, `leg_scheduler.py`, `relay.py`, `link_state.py`) | connection, epoch, replay gate, acks | a core that dies at any await; acks of an old epoch; frames drained while the link is rebuilt | LinkState, SeqTracker, GatewayResume |
| gateway process (`gateway/process.py`, `egress_proxy.py`, `adapter_child_factory.py`, `cli/gateway/*`) | four tasks of one group, client, children, legs | a start that is cut anywhere; a task that swallows its cancellation | GatewayFrontDoor |
| inbound pipeline (`comms_mcp/inbound.py`, `forwarded_inbound_receiver.py`, `plugins/inbound_disposition.py`) | ledger of ids, attempt counts, tracker | every await may fail; commit-first on one path and commit-last on the other | InboundPipeline |
| burst limiter (`orchestrator/burst_limiter.py`) | token buckets in a bounded LRU, one lock per key | callers sleep holding the lock; keys are evicted | BurstLimiter |
| privileged turn (`orchestrator/core.py`, `tool_dispatch.py`, `memory/*`, `egress/relay_client.py`) | episodes, working memory, replay journal, egress ledger | a turn is cut at any await and dispatched again; external calls must not repeat | TurnExecution |
| provider calls and budget (`providers/*`, `budget/guard.py`) | spend of the day, message list | check and charge are apart; a fallback; concurrent turns | ProviderCalls |
| web fetch (`plugins/web_fetch/*`, `egress/*`, `gateway/egress_relay.py`) | handle slots, rate windows, intents | a deadline races the relay's answer | WebFetch |
| content and tiers (`security/tiers.py`, `plugins/web_fetch/content_store.py`, `comms_mcp/sub_payload_promotion.py`) | tagged values, stored bodies | a tier must survive copies and serialisation; a scan races extraction and expiry | ContentTiers |
| secrets and DLP (`security/secrets.py`, `dlp.py`) | secrets, redactor cache, version | a redactor built from old secrets | SecretScans |
| quarantine (`security/quarantine*.py`, `security/quarantine_child/*`) | child, pipes, brokered sockets, staged bodies | replies carry no id; reads given up leave a thread on the pipe | Quarantine |
| comms plugin runner (`plugins/comms_runner.py`) | futures by request id, tracked tasks, reader | one reader serves tasks that wait for it | CommsRunner |
| plugin sessions, transports (`plugins/session.py`, `comms_socket_transport.py`, `stdio_transport.py`, `comms_stdio_transport.py`) | the accepted peer, handshake, failure window; pipes, stderr pump | one peer only; failures of concurrent tasks; a drain that outlives its child | PluginSession, AdapterWire |
| adapter supervisor (`gateway/adapter_supervisor.py`, `adapter_lifecycle.py`) | lifecycle state, breaker, children | stop, crash, core loss and cancellation in any order | AdapterSupervision |
| adapter credentials (`gateway/adapter_credential_client.py`, `comms_mcp/adapter_credential_resolver.py`) | pending requests, granted incarnations | the link drops between request and answer | SpawnCredentials |
| adapter status (`comms_mcp/adapter_status_observer.py`, `crash_incident_reconciler.py`) | snapshot, incidents | frames are handled by concurrent tasks | AdapterStatus |
| outbound queue (`comms_mcp/outbound_queue.py`) | queue, pauses, timers | overlapping pauses; messages scanned before a secret was known | OutboundQueue |
| daemon (`cli/daemon/*`, `supervisor/core.py`) | pidfile, sockets, task group, boot rows | a boot or a stop cut by a signal, a failure in the `finally` | DaemonLifecycle |
| breakers (`supervisor/breaker.py`, `plugin_lifecycle.py`) | breaker, its row | memory and row are changed apart | Breakers |
| hooks (`hooks/*`, `memory/episodic.py`) | registry, chains, rows | refusals, deadlines and re-entry inside a guarded write | HookDispatch |
| identity (`identity/*`, `cli/operator_session.py`) | users, bindings, sessions, cache version | commands in other processes; NOTIFY may be missed | Identity |
| policies (`policies/*`, `cli/config.py`) | file, snapshot, stat pair | the file changes between stat, read and swap; the command and the watcher know different keys | OperatorConfig |
| proposals of an operator (`cli/_state_git.py`, `cli/plugin.py`, `cli/web.py`, `cli/supervisor.py`) | branches of state.git, rows | a command killed between push and row | OperatorProposals |
| proposal dispatch (`state/dispatch_loop.py`) | sentinel head, ledger, audit rows | five stores without a common transaction; git takes a new blob for a renamed one | ProposalDispatch, ProposalSettlement |
| capability gate (`security/capability_gate/*`, `bootstrap/gate_factory.py`) | grant table, policy, fail-closed flag | table and policy are updated apart; outages | CapabilityGate |

The path of a message: an adapter child or the terminal client hands a frame to
its leg in the gateway; the leg scheduler drains it over the core link with a
sequence number; the core's pipeline admits it against the idempotency ledger and
the limiter, has its body extracted by the quarantined child, and dispatches the
privileged turn; the turn calls providers and tools under a budget; the tracker's
cumulative ack travels back and trims the leg. Adapter children live under the
gateway's supervisor, get their credential from the core, and their status frames
are folded into incidents. Beside this path the daemon watches its policies,
dispatches merged proposals from state.git and asks the capability gate before
every hook.

## 2. How the models are built

The processes are asyncio programs: an action is what the event loop runs between
two awaits, so the interleavings TLC explores are those the loop can produce. An
await that can raise has a failing twin; a step of the outside world (a core that
dies, an operator who restarts it, a plugin that closes its pipe, Postgres that
refuses) is an action of its own. Code that runs on other threads (reads of the
quarantine child's pipe, a stderr pump, a hook registered from a worker) has
actions of its own. What lives in Postgres, in state.git or in the gateway
survives a crash of the core; what lives in the core's memory does not. Payloads
are sizes or model values; wording, logging and hashes are left out. An exception
that leaves a component is recorded in the state, so that the properties can speak
of it. Time is what is left of it: ages, remaining times and counters, bounded by
named constants.

Definitions placed directly before an action with a similar name and marked
"Variant:" are plausible defects of that action; no specification uses them. They
are there so that each property can be seen to fail when the code is wrong in
that way.

An `MC` module fixes model values for TLC. Six of them hold several components
that share no state: `MCAdapters` (the runner, the supervisor, the status observer,
the credentials), `MCInboundPipeline` (the pipeline and four services of the message
path), `MCProposalDispatch` (the dispatch and three services around proposals),
`MCTurnExecution` (the turns, the hooks and the identity store), `MCServices` (the
capability gate, the daemon and the provider calls) and `MCBoundary` (the replay
retention and five machines at the edges). There a
variable `machine` is chosen initially and never changes. `MCTurnExecution` and
`MCServices` extend their components, and those that were not chosen stay in an
initial state; in the others the variables of the chosen component are the slots
`s1`, `s2`, ... through `INSTANCE ... WITH`, and each property speaks of its own
machine. The state space is the disjoint union of
those of the components; no interleaving between them is claimed. Where components
do interact, the interaction is inside a module: gateway and core in
GatewayResume, gateway, core and child in SpawnCredentials, core, relay and
upstream in WebFetch, host and child in Quarantine, the commands and the daemon in
Identity and OperatorConfig, the heartbeat, the control server and the supervisor
in DaemonLifecycle, supervisor and front door in GatewayFrontDoor.

## 3. Modules and the code they stand for

**ReplayBuffer, GatewayLeg** — what a leg retains. `ReplayBuffer.tla` has the
operations of `ReplayBuffer` as operators on a buffer record (frames with number,
size and time; number floor, clock floor, latching breaker, hard ceiling of twice
the soft cap). `GatewayLeg.tla` has one action per public method of the leg,
`RecordForSend`, `TrimLeg`, `EvictLeg`, `DiscardLeg`, `ResetLeg`, `TeardownLeg`,
each with the reserve, release and rollback on `GlobalReplayCap` it performs. A
refused call is recorded in `outcome`, which stands for the exception.

**LinkState, SeqTracker, GatewayResume** — the path of a frame from its source to
the core and its ack back. `Feed` is the transition table of
`LinkStateMachine.feed`; `Observe` and `Ack` are `BoundedSeqAckTracker`. In
`GatewayResume` the client pump of the relay, the scheduler's drain, the link task
(`dial`, handshake, capture, bind, flush, pump) and the eviction loop are four
processes of the gateway; the core's runner with its dispatch tasks is the fifth;
`CrashCore` and `BootCore` are the environment. State: the legs' buffers and
counters, the scheduler's queues, the gate `_replay_pending`, the replay in
progress, the wires of the connection, the ledger and the turns run.

**InboundPipeline** — one delivery is a task standing at one of the awaits of
`process_inbound_message`; `Gate` is the admission against the ledger, commit-first
for terminal messages and read-only for forwarded ones, `CommitAtDispatchEdge` the
commit and observe after the turn. The receiver of forwarded frames, the attempt
ceiling, every audit write and its failure, and the escalation of
`inbound_disposition` are included; limiter, resolver and scanner verdicts are
choices.

**TurnExecution** — `Observe`, `Orient`, `Persist` are the phases of
`Orchestrator.handle_user_message`; `PlanCalls`, `PlanAnswers`, `DispatchTool`,
`CommitIntent`, `Fire`, `RecordResponse` the tool loop down to the relay. The rows
and their gates (`turn_side_effects`), the journal, the egress ledger and the
working memory of one user are the state. `Abandon` is the timeout or
cancellation of a dispatch, `Crash` the loss of the process.

**CommsRunner** — the reader of `comms_runner.py` (`handshake`, `read`,
`capacity`, `drain`, `closed`), one task per notification, `send_request` with its
table of futures and timeouts, and the arms on which the pump ends.

**AdapterSupervision** — one process per adapter through `supervise_one`; the
lifecycle table of `adapter_lifecycle.py` as a function whose undefined entries
lead to `"undefined"`; the crash breaker, the backoff, the wait for the core, stop
and cancellation; `supervise_all`'s semaphore and task group. A task meets its
cancellation once, where it is suspended (`told`): in the handshake it becomes a failed
spawn and the loop goes on (`HandshakeCancelled`), anywhere else it ends the task
(`Cancelled`).

**AdapterStatus** — a frame is observed in two steps around the await of its audit
row; `fold` is the reconciler with its bounded table; `ChildCrash` is the in-child
notification.

**ProposalDispatch** — a cycle of `run_dispatch_cycle` step by step, with every
failure path the code distinguishes and a crash between any two steps; the one
registered handler clears a breaker that trips on its own. The walk asks git for the
blobs added between two heads with rename detection on: as many of them as blobs were
deleted may be taken for new names and left out (`Renames`). Which bodies are alike
enough is not in the model, so it is a choice.

**CapabilityGate** — the table `plugin_grants` with its sync hash, the boot that
seeds, reconciles and loads, the rebuild from a head of state.git (parse, apply in
one transaction, swap of the policy), the checks, and the heartbeat that closes
the gate after the missed pings. Nothing under `src/alfred` calls
`rebuild_from_state_git` today; its docstring says it runs at startup and after
every push, and the actions describe it as its tests drive it.

**ProposalSettlement** — what the dispatch of proposals owes a merged proposal,
without its stores: `Act` while undecided, `Decide` once, `Pass` what is decided
or excused. ProposalDispatch implements it (`SettlesOnce`).

The services of the core (runs `core_services`, `turn_memory`, `inbound_pipeline`,
`proposal_dispatch`):

**HookDispatch** — `register` with its tier check and the row it writes from
whatever thread it is called on (`_drive`, `Joined`, `Fallback`), a chain as a
sequence of subscribers that return, refuse, raise or re-enter, its deadline and
its cancellation, and the action the chains guard: `record`, `Validate`,
`EnterBody`, `_persist`, `Finish` are `EpisodicMemory.record`.

**DaemonLifecycle** — `Booting` walks `_start_async` in its order, every check with
its refusal; `Finally` is the release in the order of the code, where each release may
raise and an interrupt may cut `stop` (`InterruptStop`) or a release
(`InterruptRelease`) of a boot that never parked; `Tasks` is the supervisor's group
(heartbeat, dispatch loop, the pump with the stdio adapter's child), `Control` the
control server with its connections; `Signal`, `Killed`, `StoreLost`, `StoreBack` come
from outside. `held` is what the process has, `stranded` the part of it that no step
will release any more.

**Breakers** — one breaker (`CLOSED`, `OPEN`, `HALF_OPEN`) with its failure window
and re-arm time, the coroutines of the supervisor that trip, reset and restart
around it, and the row that `save_to_db` builds now and commits later.

**Identity** — each command is a process: a mutator reads in its transaction,
commits, notifies, audits; `resolve` is the daemon's cached lookup and
`_on_notify` the listener; login, logout and the lookup of the operator's session
work on a file and a table.

**OperatorConfig** — `_tick` compares the stat pair, `_load_and_parse` reads in a
thread, `Judge` rejects a file that does not validate or changes a field outside
`LOW_BLAST_ALLOWLIST`, and swaps the snapshot otherwise; `Command` is `config set`;
`Edit` and `Vanish` are the world. The knobs of the command are no fields of
`PoliciesV1`, which forbids others, so a file the command wrote never validates
(`parse_policies`). The allowlist is a constant of the module: it is empty in the code,
where nothing is hot-reloaded yet, and the run puts one of two fields on it, as the
watcher's tests do, so that the swap is reached.

**OperatorProposals** — a command goes through its steps (session, row, branch,
commit, push, row), fails or is killed at any of them; `Merge` is the reviewer,
`Report` the listing commands, `Dispatched` the answer of the loop.

**SecretScans** — `Construct` and `reload` of the broker, the redactor cached by
version, `scan_for_outbound` with its three stages, `ExtractScan` as a subscriber
of the extraction; `Rotate` changes file or environment. Whether a canary matcher is
wired is chosen initially (`matcher`).

**ContentTiers** — `Tagging` makes, copies, serialises and reads back tagged
values, with the nonce that T3 needs; `Storing` is the content store with the
canary scan and the promotion of an attachment. The slots of the handle cap are in
WebFetch: they are not kept under the handles of stored bodies.

**BurstLimiter** — `acquire`, the lock of the key, the sleep in `_backpressure`
while holding it, and the eviction of idle keys.

**ProviderCalls** — a turn estimates, checks, calls the primary, perhaps the
fallback, and charges; an answer may be paid and never come to the charge (`Paid`:
malformed arguments, a user removed meanwhile, a failure or a deadline after the
provider answered); `SetBudget`, `VersionBumped` and `Midnight` change the
entry meanwhile. `_anthropic_messages` and `OpenaiMessages` are the message lists
the two providers send.

**OutboundQueue** — producers, consumers and overlapping pauses with their timers;
a message that waited through a pause is scanned again before it leaves, where a
rescanner is wired (`rescanner`, chosen initially).

The edges (run `boundary`; SpawnCredentials in `adapters`):

**Quarantine** — spawn, key delivery and boot handshake of the child; an
extraction stages, passes its hooks, takes the lock, brokers sockets, writes two
frames and reads one; the child serves its stdin in order. A read given up by its caller
leaves its thread on the pipe, or is withdrawn when no thread had taken it
(`ReadGivenUp`); what is left takes the bytes it was sent for, and a reader that meets
the middle of a body takes four of its bytes for a length (`read_frame`).

**WebFetch** — `CoreStep` is the tool call through screening, allowlists, rate
windows, slot, intent and the exchange with the relay to its row; `RelayStep` is
the relay's connection; Redis scripts are atomic.

**PluginSession** — the listener's single accepted connection, the handshake and
its gate check, one task per notification with permits and the sliding failure
window, the quarantine of a plugin, and the request pipe of a stdio child.

**AdapterWire** — frames out with sequence numbers under a lock, frames in, the
stderr pump with its bounded lines, and a close that escalates and may be
cancelled, on the core's side and on the gateway's.

**GatewayFrontDoor** — `alfred gateway start`: planes, tunnels, the client's
attachment, the relay, the sweep and the adapter supervisor in one group, and the
teardown however it begins. Between its handshake and the wait on it a child is
`"entering"`; a task cancelled there ends as `"left"`, its child not reaped.

**SpawnCredentials** — `Spawning` is `acquire_and_deliver`; the core resolves,
refuses or repeats a grant per incarnation; `LinkDrops` and `LinkReturns` lose what
is on the wire.

## 4. Runs

| run | module, specification | bounds | checks |
|---|---|---|---|
| `gateway_resume` | MCGatewayResume, `FairSpec` | the terminal leg, 2 frames, soft cap 1 (ceiling 2), 3 boots of the core | `NoSilentLoss` `TurnAtMostOnce` `GateReopens` `LinkRestored` |
| `gateway_resume_legs` | MCGatewayResume, `Spec` | terminal and one adapter, 2 frames each, 2 boots | `NoStaleNumber` `SourceOrder` |
| `inbound_pipeline` | MCInboundPipeline, `AllSpec` | pipeline: a forwarded and a terminal message, 3 deliveries, 2 tasks at once, ceiling 2, 2 boots; services below | `AckedIsAccounted` `AttemptsBounded` `RateHolds` `T3StaysT3` `CurrentSecretsStay` `WaitedIsRescanned` |
| `turn_memory` | MCTurnExecution, `AllSpec` | turns: 3 messages, each dispatched up to twice, memory of 3 turns, recall of 2; hooks and identity below | `MemoryFollowsRows` `PromptEndsOnMessage` `WriteIsCleared` `StaleOnlyWhileUntold` |
| `turn_egress` | MCTurnExecution, `AllSpec` | the turns alone: 1 message dispatched up to 3 times, 3 iterations of up to 2 calls; a repeatable, an unrepeatable and an internal tool | `FiresOnce` `LedgerFollowsJournal` |
| `adapters` | MCAdapters, `Spec` | runner: 2 notifications, 1 outside caller, 1 task at once; supervisor: 2 adapters, 1 boot at once, breaker at 2, 2 restarts; status: 2 incarnations after the first, a table of 2, 4 frames; credentials below | `ClosedIsQuiet` `FramesTellOneStory` `StopLeavesNoChild` `OneIncidentPerIncarnation` `DeliveredIsAudited` `ShutdownCloses` `StopEnds` |
| `proposal_dispatch` | MCProposalDispatch, `AllSpec` | dispatch: 2 resets (one present before the first cycle), a malformed and an unknown proposal, 4 heads, 2 trips, 2 faults; services below | `SettlesOnce` (refinement of ProposalSettlement) `MergedIsSettled` `ApprovedStays` `CachedMeansApplied` `ResetNotUndone` |
| `core_services` | MCServices, `AllSpec` | below | `RevokedStaysRevoked` `OutageDenies` `ExitReleases` `SpendBounded` |
| `boundary` | MCBoundary, `AllSpec` | below | `BudgetExact` `SocketsArePending` `TimeoutIsHonest` `LoneTransport` `NothingLeftBehind` `WholeLinesAreLines` |
| `gate_never_reopens` | MCCapabilityGate, `FairSpec` | 1 head, 2 faults, 2 missed pings, the sink the daemon passes | `GateReopens` is violated (section 6) |
| `stop_blocked` | GatewayFrontDoor, `FairSpec` | 1 adapter, 2 restarts, no tunnel | `StopNotBlocked` is violated (section 6) |
| `rename_skipped` | ProposalDispatch, `Spec` | 2 resets, one of them present before the first cycle, 4 heads | `SentinelCovers` is violated (section 6) |

| property (module) | bounds | what it says |
|---|---|---|
| `RevokedStaysRevoked` `OutageDenies` (CapabilityGate) | an operator grant with an adapter's identity and one without, 4 heads, 3 faults, 3 missed pings | a rebuild that returned left no operator grant outside its head in force; after the missed pings every check denies, whatever became of the row and of the heartbeat |
| `WriteIsCleared` (HookDispatch) | 8 subscribers of three tiers, 2 registered, one hookpoint drifted | nothing is flushed past a subscriber of the fail-closed stage that raised, timed out or lawfully refused; contexts are built by subscribers that succeeded, trusted tiers first |
| `ExitReleases` (DaemonLifecycle) | 2 boots, 1 outage, 2 control connections | what an exit other than a kill leaves of the children, the sockets and the pidfile is what its own release failed to give back, what an interrupt of the `finally` cut off, or what a failed registration left without an owner; the control server's slots are those of its connections |
| `ResetNotUndone` (Breakers) | 2 callers, threshold 2, 3 clock readings, 2 trips | a committed reset is not overwritten by an older copy of the breaker |
| `StaleOnlyWhileUntold` (Identity) | 2 users, 1 platform id, 2 commands at once, 3 in all, 2 tokens | a cached answer differs from the table only while the change's notice is under way or was missed |
| `CachedMeansApplied` (OperatorConfig) | 2 fields, one on the allowlist, 1 knob, an editor and 1 command, 3 writes, 2 failures | while the stat pair the watcher remembers is the file's, the file validates and the active snapshot is what it says |
| `ApprovedStays` (OperatorProposals) | 2 proposals, 1 shell, killed anywhere | a merged grant or reset stays on main, whatever tree a later branch was cut from |
| `CurrentSecretsStay` (SecretScans) | 2 names, 2 values, file preferred for one, 2 reloads | no text leaves with a value the broker would hand out at that moment, with the shape of a key or, where a matcher is wired, with a canary |
| `T3StaysT3` (ContentTiers) | all four tiers, TTL of a body 2 | content that came in as T3 is T3 in every copy and after every round trip, and there is none before the nonce |
| `RateHolds` (BurstLimiter) | 2 keys, 2 callers, capacity 1, 1 tracked key, 4 ticks | a key gets at most a full bucket and the refill of the time since it was last forgotten while idle |
| `SpendBounded` (ProviderCalls) | 2 turns, costs 0 to 2, cap per call 1, caps of a day 2 and 3, 1 answer paid and not charged | a day's bill, with the answers that never came to the charge, is at most the highest cap plus one call for every other concurrent turn, plus one call of every turn for each change of the cap, plus one call for each such answer |
| `WaitedIsRescanned` (OutboundQueue) | 2 messages, 2 consumers, 3 pauses of 1 or 2 | where a rescanner is wired, a message that was queued when a pause ended is scanned again before it leaves |
| `BudgetExact` (GatewayLeg) | 2 legs, soft cap 1 frame or 2 bytes, budget 3, sizes 1 and 2, 3 numbers per epoch, 1 epoch change | what the cap holds for a leg is what its buffer counts and what its frames weigh |
| `SocketsArePending` (Quarantine) | 3 extractions, 1 retry, 2 sockets | a socket in the child's queue is of the extraction being brokered or of a request the child has yet to answer, whatever reads were given up, preambles failed half way or replies came late |
| `TimeoutIsHonest` (WebFetch) | 2 fetches of 2 pages, 2 attempts, cap 1, windows of 2 | a timeout whose row says it is not in doubt kept its answer or never reaches the upstream, not even later |
| `LoneTransport` (PluginSession) | 3 peers, one of another user, 3 notifications, 2 permits, 2 calls | no connection but the accepted peer's stays open |
| `NothingLeftBehind` (GatewayFrontDoor) | 2 adapters, 2 boots at once, 1 restart, 1 tunnel | an ended gateway leaves no socket, leg, tunnel or task, and no child but one whose task was cancelled while it sent the up frame (section 6, `NoLeakedChild`) |
| `DeliveredIsAudited` (SpawnCredentials) | 2 spawns, 2 incarnations, 1 of them known, 1 remembered | a credential reaches a child only when the core recorded this grant, replayed answers and reconnects included |
| `WholeLinesAreLines` (AdapterWire) | 4 bytes, pipe of 2, lines cut at 1 | a line logged as whole is a line the child wrote, in its order, and at the end none within the limit is missing |

Why the bounds are enough for the cases that matter. *Retention*: a ceiling of two
frames and a budget of three bytes make every refusal, the rollback of a
reservation, expiry and a leg used again after its teardown occur. *Resume*: with
three boots a replay is itself cut by a crash and replayed again; two frames are
the least for which order, a hole below an ack and the hard ceiling matter; the
second leg needs only one restart to show what restarts do to it, and
`NoSilentLoss` is checked with the terminal alone because it does not hold with a
second leg (section 6). *Pipeline*: two tasks at once and three deliveries let a
duplicate race its original and reach the ceiling from both. *Turns*: three
messages overflow the memory's window, two dispatches of each give every replay
against every other message; three iterations give a resume in the middle, at the
start and at the last iteration. *Runner*: with one task allowed at once the
second notification meets the capacity wait. *Supervision*: one boot at once makes
the second adapter queue, a breaker at two opens within two restarts. *Status*:
three incarnations overflow a table of two. *Dispatch*: one proposal of every
class, and two faults, so that a failed cycle fails again; four heads let a revert and a
merge fall into one window, which is what a rename needs. *Gate*: three faults
admit outage, rolled-back apply, crash and second boot in one history.
*Quarantine*: two reads given up in a row need a third extraction to meet what they
left. *Plugin*: three peers let one be refused and one come after the accepted one.
*Web*: a cap of one makes the second fetch wait for a slot that expires. In the
other services two actors are the least that race, and windows, TTLs, capacities
and retry counts lie within what clocks and counters reach, so that each limit is
met and passed.

Symmetry: `boundary` permutes the legs and the fetches, which no definition tells
apart; it checks invariants only.

`CHECK_DEADLOCK FALSE` is set where a model ends by itself: sources, boots,
deliveries, attempts, faults, heads, commands, clocks and fetches are bounded by
guards, a runner closes, a supervised task ends, a daemon exits. In GatewayFrontDoor
the ended gateway has a step of its own (`Ended`), so that `stop_blocked` would
report a deadlock and the module by itself has none.

Fairness. `FairSpec` of GatewayResume has weak fairness for each task of the
gateway and of the core and for `BootCore`: the loop runs a task that can run, a
dead core is restarted by its service manager, and the last boot stays up (crashes
are bounded). In `adapters` the runner's reader and every task of it are weakly
fair, since their timers fire; the plugin is not, it may never answer; so is each
supervised task. `AllSpec` of MCProposalDispatch has it for the step of a cycle
of the dispatch (as `FairSpec` of ProposalDispatch), with finitely many failures;
merges, reverts and trips are not fair. `FairSpec` of CapabilityGate has it for the heartbeat and for the return of Postgres. `FairSpec`
of GatewayFrontDoor has it for the gateway's own steps, for a cancelled supervisor,
for a relay that sees the shutdown, and for a child's handshake, which its timeout
ends. No strong fairness is assumed.

## 5. Proofs

All theorems hold for every value of the constants that satisfies the named
assumptions, which TLC evaluates in the runs: `CapsPositive`, `LegAssumption`,
`CapsAssumption`, `GapAssumption`, `ResumeAssumption`, `PipelineAssumption`,
`TurnAssumption`, `DispatchAssumption`, `GateAssumption`, and for the services
`QueueAssumption`, `SecretsAssumption`, `ConfigAssumption`, `BreakerAssumption`,
`HookAssumption`, `IdentityAssumption`, `ProviderAssumption`:
bounds and prices are natural numbers, sets of different kinds are disjoint, the
terminal is a leg, a function subscribes once and at a known hookpoint and tier, there
is at least one and a finite number of turns. Theorems about the turns, the gate, the
hooks, identity, the daemon and the provider calls are stated for the component's own
specification (`Spec`, `HookSpec`, `IdentitySpec`, `DaemonSpec`, `ProviderSpec`);
those about a component that an `MC` module instantiates with slots are stated for that
module (`machine = "..." =>`), which is the form the run checks.

| theorem | states | inductive invariant and why it is needed |
|---|---|---|
| `RetentionOrdered`, `NumbersNeverRefused` (GatewayLegProofs) | `[]BufferOrdered`, `[]NumbersAccepted` | `IInv`: every buffer is *sound* below the leg's next number and at the clock. The order alone does not survive an append; the number about to be minted must lie above the floor and the clock at or after the last append |
| `BudgetIsExact`, `EachLegWithinCap` (GatewayLegProofs) | `[]BudgetExact`, `[]LegWithinCap` | `BookInv`: the entry of a leg in its cap is the byte count of its buffer and the weight of its frames. The weight is a recursive sum; `RunningTotals`, `BytesAppend` and `BytesSplit` show what the sum is for a sequence with one frame more and without a prefix, by a least counterexample instead of induction over data |
| `TurnsAtMostOnce`, `ForwardedCommitsRan` (GatewayResumeProofs) | `[]TurnAtMostOnce`, `[]ForwardedCommitRan` | `TurnInv`: a terminal task past the gate holds a committed frame that has not run, and no two tasks hold the same one; a forwarded task at its commit has run. Nothing about wires, numbers or replays is needed: the ledger alone makes the turns single |
| `NumbersNeverStale`, `FramesInSourceOrder` (GatewayResumeProofs) | `[]NoStaleNumber`, `[]SourceOrder`, for any number of legs | `LinkInv` (where the link task holds a transport and when the gate is shut), `LineInv` (of each leg: retained, in replay and queued frames are in line, in source order, under rising numbers below the counter), `WireInv` and `HandInv` (what travels, and what a suspended drain holds, was minted under its number in this generation). The order on the wire is inductive only with the order of all that may still be sent |
| `NothingLostSilently` (GatewayResumeProofs) | `[]NoSilentLoss`, assuming `Legs = {Tui}` | with the above, `AckInv`: what the tracker counts, and what an ack on the wire covers, is committed; `AccountInv`: a produced frame is committed, dropped with a log line, queued, retained or in replay. It does not hold with a second leg (section 6) |
| `AckedAccounted`, `CommitsMeanRan` (InboundPipelineProofs) | `[]AckedIsAccounted`, `[]CommitMeansRan` | `AckInv`: numbers are fresh per delivery, a task's number and message were carried together, and a task that is about to drain holds an accounted message. `ObserveAddsOne`: the tracker counts the number it is given and no other, across its compaction. `RunInv` is the ledger argument again, with failures at every await |
| `AttemptsStop` (InboundPipelineProofs) | `[]AttemptsBounded` | `AttemptInv`: the attempts counted and the tasks that have read the count and not yet written stay below ceiling and in-flight bound together; the turns begun and the tasks counted and not yet run are at most the attempts |
| `CallsFireOnce`, `LedgerAgreesWithJournal`, `ResumedTurnsHaveRoom` (TurnExecutionProofs) | `[]FiresOnce`, `[]LedgerFollowsJournal`, `[]ResumeHasRoom` | `EgressInv`: the calls a turn still has to dispatch are journalled under their indexes, a turn about to fire has opened the row and not fired, an open row has the journal's call. A resumed turn rebuilds its list from the journal, so the invariant must speak of lists, journal and ledger together |
| `RowsWrittenOnce` (TurnExecutionProofs) | `[]RowsOnce` | `RowInv`: a turn past its first phase has its user row |
| `MemoryIsDurable` (TurnExecutionProofs) | `[]MemoryFollowsRows` | `FollowInv`: the memory is an order-preserving image of a part of the rows. A lemma for each thing done to the memory: appended with its row, trimmed to its newest turns, recalled from the rows |
| `PromptsEndOnMessage` (TurnExecutionProofs) | `[]PromptEndsOnMessage` | `PromptInv`: one turn at most is between its append and its read of the memory, and the memory's last entry is its message |
| `SentinelSkipsOnlyRenames`, `ReplayIsStopped` (ProposalDispatchProofs) | `[]OnlyRenamesSkipped`, `LedgerStopsReplay` (an action property) | `IInv`: within a cycle everything of the target's tree is still in the batch, done or was taken for a rename by a walk (`WalkStep`), and a blob past the lookup has no row. Without the renames it does not hold (`rename_skipped`, section 6) |
| `DispatchSettles` (ProposalDispatchProofs) | `SettlesOnce`: ProposalDispatch implements ProposalSettlement, with `decision <- ledger`, `acted <- cleared`, `passed <- Tree(sentinel)` (empty before the first), `excused <- before \cup refused \cup renamed` | the same `IInv` with `NoneBefore` (until the sentinel is set nothing is excused as older). `PassedKept`: merges and reverts only append to main, so the tree a sentinel names does not change under it; `SettlementStep`: a ledger row is `Decide`, a reset in memory `Act`, a move of the sentinel `Pass` (by the covering conjunct of `IInv`), a refused scan and a rename of the walk excuses, and every other step, failures and crashes included, a stutter |
| `Revocation`, `Restart` (ServicesProofs) | `[]RevokedStaysRevoked`, `[]RestartResurrectsNothing`, assuming `~CommitAckLost` | `IInv`: the operator rows of the table are grants of the head the sync hash names, and outside the swap the policy holds the table and no further operator grant |
| `Outages` (ServicesProofs) | `[]OutageDenies`, also with `CommitAckLost` | `BeatInv`: the flag is set by the step that counts the last missed ping, before the row that may end the heartbeat is written |
| `ExitHoldsNothing` (ServicesProofs) | `[]ExitReleases`, for `DaemonSpec` | `HoldInv`: what the daemon may still hold at each point of its boot and of its `finally` (`HeldAt`) unless it is stranded; `PumpInv`: the adapter's child has its pump while the group is open, or is stranded; `SlotInv`: the control server's count is that of its open connections. What an exit holds follows only from what every step before it released, failing and interrupted releases included |
| `SpendBound` (ServicesProofs) | `[]SpendBounded`, for `ProviderSpec` | `SpendInv`: while a call still fits under the cap, what was billed and not recorded was lost by changes of the cap; once none fits, the calls still out are the last (`Balance`, with `Applied` the changes the guard's entry may have taken over); `LostInv`: what never came to the charge is within the price of so many calls. The bound alone is not inductive: a turn past its check has a call to bill that no counter shows yet |
| `WritesCleared` (TurnServicesProofs) | `[]WriteIsCleared`, for `HookSpec` | `HookInv`: buckets are sorted by tier (`RegInv`), the context under way was built by subscribers that did not fault (`FlowInv`), and the subscribers a chain has still to call come after those it has called and have not faulted (`ChainInv`). `Place` and `Inserted`: an insertion keeps a bucket sorted |
| `CacheStaleness` (TurnServicesProofs) | `[]StaleOnlyWhileUntold`, for `IdentitySpec` | `CacheInv`: the same of every entry of the current version, whatever its age |
| `SessionFiles` (TurnServicesProofs) | `[]SessionFileIsBacked`, for `IdentitySpec` | `FileInv`: a login that has still to insert its row is alone with its token, and one that has still to write the file has its row |
| `StopsReapChildren`, `FramesConsistent` (AdaptersProofs) | `[]StopLeavesNoChild`, `[]FramesTellOneStory` | `ChildInv`: at each point of `supervise_one` whether a child is alive. `StoryInv`: the frames so far, with the state, the incarnation and the event about to be fed, tell a story the lifecycle table takes; the state alone does not say which frames are out |
| `CrashesCountedOnce` (AdaptersProofs) | `[]OneIncidentPerIncarnation` | `IncidentInv`: ids are fresh, the table's entries are among what was counted, and an incarnation that fell out of the table does not come back |
| `DeliveriesAudited`, `PipesClosedOnce` (AdaptersProofs) | `[]DeliveredIsAudited`, `[]EndsClean` | `CredentialInv`: the row of a grant precedes its answer wherever the answer is (`RowFirst`: with the core, on the wire, in the gateway's future, with the child), and the write end is open exactly while the spawn is under way (`PipeHeld`). What the child holds says nothing about the wire; the row must be carried along the whole path |
| `WaitersRescanned`, `PausesRunOut` (InboundPipelineProofs) | `[]WaitedIsRescanned`; no step reopens the gate early (`OpensInTime`, an action property) | `QueueInv`: a message is queued once, under a generation that has begun, and one that waited through the end of a pause carries an older generation than the gate's. `GateInv`: while the gate is shut by a timer, one timer runs and it is the one of the latest deadline |
| `TaggedStaysTagged` (InboundPipelineProofs) | `[]T3StaysT3` | `TagInv`: the tier of the value and of its serialised form is that of its origin |
| `SecretsStayIn` (InboundPipelineProofs) | `CurrentSecretsStay` (an action property) | `RedactorInv`: a redactor of the broker's current version matches every current value. A stale redactor is allowed; what is needed is that the scan compares the version first |
| `ApprovalsStay`, `BranchesRecorded` (ProposalDispatchProofs) | `[]ApprovedStays`, `[]BranchIsRecorded` | `BranchInv`: at each point of a command which rows it has behind it, two commands at a branch have different ids, and every branch is stored under the path of its kind and id. So two proposals never share a path, and a merge displaces none |
| `FilesApplied`, `HighKeysHeld` (ProposalDispatchProofs) | `[]CachedMeansApplied`; no step changes a field that is not on the allowlist, whatever it holds (`HighHeld`, an action property) | `ConfigInv`: stat pairs only rise and a pair names one text, so a text that was read is the file's or the file has a later pair |
| `ResetsStand` (ProposalDispatchProofs) | `[]ResetNotUndone` | `ResetInv`: memory, every copy waiting to be saved and the row are later than the reset (`Later`: the count is at least the reset's, and above it when OPEN). `DrivenOpen` carries it through the failures that drive a breaker open, by `Counting` on the recursive count |

The inductive invariants contain the types of what they speak of. The properties of
the theorems that no run lists (`BufferOrdered`, `NumbersAccepted`, `LegWithinCap`,
`ForwardedCommitRan`, `CommitMeansRan`, `ResumeHasRoom`, `RowsOnce`,
`OnlyRenamesSkipped`, `LedgerStopsReplay`, `RestartResurrectsNothing`, `EndsClean`,
`OpensInTime`, `BranchIsRecorded`, `HighHeld`, `SessionFileIsBacked`)
and the inductive invariants were checked by TLC under the constants of their module's run before they
were proved.

Only model-checked: every liveness property (`GateReopens`, `LinkRestored`,
`ShutdownCloses`, `StopEnds`, `MergedIsSettled`), which the prover does not reach;
`RateHolds` (its bucket and its list of keys go through `SelectSeq`, about which the
prover has no facts), `ClosedIsQuiet` (the runner's reader, its tasks and their requests
at every arm of the pump), and the five machines of `boundary` beside the legs
(`SocketsArePending`, `TimeoutIsHonest`,
`LoneTransport`, `NothingLeftBehind`, `WholeLinesAreLines`), whose invariants would have
to describe every pair of program points of two or three processes.

Sums and counts over a sequence are written as recursive functions and reasoned about
by a least counterexample (`LeastNatural`, `LeastNumber`), since the theorems on
induction over data take an operator the provers cannot instantiate. Modules that have
a proof avoid `SelectSeq` and the folds on the paths a proof follows.

Further properties are stated in the modules and hold under the constants of the
run of their module, although no run lists them: `AdapterGrantsMirrorConfig`
(CapabilityGate), `RepliesMatch` (CommsRunner), `GatewayCrashNotMasked`
(AdapterStatus), `NoSilentFault` (HookDispatch), `DepartureFirst`,
`FailureNotMasked` and, with `FairDaemonSpec`, `SignalEnds` (DaemonLifecycle),
`WireAnswersEveryCall` (ProviderCalls),
`SpawnLeavesNothing`, `NothingStaysStaged` (Quarantine),
`HoldersWithinCap`, `CoveredByAllLists`, `AnswerHasItsRow` (WebFetch),
`RepeatedFailuresTrip` (PluginSession), `DyingWordsKept`, `NumbersConsecutive`
(AdapterWire), `FailureIsNamed` (GatewayFrontDoor), and the type invariants.

## 6. Where code and documentation disagree

Three have a run.

`gate_never_reopens` (`cli/daemon/_gate_boot.py:143`): the daemon passes the gate a
plain async function as its audit sink; the emitter calls `append_schema` on it
(`_gate.py:613`), the exception ends the heartbeat task right after the gate was
closed, and the gate denies until the process restarts although Postgres is back.
The loop's docstring (`_gate.py:534-540`) says it re-opens the gate and "only exits
on asyncio.CancelledError". The emitter's docstring (`_gate.py:606-610`) accepts
that a raising sink ends the loop; what the run adds is that the wired sink can
never accept a row. With `SinkAccepts = TRUE` the property holds.

`stop_blocked` (`gateway/adapter_child_factory.py:507`): the handshake of a
restarted child is wrapped in `except BaseException`, so the cancellation of the
shutdown that meets it comes out as a spawn error; the supervisor counts a crash,
spawns again and waits for a credential of the ended link, and the gather of the
process waits for it. `gateway/process.py:627-628` says the supervisor is
"cancelled/reaped on shutdown (correction #5) so a future non-empty set cannot
block the stop".

`rename_skipped` (`state/dispatch_loop.py:289`): the walk lists a window's blobs with
`git diff --diff-filter=A` and leaves git's rename detection on, so a blob that was
added in a window in which a similar one was deleted is a rename and not listed. The
bodies of two resets of one component are that similar. The sentinel is then bumped
past a proposal with neither a ledger row nor a refusal, and no later cycle sees it.
The walk's docstring (`dispatch_loop.py:247`) says it "surfaces any path matching
``policies/<type>/<id>.json``", the cycle's comment (`:486-487`) that it does "not bump
the sentinel past unprocessed blobs". `OnlyRenamesSkipped`, which is proved, says that
this is the only way past.

The others were found the same way. Their properties are stated in the modules,
under the name in the table, and are in no run; TLC reports each violated under
the constants given, the rest being those of the module's run.

| property (module) | constants | the code | the statement |
|---|---|---|---|
| `AggregateWithinCap` (GatewayLeg) | 3 legs, MaxFrames 2, MaxTotalBytes 8, Sizes {2}, MaxNow 1, MaxGeneration 0 | each leg gets a `GlobalReplayCap` of its own (`gateway/process.py:134`) | `global_replay_cap.py:5-7` "bounds the SUM of every leg's resident un-acked bytes" |
| `NoSilentLoss` (GatewayResume) | 2 legs, MaxFrames 2, FramesPerLeg 1, QueueCap 1, MaxBoots 2, `Spec` | one tracker serves both legs of the connection and its ack is applied to the terminal's leg (`cli/daemon/_comms_boot.py:1482`, `core_link.py:1107`) | `inbound.py:688` "highest CONTIGUOUS seq the core has DURABLY accepted" |
| `HealthyLinkDelivers` (GatewayResume) | MaxFrames 2, MaxBoots 2, `Spec` | a frame drained between reset and bind of the transport is numbered and not written (`core_link.py:928`, `:1004`) | ADR-0032:173 "drains on a healthy link instead of stalling" |
| `DurableIsCounted` (GatewayResume) | MaxFrames 2, MaxBoots 2, `Spec` | a replay of a committed terminal frame is not observed (`inbound.py:673`) | ADR-0032:22 "Cumulative ack = the highest CONTIGUOUS seq durably intaken" |
| `ForwardedEventuallySettled` (GatewayResume) | 2 legs, MaxFrames 2, FramesPerLeg 1, QueueCap 1, MaxBoots 2, `FairSpec` | the handshake captures only the terminal's leg (`core_link.py:1001`) | `docs/subsystems/comms.md:841-843` "the leg replays it on reconnect → re-dispatch" |
| `RefusalDrains` (InboundPipeline) | Direct {}, MaxDeliveries 2, MaxBoots 1 | the cheap validation returns before any drain (`inbound.py:593`) | `inbound.py:293-296` "refuses identically on every replay; if it never observed the seq, the leg's contiguous high-water would wedge" |
| `AcksReadAtCap` (CommsRunner) | Others {}, MaxInFlight 2, WireLimit 2, `Spec` | the reader itself waits for capacity (`comms_runner.py:670`); requests end by their timeout | `comms_runner.py:665-667` "an in-flight dispatch's outbound ack is still read+resolved while we wait here" |
| `DrainNeverHangs` (CommsRunner) | as above | the shutdown arm drains tasks without failing their requests (`comms_runner.py:577`); they end by their timeout | `comms_runner.py:460` "fast instead of hanging the drain", `:888-890` |
| `MalformedRestarts` (CommsRunner) | as above | the reason `malformed_frame` is not one the supervisor takes (`comms_runner.py:602`, `supervisor/core.py:969`) | `comms_runner.py:593` "loud + restart request" |
| `SiblingsSurvive` (AdapterSupervision) | MaxBoots 2, MaxRestarts 2, `Spec` | a task group cancels the siblings of a failed first spawn (`adapter_supervisor.py:373`) | `adapter_supervisor.py:361-362` "does NOT stop the siblings" |
| `OnlyBootsAreBounded` (AdapterSupervision) | MaxRestarts 2, `Spec` | the semaphore is held for the whole supervision (`adapter_supervisor.py:370`) | `:361` "caps concurrent boots" |
| `NoLeakedChild` (AdapterSupervision) | MaxBoots 2, MaxRestarts 2, `Spec` | a cancellation at the await of the up frame reaps nothing (`:421`, `:549`) | `:606-609` "MUST terminate-and-reap the LIVE child before re-raising" |
| `SnapshotIsLatest` (AdapterStatus) | MaxSeq 1, MaxFrames 3 | the snapshot is written after the await of the append (`adapter_status_observer.py:300`) | `:8-9` "records the latest per-adapter status" |
| `DispatchLeavesLedgerRow` (ProposalDispatch) | Unknown {}, `Spec` | a refused scan returns without a row and the cycle goes on (`dispatch_loop.py:1011`) | `dispatch_loop.py:598-600`, ADR-0021:231 "every dispatch leaves an audit row + a ledger row" |
| `DispatchLeavesAuditRow` (ProposalDispatch) | as above | a failed append after the ledger commit is never retried (`dispatch_loop.py:621`) | `dispatch_loop.py:465-466` "the audit-emit retry is harmless" |
| `ReplayClearsNothingNew` (ProposalDispatch) | as above | a repeated reset closes a trip that happened in between (`dispatch_loop.py:733`) | ADR-0021:191 "idempotent → no observable change" |
| `OperatorGrantsKept` (CapabilityGate) | MaxHeads 2, MaxFaults 2, MaxMissed 2 | the seed's upsert takes over an operator row of the same identity (`backend.py:424`) | `_bootstrap_grants.py:41-42` "operator grants are never touched" |
| `FirstPartyStays` (CapabilityGate) | as above | a rebuild revokes what the head lacks, seeded grants included (`_gate.py:428`) | `backend.py:235-237` "never removed" |
| `RevokedStaysRevoked` (CapabilityGate) | CommitAckLost TRUE, MaxHeads 3, MaxFaults 3, MaxMissed 2 | a commit whose answer is lost is reported as rolled back, and the stored hash skips the next rebuild (`_gate.py:287`) | `_gate.py:396-406` "on rollback the previous policy stays authoritative until a future rebuild succeeds" |
| `RefusalStopsAction` (HookDispatch) | turn_memory | at a fail-open hookpoint the deadline may cancel the writing of a refusal's row, and the action goes on (`hooks/invoke.py`, `_run_pre`) | `hooks/invoke.py:1604-1606` "re-raise so the caller's action body is short-circuited" |
| `InvalidReachesErrorChain` (HookDispatch) | turn_memory | `_validate` is called before the body that has the error arm (`memory/episodic.py`, `record`) | `memory/episodic.py:356-358` "raise → Flow.body's exception arm → write_failed error chain" |
| `FailureSurfaces` (DaemonLifecycle) | core_services, `FairDaemonSpec` | a group that failed is awaited only by `stop`; the daemon stays parked in `wait_for_shutdown` | `supervisor/core.py:371-373` "a crashing heartbeat surfaces ... rather than dying silently" |
| `TripCountNeverDrops` (Breakers) | proposal_dispatch | `load_all_breakers` has no caller, so a new process saves a fresh count over the old row (`supervisor/core.py:798`) | `supervisor/breaker.py:259-262` "a cumulative audit counter that must survive operator intervention" |
| `OneOperator` (Identity) | turn_memory | two commands check for an operator in their own transactions and both commit | `identity/resolver.py:17` "only one operator may exist concurrently" |
| `SocketServesItsExtraction` (Quarantine) | boundary | after two reads in a row were given up, the child's sweep after one request takes the next one's sockets | `security/quarantine_transport.py:447-450` "the child's post-read drain is race-free" |
| `AnswersNotCrossed` (Quarantine) | boundary | a read withdrawn before a thread took it leaves its reply to the next extraction, which has the lock (`security/quarantine_child_io.py:510`) | `security/quarantine_transport.py:372-381`: the lock is there so that replies do not cross |
| `SiblingsGoOn` (GatewayFrontDoor) | boundary | a refused first spawn fails the task group and cancels the siblings | `gateway/adapter_supervisor.py:361-362` "does NOT stop the siblings" |

## 7. What is not modelled

Within the modelled components: the core-to-client direction of the link and the
contents of its status frames; the binding-request and rate-limit handlers of the
pipeline; the text of prompts and answers, and turns without a forwarded context;
the gated mode of the runner; launcher and sandbox of a child; the splice of bytes
in a tunnel and the parsing of requests; the patterns of the scanners and the
derivation of keys; schemas and payloads; machine-id providers; the thread ledger;
the lock map of the working-memory pool; the status and stop commands of the daemon
(they read a pidfile). Byte-level framing is whole and broken frames.

Over-approximations: the order in which waiters of a limiter's lock get it; the
refusal of a second nonce, which a fresh process cannot meet; the rows of a fetch
are written within the life of its slot reservation (WebFetch says so where time passes).

Code modelled as its tests drive it although nothing in production builds or calls
it today: `rebuild_from_state_git`, `PolicyWatcher`, `IdentityListener`, `StdioTransport`,
`InboundCanaryScanner`, the broker's `reload`, `load_all_breakers`, the outbound
queue ("Wiring status (#235)"). Not modelled because it has no caller:
`BudgetGuard.evict`, `identity/rate_limit.py`.

Behaviour seen in the code that no property speaks of:

- *resume and pipeline*: an adapter leg that is never trimmed fills to its ceiling;
  a crash between commit and dispatch of a terminal message loses its turn (the
  price of commit-first); extraction failures do not count against the attempt
  ceiling; a reply sent again after a replay may differ from the first; an isolated
  leg is never registered again; the link handshake reads without a timeout;
- *daemon*: a second `daemon start` overwrites the pidfile; SIGTERM before the
  handlers are installed skips the `finally`; a SIGINT during the broadcast of
  ready leaves a ready row without a going_down row; the hook of a failed boot
  runs before its row;
- *gateway*: the proxy waits for its server to close before it drains the
  connections; the client's handshake is not raced against the shutdown;
- *identity, configuration, proposals*: `set_` can demote the last operator; a
  platform id bound once is never bound again; refreshing a session leaves the old
  row valid; two `config set` at once lose one update; a file `config set` wrote is
  refused by the watcher, as the shipped `config/policies.yaml` is (its comment calls the
  reconciliation a follow-up); a raising fail-closed hook
  ends the watcher; `grant status` always says pending, and the list of pending
  proposals includes merged ones;
- *budget and limits*: spending lives in the process; a cancelled call's cost is
  not recorded; nor is that of a charge above the per-call cap or above what is left of
  the day, which raises before it adds; evicting an idle, exhausted bucket renews it; waiters beyond the
  drop limit are not counted while they queue;
- *quarantine and content*: the bridge does not discard a staged body when a
  pre-hook fails; a malformed secrets file keeps the old secrets; only current
  values are redacted; promoted attachments have no slot and no scan;
- *queue and wire*: a consumer past the gate receives during a pause; a cancelled
  close loses the handle of the stderr pump, which runs on.

Left out for good: generated and declarative code (`audit/audit_row_schemas.py`,
migrations, models, `i18n`, hook-point tables, manifests), thin I/O (metrics
servers, probes), and pure formatting or policy data (personas, static tables of
tools). The `components` of `PROJECT.json` give the reason for each part.
