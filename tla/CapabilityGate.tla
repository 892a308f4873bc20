--------------------------- MODULE CapabilityGate ---------------------------
(***************************************************************************)
(* The capability gate: the plugin_grants table and its sync hash, the     *)
(* boot that seeds, reconciles and loads it, the in-memory policy, the     *)
(* rebuild of both from state.git and the heartbeat that closes the gate.  *)
(* A grant's identity is <<plugin_id, hookpoint, subscriber_tier>>.        *)
(***************************************************************************)
EXTENDS Naturals, Sequences, FiniteSets

CONSTANTS
    FirstParty,     \* FIRST_PARTY_SYSTEM_GRANTS
    AdapterKeys,    \* identities of the comms-adapter load grants
    OperatorKeys,   \* identities the proposals under policies/grants/ name
    MaxHeads,       \* bound on the heads of state.git
    MaxFaults,      \* bound on failures, outages, crashes and boots
    MaxMissed,      \* _MAX_MISSED_HEARTBEATS
    SinkAccepts,    \* the gate's audit sink has an append_schema that accepts
    CommitAckLost   \* an apply may commit and yet raise in the driver

SystemKeys == {g.key : g \in FirstParty}
Keys == SystemKeys \cup AdapterKeys \cup OperatorKeys
Contents == {"none", "T3"}
Branches == {"system", "comms", "operator"}
GrantRow == [key : Keys, content : Contents, branch : Branches]

ASSUME GateAssumption ==
    /\ MaxHeads \in Nat /\ MaxFaults \in Nat /\ MaxMissed \in Nat \ {0}
    /\ SinkAccepts \in BOOLEAN /\ CommitAckLost \in BOOLEAN
    /\ FirstParty \subseteq {g \in GrantRow : g.branch = "system"}
    /\ SystemKeys \cap AdapterKeys = {}

NoRow == [key |-> <<>>, content |-> "none", branch |-> "none"]

\* A file of policies/grants/: a grant, or one that GrantRow refuses.
Blob == [key : OperatorKeys, content : Contents \cup {"invalid"}, branch : {"operator"}]

VARIABLES
    heads,      \* the grant files at each head of state.git
    table,      \* plugin_grants, by identity
    sync,       \* capability_gate_sync.commit_hash, 0 for none
    enabled,    \* identities of the adapters of comms_enabled_adapters
    proc,       \* where the process is in its boot
    policy,     \* the grants of _policy
    rebuild,    \* where rebuild_from_state_git is
    target,     \* its state_git_head
    grants,     \* the grants it parsed
    settled,    \* the head of the last rebuild that returned, 0 for none
    store,      \* Postgres answers
    missed,     \* _missed_heartbeats
    closed,     \* _fail_closed
    loop,       \* the heartbeat task: "none", "running" or "raised"
    faults

tableVars == <<table, sync>>
rebuildVars == <<rebuild, target, grants, settled>>
beatVars == <<missed, closed, loop>>
vars == <<heads, table, sync, enabled, proc, policy, rebuild, target, grants,
          settled, store, missed, closed, loop, faults>>

Init ==
    /\ heads = <<{}>>
    /\ table = [k \in Keys |-> NoRow] /\ sync = 0
    /\ enabled = {}
    /\ proc = "down" /\ policy = {}
    /\ rebuild = "idle" /\ target = 0 /\ grants = {} /\ settled = 0
    /\ store = TRUE /\ missed = 0 /\ closed = FALSE /\ loop = "none"
    /\ faults = 0

Fault == faults < MaxFaults /\ faults' = faults + 1
-----------------------------------------------------------------------------
(* The three checks of the gate. *)

Covers(g, plugin, hook) == g.key[1] = plugin /\ g.key[2] \in {"*", hook}

PolicyCheck(plugin, hook, tier) ==
    \E g \in policy : Covers(g, plugin, hook) /\ g.key[3] = tier

check(plugin, hook, tier) == ~closed /\ PolicyCheck(plugin, hook, tier)

check_plugin_load(plugin, tier) == ~closed /\ PolicyCheck(plugin, "*", tier)

check_content_clearance(plugin, hook, content) ==
    ~closed /\ \E g \in policy : Covers(g, plugin, hook) /\ g.content = content
-----------------------------------------------------------------------------
(* The boot. *)

comms_adapter_load_grants ==
    {[key |-> k, content |-> "none", branch |-> "comms"] : k \in enabled}

\* Of the rows with one identity, the one that sorts last.
LastOf(rows, k) ==
    CHOOSE g \in rows :
        /\ g.key = k
        /\ g.content = "T3" \/ \A o \in rows : o.key = k => o.content # "T3"

\* INSERT ... ON CONFLICT (identity) DO UPDATE, for each of the rows in order.
Upserted(t, rows) ==
    [k \in Keys |-> IF \E g \in rows : g.key = k THEN LastOf(rows, k) ELSE t[k]]

Without(t, gone) == [k \in Keys |-> IF k \in gone THEN NoRow ELSE t[k]]

Approved == {table[k] : k \in {j \in Keys : table[j] # NoRow}}

Start ==
    /\ proc = "down" /\ Fault
    /\ \E e \in SUBSET AdapterKeys : enabled' = e
    /\ proc' = "seed"
    /\ UNCHANGED <<heads, tableVars, policy, rebuildVars, store, beatVars>>

seed_first_party_grants ==
    /\ proc = "seed" /\ store
    /\ table' = Upserted(table, FirstParty \cup comms_adapter_load_grants)
    /\ proc' = "reconcile"
    /\ UNCHANGED <<heads, sync, enabled, policy, rebuildVars, store, beatVars, faults>>

Stale == {k \in Keys : table[k].branch = "comms" /\ k \notin enabled}

reconcile_comms_adapter_grants ==
    /\ proc = "reconcile" /\ store
    /\ table' = Upserted(Without(table, Stale), comms_adapter_load_grants)
    /\ proc' = "create"
    /\ UNCHANGED <<heads, sync, enabled, policy, rebuildVars, store, beatVars, faults>>

\* RealGate.create: the policy is the approved rows; the heartbeat starts.
create ==
    /\ proc = "create" /\ store
    /\ policy' = Approved
    /\ missed' = 0 /\ closed' = FALSE /\ loop' = "running"
    /\ proc' = "up"
    /\ UNCHANGED <<heads, tableVars, enabled, rebuildVars, store, faults>>

\* The process ends: a statement of the boot failed, a stop, a crash.
Exit ==
    /\ proc # "down"
    /\ proc' = "down" /\ policy' = {}
    /\ rebuild' = "idle" /\ target' = 0 /\ grants' = {} /\ settled' = 0
    /\ missed' = 0 /\ closed' = FALSE /\ loop' = "none"
    /\ UNCHANGED <<heads, tableVars, enabled, store, faults>>
-----------------------------------------------------------------------------
(* rebuild_from_state_git, one await at a time. *)

\* The well-formed grants of a head; a malformed file is skipped.
parse_state_git_head(h) == {b \in heads[h] : b.content \in Contents}

get_sync_hash ==
    /\ proc = "up" /\ rebuild = "idle" /\ store
    /\ target' = Len(heads)
    /\ IF sync = Len(heads)
       THEN rebuild' = "idle" /\ settled' = Len(heads)
       ELSE rebuild' = "parse" /\ settled' = 0
    /\ grants' = {}
    /\ UNCHANGED <<heads, tableVars, enabled, proc, policy, store, beatVars, faults>>

ParseHead ==
    /\ rebuild = "parse"
    /\ rebuild' = "apply" /\ grants' = parse_state_git_head(target)
    /\ UNCHANGED <<heads, tableVars, enabled, proc, policy, target, settled, store,
                   beatVars, faults>>

\* The identities of previous_grants - grants.
Revoked == {g.key : g \in policy \ grants}

\* Revokes, upserts and the hash commit together.
apply_atomic ==
    /\ table' = Upserted(Without(table, Revoked), grants)
    /\ sync' = target

ApplyCommits ==
    /\ rebuild = "apply" /\ store
    /\ apply_atomic
    /\ rebuild' = "swap"
    /\ UNCHANGED <<heads, enabled, proc, policy, target, grants, settled, store, beatVars, faults>>

\* The driver raises: the transaction rolled back, or it had committed and the
\* answer was lost.  _apply_grants raises; the policy stays.
ApplyRaises ==
    /\ rebuild = "apply" /\ Fault
    /\ UNCHANGED tableVars \/ (CommitAckLost /\ store /\ apply_atomic)
    /\ rebuild' = "idle" /\ grants' = {}
    /\ UNCHANGED <<heads, enabled, proc, policy, target, settled, store, beatVars>>

\* Variant: the parsed grants are added to the policy.
SwapPolicyMerges ==
    /\ rebuild = "swap"
    /\ policy' = policy \cup grants
    /\ rebuild' = "idle" /\ grants' = {}
    /\ settled' = IF SinkAccepts THEN target ELSE 0
    /\ UNCHANGED <<heads, tableVars, enabled, proc, target, store, beatVars, faults>>

\* self._policy = GatePolicy(grants), then the success row; a sink that
\* refuses it makes the call raise.
SwapPolicy ==
    /\ rebuild = "swap"
    /\ policy' = grants
    /\ rebuild' = "idle" /\ grants' = {}
    /\ settled' = IF SinkAccepts THEN target ELSE 0
    /\ UNCHANGED <<heads, tableVars, enabled, proc, target, store, beatVars, faults>>

\* The parser raises; the policy and the table stay.
ParseRaises ==
    /\ rebuild = "parse" /\ Fault
    /\ rebuild' = "idle"
    /\ UNCHANGED <<heads, tableVars, enabled, proc, policy, target, grants, settled, store, beatVars>>
-----------------------------------------------------------------------------
(* The heartbeat. *)

\* The exiting row, then the gate opens.  A sink that refuses the row has ended
\* the loop on the entering row, below.
PingAnswers ==
    /\ loop = "running" /\ store
    /\ missed' = 0 /\ closed' = FALSE
    /\ UNCHANGED <<heads, tableVars, enabled, proc, policy, rebuildVars, store, loop, faults>>

\* Variant: the row is written before the gate closes.
PingFailsRowFirst ==
    /\ loop = "running" /\ ~store
    /\ missed' = IF missed < MaxMissed THEN missed + 1 ELSE missed
    /\ closed' = (closed \/ (missed + 1 >= MaxMissed /\ SinkAccepts))
    /\ loop' = IF missed + 1 >= MaxMissed /\ ~closed /\ ~SinkAccepts
               THEN "raised" ELSE "running"
    /\ UNCHANGED <<heads, tableVars, enabled, proc, policy, rebuildVars, store, faults>>

\* The flag is set before the row is written.
PingFails ==
    /\ loop = "running" /\ ~store
    /\ missed' = IF missed < MaxMissed THEN missed + 1 ELSE missed
    /\ closed' = (closed \/ missed + 1 >= MaxMissed)
    /\ loop' = IF missed + 1 >= MaxMissed /\ ~closed /\ ~SinkAccepts
               THEN "raised" ELSE "running"
    /\ UNCHANGED <<heads, tableVars, enabled, proc, policy, rebuildVars, store, faults>>
-----------------------------------------------------------------------------
(* The environment. *)

\* A proposal that adds, replaces or removes one file is merged.
Push ==
    /\ Len(heads) < MaxHeads
    /\ \E b \in Blob :
           \/ heads' = Append(heads, heads[Len(heads)] \cup {b})
           \/ b \in heads[Len(heads)] /\ heads' = Append(heads, heads[Len(heads)] \ {b})
    /\ UNCHANGED <<tableVars, enabled, proc, policy, rebuildVars, store, beatVars, faults>>

Outage ==
    /\ store /\ Fault
    /\ store' = FALSE
    /\ UNCHANGED <<heads, tableVars, enabled, proc, policy, rebuildVars, beatVars>>

Recovery ==
    /\ ~store
    /\ store' = TRUE
    /\ UNCHANGED <<heads, tableVars, enabled, proc, policy, rebuildVars, beatVars, faults>>

Rebuild == get_sync_hash \/ ParseHead \/ ApplyCommits \/ ApplyRaises \/ SwapPolicy \/ ParseRaises
Boot == Start \/ seed_first_party_grants \/ reconcile_comms_adapter_grants \/ create \/ Exit
Beat == PingAnswers \/ PingFails

Next == Boot \/ Rebuild \/ Beat \/ Push \/ Outage \/ Recovery

Spec == Init /\ [][Next]_vars

\* The heartbeat task is scheduled while it runs; Postgres comes back.
FairSpec == Spec /\ WF_vars(Beat) /\ WF_vars(Recovery)
-----------------------------------------------------------------------------
Procs == {"down", "seed", "reconcile", "create", "up"}

\* The types of the variables; a table row stands under its own identity.
TypeOK ==
    /\ heads \in Seq(SUBSET Blob) /\ Len(heads) \in 1..MaxHeads
    /\ \A k \in Keys : table[k] = NoRow \/ (table[k] \in GrantRow /\ table[k].key = k)
    /\ sync \in 0..Len(heads) /\ target \in 0..Len(heads) /\ settled \in 0..Len(heads)
    /\ enabled \subseteq AdapterKeys /\ proc \in Procs
    /\ policy \subseteq GrantRow /\ grants \subseteq GrantRow
    /\ rebuild \in {"idle", "parse", "apply", "swap"}
    /\ store \in BOOLEAN /\ missed \in 0..MaxMissed /\ closed \in BOOLEAN
    /\ loop \in {"none", "running", "raised"} /\ faults \in 0..MaxFaults

Operators(rows) == {g \in rows : g.branch = "operator"}

\* When rebuild_from_state_git returns for a head, by applying it or by finding
\* it applied, no operator grant outside that head is in the policy: across
\* crashes, restarts, rolled-back applies and collisions with seeded grants.
RevokedStaysRevoked ==
    settled # 0 => Operators(policy) \subseteq parse_state_git_head(settled)

\* Between rebuilds a restart would load no grant the policy does not hold:
\* what _apply_grants revoked in memory is gone from plugin_grants too.
RestartResurrectsNothing ==
    proc = "up" /\ rebuild # "swap" => Approved \subseteq policy

\* Once _MAX_MISSED_HEARTBEATS pings failed, every check denies, whatever
\* became of the audit row and of the heartbeat task.
OutageDenies ==
    missed >= MaxMissed =>
        \A k \in Keys : /\ ~check(k[1], k[2], k[3])
                        /\ ~check_plugin_load(k[1], k[3])
                        /\ \A c \in Contents : ~check_content_clearance(k[1], k[2], c)

\* When the gate is created the comms-adapter rows are those of the enabled
\* adapters exactly, also when an earlier boot died between its transactions.
AdapterGrantsMirrorConfig ==
    proc = "create" => {k \in Keys : table[k].branch = "comms"} = enabled

\* A fail-closed gate opens again once its store is back.
GateReopens == closed ~> ~closed

\* seed_first_party_grants and reconcile_comms_adapter_grants leave every
\* operator grant as it is.
OperatorGrantsKept ==
    [][(proc \in {"seed", "reconcile"}) =>
           \A k \in Keys : table[k].branch = "operator" => table'[k] = table[k]]_vars

\* While the daemon is up the first-party grants are in force.
FirstPartyStays == proc = "up" => FirstParty \subseteq policy
=============================================================================
