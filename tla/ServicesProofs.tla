--------------------------- MODULE ServicesProofs ---------------------------
(***************************************************************************)
(* Proofs about the core services of MCServices: the capability gate, the  *)
(* daemon's lifecycle and the spend guard of the provider calls.           *)
(***************************************************************************)
EXTENDS CapabilityGate, DaemonLifecycle, ProviderCalls, FiniteSetTheorems, TLAPS

USE SMTT(30)

Granted(h) == IF h = 0 THEN {} ELSE parse_state_git_head(h)

Typed ==
    /\ heads \in Seq(SUBSET Blob) /\ Len(heads) >= 1
    /\ table \in [Keys -> GrantRow \cup {NoRow}]
    /\ \A k \in Keys : table[k] # NoRow => table[k].key = k
    /\ enabled \subseteq AdapterKeys
    /\ sync \in 0..Len(heads)

Underway ==
    /\ rebuild \in {"idle", "parse", "apply", "swap"}
    /\ rebuild # "idle" => proc = "up" /\ target \in 1..Len(heads) /\ settled = 0
    /\ rebuild \in {"apply", "swap"} => grants = parse_state_git_head(target)
    /\ rebuild = "swap" => sync = target
    /\ settled # 0 => settled = sync /\ proc = "up"

Projected ==
    /\ \A k \in Keys : table[k].branch = "operator" => table[k] \in Granted(sync)
    /\ rebuild = "swap" => \A k \in Keys : table[k] # NoRow => table[k] \in grants
    /\ proc = "up" /\ rebuild # "swap" =>
           /\ \A k \in Keys : table[k] # NoRow => table[k] \in policy
           /\ Operators(policy) \subseteq Granted(sync)

IInv == Typed /\ Underway /\ Projected

\* The row an upsert leaves is one of the upserted rows, or the old one.
LEMMA UpsertedRow ==
    ASSUME NEW t, NEW rows, NEW k \in Keys
    PROVE  \/ /\ \E g \in rows : g.key = k
              /\ Upserted(t, rows)[k] \in rows /\ Upserted(t, rows)[k].key = k
           \/ /\ ~\E g \in rows : g.key = k
              /\ Upserted(t, rows)[k] = t[k]
PROOF
  <1>1. CASE \E g \in rows : g.key = k
    <2>1. \E g \in rows : /\ g.key = k
                          /\ g.content = "T3" \/ \A o \in rows : o.key = k => o.content # "T3"
      BY <1>1, Zenon
    <2>2. /\ LastOf(rows, k) \in rows
          /\ LastOf(rows, k).key = k
      BY <2>1, Zenon DEF LastOf
    <2> QED BY <1>1, <2>2, Zenon DEF Upserted
  <1>2. CASE ~\E g \in rows : g.key = k
    BY <1>2, Zenon DEF Upserted
  <1> QED BY <1>1, <1>2, Zenon

\* What is parsed from a head are operator grants.
LEMMA ParsedGrants ==
    ASSUME Typed, NEW h \in 1..Len(heads)
    PROVE  parse_state_git_head(h) \subseteq {g \in GrantRow : g.branch = "operator"}
PROOF
  <1>1. heads[h] \subseteq Blob BY DEF Typed
  <1>2. \A b \in Blob : b.content \in Contents =>
            b \in GrantRow /\ b.branch = "operator"
    BY Zenon DEF Blob, GrantRow, Keys, Branches
  <1> QED BY <1>1, <1>2, Zenon DEF parse_state_git_head

\* apply_atomic leaves the parsed grants and nothing else in the table.
LEMMA ApplyProjects ==
    ASSUME IInv, rebuild = "apply", apply_atomic
    PROVE  /\ table' \in [Keys -> GrantRow \cup {NoRow}]
           /\ \A k \in Keys : table'[k] # NoRow => table'[k] \in grants /\ table'[k].key = k
PROOF
  <1> DEFINE t == Without(table, Revoked)
  <1>1. table' = Upserted(t, grants) BY Zenon DEF apply_atomic
  <1>2. grants \subseteq GrantRow BY ParsedGrants, Zenon DEF IInv, Underway
  <1>3. ASSUME NEW k \in Keys
        PROVE  /\ table'[k] \in GrantRow \cup {NoRow}
               /\ table'[k] # NoRow => table'[k] \in grants /\ table'[k].key = k
    <2>1. CASE /\ \E g \in grants : g.key = k
               /\ table'[k] \in grants /\ table'[k].key = k
      BY <2>1, <1>2, Zenon
    <2>2. CASE (~\E g \in grants : g.key = k) /\ table'[k] = t[k]
      <3>1. t[k] = NoRow \/ (k \notin Revoked /\ t[k] = table[k]) BY Zenon DEF Without
      <3>2. ASSUME k \notin Revoked, table[k] # NoRow PROVE FALSE
        <4>1. table[k] \in policy /\ table[k].key = k BY <3>2, Zenon DEF IInv, Projected, Underway, Typed
        <4>2. table[k] \in grants BY <3>2, <4>1, Zenon DEF Revoked
        <4> QED BY <2>2, <4>1, <4>2, Zenon
      <3>3. t[k] = NoRow BY <3>1, <3>2, Zenon
      <3> QED BY <2>2, <3>3, Zenon
    <2> HIDE DEF t
    <2> QED BY <1>1, <2>1, <2>2, UpsertedRow
  <1>4. table' = [k \in Keys |-> table'[k]] BY <1>1, Zenon DEF Upserted
  <1> HIDE DEF t
  <1> QED BY <1>3, <1>4, Zenon

\* The table and the policy are empty at the start.
LEMMA InitIInv == Init => IInv
PROOF
  BY DEF Init, IInv, Typed, Underway, Projected, NoRow, Granted, Operators

\* Seeding and reconciling write no operator row.
LEMMA SeedPreserves ==
    ASSUME IInv, seed_first_party_grants \/ reconcile_comms_adapter_grants
    PROVE  IInv'
PROOF
  <1> DEFINE rows == FirstParty \cup comms_adapter_load_grants
  <1>1. \A g \in rows : g \in GrantRow /\ g.branch # "operator"
    BY GateAssumption DEF IInv, Typed, comms_adapter_load_grants, GrantRow, Keys, Contents, Branches
  <1>2. \A k \in Keys :
            \/ table'[k] \in rows /\ table'[k].key = k
            \/ table'[k] = table[k]
            \/ table'[k] = NoRow
    <2>1. CASE seed_first_party_grants
      BY <2>1, UpsertedRow DEF seed_first_party_grants
    <2>2. CASE reconcile_comms_adapter_grants
      <3> TAKE k \in Keys
      <3>1. Without(table, Stale)[k] \in {table[k], NoRow} BY Zenon DEF Without
      <3> QED BY <2>2, <3>1, UpsertedRow DEF reconcile_comms_adapter_grants
    <2> QED BY <2>1, <2>2, Zenon
  <1>3. table' = [k \in Keys |-> table'[k]]
    BY Zenon DEF seed_first_party_grants, reconcile_comms_adapter_grants, Upserted
  <1> HIDE DEF rows
  <1>4. /\ proc # "up" /\ proc' # "up"
        /\ UNCHANGED <<heads, sync, enabled, policy, rebuildVars>>
    BY Zenon DEF seed_first_party_grants, reconcile_comms_adapter_grants
  <1>5. Typed'
    <2>1. table' \in [Keys -> GrantRow \cup {NoRow}] BY <1>1, <1>2, <1>3, Zenon DEF IInv, Typed
    <2>2. \A k \in Keys : table'[k] # NoRow => table'[k].key = k BY <1>2, Zenon DEF IInv, Typed
    <2> QED BY <1>4, <2>1, <2>2, Zenon DEF IInv, Typed
  <1>6. Underway' BY <1>4, Zenon DEF IInv, Underway, rebuildVars, parse_state_git_head
  <1>7. Projected'
    <2>1. \A k \in Keys : table'[k].branch = "operator" => table'[k] \in Granted(sync)
      BY <1>1, <1>2 DEF IInv, Projected, NoRow
    <2> QED BY <1>4, <2>1, Zenon DEF IInv, Underway, Projected, Granted, parse_state_git_head, rebuildVars
  <1> QED BY <1>5, <1>6, <1>7, Zenon DEF IInv

\* A push changes no head that was there.
LEMMA PushPreserves ==
    ASSUME IInv, Push
    PROVE  IInv'
PROOF
  <1>1. PICK b \in SUBSET Blob : heads' = Append(heads, b)
    <2>1. heads[Len(heads)] \subseteq Blob BY DEF IInv, Typed
    <2> QED BY <2>1, Zenon DEF Push
  <1>2. /\ heads' \in Seq(SUBSET Blob) /\ Len(heads') = Len(heads) + 1
        /\ \A h \in 1..Len(heads) : heads'[h] = heads[h]
    BY <1>1 DEF IInv, Typed
  <1>3. \A h \in 1..Len(heads) : parse_state_git_head(h)' = parse_state_git_head(h)
    BY <1>2, Zenon DEF parse_state_git_head
  <1>4. UNCHANGED <<tableVars, enabled, proc, policy, rebuildVars>> BY Zenon DEF Push
  <1>5. Granted(sync)' = Granted(sync)
    BY <1>3, <1>4 DEF Granted, IInv, Typed, tableVars
  <1>6. Typed' BY <1>2, <1>4 DEF IInv, Typed, tableVars
  <1>7. Underway' BY <1>2, <1>3, <1>4 DEF IInv, Typed, Underway, rebuildVars, tableVars
  <1>8. Projected' BY <1>4, <1>5, Zenon DEF IInv, Projected, tableVars, rebuildVars, Operators
  <1> QED BY <1>6, <1>7, <1>8, Zenon DEF IInv

\* Every step of a rebuild keeps IInv when a failed apply has rolled back.
LEMMA RebuildPreserves ==
    ASSUME ~CommitAckLost, IInv, Rebuild
    PROVE  IInv'
PROOF
  <1> USE DEF rebuildVars, tableVars
  <1>1. CASE get_sync_hash
    BY <1>1 DEF get_sync_hash, IInv, Typed, Underway, Projected, Granted,
                parse_state_git_head, Operators
  <1>2. CASE ParseHead
    BY <1>2, Zenon DEF ParseHead, IInv, Typed, Underway, Projected, Granted,
                parse_state_git_head, Operators
  <1>3. CASE ApplyCommits
    <2>1. /\ table' \in [Keys -> GrantRow \cup {NoRow}]
          /\ \A k \in Keys : table'[k] # NoRow => table'[k] \in grants /\ table'[k].key = k
      BY <1>3, ApplyProjects, Zenon DEF ApplyCommits
    <2>2. sync' = target /\ UNCHANGED <<heads, enabled, proc, policy, target, grants, settled>>
      BY <1>3, Zenon DEF ApplyCommits, apply_atomic
    <2>3. grants = parse_state_git_head(target) /\ target \in 1..Len(heads)
      BY <1>3, Zenon DEF ApplyCommits, IInv, Underway
    <2>4. Typed' BY <2>1, <2>2, <2>3 DEF IInv, Typed
    <2>5. Underway'
      BY <1>3, <2>2, <2>3, Zenon DEF ApplyCommits, IInv, Underway, parse_state_git_head
    <2>6. Projected'
      <3>1. Granted(sync)' = grants BY <2>2, <2>3 DEF Granted, parse_state_git_head
      <3>2. \A k \in Keys : table'[k].branch = "operator" => table'[k] \in grants
        BY <2>1 DEF NoRow
      <3> QED BY <1>3, <2>1, <2>2, <3>1, <3>2, Zenon DEF Projected, ApplyCommits
    <2> QED BY <2>4, <2>5, <2>6, Zenon DEF IInv
  <1>4. CASE ApplyRaises
    BY <1>4, Zenon DEF ApplyRaises, IInv, Typed, Underway, Projected, Granted,
                parse_state_git_head, Operators
  <1>5. CASE SwapPolicy
    <2>1. grants = Granted(sync) BY <1>5 DEF SwapPolicy, IInv, Underway, Granted
    <2> QED
      BY <1>5, <2>1, Zenon DEF SwapPolicy, IInv, Typed, Underway, Projected, Granted,
                parse_state_git_head, Operators
  <1>6. CASE ParseRaises
    BY <1>6, Zenon DEF ParseRaises, IInv, Typed, Underway, Projected, Granted,
                parse_state_git_head, Operators
  <1> QED BY <1>1, <1>2, <1>3, <1>4, <1>5, <1>6, Zenon DEF Rebuild

\* Every step keeps IInv.
LEMMA StepPreserves ==
    ASSUME ~CommitAckLost, IInv, [Next]_vars
    PROVE  IInv'
PROOF
  <1> USE DEF rebuildVars, tableVars
  <1>1. CASE Rebuild BY <1>1, RebuildPreserves, Zenon
  <1>2. CASE Push BY <1>2, PushPreserves, Zenon
  <1>3. CASE seed_first_party_grants \/ reconcile_comms_adapter_grants
    BY <1>3, SeedPreserves, Zenon
  <1>4. CASE Start
    BY <1>4, Zenon DEF Start, IInv, Typed, Underway, Projected, Granted, parse_state_git_head, Operators
  <1>5. CASE create
    <2>1. \A k \in Keys : table[k] # NoRow => table[k] \in Approved BY Zenon DEF Approved
    <2>2. Operators(Approved) \subseteq Granted(sync)
      BY Zenon DEF IInv, Projected, Operators, Approved
    <2> QED
      BY <1>5, <2>1, <2>2, Zenon
      DEF create, IInv, Typed, Underway, Projected, Granted, parse_state_git_head, Operators
  <1>6. CASE Exit
    BY <1>6, Zenon DEF Exit, IInv, Typed, Underway, Projected, Granted, parse_state_git_head, Operators
  <1>7. CASE Beat \/ Outage \/ Recovery \/ UNCHANGED vars
    <2>1. UNCHANGED <<heads, tableVars, enabled, proc, policy, rebuildVars>>
      BY <1>7, Zenon DEF Beat, PingAnswers, PingFails, Outage, Recovery, vars
    <2> QED
      BY <2>1, Zenon DEF IInv, Typed, Underway, Projected, Granted, parse_state_git_head, Operators
  <1> QED BY <1>1, <1>2, <1>3, <1>4, <1>5, <1>6, <1>7, Zenon DEF Next, Boot

\* The inductive invariant: the operator rows of the table are grants of the
\* head its sync hash names, and between rebuilds the policy holds them all and
\* no other operator grant.
THEOREM Invariant == ASSUME ~CommitAckLost PROVE Spec => []IInv
PROOF
  <1>1. IInv /\ [Next]_vars => IInv' BY StepPreserves, Zenon
  <1> QED BY <1>1, InitIInv, PTL DEF Spec

\* A rebuild that returns leaves no operator grant outside its head in force,
\* for every set of grants, heads, outages, crashes and collisions, as long as
\* an apply that raises has rolled back.
THEOREM Revocation == ASSUME ~CommitAckLost PROVE Spec => []RevokedStaysRevoked
PROOF
  <1>1. IInv => RevokedStaysRevoked
    BY Zenon DEF IInv, Underway, Projected, RevokedStaysRevoked, Granted
  <1> QED BY <1>1, Invariant, PTL

\* Between rebuilds plugin_grants holds no grant that the policy does not hold.
THEOREM Restart == ASSUME ~CommitAckLost PROVE Spec => []RestartResurrectsNothing
PROOF
  <1>1. IInv => RestartResurrectsNothing
    BY Zenon DEF IInv, Projected, RestartResurrectsNothing, Approved
  <1> QED BY <1>1, Invariant, PTL
-----------------------------------------------------------------------------
(* The heartbeat: the flag is set no later than the count reaches its limit. *)

BeatInv == missed \in Nat /\ (missed >= MaxMissed => closed)

\* Every step keeps BeatInv.
LEMMA BeatPreserves == BeatInv /\ [Next]_vars => BeatInv'
PROOF
  <1> SUFFICES ASSUME BeatInv, [Next]_vars PROVE BeatInv'
    BY Zenon
  <1>1. CASE PingFails
    <2>1. missed' \in Nat /\ (missed' >= MaxMissed => missed + 1 >= MaxMissed)
      BY <1>1, GateAssumption DEF PingFails, BeatInv
    <2>2. missed + 1 >= MaxMissed => closed'
      BY <1>1, Zenon DEF PingFails
    <2> QED BY <2>1, <2>2, Zenon DEF BeatInv
  <1>2. CASE PingAnswers \/ create \/ Exit
    BY <1>2, GateAssumption DEF PingAnswers, create, Exit, BeatInv
  <1>3. ASSUME UNCHANGED beatVars PROVE BeatInv'
    BY <1>3, Zenon DEF BeatInv, beatVars
  <1>4. CASE Rebuild \/ Push \/ Outage \/ Recovery \/ UNCHANGED vars
    BY <1>3, <1>4, Zenon DEF Rebuild, get_sync_hash, ParseHead, ApplyCommits, ApplyRaises, SwapPolicy,
                      ParseRaises, Push, Outage, Recovery, vars, beatVars
  <1>5. CASE Start \/ seed_first_party_grants \/ reconcile_comms_adapter_grants
    BY <1>3, <1>5, Zenon DEF Start, seed_first_party_grants, reconcile_comms_adapter_grants
  <1> QED BY <1>1, <1>2, <1>4, <1>5, Zenon DEF Next, Boot, Beat

\* Once _MAX_MISSED_HEARTBEATS pings in a row have failed every check denies:
\* for every grant, limit and audit sink, and also when a commit's answer is
\* lost or the heartbeat task died writing its row.
THEOREM Outages == Spec => []OutageDenies
PROOF
  <1>1. Init => BeatInv BY GateAssumption DEF Init, BeatInv
  <1>2. BeatInv => OutageDenies
    BY Zenon DEF BeatInv, OutageDenies, check, check_plugin_load, check_content_clearance
  <1> QED BY <1>1, <1>2, BeatPreserves, PTL DEF Spec
-----------------------------------------------------------------------------
(* The daemon: an exit gives back what the process held. *)

\* The steps of the boot lists, spelt out.
LEMMA Lists ==
  /\ CheckSteps = {"settings", "unsandboxed", "launcher", "snapshot", "handshake",
                   "infra", "grant", "nonce", "secrets", "multi_adapter"}
  /\ TrySteps = {"supervisor", "pidfile", "start", "carrier", "control",
                 "completed", "hook", "ready_row", "ready_wire"}
<1>1. DOMAIN Checks = 1 .. 10 /\ DOMAIN Trying = 1 .. 9
  BY DEF Checks, Trying
<1>2. CheckSteps = {Checks[1], Checks[2], Checks[3], Checks[4],
      Checks[5], Checks[6], Checks[7],
                    Checks[8], Checks[9], Checks[10]}
  <2>1. \A i \in 1 .. 10 : i = 1 \/ i = 2 \/ i = 3 \/ i = 4 \/ i = 5 \/ i = 6 \/ i = 7 \/ i = 8
                            \/ i = 9 \/ i = 10
    OBVIOUS
  <2> QED BY <1>1, <2>1 DEF CheckSteps
<1>3. TrySteps = {Trying[1], Trying[2], Trying[3], Trying[4],
      Trying[5], Trying[6], Trying[7],
                  Trying[8], Trying[9]}
  <2>1. \A i \in 1 .. 9 : i = 1 \/ i = 2 \/ i = 3 \/ i = 4 \/ i = 5 \/ i = 6 \/ i = 7 \/ i = 8
                           \/ i = 9
    OBVIOUS
  <2> QED BY <1>1, <2>1 DEF TrySteps
<1> QED BY <1>2, <1>3, Zenon DEF Checks, Trying

\* The step after one that is not the last is a step of the same list.
LEMMA NextCheck == \A s \in CheckSteps : s # Checks[Len(Checks)]
=> NextOf(Checks, s) \in CheckSteps
<1> SUFFICES ASSUME NEW s \in CheckSteps, s # Checks[Len(Checks)]
             PROVE  NextOf(Checks, s) \in CheckSteps
  BY Zenon
<1>1. DOMAIN Checks = 1 .. 10 /\ Len(Checks) = 10
  BY DEF Checks
<1> DEFINE i == CHOOSE j \in DOMAIN Checks : Checks[j] = s
<1>2. i \in 1 .. 10 /\ Checks[i] = s
  BY <1>1, Zenon DEF CheckSteps
<1>3. NextOf(Checks, s) = Checks[1 + i]
  BY Zenon DEF NextOf
<1> HIDE DEF i
<1>4. 1 + i \in 1 .. 10
  BY <1>1, <1>2
<1> QED BY <1>1, <1>3, <1>4, Zenon DEF CheckSteps

\* The same for the steps inside the try of _start_async.
LEMMA NextTry == \A s \in TrySteps : s # "ready_wire"
=> NextOf(Trying, s) \in TrySteps
<1> SUFFICES ASSUME NEW s \in TrySteps, s # "ready_wire"
                    PROVE NextOf(Trying, s) \in TrySteps
  BY Zenon
<1>1. DOMAIN Trying = 1 .. 9 /\ Trying[9] = "ready_wire"
  BY DEF Trying
<1> DEFINE i == CHOOSE j \in DOMAIN Trying : Trying[j] = s
<1>2. i \in 1 .. 9 /\ Trying[i] = s
  BY <1>1, Zenon DEF TrySteps
<1>3. NextOf(Trying, s) = Trying[1 + i]
  BY Zenon DEF NextOf
<1> HIDE DEF i
<1>4. 1 + i \in 1 .. 9
  BY <1>1, <1>2
<1> QED BY <1>1, <1>3, <1>4, Zenon DEF TrySteps

\* Each release, and the step after it.
LEMMA NextRelease ==
  /\ {Releases[i] : i \in DOMAIN Releases} =
        {"reap_child", "close_store", "close_listener", "close_control", "delete_pidfile"}
  /\ Releases[1] = "reap_child" /\ Releases[Len(Releases)] = "delete_pidfile"
  /\ NextOf(Releases, "reap_child") = "close_store"
  /\ NextOf(Releases, "close_store") = "close_listener"
  /\ NextOf(Releases, "close_listener") = "close_control"
  /\ NextOf(Releases, "close_control") = "delete_pidfile"
<1>1. DOMAIN Releases = 1 .. 5 /\ Len(Releases) = 5
  BY DEF Releases
<1>2. /\ Releases[1] = "reap_child" /\ Releases[2] = "close_store"
      /\ Releases[3] = "close_listener" /\ Releases[4] = "close_control"
      /\ Releases[5] = "delete_pidfile"
  BY Zenon DEF Releases
<1>3. \A i \in 1 .. 5 : i = 1 \/ i = 2 \/ i = 3 \/ i = 4 \/ i = 5
  OBVIOUS
<1>4. \A k \in 1 .. 4 : NextOf(Releases, Releases[k]) = Releases[1 + k]
  <2> SUFFICES ASSUME NEW k \in 1 .. 4
                      PROVE NextOf(Releases,
                      Releases[k]) = Releases[1 + k]
    BY Zenon
  <2>1. \A i \in 1 .. 5 : Releases[i] = Releases[k] => i = k
    BY <1>2, <1>3
  <2>2. (CHOOSE i \in 1 .. 5 : Releases[i] = Releases[k]) = k
    BY <2>1
  <2> QED BY <1>1, <2>2, Zenon DEF NextOf
<1> QED BY <1>1, <1>2, <1>3, <1>4

\* A process starts with nothing held and no connection.
LEMMA HoldInit == DaemonInit => HoldInv /\ PumpInv /\ SlotInv
<1>1. IsFiniteSet({}) /\ Cardinality({}) = 0
  BY FS_EmptySet, Zenon
<1> QED BY <1>1, Zenon DEF DaemonInit, HoldInv, PumpInv, SlotInv

\* What HeldAt gives at each kind of step.
LEMMA HeldWhile ==
  /\ \A s \in CheckSteps \cup {"off", "content_store"} : HeldAt(s) = {}
  /\ HeldAt("child") = {"content_store"}
     /\ HeldAt("wiring") = {"content_store", "child"}
  /\ \A s \in TrySteps \cup EndSteps \cup {"reap_child"} :
        HeldAt(s) = {"child", "listener", "control", "pidfile", "content_store"}
  /\ \A s : HeldAt(s) \subseteq {"child", "listener", "control", "pidfile", "content_store"}
  BY Lists, Zenon DEF HeldAt, EndSteps, Outliving

\* A release step and the releases after it give back all that HeldAt allows there.
LEMMA HeldFrom ==
  \A s \in {"reap_child", "close_store", "close_listener", "close_control"} :
     HeldAt(s) \subseteq From(s)
<1>1. DOMAIN Releases = 1 .. 5
  BY DEF Releases
<1>2. /\ Releases[1] = "reap_child" /\ Releases[2] = "close_store"
      /\ Releases[3] = "close_listener" /\ Releases[4] = "close_control"
      /\ Releases[5] = "delete_pidfile"
  BY Zenon DEF Releases
<1>3. \A k \in 1 .. 5 : \A i \in 1 .. k : ReleaseOf[Releases[k]] \in From(Releases[i])
  BY <1>1, Zenon DEF From
<1>4. \A k \in 1 .. 5, i \in 1 .. 5 : i <= k => i \in 1 .. k
  OBVIOUS
<1>5. \A k \in 1 .. 5, i \in 1 .. 5 : i <= k => ReleaseOf[Releases[k]] \in From(Releases[i])
  BY <1>3, <1>4, Zenon
<1>6. /\ {"child", "content_store", "listener", "control", "pidfile"} \subseteq From("reap_child")
      /\ {"content_store", "listener", "control", "pidfile"} \subseteq From("close_store")
      /\ {"listener", "control", "pidfile"} \subseteq From("close_listener")
      /\ {"control", "pidfile"} \subseteq From("close_control")
  <2>1. /\ ReleaseOf["reap_child"] = "child" /\ ReleaseOf["close_store"] = "content_store"
        /\ ReleaseOf["close_listener"] = "listener" /\ ReleaseOf["close_control"] = "control"
        /\ ReleaseOf["delete_pidfile"] = "pidfile"
    BY DEF ReleaseOf
  <2> QED BY <1>2, <1>5, <2>1, SMT
<1>7. /\ HeldAt("reap_child") = {"child", "listener", "control", "pidfile", "content_store"}
      /\ HeldAt("close_store") = {"content_store", "listener", "control", "pidfile"}
      /\ HeldAt("close_listener") = {"listener", "control", "pidfile"}
      /\ HeldAt("close_control") = {"control", "pidfile"}
  <2>1. HeldAt("reap_child") = {"child", "listener", "control", "pidfile", "content_store"}
    BY HeldWhile, Zenon
  <2> QED BY <2>1, Lists, Zenon DEF HeldAt
<1> QED BY <1>6, <1>7, Zenon

\* Every step of the boot and of the way out keeps within HeldAt, but for what is stranded.
LEMMA HoldNext == HoldInv /\ [DaemonNext]_dvars => HoldInv'
<1> SUFFICES ASSUME HoldInv, [DaemonNext]_dvars PROVE HoldInv'
  BY Zenon
<1> DEFINE Any == {"child", "listener", "control", "pidfile", "content_store"}
           Free == TrySteps \cup EndSteps \cup {"reap_child"}
<1>0. held \ {"adapter"} \subseteq Any \cup stranded
  BY HeldWhile, Zenon DEF HoldInv
<1>1. CASE start_daemon
  BY <1>1, Zenon DEF start_daemon, HoldInv
<1>2. ASSUME NEW s \in CheckSteps, NEW canPass, Check(s, canPass)
             PROVE HoldInv'
  <2>1. step = s /\ held' = held /\ stranded' = stranded
    BY <1>2, Zenon DEF Check
  <2>2. held \ {"adapter"} \subseteq stranded
    BY <2>1, HeldWhile, Zenon DEF HoldInv
  <2> QED BY <2>1, <2>2, Zenon DEF HoldInv
<1>3. CASE Checking
  BY <1>2, <1>3, Lists, Zenon DEF Checking, _load_settings_or_die, RefuseUnsandboxed,
       probe_launcher_policy_resolving, probe_snapshot_ref_init,
       probe_capability_gate_handshake,
       InstallBootInfra, RequireFirstPartyGrant, create_and_register_t3_nonce,
       _build_boot_outbound_dlp, RefuseMultiAdapter
<1>4. CASE _build_comms_boot_graph
  <2>1. CASE OpenContentStore
    BY <2>1, HeldWhile, Zenon DEF OpenContentStore, GraphStep, HoldInv
  <2>2. CASE _build_comms_inbound_extractor
    BY <2>2, HeldWhile, Zenon DEF _build_comms_inbound_extractor, GraphStep, HoldInv
  <2>3. CASE WireGraph
    BY <1>0, <2>3, HeldWhile, Lists, Zenon DEF WireGraph, GraphStep, HoldInv
  <2> QED BY <1>4, <2>1, <2>2, <2>3, Zenon DEF _build_comms_boot_graph
<1>5. CASE GraphFails \/ Killed
  BY <1>5, Zenon DEF GraphFails, Killed, HoldInv
<1>6. ASSUME step' \in Free, held' \ {"adapter"} \subseteq Any \cup stranded' PROVE HoldInv'
  BY <1>6, HeldWhile, Zenon DEF HoldInv
<1>7. ASSUME NEW s \in TrySteps, s # "ready_wire",
             NEW what \in SUBSET (Any \cup {"adapter"}), Takes(s, what)
      PROVE  HoldInv'
  <2>1. step' \in TrySteps
    BY <1>7, NextTry, Zenon DEF Takes
  <2>2. held' \ {"adapter"} \subseteq Any \cup stranded'
    BY <1>0, <1>7, Zenon DEF Takes
  <2> QED BY <1>6, <2>1, <2>2, Zenon
<1>8. ASSUME NEW s, Raises(s) PROVE HoldInv'
  BY <1>0, <1>6, <1>8, Zenon DEF Raises, Unwind, EndSteps
<1>9. CASE ConstructSupervisor \/ write_pidfile \/ start \/ NoAdapter
           \/ StartControlServer
           \/ _invoke_boot_completed
  BY <1>7, <1>8, <1>9, Lists, Zenon DEF ConstructSupervisor, write_pidfile, start,
       NoAdapter,
       StartControlServer, _invoke_boot_completed
<1>10. CASE _listen_socket_comms_adapter \/ _spawn_comms_adapter
  <2>1. CASE RefusedOrRaised
    BY <1>0, <1>6, <2>1, Zenon DEF RefusedOrRaised, _build_comms_adapter_wiring, Unwind, EndSteps
  <2>2. CASE Carried({"listener"}) \/ Carried({"adapter"})
    BY <1>7, <2>2, Lists, Zenon DEF Carried
  <2>3. ASSUME NEW what, Unregistered(what) PROVE HoldInv'
    BY <1>0, <1>6, <2>3, Zenon DEF Unregistered, Unwind, EndSteps
  <2> QED BY <1>10, <2>1, <2>2, <2>3, Zenon
          DEF _listen_socket_comms_adapter, _spawn_comms_adapter
<1>11. ASSUME NEW s \in TrySteps, s # "ready_wire", NEW r,
              _emit_or_quarantine(s, r)
       PROVE  HoldInv'
  <2>1. CASE storeUp
    BY <1>7, <1>11, <2>1, Zenon DEF _emit_or_quarantine
  <2>2. CASE ~storeUp
    BY <1>0, <1>6, <1>11, <2>2, Zenon DEF _emit_or_quarantine, Unwind, EndSteps
  <2> QED BY <2>1, <2>2, Zenon
<1>12. CASE EmitCompleted \/ _emit_ready
  BY <1>11, <1>12, Lists, Zenon DEF EmitCompleted, _emit_ready
<1>13. CASE broadcast_ready \/ Interrupt \/ Signal
  BY <1>0, <1>6, <1>13, Zenon DEF broadcast_ready, Interrupt, Signal, Unwind,
       EndSteps
<1>14. CASE _emit_going_down \/ Drained \/ SaveBreakers
  BY <1>0, <1>6, <1>14, NextRelease, Zenon DEF _emit_going_down, Drained, SaveBreakers,
       EndSteps
<1>15. CASE ForceCancel \/ InterruptStop
  <2>1. step' \in Free
    BY <1>15, NextRelease, Zenon DEF ForceCancel, InterruptStop, EndSteps
  <2>2. held' \subseteq held /\ stranded \subseteq stranded'
    BY <1>15, Zenon DEF ForceCancel, InterruptStop, PumpCancelled
  <2> QED BY <1>0, <1>6, <2>1, <2>2, Zenon
<1>16. CASE Release
  <2>1. step \in {"reap_child", "close_store", "close_listener", "close_control", "delete_pidfile"}
    BY <1>16, NextRelease, Zenon DEF Release, ReleaseSteps
  <2>2. step' = IF step = "delete_pidfile" THEN "off" ELSE NextOf(Releases, step)
    BY <1>16, NextRelease, Zenon DEF Release, AfterRelease
  <2>3. held' \subseteq held /\ stranded \subseteq stranded'
    BY <1>16, Zenon DEF Release, Freed, Strands
  <2>4. ReleaseOf[step] \in held' => ReleaseOf[step] \in stranded'
    BY <1>16, Zenon DEF Release, Freed, Strands, Pending
  <2>5. HeldAt(step) \subseteq HeldAt(step') \cup {ReleaseOf[step]}
    <3>1. /\ HeldAt("reap_child") = {"child", "listener", "control", "pidfile", "content_store"}
          /\ HeldAt("close_store") = {"content_store", "listener", "control", "pidfile"}
          /\ HeldAt("close_listener") = {"listener", "control", "pidfile"}
          /\ HeldAt("close_control") = {"control", "pidfile"}
          /\ HeldAt("delete_pidfile") = {"pidfile"}
      <4>1. HeldAt("reap_child") = {"child", "listener", "control", "pidfile", "content_store"}
        BY HeldWhile, Zenon
      <4> QED BY <4>1, Lists, Zenon DEF HeldAt
    <3>2. /\ ReleaseOf["reap_child"] = "child" /\ ReleaseOf["close_store"] = "content_store"
          /\ ReleaseOf["close_listener"] = "listener" /\ ReleaseOf["close_control"] = "control"
          /\ ReleaseOf["delete_pidfile"] = "pidfile"
      BY DEF ReleaseOf
    <3> QED BY <2>1, <2>2, <3>1, <3>2, NextRelease, Zenon
  <2> QED BY <2>3, <2>4, <2>5, Zenon DEF HoldInv
<1>17. CASE InterruptRelease
  <2>1. step \in {"reap_child", "close_store", "close_listener", "close_control"}
    BY <1>17, NextRelease, Zenon DEF InterruptRelease, ReleaseSteps
  <2>2. held' \subseteq held
    BY <1>17, Zenon DEF InterruptRelease, Freed
  <2>3. stranded' = stranded \cup (From(step) \cap held')
    BY <1>17, Zenon DEF InterruptRelease, Strands
  <2> QED BY <2>1, <2>2, <2>3, HeldFrom, Zenon DEF HoldInv
<1>18. CASE Tasks
  <2>1. step' = step /\ held' \subseteq held /\ stranded' = stranded
    BY <1>18, Zenon DEF Tasks, run_one_heartbeat, _emit_transition, TaskEnds,
         _accept_and_pump, GroupFails, taskless, bootVars
  <2> QED BY <2>1, Zenon DEF HoldInv
<1>19. CASE Control \/ StoreLost \/ StoreBack \/ UNCHANGED dvars
  BY <1>19, Zenon DEF Control, _on_connect, _serve_connection, StoreLost, StoreBack, dvars,
       bootVars, HoldInv
<1> QED BY <1>1, <1>3, <1>4, <1>5, <1>9, <1>10, <1>12, <1>13, <1>14, <1>15, <1>16, <1>17,
           <1>18, <1>19, Zenon
        DEF DaemonNext, Booting, Finally

\* From the supervisor's start on the try goes through steps at which the group may be open.
LEMMA NextOpen ==
  \A s \in TrySteps \ {"supervisor", "pidfile", "ready_wire"} :
     NextOf(Trying, s) \in TrySteps \ {"supervisor", "pidfile", "start"}
<1>1. DOMAIN Trying = 1 .. 9
  BY DEF Trying
<1>2. /\ Trying[1] = "supervisor" /\ Trying[2] = "pidfile" /\ Trying[3] = "start"
      /\ Trying[4] = "carrier" /\ Trying[5] = "control" /\ Trying[6] = "completed"
      /\ Trying[7] = "hook" /\ Trying[8] = "ready_row" /\ Trying[9] = "ready_wire"
  BY Zenon DEF Trying
<1> SUFFICES ASSUME NEW s \in TrySteps \ {"supervisor", "pidfile", "ready_wire"}
             PROVE  NextOf(Trying, s) \in TrySteps \ {"supervisor", "pidfile", "start"}
  BY Zenon
<1> DEFINE i == CHOOSE j \in DOMAIN Trying : Trying[j] = s
<1>3. i \in 1 .. 9 /\ Trying[i] = s
  BY <1>1, Zenon DEF TrySteps
<1>4. NextOf(Trying, s) = Trying[1 + i]
  BY Zenon DEF NextOf
<1> HIDE DEF i
<1>5. i = 3 \/ i = 4 \/ i = 5 \/ i = 6 \/ i = 7 \/ i = 8
  <2>1. i # 1 /\ i # 2 /\ i # 9
    BY <1>2, <1>3, Zenon
  <2> QED BY <1>3, <2>1
<1>6. NextOf(Trying, s) \in {"carrier", "control", "completed", "hook", "ready_row", "ready_wire"}
  BY <1>2, <1>4, <1>5
<1> QED BY <1>6, Lists, Zenon

\* The steps at which the group is shut, spelt out.
LEMMA Shut ==
  ShutSteps = {"settings", "unsandboxed", "launcher", "snapshot", "handshake",
               "infra", "grant", "nonce", "secrets", "multi_adapter",
               "reap_child", "close_store", "close_listener", "close_control", "delete_pidfile",
               "off", "content_store", "child", "wiring", "supervisor", "pidfile", "start", "saving"}
  BY Lists, NextRelease, Zenon DEF ShutSteps, ReleaseSteps

\* The pump owns the adapter's child: it is held only while the pump lives, or stranded.
LEMMA PumpNext == PumpInv /\ [DaemonNext]_dvars => PumpInv'
<1> SUFFICES ASSUME PumpInv, [DaemonNext]_dvars PROVE PumpInv'
  BY Zenon
<1>a. ASSUME group' = group, members' = members, stranded \subseteq stranded',
             "adapter" \in held' => "adapter" \in held \/ "adapter" \in stranded',
             group = "open" => step' \notin ShutSteps
      PROVE  PumpInv'
  BY <1>a, Zenon DEF PumpInv
<1>b. step \in ShutSteps => group # "open"
  BY Zenon DEF PumpInv
<1>1. CASE start_daemon \/ Killed
  BY <1>1, Zenon DEF start_daemon, Killed, PumpInv
<1>2. ASSUME NEW s \in CheckSteps, NEW canPass, Check(s, canPass) PROVE PumpInv'
  <2>1. step = s /\ held' = held /\ stranded' = stranded /\ group' = group /\ members' = members
    BY <1>2, Zenon DEF Check, taskVars
  <2>2. step \in ShutSteps
    BY <2>1, Zenon DEF ShutSteps
  <2> QED BY <1>a, <1>b, <2>1, <2>2, Zenon
<1>3. CASE Checking
  BY <1>2, <1>3, Lists, Zenon DEF Checking, _load_settings_or_die, RefuseUnsandboxed,
       probe_launcher_policy_resolving, probe_snapshot_ref_init,
       probe_capability_gate_handshake,
       InstallBootInfra, RequireFirstPartyGrant, create_and_register_t3_nonce,
       _build_boot_outbound_dlp, RefuseMultiAdapter
<1>4. CASE _build_comms_boot_graph \/ GraphFails
  <2>1. /\ group' = group /\ members' = members
        /\ step \in {"content_store", "child", "wiring"}
    BY <1>4, Zenon DEF _build_comms_boot_graph, OpenContentStore,
         _build_comms_inbound_extractor, WireGraph, GraphStep, GraphFails, taskVars
  <2>2. group # "open"
    BY <1>b, <2>1, Shut, Zenon
  <2>3. CASE _build_comms_boot_graph
    <3>1. /\ held' \subseteq held \cup {"content_store", "child"}
          /\ stranded' = stranded
      BY <2>3, Zenon DEF _build_comms_boot_graph, OpenContentStore,
           _build_comms_inbound_extractor, WireGraph, GraphStep
    <3>2. "adapter" \in held' => "adapter" \in held
      BY <3>1, Zenon
    <3> QED BY <1>a, <2>1, <2>2, <3>1, <3>2, Zenon
  <2>4. CASE GraphFails
    BY <2>1, <2>2, <2>4, Zenon DEF GraphFails, PumpInv
  <2> QED BY <1>4, <2>3, <2>4, Zenon
<1>5. ASSUME NEW s \in TrySteps, s # "ready_wire", NEW what, "adapter" \notin what,
             Takes(s, what), UNCHANGED taskVars
      PROVE  PumpInv'
  <2>1. step = s /\ step' = NextOf(Trying, s) /\ held' = held \cup what /\ stranded' = stranded
    BY <1>5, Zenon DEF Takes
  <2>2. group = "open" => s \notin {"supervisor", "pidfile"}
    BY <1>b, <2>1, Shut, Zenon
  <2>3. group = "open" => step' \in TrySteps \ {"supervisor", "pidfile", "start"}
    BY <1>5, <2>1, <2>2, NextOpen, Zenon
  <2>4. group = "open" => step' \notin ShutSteps
    BY <2>3, Shut, Lists, Zenon
  <2> QED BY <1>5, <1>a, <2>1, <2>4, Zenon DEF taskVars
<1>6. ASSUME step' = "going_down", UNCHANGED taskVars, stranded \subseteq stranded',
             "adapter" \in held' => "adapter" \in held \/ "adapter" \in stranded'
      PROVE  PumpInv'
  BY <1>6, <1>a, Shut, Zenon DEF taskVars
<1>7. ASSUME NEW s, Raises(s) PROVE PumpInv'
  BY <1>6, <1>7, Zenon DEF Raises, Unwind
<1>8. CASE ConstructSupervisor \/ write_pidfile \/ NoAdapter
           \/ StartControlServer \/ _invoke_boot_completed
  BY <1>5, <1>7, <1>8, Lists, Zenon DEF ConstructSupervisor, write_pidfile, NoAdapter,
       StartControlServer, _invoke_boot_completed
<1>9. CASE start
  <2>1. step = "start" /\ step' = NextOf(Trying, "start") /\ held' = held /\ stranded' = stranded
    BY <1>9, Zenon DEF start, Takes
  <2>2. step' \notin ShutSteps
    BY <2>1, NextOpen, Shut, Lists, Zenon
  <2>3. members = {}
    BY <1>b, <2>1, Shut, Zenon DEF PumpInv
  <2> QED BY <1>9, <2>1, <2>2, <2>3, Zenon DEF start, PumpInv
<1>10. CASE _listen_socket_comms_adapter \/ _spawn_comms_adapter
  <2>1. CASE RefusedOrRaised
    BY <1>6, <2>1, Zenon DEF RefusedOrRaised, _build_comms_adapter_wiring, Unwind
  <2>2. ASSUME NEW what, Unregistered(what) PROVE PumpInv'
    BY <1>6, <2>2, Zenon DEF Unregistered, Unwind
  <2>3. ASSUME NEW what, Carried(what) PROVE PumpInv'
    <3>1. step' = NextOf(Trying, "carrier") /\ group' = group /\ group = "open"
          /\ "pump" \in members'
      BY <2>3, Zenon DEF Carried, Takes
    <3>2. step' \notin ShutSteps
      BY <3>1, NextOpen, Shut, Lists, Zenon
    <3> QED BY <3>1, <3>2, Zenon DEF PumpInv
  <2> QED BY <1>10, <2>1, <2>2, <2>3, Zenon
          DEF _listen_socket_comms_adapter, _spawn_comms_adapter
<1>11. ASSUME NEW s \in TrySteps, s # "ready_wire", NEW r, _emit_or_quarantine(s, r)
       PROVE  PumpInv'
  <2>1. CASE storeUp
    BY <1>5, <1>11, <2>1, Zenon DEF _emit_or_quarantine
  <2>2. CASE ~storeUp
    BY <1>6, <1>11, <2>2, Zenon DEF _emit_or_quarantine, Unwind
  <2> QED BY <2>1, <2>2, Zenon
<1>12. CASE EmitCompleted \/ _emit_ready
  BY <1>11, <1>12, Lists, Zenon DEF EmitCompleted, _emit_ready
<1>13. CASE broadcast_ready \/ Signal
  <2>1. /\ step' \in {"waiting", "going_down"} /\ UNCHANGED <<held, stranded, taskVars>>
    BY <1>13, Zenon DEF broadcast_ready, Signal
  <2> QED BY <1>a, <2>1, Shut, Zenon DEF taskVars
<1>14. CASE Interrupt
  <2>1. step' = "going_down" /\ held' = held /\ stranded' = stranded
    BY <1>14, Zenon DEF Interrupt, Unwind
  <2>2. CASE step = "start"
    <3>1. members = {}
      BY <1>b, <2>2, Shut, Zenon DEF PumpInv
    <3> QED BY <1>14, <2>1, <2>2, <3>1, Shut, Zenon DEF Interrupt, PumpInv
  <2>3. CASE step # "start"
    BY <1>14, <1>a, <2>1, <2>3, Shut, Zenon DEF Interrupt
  <2> QED BY <2>2, <2>3, Zenon
<1>15. CASE _emit_going_down
  <2>1. UNCHANGED <<held, stranded, taskVars>>
    BY <1>15, Zenon DEF _emit_going_down
  <2>2. group = "open" => step' = "draining"
    BY <1>15, Zenon DEF _emit_going_down
  <2> QED BY <1>a, <2>1, <2>2, Shut, Zenon DEF taskVars
<1>16. CASE Drained
  BY <1>16, Zenon DEF Drained, PumpInv
<1>17. CASE ForceCancel \/ InterruptStop
  <2>1. /\ group' # "open" /\ members' = {}
    BY <1>17, Zenon DEF ForceCancel, InterruptStop
  <2>2. "adapter" \in held' => "adapter" \in stranded'
    BY <1>17, Zenon DEF ForceCancel, InterruptStop, PumpCancelled, PumpInv
  <2> QED BY <2>1, <2>2, Zenon DEF PumpInv
<1>18. CASE SaveBreakers \/ Release \/ InterruptRelease
  <2>1. group' = group /\ members' = members /\ held' \subseteq held /\ stranded \subseteq stranded'
    <3>1. UNCHANGED taskVars
      BY <1>18, Zenon DEF SaveBreakers, Release, InterruptRelease
    <3>2. CASE SaveBreakers
      BY <3>1, <3>2, Zenon DEF SaveBreakers, taskVars
    <3>3. CASE Release
      BY <3>1, <3>3, Zenon DEF Release, Freed, Strands, taskVars
    <3>4. CASE InterruptRelease
      <4>1. held' \subseteq held
        BY <3>4, Zenon DEF InterruptRelease, Freed
      <4>2. stranded \subseteq stranded'
        BY <3>4, Zenon DEF InterruptRelease, Strands
      <4> QED BY <3>1, <4>1, <4>2, Zenon DEF taskVars
    <3> QED BY <1>18, <3>2, <3>3, <3>4, Zenon
  <2>2. step \in ShutSteps
    BY <1>18, Zenon DEF SaveBreakers, Release, InterruptRelease, ShutSteps
  <2> QED BY <1>a, <1>b, <2>1, <2>2, Zenon
<1>19. CASE Tasks
  <2>0. step' = step /\ stranded' = stranded
    BY <1>19, Zenon DEF Tasks, run_one_heartbeat, _emit_transition, TaskEnds,
         _accept_and_pump, taskless, bootVars
  <2>1. CASE group' = "failed" /\ members' = {} /\ held' = held \ {"adapter"}
    BY <2>1, Zenon DEF PumpInv
  <2>2. CASE UNCHANGED <<held, group, members>>
    BY <1>a, <1>b, <2>0, <2>2, Zenon
  <2>3. CASE TaskEnds
    <3>1. group' = group /\ group = "open"
      BY <2>3, Zenon DEF TaskEnds
    <3>2. PICK m \in members : /\ members' = members \ {m}
                               /\ held' = IF m = "pump" THEN held \ {"adapter"} ELSE held
      BY <2>3, Zenon DEF TaskEnds
    <3> QED BY <2>0, <3>1, <3>2, Zenon DEF PumpInv
  <2> QED BY <1>19, <2>1, <2>2, <2>3, Zenon DEF Tasks, run_one_heartbeat, _emit_transition,
            _accept_and_pump, GroupFails, bootVars
<1>20. CASE Control \/ StoreLost \/ StoreBack \/ UNCHANGED dvars
  BY <1>20, Zenon DEF Control, _on_connect, _serve_connection, StoreLost, StoreBack, dvars,
       bootVars, taskVars, PumpInv
<1> QED BY <1>1, <1>3, <1>4, <1>8, <1>9, <1>10, <1>12, <1>13, <1>14, <1>15, <1>16, <1>17,
           <1>18, <1>19, <1>20, Zenon
        DEF DaemonNext, Booting, Finally

\* The control server counts a connection in and out exactly once.
LEMMA SlotNext == SlotInv /\ [DaemonNext]_dvars => SlotInv'
<1> SUFFICES ASSUME SlotInv, [DaemonNext]_dvars PROVE SlotInv'
  BY Zenon
<1>0. IsFiniteSet(conns) /\ inFlight = Cardinality(conns)
  BY Zenon DEF SlotInv
<1>a. ASSUME IsFiniteSet(conns'), inFlight' = Cardinality(conns') PROVE SlotInv'
  BY <1>a, Zenon DEF SlotInv
<1>1. CASE _on_connect
  <2>1. PICK c \in Conns \ conns : conns' = conns \cup {c} /\ inFlight' = inFlight + 1
    BY <1>1, Zenon DEF _on_connect
  <2> QED BY <1>0, <1>a, <2>1, FS_AddElement, Zenon
<1>2. CASE _serve_connection
  <2>1. PICK c \in conns : conns' = conns \ {c} /\ inFlight' = inFlight - 1
    BY <1>2, Zenon DEF _serve_connection
  <2> QED BY <1>0, <1>a, <2>1, FS_RemoveElement, Zenon
<1>3. CASE Killed \/ InterruptRelease
  <2>1. conns' = {} /\ inFlight' = 0
    BY <1>3, Zenon DEF Killed, InterruptRelease
  <2> QED BY <1>a, <2>1, FS_EmptySet, Zenon
<1>4. CASE UNCHANGED srvVars
  BY <1>4, Zenon DEF srvVars, SlotInv
<1>5. ASSUME NEW s, NEW canPass, Check(s, canPass) PROVE UNCHANGED srvVars
  BY <1>5, Zenon DEF Check
<1>6. CASE Checking
  BY <1>4, <1>5, <1>6, Zenon DEF Checking, _load_settings_or_die, RefuseUnsandboxed,
       probe_launcher_policy_resolving, probe_snapshot_ref_init,
       probe_capability_gate_handshake,
       InstallBootInfra, RequireFirstPartyGrant, create_and_register_t3_nonce,
       _build_boot_outbound_dlp, RefuseMultiAdapter
<1>7. CASE \/ start_daemon \/ _build_comms_boot_graph \/ GraphFails
           \/ ConstructSupervisor \/ write_pidfile \/ start \/ NoAdapter
  <2>1. UNCHANGED srvVars
    BY <1>7, Zenon DEF start_daemon, _build_comms_boot_graph, OpenContentStore,
       _build_comms_inbound_extractor, WireGraph, GraphStep,
       GraphFails, ConstructSupervisor,
       write_pidfile, start, NoAdapter, Raises
  <2> QED BY <1>4, <2>1, Zenon
<1>8. CASE \/ _listen_socket_comms_adapter \/ _spawn_comms_adapter
           \/ StartControlServer \/ EmitCompleted \/ _invoke_boot_completed
           \/ _emit_ready \/ broadcast_ready \/ Interrupt \/ Signal
  <2>1. UNCHANGED srvVars
    BY <1>8, Zenon DEF _listen_socket_comms_adapter, _spawn_comms_adapter, Carried,
         Unregistered, RefusedOrRaised,
       StartControlServer, Raises, EmitCompleted, _emit_or_quarantine,
       _invoke_boot_completed,
       _emit_ready, broadcast_ready, Interrupt, Signal
  <2> QED BY <1>4, <2>1, Zenon
<1>9. CASE Finally \/ InterruptStop \/ Tasks \/ StoreLost \/ StoreBack
           \/ UNCHANGED dvars
  <2>1. UNCHANGED srvVars
    BY <1>9, Zenon DEF Finally, _emit_going_down, Drained, ForceCancel,
         SaveBreakers, Release, InterruptStop, Tasks,
       run_one_heartbeat, _emit_transition, TaskEnds, _accept_and_pump,
       StoreLost, StoreBack, dvars
  <2> QED BY <1>4, <2>1, Zenon
<1> QED BY <1>1, <1>2, <1>3, <1>6, <1>7, <1>8, <1>9, Zenon DEF DaemonNext, Booting, Control

\* Every behaviour of the daemon has the three invariants.
LEMMA DaemonHolds == DaemonSpec => [](HoldInv /\ PumpInv /\ SlotInv)
<1>1. DaemonInit => HoldInv /\ PumpInv /\ SlotInv
  BY HoldInit, Zenon
<1>2. (HoldInv /\ PumpInv /\ SlotInv) /\ [DaemonNext]_dvars => (HoldInv /\ PumpInv /\ SlotInv)'
  BY HoldNext, PumpNext, SlotNext, Zenon
<1> QED BY <1>1, <1>2, PTL DEF DaemonSpec

\* A daemon that exited other than by a kill holds no child, socket or pidfile but what its
\* own release failed to give back, a SIGINT in the finally cut off, or a failed registration
\* left without an owner: one failure on the way out costs no other resource.  And the
\* control server's count of connections is right.  For every number of boots, outages and
\* connections.
THEOREM ExitHoldsNothing == DaemonSpec => []ExitReleases
<1>1. HoldInv /\ PumpInv /\ SlotInv => ExitReleases
  <2> SUFFICES ASSUME HoldInv, PumpInv, SlotInv, step = "off"
               PROVE  held \cap Outliving \subseteq stranded
    BY Zenon DEF SlotInv, ExitReleases
  <2>1. held \ {"adapter"} \subseteq stranded
    BY HeldWhile, Zenon DEF HoldInv
  <2>2. members = {}
    BY Shut, Zenon DEF PumpInv
  <2>3. "adapter" \in held => "adapter" \in stranded
    BY <2>2, Zenon DEF PumpInv
  <2> QED BY <2>1, <2>3, Zenon
<1> QED BY <1>1, DaemonHolds, PTL
-----------------------------------------------------------------------------
(* The provider calls: what a day can bill. *)

\* Multiples of a natural: f of n parts are no more than n of them.
LEMMA Scaled ==
    ASSUME NEW n \in Nat, NEW f \in 0 .. n, NEW p \in Nat
    PROVE  f * p \in Nat /\ f * p <= n * p /\ n * p \in Nat
           /\ (f > 0 => (f - 1) * p = f * p - p) /\ (n # 0 => p <= n * p)
<1>1. PICK d \in Nat : n = f + d
  <2>1. n - f \in Nat /\ n = f + (n - f)
    OBVIOUS
  <2> QED BY <2>1, Zenon
<1>2. n * p = f * p + d * p
  BY <1>1
<1>3. f * p \in Nat /\ d * p \in Nat
  OBVIOUS
<1>4. (f - 1) * p = f * p - p
  OBVIOUS
<1>5. ASSUME n # 0 PROVE p <= n * p
  <2>1. n - 1 \in Nat /\ n * p = p + (n - 1) * p
    BY <1>5
  <2>2. (n - 1) * p \in Nat
    BY <2>1
  <2> QED BY <2>1, <2>2
<1> QED BY <1>2, <1>3, <1>4, <1>5

\* Balance starts, survives the reservation of a call, its answer, a lost call and a changed cap.
LEMMA Balances ==
    ASSUME NEW n \in Nat \ {0}, NEW f \in 0 .. n, NEW cap \in Nat, NEW s \in Nat, NEW u \in Nat,
           NEW k \in Nat
    PROVE  /\ (f > 0 => cap >= PerCall \/ k >= 1) => Balance(n, f, cap, 0, 0, k)
           /\ Balance(n, f, cap, s, u, k) =>
                 /\ \A c \in Nat : Balance(n, f, c, s, u, k + 1)
                 /\ \A g \in 0 .. n : (g <= f \/ s + PerCall <= cap)
                    => Balance(n, g, cap, s, u, k)
                 /\ \A c \in Nat : f > 0 /\ c <= PerCall =>
                       IF s + c <= cap THEN Balance(n, f - 1, cap, s + c, u, k)
                       ELSE Balance(n, f - 1, cap, s, u + c, k)
<1> DEFINE np == n * PerCall
           fp == f * PerCall
           z == np * k
<1>1. PerCall \in Nat
  BY ProviderAssumption, Zenon
<1>2. np \in Nat /\ fp \in Nat /\ fp <= np /\ PerCall <= np
      /\ (f > 0 => (f - 1) * PerCall = fp - PerCall)
  BY <1>1, Scaled, Zenon
<1>3. \A g \in 0 .. n : g * PerCall \in Nat /\ g * PerCall <= np
  BY <1>1, Scaled, Zenon
<1>4. \A g \in 0 .. f : g * PerCall <= fp
  BY <1>1, Scaled
<1> HIDE DEF np
<1>5. z \in Nat /\ np * (k + 1) = z + np /\ (k >= 1 => z >= np)
  <2>1. z \in Nat /\ np * (k + 1) = z + np
    BY <1>2
  <2>2. ASSUME k >= 1 PROVE z >= np
    <3>1. k - 1 \in Nat /\ z = np + np * (k - 1)
      BY <1>2, <2>2
    <3>2. np * (k - 1) \in Nat
      BY <3>1, <1>2
    <3> QED BY <1>2, <3>1, <3>2
  <2> QED BY <2>1, <2>2, Zenon
<1> HIDE DEF fp, z
<1>6. \A g, c, t, v : Balance(n, g, c, t, v, k) <=>
         /\ t + PerCall <= c => v <= z
         /\ t + PerCall > c => v + g * PerCall <= z + np - PerCall
  BY Zenon DEF Balance, np, z
<1>7. \A c : Balance(n, f, c, s, u, k + 1) <=>
         /\ s + PerCall <= c => u <= z + np
         /\ s + PerCall > c => u + fp <= z + np + np - PerCall
  BY <1>5, Zenon DEF Balance, np, fp
<1>8. (f > 0 => cap >= PerCall \/ k >= 1) => Balance(n, f, cap, 0, 0, k)
  <2>1. CASE f = 0
    BY <1>1, <1>2, <1>5, <1>6, <2>1
  <2>2. CASE f > 0
    BY <1>1, <1>2, <1>5, <1>6, <2>2 DEF fp
  <2> QED BY <2>1, <2>2
<1>9. ASSUME Balance(n, f, cap, s, u, k)
      PROVE  /\ \A c \in Nat : Balance(n, f, c, s, u, k + 1)
             /\ \A g \in 0 .. n : (g <= f \/ s + PerCall <= cap)
                => Balance(n, g, cap, s, u, k)
             /\ \A c \in Nat : f > 0 /\ c <= PerCall =>
                   IF s + c <= cap THEN Balance(n, f - 1, cap, s + c, u, k)
                   ELSE Balance(n, f - 1, cap, s, u + c, k)
  <2>0. (s + PerCall <= cap => u <= z) /\ (s + PerCall > cap => u + fp <= z + np - PerCall)
    BY <1>6, <1>9, Zenon DEF fp
  <2>1. \A c \in Nat : Balance(n, f, c, s, u, k + 1)
    BY <1>1, <1>2, <1>5, <1>7, <2>0
  <2>2. ASSUME NEW g \in 0 .. n, g <= f \/ s + PerCall <= cap
               PROVE Balance(n, g, cap, s, u, k)
    <3>1. CASE s + PerCall <= cap
      BY <1>1, <1>6, <2>0, <3>1
    <3>2. CASE ~(s + PerCall <= cap)
      <4>1. g * PerCall \in Nat /\ g * PerCall <= fp
        BY <1>3, <1>4, <2>2, <3>2
      <4> QED BY <1>1, <1>2, <1>5, <1>6, <2>0, <3>2, <4>1
    <3> QED BY <3>1, <3>2, Zenon
  <2>3. ASSUME NEW c \in Nat, f > 0, c <= PerCall
        PROVE  IF s + c <= cap THEN Balance(n, f - 1, cap, s + c, u, k)
               ELSE Balance(n, f - 1, cap, s, u + c, k)
    BY <1>1, <1>2, <1>5, <1>6, <2>0, <2>3
  <2> QED BY <2>1, <2>2, <2>3, Zenon
<1> QED BY <1>8, <1>9, Zenon

\* There is at least one turn.
LEMMA TurnCount == Cardinality(Turns) \in Nat \ {0}
  BY ProviderAssumption, FS_CardinalityType, FS_EmptySet, Zenon

\* The calls out are no more than the turns, and one more or one less when a turn moves.
LEMMA FlyingCount ==
    LET f == Cardinality(Flying)
        n == Cardinality(Turns)
    IN  /\ f \in 0 .. n
        /\ \A t \in Flying : Cardinality(Flying \ {t}) = f - 1 /\ f > 0
        /\ \A t \in Turns \ Flying :
               Cardinality(Flying \cup {t}) = f + 1 /\ f + 1 <= n
<1>1. IsFiniteSet(Turns) /\ Flying \subseteq Turns
  BY ProviderAssumption, Zenon DEF Flying
<1>2. \A S \in SUBSET Turns : IsFiniteSet(S) /\ Cardinality(S) \in Nat
                              /\ Cardinality(S) <= Cardinality(Turns)
  BY <1>1, FS_Subset, FS_CardinalityType, Zenon
<1> DEFINE f == Cardinality(Flying)
           n == Cardinality(Turns)
<1>3. \A t \in Flying : Cardinality(Flying \ {t}) = f - 1
  BY <1>1, <1>2, FS_RemoveElement, Zenon
<1>4. \A t \in Turns \ Flying : Cardinality(Flying \cup {t}) = f + 1
  BY <1>1, <1>2, FS_AddElement, Zenon
<1>5. \A t \in Flying : Cardinality(Flying \ {t}) \in Nat
  BY <1>1, <1>2, Zenon
<1>6. \A t \in Turns \ Flying : Cardinality(Flying \cup {t}) <= n
  BY <1>1, <1>2, Zenon
<1>7. f \in Nat /\ n \in Nat /\ f <= n
  BY <1>1, <1>2, Zenon
<1>8. \A t \in Flying : f > 0
  <2> SUFFICES ASSUME NEW t \in Flying PROVE f > 0
    BY Zenon
  <2>1. f - 1 \in Nat
    BY <1>3, <1>5, Zenon
  <2> QED BY <1>7, <2>1
<1>9. \A t \in Turns \ Flying : f + 1 <= n
  BY <1>4, <1>6, Zenon
<1> HIDE DEF f, n
<1>10. f \in 0 .. n
  BY <1>7
<1> QED BY <1>3, <1>4, <1>8, <1>9, <1>10, Zenon DEF f, n

\* Nothing is billed at first.
LEMMA SpendInit == ProviderInit => SpendInv
<1> SUFFICES ASSUME ProviderInit PROVE SpendInv
  BY Zenon
<1>1. Flying = {}
  BY Zenon DEF ProviderInit, IdleTurn, Flying
<1>2. Cardinality(Flying) = 0
  BY <1>1, FS_EmptySet, Zenon
<1>3. row \in Nat /\ sets = 0 /\ version = 1 /\ billed = 0 /\ highest = 0
      /\ DOMAIN turn = Turns /\ \A t \in Turns : "at" \in DOMAIN turn[t]
  BY ProviderAssumption, Zenon DEF ProviderInit, IdleTurn
<1>4. entry = NoEntry
  BY Zenon DEF ProviderInit
<1>5. Balance(Cardinality(Turns), 0, 0, 0, 0, 0)
  BY TurnCount, Balances
<1>6. Recorded(entry) = 0 /\ Applied(entry) = 0
  BY <1>3, <1>4, Zenon DEF Recorded, Applied, NoEntry
<1> QED BY <1>2, <1>3, <1>4, <1>5, <1>6 DEF SpendInv, Ledger, NoEntry

\* The guard's entry once loaded: a changed cap is one more change applied.
LEMMA Reloaded ==
    ASSUME SpendInv, Known, NEW hi,
           hi = Greater(highest, _load_or_get_user.cap)
    PROVE  LET e == _load_or_get_user IN
           /\ e \in [cap : Nat, ver : Nat, today : BOOLEAN, spent : Nat] /\ e.ver <= version
           /\ e.ver # 0 /\ hi \in Nat
           /\ e.cap <= hi /\ Recorded(e) <= hi
              /\ Recorded(e) = Recorded(entry)
           /\ Applied(e) \in Nat
           /\ Cardinality(Flying) > 0 => e.cap >= PerCall
              \/ Applied(e) >= 1
           /\ Balance(Cardinality(Turns), Cardinality(Flying),
              e.cap, Recorded(e),
                      billed - Recorded(e), Applied(e))
<1> DEFINE e == _load_or_get_user
           f == Cardinality(Flying)
           n == Cardinality(Turns)
           s == Recorded(entry)
<1>0. Ledger(entry, f) /\ version \in Nat \ {0} /\ row \in Nat /\ sets \in Nat /\ highest \in Nat
  BY Zenon DEF SpendInv
<1>1. /\ entry \in [cap : Nat, ver : Nat, today : BOOLEAN, spent : Nat] /\ entry.ver <= version
      /\ entry.cap <= highest /\ s <= highest /\ s \in Nat
      /\ Applied(entry) \in Nat /\ billed - s \in Nat
      /\ entry.ver = 0 => billed = 0 /\ f = 0
      /\ f > 0 => entry.cap >= PerCall \/ Applied(entry) >= 1
      /\ Balance(n, f, entry.cap, s, billed - s, Applied(entry))
  BY <1>0, Zenon DEF Ledger, Recorded
<1>2. n \in Nat \ {0} /\ f \in 0 .. n
  BY TurnCount, FlyingCount, Zenon
<1>3. CASE entry.ver >= version
  <2>1. e = entry
    BY <1>3, Zenon DEF _load_or_get_user
  <2>2. hi = highest
    BY <1>0, <1>1, <2>1 DEF Greater
  <2> QED BY <1>0, <1>1, <1>3, <2>1, <2>2
<1>4. CASE ~(entry.ver >= version)
  <2>1. e = [entry EXCEPT !.cap = row, !.ver = version]
    BY <1>4, Zenon DEF _load_or_get_user
  <2>2. /\ e \in [cap : Nat, ver : Nat, today : BOOLEAN, spent : Nat]
        /\ e.cap = row /\ e.ver = version /\ e.today = entry.today /\ e.spent = entry.spent
    BY <1>0, <1>1, <2>1, Zenon
  <2> HIDE DEF e
  <2>3. Recorded(e) = s
    BY <2>2, Zenon DEF Recorded
  <2>4. hi \in Nat /\ e.cap <= hi /\ s <= hi
    BY <1>0, <1>1, <2>2 DEF Greater, e
  <2>5. Applied(e) = sets
    BY <2>2, Zenon DEF Applied
  <2>6. CASE entry.ver = 0
    <3>1. Balance(n, f, row, 0, 0, sets) /\ s = 0 /\ billed - s = 0
      BY <1>0, <1>1, <1>2, <2>6, Balances
    <3> QED BY <1>0, <1>1, <2>2, <2>3, <2>4, <2>5, <2>6, <3>1 DEF e
  <2>7. CASE entry.ver # 0 /\ row = entry.cap
    <3>1. Applied(entry) = sets
      BY <2>7, Zenon DEF Applied
    <3> QED BY <1>0, <1>1, <2>2, <2>3, <2>4, <2>5, <2>7, <3>1 DEF e
  <2>8. CASE entry.ver # 0 /\ row # entry.cap
    <3>1. Applied(entry) = sets - 1 /\ sets = Applied(entry) + 1
      BY <1>0, <2>8 DEF Applied
    <3>2. Balance(n, f, row, s, billed - s, Applied(entry) + 1)
      BY <1>0, <1>1, <1>2, Balances, Zenon
    <3>3. sets >= 1
      BY <1>0, <1>1, <3>1
    <3> QED BY <1>0, <1>1, <2>2, <2>3, <2>4, <2>5, <3>1, <3>2, <3>3 DEF e
  <2> QED BY <2>6, <2>7, <2>8, Zenon
<1> QED BY <1>3, <1>4, <1>0, <1>1, Zenon

\* One turn moves: its call is out afterwards or it is not.
LEMMA Moved ==
    ASSUME SpendInv, NEW t \in Turns, NEW x, "at" \in DOMAIN x, turn' = [turn EXCEPT ![t] = x]
    PROVE  /\ DOMAIN turn' = Turns /\ \A u \in Turns : "at" \in DOMAIN turn'[u]
           /\ x.at \in {"primary", "fallback"} => Flying' = Flying \cup {t}
           /\ x.at \notin {"primary", "fallback"} => Flying' = Flying \ {t}
  BY Zenon DEF SpendInv, Flying

\* A turn moves without a new call while the ledger stays as it is.
LEMMA NoCall ==
    ASSUME SpendInv, UNCHANGED <<entry, row, version, sets, billed, highest>>,
           DOMAIN turn' = Turns, \A u \in Turns : "at" \in DOMAIN turn'[u],
           Cardinality(Flying)' \in Nat,
           Cardinality(Flying)' <= Cardinality(Flying)
    PROVE  SpendInv'
<1> DEFINE f == Cardinality(Flying)
           n == Cardinality(Turns)
<1>1. n \in Nat \ {0} /\ f \in 0 .. n
  BY TurnCount, FlyingCount, Zenon
<1>2. Ledger(entry, f)
  BY Zenon DEF SpendInv
<1>3. Recorded(entry)' = Recorded(entry) /\ Applied(entry)' = Applied(entry)
  BY Zenon DEF Recorded, Applied
<1>4. /\ entry.cap \in Nat /\ Recorded(entry) \in Nat /\ billed - Recorded(entry) \in Nat
      /\ Applied(entry) \in Nat
      /\ Balance(n, f, entry.cap, Recorded(entry), billed - Recorded(entry),
         Applied(entry))
  BY <1>2, Zenon DEF Ledger, Recorded
<1>5. f' \in 0 .. n /\ f' <= f
  BY <1>1
<1>6. Balance(n, f', entry.cap, Recorded(entry), billed - Recorded(entry),
      Applied(entry))
  <2> HIDE DEF f, n
  <2> QED BY <1>1, <1>4, <1>5, Balances, Zenon
<1>7. Ledger(entry, f)'
  BY <1>1, <1>2, <1>3, <1>5, <1>6 DEF Ledger, Balance
<1> QED BY <1>7, Zenon DEF SpendInv

\* The steps of a turn that start no call keep SpendInv.
LEMMA NoCallNext ==
    ASSUME SpendInv, NEW t \in Turns,
           \/ StartTurn(t) \/ UnknownUser(t) \/ PrimaryFails(t)
              \/ ToolDone(t)
           \/ ensure_tool_capability(t) \/ build_tool_name_map(t)
              \/ _parse_tool_arguments(t)
           \/ ProviderUnavailable(t) \/ Deadline(t)
    PROVE  SpendInv'
<1>0. DOMAIN turn = Turns /\ "at" \in DOMAIN turn[t]
  BY Zenon DEF SpendInv
<1>1. CASE PrimaryFails(t)
  <2> DEFINE x == [turn[t] EXCEPT !.at = "fallback"]
  <2>1. turn' = [turn EXCEPT ![t] = x] /\ "at" \in DOMAIN x /\ x.at = "fallback"
        /\ t \in Flying
    BY <1>0, <1>1, Zenon DEF PrimaryFails, Flying
  <2>2. DOMAIN turn' = Turns /\ (\A u \in Turns : "at" \in DOMAIN turn'[u])
        /\ Flying' = Flying
    <3> HIDE DEF x
    <3>1. Flying \cup {t} = Flying
      BY <2>1, Zenon
    <3> QED BY <2>1, <3>1, Moved, Zenon
  <2>3. UNCHANGED <<entry, row, version, sets, billed, highest>>
    BY <1>1, Zenon DEF PrimaryFails
  <2>4. Cardinality(Flying) \in 0 .. Cardinality(Turns)
    BY FlyingCount, Zenon
  <2>5. Cardinality(Flying) \in Nat /\ Cardinality(Flying) <= Cardinality(Flying)
    BY <2>4, TurnCount
  <2>6. Cardinality(Flying)' = Cardinality(Flying)
    BY <2>2, Zenon
  <2> QED BY <2>2, <2>3, <2>5, <2>6, NoCall, Zenon
<1>2. CASE ~PrimaryFails(t)
  <2>1. PICK x : turn' = [turn EXCEPT ![t] = x] /\ "at" \in DOMAIN x
                 /\ x.at \notin {"primary", "fallback"}
    BY <1>0, <1>2 DEF StartTurn, UnknownUser, ToolDone,
         ensure_tool_capability,
       build_tool_name_map, _parse_tool_arguments, ProviderUnavailable,
       Deadline, Ends, IdleTurn
  <2>2. UNCHANGED <<entry, row, version, sets, billed, highest>>
    BY <1>2, Zenon DEF StartTurn, UnknownUser, ToolDone,
         ensure_tool_capability,
       build_tool_name_map, _parse_tool_arguments, ProviderUnavailable,
       Deadline, Ends
  <2>3. DOMAIN turn' = Turns /\ (\A u \in Turns : "at" \in DOMAIN turn'[u])
        /\ Flying' = Flying \ {t}
    BY <2>1, Moved, Zenon
  <2>4. Cardinality(Flying \ {t}) \in Nat
        /\ Cardinality(Flying \ {t}) <= Cardinality(Flying)
    <3>1. CASE t \in Flying
      BY <3>1, FlyingCount, TurnCount
    <3>2. CASE t \notin Flying
      <4>1. Flying \ {t} = Flying
        BY <3>2, Zenon
      <4> QED BY <4>1, FlyingCount, TurnCount
    <3> QED BY <3>1, <3>2, Zenon
  <2> QED BY <2>2, <2>3, <2>4, NoCall, Zenon
<1> QED BY <1>1, <1>2, Zenon

\* Midnight forgets what the entry has recorded and nothing else.
LEMMA Rolled ==
    ASSUME NEW e \in [cap : Nat, ver : Nat, today : BOOLEAN, spent : Nat]
    PROVE  LET r == _roll_day_if_needed(e) IN
           /\ r \in [cap : Nat, ver : Nat, today : BOOLEAN, spent : Nat]
           /\ r.cap = e.cap /\ r.ver = e.ver /\ r.spent = Recorded(e)
           /\ Recorded(r) = Recorded(e)
              /\ Applied(r) = Applied(e)
<1>1. /\ _roll_day_if_needed(e) \in [cap : Nat, ver : Nat, today : BOOLEAN, spent : Nat]
      /\ _roll_day_if_needed(e).cap = e.cap /\ _roll_day_if_needed(e).ver = e.ver
      /\ _roll_day_if_needed(e).spent = Recorded(e)
      /\ Recorded(_roll_day_if_needed(e)) = Recorded(e)
  BY Zenon DEF _roll_day_if_needed, Recorded
<1> QED BY <1>1, Zenon DEF Applied

\* The conjuncts of the ledger once the entry is loaded, for the steps that load it.
LEMMA LedgerAfter ==
    ASSUME SpendInv, UNCHANGED <<row, version, sets>>,
           NEW f, f = Cardinality(Flying)', f \in Nat, highest' \in Nat, billed' \in Nat,
           DOMAIN turn' = Turns, \A u \in Turns : "at" \in DOMAIN turn'[u],
           NEW e, e = entry',
           e \in [cap : Nat, ver : Nat, today : BOOLEAN, spent : Nat], e.ver <= version, e.ver # 0,
           e.cap <= highest', Recorded(e) <= highest', Applied(e) \in Nat,
           f > 0 => e.cap >= PerCall \/ Applied(e) >= 1,
           billed' - Recorded(e) \in Nat,
           Balance(Cardinality(Turns), f, e.cap, Recorded(e),
           billed' - Recorded(e), Applied(e))
    PROVE  SpendInv'
<1>1. Recorded(entry)' = Recorded(e) /\ Applied(entry)' = Applied(e)
  BY Zenon DEF Recorded, Applied
<1>2. Ledger(entry, Cardinality(Flying))'
  BY <1>1, Zenon DEF Ledger, Balance
<1> QED BY <1>2, Zenon DEF SpendInv

\* The pre-check keeps SpendInv: a call it lets out fits under the cap it read.
LEMMA PreCheckNext == ASSUME SpendInv, NEW t \in Turns, PreCheck(t)
PROVE SpendInv'
<1> DEFINE l == _load_or_get_user
           e == _roll_day_if_needed(l)
           f == Cardinality(Flying)
           n == Cardinality(Turns)
           s == Recorded(entry)
           x == IF would_exceed(e,
           estimate_for) THEN IdleTurn ELSE [turn[t] EXCEPT !.at = "primary"]
<1>0. /\ version \in Nat \ {0} /\ row \in Nat /\ sets \in Nat /\ highest \in Nat /\ billed \in Nat
      /\ DOMAIN turn = Turns /\ "at" \in DOMAIN turn[t] /\ billed - s \in Nat
  BY Zenon DEF SpendInv, Ledger
<1>1. /\ Known /\ turn[t].at = "plan" /\ entry' = e /\ highest' = Greater(highest, e.cap)
      /\ turn' = [turn EXCEPT ![t] = x] /\ UNCHANGED <<row, version, sets, billed>>
  BY Zenon DEF PreCheck
<1>2. "at" \in DOMAIN x
      /\ x.at = (IF would_exceed(e, estimate_for) THEN "idle" ELSE "primary")
  BY <1>0, Zenon DEF IdleTurn
<1>3. t \notin Flying
  BY <1>1, Zenon DEF Flying
<1>4. /\ DOMAIN turn' = Turns /\ \A u \in Turns : "at" \in DOMAIN turn'[u]
      /\ Flying' = IF would_exceed(e,
         estimate_for) THEN Flying ELSE Flying \cup {t}
  <2> HIDE DEF x
  <2>1. Flying \ {t} = Flying
    BY <1>3, Zenon
  <2> QED BY <1>1, <1>2, <2>1, Moved, Zenon
<1>5. n \in Nat \ {0} /\ f \in 0 .. n
  BY TurnCount, FlyingCount, Zenon
<1>6. /\ l \in [cap : Nat, ver : Nat, today : BOOLEAN, spent : Nat] /\ l.ver <= version
      /\ l.ver # 0 /\ Greater(highest, l.cap) \in Nat
      /\ l.cap <= Greater(highest, l.cap) /\ s <= Greater(highest, l.cap)
         /\ Recorded(l) = s
      /\ Applied(l) \in Nat /\ (f > 0 => l.cap >= PerCall \/ Applied(l) >= 1)
      /\ Balance(n, f, l.cap, s, billed - s, Applied(l))
  <2> HIDE DEF f, n
  <2> QED BY <1>1, Reloaded, Zenon DEF f, n
<1>7. /\ e \in [cap : Nat, ver : Nat, today : BOOLEAN, spent : Nat]
      /\ e.cap = l.cap /\ e.ver = l.ver /\ e.spent = s /\ Recorded(e) = s
         /\ Applied(e) = Applied(l)
  <2> HIDE DEF l
  <2> QED BY <1>6, Rolled, Zenon
<1> HIDE DEF l, e, f, n, s, x
<1>8. s \in Nat /\ PerCall \in Nat
  BY <1>7, ProviderAssumption, Zenon
<1>9. CASE would_exceed(e, estimate_for)
  <2>1. Flying' = Flying /\ Cardinality(Flying)' = f
    BY <1>4, <1>9, Zenon DEF f
  <2>2. /\ UNCHANGED <<row, version, sets>> /\ Cardinality(Flying)' = f /\ f \in Nat
        /\ highest' \in Nat /\ billed' \in Nat /\ e = entry'
        /\ e \in [cap : Nat, ver : Nat, today : BOOLEAN, spent : Nat] /\ e.ver <= version
        /\ e.ver # 0 /\ e.cap <= highest' /\ Recorded(e) <= highest' /\ Applied(e) \in Nat
        /\ f > 0 => e.cap >= PerCall \/ Applied(e) >= 1
        /\ billed' - Recorded(e) \in Nat
        /\ Balance(Cardinality(Turns), f, e.cap, Recorded(e),
           billed' - Recorded(e), Applied(e))
    BY <1>0, <1>1, <1>5, <1>6, <1>7, <2>1 DEF n
  <2> QED BY <1>4, <2>2, LedgerAfter, Zenon
<1>10. CASE ~would_exceed(e, estimate_for)
  <2>1. s + PerCall <= l.cap
    BY <1>6, <1>7, <1>8, <1>10 DEF would_exceed, estimate_for
  <2>2. Flying' = Flying \cup {t}
        /\ Cardinality(Flying)' = f + 1 /\ f + 1 \in 0 .. n
    BY <1>3, <1>4, <1>5, <1>10, FlyingCount DEF f, n
  <2>3. Balance(n, f + 1, l.cap, s, billed - s, Applied(l))
    BY <1>0, <1>5, <1>6, <1>8, <2>1, <2>2, Balances, Zenon
  <2>4. l.cap >= PerCall /\ f + 1 \in Nat
    BY <1>6, <1>8, <2>1, <2>2
  <2>5. /\ UNCHANGED <<row, version, sets>> /\ Cardinality(Flying)' = (f + 1)
           /\ (f + 1) \in Nat
        /\ highest' \in Nat /\ billed' \in Nat /\ e = entry'
        /\ e \in [cap : Nat, ver : Nat, today : BOOLEAN, spent : Nat] /\ e.ver <= version
        /\ e.ver # 0 /\ e.cap <= highest' /\ Recorded(e) <= highest' /\ Applied(e) \in Nat
        /\ (f + 1) > 0 => e.cap >= PerCall \/ Applied(e) >= 1
        /\ billed' - Recorded(e) \in Nat
        /\ Balance(Cardinality(Turns), (f + 1), e.cap, Recorded(e),
           billed' - Recorded(e), Applied(e))
    BY <1>0, <1>1, <1>6, <1>7, <2>2, <2>3, <2>4, Zenon DEF n
  <2> QED BY <1>4, <2>5, LedgerAfter, Zenon
<1> QED BY <1>9, <1>10, Zenon

\* An answer keeps SpendInv: it bills one call and records it, or loses it to another entry.
LEMMA AnsweredNext ==
    ASSUME SpendInv, NEW t \in Turns, turn[t].at \in {"primary", "fallback"},
           NEW c \in Costs, NEW stop, NEW calls, Answered(t, c, stop, calls)
    PROVE  SpendInv'
<1> DEFINE l == _load_or_get_user
           r == _roll_day_if_needed(l)
           e == check_and_charge(IF c > PerCall THEN l ELSE r, c)
           f == Cardinality(Flying)
           n == Cardinality(Turns)
           s == Recorded(entry)
<1>0. /\ version \in Nat \ {0} /\ row \in Nat /\ sets \in Nat /\ highest \in Nat /\ billed \in Nat
      /\ DOMAIN turn = Turns /\ "at" \in DOMAIN turn[t] /\ billed - s \in Nat
  BY Zenon DEF SpendInv, Ledger
<1>1. /\ Known /\ entry' = e /\ highest' = Greater(highest, r.cap)
      /\ billed' = (IF c <= PerCall THEN billed + c ELSE billed)
      /\ UNCHANGED <<row, version, sets>>
  BY Zenon DEF Answered
<1>2. PICK x : turn' = [turn EXCEPT ![t] = x] /\ "at" \in DOMAIN x /\ x.at \in {"idle", "tools"}
  <2> DEFINE ids == [i \in 1..calls |-> <<turn[t].round, i>>]
             more == /\ stop = "tool_use" /\ calls \in 1..MaxCalls /\ Charged(r, c)
                     /\ turn[t].round < MaxRounds - 1
             y == [at |-> "tools", round |-> turn[t].round, todo |-> ids,
                   msgs |-> Append(turn[t].msgs, [role |-> "assistant", ids |-> ids])]
             x == IF ~more THEN IdleTurn ELSE y
  <2>1. turn' = [turn EXCEPT ![t] = x]
    BY Zenon DEF Answered
  <2> HIDE DEF ids, more
  <2>2. "at" \in DOMAIN y /\ y.at = "tools"
    BY <1>0, Zenon
  <2> HIDE DEF y
  <2>3. "at" \in DOMAIN x /\ x.at \in {"idle", "tools"}
    BY <2>2, Zenon DEF IdleTurn
  <2> HIDE DEF x
  <2> QED BY <2>1, <2>3, Zenon
<1>3. t \in Flying
  BY Zenon DEF Flying
<1>4. /\ DOMAIN turn' = Turns /\ \A u \in Turns : "at" \in DOMAIN turn'[u]
      /\ Flying' = Flying \ {t}
  BY <1>2, Moved, Zenon
<1>5. n \in Nat \ {0} /\ f \in 0 .. n /\ f > 0 /\ Cardinality(Flying)' = f - 1
  BY <1>3, <1>4, TurnCount, FlyingCount, Zenon
<1>6. /\ l \in [cap : Nat, ver : Nat, today : BOOLEAN, spent : Nat] /\ l.ver <= version
      /\ l.ver # 0 /\ Greater(highest, l.cap) \in Nat
      /\ l.cap <= Greater(highest, l.cap) /\ s <= Greater(highest, l.cap)
         /\ Recorded(l) = s
      /\ Applied(l) \in Nat /\ (f > 0 => l.cap >= PerCall \/ Applied(l) >= 1)
      /\ Balance(n, f, l.cap, s, billed - s, Applied(l))
  <2> HIDE DEF f, n
  <2> QED BY <1>1, Reloaded, Zenon DEF f, n
<1>7. /\ r \in [cap : Nat, ver : Nat, today : BOOLEAN, spent : Nat]
      /\ r.cap = l.cap /\ r.ver = l.ver /\ r.spent = s /\ Recorded(r) = s
         /\ Applied(r) = Applied(l)
  <2> HIDE DEF l
  <2> QED BY <1>6, Rolled, Zenon
<1>8. PerCall \in Nat /\ c \in Nat /\ s \in Nat
  BY <1>7, ProviderAssumption, Zenon
<1>9. CASE c > PerCall
  <2>1. e = l
    BY <1>8, <1>9 DEF check_and_charge, Charged
  <2> HIDE DEF l, r, e, f, n, s
  <2>2. Balance(n, f - 1, l.cap, s, billed - s, Applied(l))
    <3>1. f - 1 \in 0 .. n /\ f - 1 <= f
      BY <1>5
    <3> QED BY <1>0, <1>5, <1>6, <1>8, <3>1, Balances, Zenon
  <2>4. billed' = billed
    BY <1>1, <1>8, <1>9
  <2>3. f - 1 \in Nat /\ (f - 1 > 0 => l.cap >= PerCall \/ Applied(l) >= 1)
    BY <1>5, <1>6
  <2>5. /\ UNCHANGED <<row, version, sets>> /\ Cardinality(Flying)' = (f - 1)
           /\ (f - 1) \in Nat
        /\ highest' \in Nat /\ billed' \in Nat /\ e = entry'
        /\ e \in [cap : Nat, ver : Nat, today : BOOLEAN, spent : Nat] /\ e.ver <= version
        /\ e.ver # 0 /\ e.cap <= highest' /\ Recorded(e) <= highest' /\ Applied(e) \in Nat
        /\ (f - 1) > 0 => e.cap >= PerCall \/ Applied(e) >= 1
        /\ billed' - Recorded(e) \in Nat
        /\ Balance(Cardinality(Turns), (f - 1), e.cap, Recorded(e),
           billed' - Recorded(e), Applied(e))
    BY <1>0, <1>1, <1>5, <1>6, <1>7, <2>1, <2>2, <2>3, <2>4, Zenon DEF n
  <2> QED BY <1>4, <2>5, LedgerAfter, Zenon
<1>10. CASE c <= PerCall
  <2>1. e = IF s + c <= l.cap THEN [r EXCEPT !.spent = @ + c] ELSE r
    BY <1>6, <1>7, <1>8, <1>10 DEF check_and_charge, Charged
  <2>2. r.today
    BY <1>6, Zenon DEF _roll_day_if_needed
  <2> HIDE DEF l, r, e, f, n, s
  <2>3. /\ e \in [cap : Nat, ver : Nat, today : BOOLEAN, spent : Nat]
        /\ e.cap = l.cap /\ e.ver = l.ver /\ e.today
        /\ e.spent = IF s + c <= l.cap THEN s + c ELSE s
    BY <1>6, <1>7, <1>8, <2>1, <2>2
  <2>4. Recorded(e) = (IF s + c <= l.cap THEN s + c ELSE s)
        /\ Applied(e) = Applied(l)
    BY <2>3, Zenon DEF Recorded, Applied
  <2>5. billed' = billed + c /\ billed' \in Nat
    BY <1>0, <1>1, <1>8, <1>10
  <2>6. f - 1 \in Nat /\ (f - 1 > 0 => l.cap >= PerCall \/ Applied(l) >= 1)
    BY <1>5, <1>6
  <2>7. CASE s + c <= l.cap
    <3>1. Balance(n, f - 1, l.cap, s + c, billed - s, Applied(l))
      BY <1>0, <1>5, <1>6, <1>8, <1>10, <2>7, Balances, Zenon
    <3>2. billed' - Recorded(e) = billed - s /\ Recorded(e) = s + c
      BY <1>0, <1>8, <2>4, <2>5, <2>7
    <3>3. s + c <= highest'
      BY <1>1, <1>6, <1>7, <1>8, <2>7
    <3>4. /\ UNCHANGED <<row, version, sets>> /\ Cardinality(Flying)' = (f - 1)
             /\ (f - 1) \in Nat
          /\ highest' \in Nat /\ billed' \in Nat /\ e = entry'
          /\ e \in [cap : Nat, ver : Nat, today : BOOLEAN, spent : Nat] /\ e.ver <= version
          /\ e.ver # 0 /\ e.cap <= highest' /\ Recorded(e) <= highest' /\ Applied(e) \in Nat
          /\ (f - 1) > 0 => e.cap >= PerCall \/ Applied(e) >= 1
          /\ billed' - Recorded(e) \in Nat
          /\ Balance(Cardinality(Turns), (f - 1), e.cap, Recorded(e),
             billed' - Recorded(e), Applied(e))
      BY <1>0, <1>1, <1>5, <1>6, <1>7, <2>3, <2>4, <2>5, <2>6, <3>1, <3>2, <3>3, Zenon DEF n
    <3> QED BY <1>4, <3>4, LedgerAfter, Zenon
  <2>8. CASE ~(s + c <= l.cap)
    <3>1. Balance(n, f - 1, l.cap, s, (billed - s) + c, Applied(l))
      BY <1>0, <1>5, <1>6, <1>8, <1>10, <2>8, Balances, Zenon
    <3>2. billed' - Recorded(e) = (billed - s) + c /\ billed' - Recorded(e) \in Nat
          /\ Recorded(e) = s
      BY <1>0, <1>8, <2>4, <2>5, <2>8
    <3>3. /\ UNCHANGED <<row, version, sets>> /\ Cardinality(Flying)' = (f - 1)
             /\ (f - 1) \in Nat
          /\ highest' \in Nat /\ billed' \in Nat /\ e = entry'
          /\ e \in [cap : Nat, ver : Nat, today : BOOLEAN, spent : Nat] /\ e.ver <= version
          /\ e.ver # 0 /\ e.cap <= highest' /\ Recorded(e) <= highest' /\ Applied(e) \in Nat
          /\ (f - 1) > 0 => e.cap >= PerCall \/ Applied(e) >= 1
          /\ billed' - Recorded(e) \in Nat
          /\ Balance(Cardinality(Turns), (f - 1), e.cap, Recorded(e),
             billed' - Recorded(e), Applied(e))
      BY <1>0, <1>1, <1>5, <1>6, <1>7, <2>3, <2>4, <2>5, <2>6, <3>1, <3>2, Zenon DEF n
    <3> QED BY <1>4, <3>3, LedgerAfter, Zenon
  <2> QED BY <2>7, <2>8, Zenon
<1> QED BY <1>8, <1>9, <1>10

\* A changed cap, a bumped version and midnight keep SpendInv.
LEMMA ElsewhereNext ==
    ASSUME SpendInv, (\E cap \in Caps \cup {0} : SetBudget(cap))
           \/ VersionBumped \/ Midnight
    PROVE  SpendInv'
<1> DEFINE f == Cardinality(Flying)
           n == Cardinality(Turns)
           s == Recorded(entry)
           k == Applied(entry)
<1>0. /\ version \in Nat \ {0} /\ row \in Nat /\ sets \in Nat /\ highest \in Nat /\ billed \in Nat
      /\ DOMAIN turn = Turns /\ \A u \in Turns : "at" \in DOMAIN turn[u]
      /\ Ledger(entry, f)
  BY Zenon DEF SpendInv
<1>1. /\ entry \in [cap : Nat, ver : Nat, today : BOOLEAN, spent : Nat] /\ entry.ver <= version
      /\ entry.cap <= highest /\ s <= highest /\ s \in Nat /\ k \in Nat /\ billed - s \in Nat
      /\ entry.ver = 0 => billed = 0 /\ f = 0
      /\ f > 0 => entry.cap >= PerCall \/ k >= 1
      /\ Balance(n, f, entry.cap, s, billed - s, k)
  BY <1>0, Zenon DEF Ledger, Recorded
<1>2. n \in Nat \ {0} /\ f \in 0 .. n
  BY TurnCount, FlyingCount, Zenon
<1>3. turn' = turn /\ f' = f
  <2>1. turn' = turn
    BY Zenon DEF SetBudget, VersionBumped, Midnight
  <2> QED BY <2>1, Zenon DEF Flying
<1>4. CASE \E cap \in Caps \cup {0} : SetBudget(cap)
  <2>1. PICK cap \in Caps \cup {0} : SetBudget(cap)
    BY <1>4, Zenon
  <2>2. /\ row' = cap /\ cap \in Nat /\ sets' = sets + 1 /\ cap # row
        /\ UNCHANGED <<entry, version, billed, highest>>
    BY <2>1, ProviderAssumption DEF SetBudget
  <2>3. Recorded(entry)' = s
    BY <2>2, Zenon DEF Recorded
  <2>4. Applied(entry)' \in Nat /\ Applied(entry)' \in {k, k + 1, k + 2}
    BY <1>0, <1>1, <2>2 DEF Applied
  <2> HIDE DEF f, n, s, k
  <2>5. Balance(n, f, entry.cap, s, billed - s, k + 1)
    BY <1>1, <1>2, Balances, Zenon
  <2>6. Balance(n, f, entry.cap, s, billed - s, k + 2)
    <3>1. k + 1 \in Nat /\ (k + 1) + 1 = k + 2
      BY <1>1
    <3>2. Balance(n, f, entry.cap, s, billed - s, (k + 1) + 1)
      BY <1>1, <1>2, <2>5, <3>1, Balances, Zenon
    <3> QED BY <3>1, <3>2, Zenon
  <2>7. Balance(n, f, entry.cap, s, billed - s, Applied(entry)')
    BY <1>1, <2>4, <2>5, <2>6, Zenon
  <2>8. f > 0 => entry.cap >= PerCall \/ Applied(entry)' >= 1
    BY <1>1, <2>4
  <2>9. Ledger(entry, f)'
    BY <1>1, <1>3, <2>2, <2>3, <2>4, <2>7, <2>8, Zenon DEF Ledger, Balance, n
  <2> QED BY <1>0, <1>3, <2>2, <2>9 DEF SpendInv, f
<1>5. CASE VersionBumped
  <2>1. version' = version + 1 /\ UNCHANGED <<entry, row, sets, billed, highest>>
    BY <1>5, Zenon DEF VersionBumped
  <2>2. Recorded(entry)' = s /\ Applied(entry)' = k
    BY <2>1, Zenon DEF Recorded, Applied
  <2> HIDE DEF f, n, s, k
  <2>3. Ledger(entry, f)'
    BY <1>0, <1>1, <1>3, <2>1, <2>2 DEF Ledger, Balance, n
  <2> QED BY <1>0, <1>3, <2>1, <2>3 DEF SpendInv, f
<1>6. CASE Midnight
  <2>1. /\ billed' = 0 /\ entry' = [entry EXCEPT !.today = FALSE] /\ highest' = entry.cap
        /\ UNCHANGED <<row, version, sets>>
    BY <1>6, Zenon DEF Midnight
  <2>2. /\ entry' \in [cap : Nat, ver : Nat, today : BOOLEAN, spent : Nat]
        /\ entry'.cap = entry.cap /\ entry'.ver = entry.ver /\ entry'.today = FALSE
    BY <1>1, <2>1, Zenon
  <2>3. Recorded(entry)' = 0 /\ Applied(entry)' = k
    BY <2>1, <2>2, Zenon DEF Recorded, Applied
  <2> HIDE DEF f, n, s, k
  <2>4. Balance(n, f, entry.cap, 0, 0, k)
    BY <1>1, <1>2, Balances, Zenon
  <2>5. Ledger(entry, f)'
    BY <1>0, <1>1, <1>3, <2>1, <2>2, <2>3, <2>4 DEF Ledger, Balance, n
  <2> QED BY <1>0, <1>1, <1>3, <2>1, <2>5, Zenon DEF SpendInv, f
<1> QED BY <1>4, <1>5, <1>6, Zenon

\* Every step of the turns, the operator and the clock keeps SpendInv.
LEMMA SpendNext == SpendInv /\ [ProviderNext]_providerVars => SpendInv'
<1> SUFFICES ASSUME SpendInv, [ProviderNext]_providerVars PROVE SpendInv'
  BY Zenon
<1>1. ASSUME NEW t \in Turns, TurnStep(t) PROVE SpendInv'
  <2>1. CASE PreCheck(t)
    BY <2>1, PreCheckNext, Zenon
  <2>2. ASSUME NEW cost \in Costs, NEW calls, DeepSeekAnswers(t, cost, calls)
               PROVE SpendInv'
    <3>1. PICK finish \in {"stop", "tool_calls", "length"} :
             Answered(t, cost, DeepSeekStop(finish, calls), calls)
      BY <2>2, Zenon DEF DeepSeekAnswers
    <3>2. turn[t].at \in {"primary", "fallback"}
      BY <2>2, Zenon DEF DeepSeekAnswers
    <3> QED BY <3>1, <3>2, AnsweredNext, Zenon
  <2>3. ASSUME NEW cost \in Costs, NEW calls, AnthropicAnswers(t, cost, calls)
               PROVE SpendInv'
    <3>1. PICK finish \in {"end_turn", "tool_use", "max_tokens"} :
             Answered(t, cost, AnthropicStop(finish, calls), calls)
      BY <2>3, Zenon DEF AnthropicAnswers
    <3>2. turn[t].at \in {"primary", "fallback"}
      BY <2>3, Zenon DEF AnthropicAnswers
    <3> QED BY <3>1, <3>2, AnsweredNext, Zenon
  <2> QED BY <1>1, <2>1, <2>2, <2>3, NoCallNext, Zenon DEF TurnStep
<1>2. CASE UNCHANGED providerVars
  <2>1. SpendInv' = SpendInv
    BY <1>2, Zenon DEF providerVars, SpendInv, Ledger, Recorded,
         Applied, Flying, Balance
  <2> QED BY <2>1, Zenon
<1> QED BY <1>1, <1>2, ElsewhereNext, Zenon DEF ProviderNext

\* Every behaviour of the provider calls has SpendInv.
LEMMA SpendHolds == ProviderSpec => []SpendInv
<1>1. ProviderInit => SpendInv
  BY SpendInit, Zenon
<1>2. SpendInv /\ [ProviderNext]_providerVars => SpendInv'
  BY SpendNext, Zenon
<1> QED BY <1>1, <1>2, PTL DEF ProviderSpec

\* Every step leaves what was never charged alone, adds an answer to it or begins a day.
LEMMA LostSteps ==
    ASSUME [ProviderNext]_providerVars
    PROVE  \/ Unpaid \/ (\E cost \in Costs : Paid(cost))
           \/ unseen' = 0 /\ lost' = 0
<1>1. ASSUME NEW t \in Turns, TurnStep(t) PROVE Unpaid \/ \E cost \in Costs : Paid(cost)
  <2>1. CASE StartTurn(t) \/ PreCheck(t) \/ ToolDone(t)
    BY <2>1, Zenon DEF StartTurn, PreCheck, ToolDone, Unpaid
  <2>2. CASE ensure_tool_capability(t) \/ build_tool_name_map(t) \/ _parse_tool_arguments(t)
    BY <2>2, Zenon DEF ensure_tool_capability, build_tool_name_map, _parse_tool_arguments
  <2>3. CASE UnknownUser(t) \/ PrimaryFails(t) \/ ProviderUnavailable(t) \/ Deadline(t)
    BY <2>3, Zenon DEF UnknownUser, PrimaryFails, ProviderUnavailable, Deadline, PaidOrNot
  <2>4. ASSUME NEW cost, NEW calls,
               DeepSeekAnswers(t, cost, calls) \/ AnthropicAnswers(t, cost, calls)
        PROVE  Unpaid
    BY <2>4, Zenon DEF DeepSeekAnswers, AnthropicAnswers, Answered, Unpaid
  <2> QED BY <1>1, <2>1, <2>2, <2>3, <2>4, Zenon DEF TurnStep
<1>2. CASE \E cap \in Caps \cup {0} : SetBudget(cap)
  BY <1>2, Zenon DEF SetBudget, Unpaid
<1>3. CASE VersionBumped \/ UNCHANGED providerVars
  BY <1>3, Zenon DEF VersionBumped, providerVars, Unpaid
<1>4. CASE Midnight
  BY <1>4, Zenon DEF Midnight
<1> QED BY <1>1, <1>2, <1>3, <1>4, Zenon DEF ProviderNext

\* What was never charged stays within the price of so many calls.
LEMMA LostHolds == ProviderSpec => []LostInv
<1>1. ProviderInit => LostInv
  BY ProviderAssumption DEF ProviderInit, LostInv
<1>2. LostInv /\ [ProviderNext]_providerVars => LostInv'
  <2> SUFFICES ASSUME LostInv, [ProviderNext]_providerVars PROVE LostInv'
    BY Zenon
  <2>1. CASE Unpaid
    BY <2>1, Zenon DEF Unpaid, LostInv
  <2>2. ASSUME NEW cost \in Costs, Paid(cost), ~Unpaid PROVE LostInv'
    <3>1. cost \in Nat /\ PerCall \in Nat
      BY ProviderAssumption, Zenon
    <3>2. cost <= PerCall /\ unseen' = unseen + 1 /\ lost' = lost + cost
      BY <2>2, <3>1 DEF Paid
    <3>3. (unseen + 1) * PerCall = unseen * PerCall + PerCall
      BY <3>1 DEF LostInv
    <3> DEFINE z == unseen * PerCall
    <3>4. z \in Nat /\ lost <= z /\ lost \in Nat /\ unseen \in Nat
      BY <3>1 DEF LostInv
    <3> HIDE DEF z
    <3>5. lost + cost <= z + PerCall /\ lost + cost \in Nat /\ unseen + 1 \in Nat
      BY <3>1, <3>2, <3>4
    <3> QED BY <3>2, <3>3, <3>5, Zenon DEF LostInv, z
  <2>3. CASE unseen' = 0 /\ lost' = 0
    BY <2>3, ProviderAssumption DEF LostInv
  <2> QED BY <2>1, <2>2, <2>3, LostSteps, Zenon
<1> QED BY <1>1, <1>2, PTL DEF ProviderSpec

\* A day bills at most the highest cap the guard applied, one call for every other concurrent
\* turn, one call of every turn for each change of the cap, and one call for each paid answer
\* that never came to the charge: for every number of turns, price, cap and order of answers,
\* failures, cap changes, reloads and midnights.
THEOREM SpendBound == ProviderSpec => []SpendBounded
<1>1. SpendInv /\ LostInv => SpendBounded
  <2> SUFFICES ASSUME SpendInv, LostInv PROVE SpendBounded
    BY Zenon
  <2> DEFINE f == Cardinality(Flying)
             n == Cardinality(Turns)
             s == Recorded(entry)
             k == Applied(entry)
  <2>1. /\ s \in Nat /\ s <= highest /\ k \in Nat /\ sets \in Nat /\ billed \in Nat /\ highest \in Nat
        /\ billed - s \in Nat /\ entry.cap \in Nat /\ PerCall \in Nat
        /\ Balance(n, f, entry.cap, s, billed - s, k)
    BY ProviderAssumption, Zenon DEF SpendInv, Ledger, Recorded
  <2>2. n \in Nat \ {0} /\ f \in 0 .. n
    BY TurnCount, FlyingCount, Zenon
  <2>3. k <= sets
    BY <2>1 DEF Applied
  <2> HIDE DEF f, n, s, k
  <2> DEFINE np == n * PerCall
  <2>4. np \in Nat /\ f * PerCall \in Nat /\ (n - 1) * PerCall = np - PerCall /\ PerCall <= np
    BY <2>1, <2>2, Scaled
  <2>5. billed - s <= np * k + np - PerCall
    <3>1. np * k \in Nat
      BY <2>1, <2>4
    <3> DEFINE z == np * k
               fp == f * PerCall
    <3>2. /\ s + PerCall <= entry.cap => billed - s <= z
          /\ s + PerCall > entry.cap => (billed - s) + fp <= z + np - PerCall
      BY <2>1, Zenon DEF Balance
    <3> HIDE DEF z, fp
    <3>3. z \in Nat /\ fp \in Nat
      BY <2>4, <3>1, Zenon DEF z, fp
    <3> HIDE DEF np
    <3>4. billed - s <= z + np - PerCall
      BY <2>1, <2>4, <3>2, <3>3
    <3> QED BY <3>4, Zenon DEF z
  <2> HIDE DEF np
  <2>6. np * k <= np * sets /\ np * k \in Nat /\ np * sets \in Nat
    <3>1. k * np \in Nat /\ k * np <= sets * np /\ sets * np \in Nat
      BY <2>1, <2>3, <2>4, Scaled
    <3>2. k * np = np * k /\ sets * np = np * sets
      BY <2>1, <2>4
    <3> QED BY <3>1, <3>2, Zenon
  <2>7. billed <= highest + (np - PerCall) + np * sets
    BY <2>1, <2>4, <2>5, <2>6
  <2> DEFINE x == highest + (np - PerCall) + np * sets
             z == unseen * PerCall
  <2>8. x \in Int /\ billed <= x
    BY <2>1, <2>4, <2>6, <2>7
  <2>9. z \in Nat /\ lost \in Nat /\ lost <= z
    BY <2>1 DEF LostInv
  <2> HIDE DEF x, z
  <2>10. billed + lost <= x + z
    BY <2>1, <2>8, <2>9
  <2> QED BY <2>4, <2>10, Zenon DEF SpendBounded, np, n, x, z
<1> QED BY <1>1, SpendHolds, LostHolds, PTL
=============================================================================
