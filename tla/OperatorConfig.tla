---------------------------- MODULE OperatorConfig ----------------------------
(***************************************************************************)
(* Configuration an operator changes while the daemon runs: `alfred config *)
(* set` rewriting policies.yaml, the editor beside it, and the watcher     *)
(* that reloads the file into the snapshot the daemon reads.               *)
(*                                                                         *)
(* Sources: policies/watcher.py, policies/snapshot_ref.py,                 *)
(* policies/load.py, policies/model.py, cli/config.py.                     *)
(*                                                                         *)
(* The command and the watcher know different keys.  The command's knobs   *)
(* are no fields of PoliciesV1, which forbids others, so a file with a     *)
(* knob in it does not validate.  A file is its policies (Nothing: they    *)
(* are no PoliciesV1) and its knobs, or Nothing when it does not parse.    *)
(* Its (mtime, size) pair is a number that every write changes.  A hook of *)
(* the watcher that raises ends its task.                                  *)
(***************************************************************************)
EXTENDS Naturals, FiniteSets

CONSTANTS Fields,        \* fields of PoliciesV1
          Allowlist,     \* LOW_BLAST_ALLOWLIST: the fields a reload may change
          Knobs,         \* _KEY_TO_YAML_PATH: what `config set` writes to the file
          Procs,         \* command-line processes
          MaxWrites,     \* bound: writes to the file
          Failures,      \* _STAT_FAILURE_DEGRADED_THRESHOLD, _STAT_RECOVERY_THRESHOLD
          Nothing

VARIABLES file,        \* policies.yaml: present, text, pair
          proc,        \* the command every process runs
          active,      \* PoliciesSnapshotRef._current
          watcher,     \* where the watcher's task is, with what it has read
          cached,      \* _cached_mtime_size
          health,      \* _state and its two counters
          told         \* what the watcher reported last

ovars == <<file, proc, active, watcher, cached, health, told>>

Policies == [Fields -> {0, 1}]
Texts == [policies : Policies \cup {Nothing}, knobs : SUBSET Knobs]
Empty == [policies |-> Nothing, knobs |-> {}]
At(s) == [pc |-> s, pair |-> 0, text |-> Nothing]
Idle == [pc |-> "idle", key |-> Nothing, text |-> Nothing]

Init ==
  /\ active = [k \in Fields |-> 0]
  /\ file = [present |-> TRUE, text |-> [policies |-> active, knobs |-> {}], pair |-> 1]
  /\ proc = [p \in Procs |-> Idle]
  /\ watcher = At("asleep")
  /\ cached = 0
  /\ health = [state |-> "normal", bad |-> 0, good |-> 0]
  /\ told = "nothing"

Watch == <<active, watcher, cached, health, told>>

(***************************************************************************)
(* The file.                                                               *)
(***************************************************************************)
Put(text) ==
  /\ file.pair < MaxWrites
  /\ file' = [present |-> TRUE, text |-> text, pair |-> file.pair + 1]

\* An editor changes the file in place, through a state that does not parse.
Edit ==
  /\ \E t \in Texts \cup {Nothing} : Put(t)
  /\ UNCHANGED <<proc, Watch>>

Vanish ==
  /\ file.present
  /\ file' = [file EXCEPT !.present = FALSE]
  /\ UNCHANGED <<proc, Watch>>

\* A missing file is an empty one; one that does not parse ends the command.
_safe_load_yaml == IF file.present THEN file.text ELSE Empty

\* `config set` of a knob: the file is read whole ...
config_set(p) ==
  \E k \in Knobs :
    /\ proc[p] = Idle
    /\ _safe_load_yaml # Nothing
    /\ proc' = [proc EXCEPT ![p] =
         [Idle EXCEPT !.pc = "write", !.key = k, !.text = _safe_load_yaml]]
    /\ UNCHANGED <<file, Watch>>

\* ... and replaced, in one rename, by what was read with the knob set.
_yaml_set(p) ==
  /\ proc[p].pc = "write"
  /\ Put([proc[p].text EXCEPT !.knobs = @ \cup {proc[p].key}])
  /\ proc' = [proc EXCEPT ![p] = Idle]
  /\ UNCHANGED Watch

(***************************************************************************)
(* The watcher.                                                            *)
(***************************************************************************)
\* A hook of the watcher may raise, which nothing in run() catches.
Sleeps == watcher' \in {At("asleep"), At("dead")}

\* The row of a rejection, or its line in the fallback file.
_reject == told' \in {"rejected", "unwritable"}

\* _on_stat_failure_counters, then _maybe_emit_degraded at the threshold.
_on_stat_failure_counters ==
  LET bad == IF health.bad < Failures THEN health.bad + 1 ELSE Failures
  IN  health' = [state |-> IF bad = Failures THEN "degraded" ELSE health.state,
                 bad |-> bad, good |-> 0]

\* The file cannot be examined: rejected, counted, and degraded at the third in a row.
StatFails ==
  /\ watcher.pc = "asleep"
  /\ _reject
  /\ \/ watcher' = At("dead") /\ UNCHANGED health
     \/ /\ _on_stat_failure_counters
        /\ IF health'.state # health.state THEN Sleeps ELSE watcher' = At("asleep")
  /\ UNCHANGED <<file, proc, active, cached>>

_on_stat_success ==
  LET good == IF health.good < Failures THEN health.good + 1 ELSE Failures
  IN  health' = [state |-> IF good = Failures THEN "normal" ELSE health.state,
                 bad |-> 0, good |-> good]

\* The pair is taken before the file is read, and compared with the last one applied.
_tick ==
  /\ watcher.pc = "asleep" /\ file.present
  /\ _on_stat_success
  /\ \/ watcher' = IF file.pair = cached THEN At("asleep")
                   ELSE [At("load") EXCEPT !.pair = file.pair]
     \/ health'.state # health.state /\ watcher' = At("dead")
  /\ UNCHANGED <<file, proc, active, cached, told>>

\* Nothing but the fields of PoliciesV1 (extra="forbid"), all of them valid.
parse_policies(t) == IF t # Nothing /\ t.knobs = {} THEN t.policies ELSE Nothing

\* The file is read and parsed on a thread, while it may change.
_load_and_parse ==
  /\ watcher.pc = "load"
  /\ \/ file.present /\ watcher' = [watcher EXCEPT !.pc = "judge", !.text = parse_policies(file.text)]
     \/ watcher' = [watcher EXCEPT !.pc = "judge", !.text = Nothing]
  /\ UNCHANGED <<file, proc, active, cached, health, told>>

_diff_keys(s, t) == {k \in Fields : s[k] # t[k]}

Rejects == _reject /\ Sleeps /\ UNCHANGED <<active, cached>>

\* Variant: the pair is taken when the file has been applied.
PairAfterwards == file.pair

PairBefore == watcher.pair

\* The row of the swap comes first; without it the snapshot stays.
swap == active' = watcher.text /\ told' = "applied"

Applied == \/ swap /\ cached' = PairBefore /\ Sleeps
           \/ Rejects                       \* the row of the swap cannot be written

Judge ==
  /\ watcher.pc = "judge"
  /\ CASE watcher.text = Nothing -> Rejects
       [] watcher.text = active ->
            cached' = PairBefore /\ watcher' = At("asleep") /\ UNCHANGED <<active, told>>
       [] watcher.text # Nothing /\ watcher.text # active ->
            IF _diff_keys(active, watcher.text) \subseteq Allowlist THEN Applied
            ELSE Rejects
  /\ UNCHANGED <<file, proc, health>>

Killed(p) ==
  /\ proc[p] # Idle
  /\ proc' = [proc EXCEPT ![p] = Idle]
  /\ UNCHANGED <<file, Watch>>

Command(p) == config_set(p) \/ _yaml_set(p) \/ Killed(p)

Next ==
  \/ Edit \/ Vanish
  \/ StatFails \/ _tick \/ _load_and_parse \/ Judge
  \/ \E p \in Procs : Command(p)

Spec == Init /\ [][Next]_ovars

-------------------------------------------------------------------------------
\* The watcher takes the file for applied only when it is: while the pair it remembers is
\* the pair of the file, the file validates and the active snapshot is what it says, although
\* the file may change between the stat, the read and the swap.
CachedMeansApplied ==
  file.present /\ cached = file.pair => active = parse_policies(file.text)

\* A reload never changes a field that is not on the allowlist, whatever happens to the
\* file in between (LOW_BLAST_ALLOWLIST is empty today, so it changes no field at all).
HighHeld == \A k \in Fields \ Allowlist : active'[k] = active[k]

\* A text is what the file said under the pair it was read with, or the file
\* has changed since: a pair names one text, and pairs only rise.
ConfigInv ==
  /\ file.pair \in Nat /\ file.present \in BOOLEAN
  /\ file = [present |-> file.present, text |-> file.text, pair |-> file.pair]
  /\ cached \in Nat /\ cached <= file.pair
  /\ watcher.pair \in Nat /\ watcher.pair <= file.pair
  /\ watcher = [pc |-> watcher.pc, pair |-> watcher.pair, text |-> watcher.text]
  /\ active # Nothing
  /\ cached = file.pair => active = parse_policies(file.text)
  /\ watcher.pc = "judge" /\ watcher.pair = file.pair
       => watcher.text \in {parse_policies(file.text), Nothing}
===============================================================================
