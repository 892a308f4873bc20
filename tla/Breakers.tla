------------------------------ MODULE Breakers ------------------------------
(***************************************************************************)
(* One component's circuit breaker, the supervisor operations that drive   *)
(* it, and its row in circuit_breaker_state.                               *)
(*                                                                         *)
(* CircuitBreaker itself is synchronous.  The supervisor's operations are  *)
(* coroutines around it: they change the breaker, then await an audit row  *)
(* (trip_breaker, request_plugin_restart, and start_plugin and on_crash of *)
(* PluginLifecycle, whose hookpoint follows the row) or a save and a row   *)
(* (reset_breaker, which only the dispatch loop calls).  stop() drains     *)
(* these callers, or cancels them after a timeout, and then saves every    *)
(* breaker; a new process starts from a fresh breaker.  save_to_db builds  *)
(* the row from the memory of that instant and the commit comes later.     *)
(***************************************************************************)
EXTENDS Integers, Sequences

CONSTANTS Callers,            \* tasks that report failures of the component
          Threshold,          \* _FAILURE_THRESHOLD
          FailureWindow,      \* _FAILURE_WINDOW_SECONDS
          ReArm,              \* _RE_ARM_SECONDS
          MaxNow, MaxTrips    \* bounds on the clock and on the trips of a process

VARIABLES now,                \* the clock
          brk,                \* the breaker in memory
          row,                \* its row in the database
          calls,              \* each caller: "idle", the audit row it awaits, or "hook"
          resetting,          \* reset_breaker: stage, the trip_count it reports, the row it built
          phase,              \* the supervisor: "running", "draining", "saving", "stopped"
          stopping,           \* the row stop() built
          resetTrips          \* ghost: trip_count of the last reset reported as a success

brvars == <<now, brk, row, calls, resetting, phase, stopping, resetTrips>>

Fresh  == [st |-> "CLOSED", trips |-> 0, at |-> 0, recent |-> <<>>]
NoReset == [stage |-> "none", trips |-> 0, snap |-> [st |-> "CLOSED", trips |-> 0]]
Snapshot(b) == [st |-> b.st, trips |-> b.trips]

Init ==
  /\ now = 0 /\ brk = Fresh /\ row = Snapshot(Fresh)
  /\ calls = [c \in Callers |-> "idle"] /\ resetting = NoReset
  /\ phase = "running" /\ stopping = Snapshot(Fresh) /\ resetTrips = 0

------------------------------------------------------------------------------
(* CircuitBreaker.                                                         *)
_trip(b) == [st |-> "OPEN", trips |-> b.trips + 1, at |-> now, recent |-> <<>>]

record_failure(b) ==
  LET young(t) == t > now - FailureWindow
      recent   == Append(SelectSeq(b.recent, young), now)
  IN  IF b.st = "OPEN" THEN b
      ELSE IF Len(recent) >= Threshold THEN _trip(b)
      ELSE [b EXCEPT !.recent = recent]

reset(b) == [b EXCEPT !.st = "CLOSED", !.recent = <<>>]

Rearmed(b) == IF b.st = "OPEN" /\ now - b.at >= ReArm THEN [b EXCEPT !.st = "HALF_OPEN"] ELSE b

load_from_db(b) == Rearmed([b EXCEPT !.st = row.st, !.trips = row.trips])

(* _drive_breaker_open records Threshold failures, whatever was recorded   *)
(* before; the ones after the trip are ignored.                            *)
_drive_breaker_open(b) ==
  LET f[n \in 0..Threshold] == IF n = 0 THEN b ELSE record_failure(f[n - 1])
  IN  f[Threshold]

------------------------------------------------------------------------------
Running == phase = "running" /\ brk.trips < MaxTrips
Stays   == UNCHANGED <<now, row, resetting, phase, stopping, resetTrips>>

(* An open breaker makes trip_breaker a no-op: the trip has its row.       *)
trip_breaker(c) ==
  /\ Running /\ calls[c] = "idle" /\ brk.st # "OPEN"
  /\ brk' = _drive_breaker_open(brk)
  /\ calls' = [calls EXCEPT ![c] = "tripped"]
  /\ Stays

request_plugin_restart(c) ==
  /\ Running /\ calls[c] = "idle"
  /\ brk' = IF brk.st = "OPEN" THEN brk ELSE _drive_breaker_open(brk)
  /\ calls' = [calls EXCEPT ![c] = "restart_requested"]
  /\ Stays

on_crash(c) ==
  /\ Running /\ calls[c] = "idle"
  /\ brk' = record_failure(brk)
  /\ calls' = [calls EXCEPT ![c] = IF brk'.st = "OPEN" THEN "quarantined" ELSE "crashed"]
  /\ Stays

(* The gate decides, the breaker only labels the row.                      *)
start_plugin(c) ==
  /\ Running /\ calls[c] = "idle"
  /\ \E kind \in {"loaded", "load_refused"} : calls' = [calls EXCEPT ![c] = kind]
  /\ UNCHANGED brk /\ Stays

(* The awaited row is written, or its failure is raised to the caller; the *)
(* life-cycle rows are followed by their hookpoint.                        *)
Hooked == {"loaded", "crashed", "quarantined"}
RowSettles(c) ==
  /\ calls[c] \notin {"idle", "hook"}
  /\ \E s \in {"idle"} \cup (IF calls[c] \in Hooked THEN {"hook"} ELSE {}) :
        calls' = [calls EXCEPT ![c] = s]
  /\ UNCHANGED brk /\ Stays
_invoke_supervisor_hookpoint(c) ==
  /\ calls[c] = "hook"
  /\ calls' = [calls EXCEPT ![c] = "idle"]
  /\ UNCHANGED brk /\ Stays

(* The half-open probe of the quarantined component.                       *)
maybe_rearm ==
  /\ Running /\ Rearmed(brk) # brk /\ brk' = Rearmed(brk)
  /\ UNCHANGED calls /\ Stays
record_probe_success ==
  /\ Running /\ brk.st = "HALF_OPEN" /\ brk' = reset(brk)
  /\ UNCHANGED calls /\ Stays
record_probe_failure ==
  /\ Running /\ brk.st = "HALF_OPEN" /\ brk' = _trip(brk)
  /\ UNCHANGED calls /\ Stays

(* reset_breaker: memory first, then the save, its commit, and the row.    *)
reset_breaker ==
  /\ phase = "running" /\ resetting.stage = "none"
  /\ brk' = reset(brk)
  /\ resetting' = [NoReset EXCEPT !.stage = "save", !.trips = brk.trips]
  /\ UNCHANGED <<now, row, calls, phase, stopping, resetTrips>>

ResetSaves ==
  /\ resetting.stage = "save"
  /\ resetting' = [resetting EXCEPT !.stage = "commit", !.snap = Snapshot(brk)]
  /\ UNCHANGED <<now, brk, row, calls, phase, stopping, resetTrips>>

ResetCommits ==
  /\ resetting.stage = "commit"
  /\ \/ /\ row' = resetting.snap /\ resetTrips' = resetting.trips
        /\ resetting' = NoReset
     \/ /\ resetting' = NoReset /\ UNCHANGED <<row, resetTrips>>   \* persistence_failed
  /\ UNCHANGED <<now, brk, calls, phase, stopping>>

------------------------------------------------------------------------------
stop ==
  /\ phase = "running" /\ phase' = "draining"
  /\ UNCHANGED <<now, brk, row, calls, resetting, stopping, resetTrips>>

(* Variant: stop() saves without waiting for the tasks it is stopping. *)
SaveWithoutDraining ==
  /\ phase = "draining"
  /\ phase' = "saving" /\ stopping' = Snapshot(brk)
  /\ UNCHANGED <<now, brk, row, calls, resetting, resetTrips>>

(* The drained group has no caller left, and save_to_db builds the row.    *)
StopSaves ==
  /\ phase = "draining"
  /\ \A c \in Callers : calls[c] = "idle"
  /\ resetting.stage = "none"
  /\ phase' = "saving" /\ stopping' = Snapshot(brk)
  /\ UNCHANGED <<now, brk, row, calls, resetting, resetTrips>>

(* Past _STOP_DRAIN_TIMEOUT_SECONDS the group is cancelled: a commit that  *)
(* was under way may have reached the database.                            *)
ForceCancel ==
  /\ phase = "draining"
  /\ calls' = [c \in Callers |-> "idle"] /\ resetting' = NoReset
  /\ row' \in {row} \cup (IF resetting.stage = "commit" THEN {resetting.snap} ELSE {})
  /\ UNCHANGED <<now, brk, phase, stopping, resetTrips>>

StopCommits ==
  /\ phase = "saving" /\ phase' \in {"stopped", "unsaved"}
  /\ row' = IF phase' = "stopped" THEN stopping ELSE row
  /\ UNCHANGED <<now, brk, calls, resetting, stopping, resetTrips>>

(* The next process.  get_or_create_breaker makes a fresh breaker;         *)
(* load_all_breakers, where it is called, restores it from the row.        *)
NewProcess(b) ==
  /\ brk' = b /\ phase' = "running" /\ resetTrips' = 0
  /\ calls' = [c \in Callers |-> "idle"] /\ resetting' = NoReset
  /\ stopping' = Snapshot(Fresh)
  /\ UNCHANGED <<now, row>>
get_or_create_breaker == phase \in {"stopped", "unsaved"} /\ NewProcess(Fresh)
load_all_breakers     == phase \in {"stopped", "unsaved"} /\ NewProcess(load_from_db(Fresh))
Killed                == phase # "stopped" /\ NewProcess(Fresh)

Tick == now < MaxNow /\ now' = now + 1
        /\ UNCHANGED <<brk, row, calls, resetting, phase, stopping, resetTrips>>

CallerStep(c) ==
  \/ trip_breaker(c) \/ request_plugin_restart(c) \/ start_plugin(c) \/ on_crash(c)
  \/ RowSettles(c) \/ _invoke_supervisor_hookpoint(c)
Next ==
  \/ \E c \in Callers : CallerStep(c)
  \/ maybe_rearm \/ record_probe_success \/ record_probe_failure
  \/ reset_breaker \/ ResetSaves \/ ResetCommits
  \/ stop \/ StopSaves \/ ForceCancel \/ StopCommits
  \/ get_or_create_breaker \/ load_all_breakers \/ Killed \/ Tick

Spec == Init /\ [][Next]_brvars

------------------------------------------------------------------------------
(* A reset that was committed is never undone by an older copy of the      *)
(* breaker: from then on a row that says OPEN is of a later trip.  It      *)
(* rests on stop() saving only after the task that runs reset_breaker is   *)
(* gone; and after a clean stop the row is the memory.                     *)
ResetNotUndone ==
  /\ (row.st = "OPEN" /\ resetTrips > 0) => row.trips > resetTrips
  /\ (phase = "stopped") => row = Snapshot(brk)

(* The count of trips in the database never goes back.                     *)
TripCountNeverDrops == [][row'.trips >= row.trips]_brvars

\* What a breaker may become since b, for which a trip is counted when it opens.
Shape(b) == DOMAIN b = {"st", "trips", "at", "recent"} /\ b.trips \in Nat
Since(b, c) == Shape(c) /\ c.trips >= b.trips /\ (c.st = "OPEN" => c.trips > b.trips)

\* Every copy of the breaker that says OPEN is of a trip after the last reset reported, and
\* after the one under way: the memory, the row, and the rows a save has built.
Later(c, trips) == c.trips \in Nat /\ (c.st = "OPEN" => c.trips > trips)

ResetInv ==
  /\ Shape(brk) /\ resetTrips \in Nat /\ resetting.trips \in Nat
  /\ DOMAIN resetting = {"stage", "trips", "snap"}
  /\ resetTrips <= brk.trips /\ Later(brk, resetTrips)
  /\ Later(row, resetTrips)
  /\ resetting.stage # "none" =>
       resetTrips <= resetting.trips /\ resetting.trips <= brk.trips /\ Later(brk, resetting.trips)
  /\ resetting.stage = "commit" => Later(resetting.snap, resetting.trips)
  /\ phase \in {"saving", "stopped", "unsaved"} => resetting.stage = "none"
  /\ phase = "saving" => stopping = Snapshot(brk)
  /\ phase = "stopped" => row = Snapshot(brk)
==============================================================================
