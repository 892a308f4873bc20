-------------------------- MODULE AdapterSupervision --------------------------
(***************************************************************************)
(* The gateway's supervisor of adapter children                            *)
(* (alfred/gateway/adapter_supervisor.py): per adapter the loop of         *)
(* supervise_one over the lifecycle table of                               *)
(* alfred/gateway/adapter_lifecycle.py, and the task group and semaphore   *)
(* of supervise_all around them.                                           *)
(*                                                                         *)
(* The spawn of a child takes three awaited steps: the process, its        *)
(* credential from the core, its handshake.  The time window of the crash  *)
(* breaker is abstracted: any of the older crashes may have aged out.      *)
(***************************************************************************)
EXTENDS Integers, Sequences, FiniteSets

CONSTANTS Adapters,      \* the adapters to supervise
          MaxBoots,      \* max_concurrent_boots
          Threshold,     \* _BREAKER_FAILURE_THRESHOLD
          CoreCeiling,   \* _AWAITING_CORE_CEILING
          MaxRestarts    \* bound: restarts of one adapter

VARIABLES pc,        \* where the adapter's task is
          machine,   \* AdapterLifecycleMachine.state
          child,     \* child processes alive
          crashes,   \* crashes within the breaker window
          restarts,  \* restart_count
          probes,    \* probes of the core since it went away
          stop,      \* stop_event
          outcome,   \* how the adapter's task ended
          frames,    \* status frames emitted, oldest first
          core,      \* the core leg is up and has an epoch
          told,      \* the group has cancelled the adapter's task
          group      \* the task group: "running", "aborting" or "shutdown"

runVars == <<machine, child, crashes, restarts, probes, outcome, frames>>
vars == <<pc, runVars, stop, core, told, group>>

\* _TRANSITIONS: state and event to the next state.
Transitions ==
    [spawning     |-> [spawn_started |-> "handshaking", child_exited |-> "crashed",
                       stop_requested |-> "down"],
     handshaking  |-> [handshake_ok |-> "up", handshake_failed |-> "crashed",
                       child_exited |-> "crashed", stop_requested |-> "down"],
     up           |-> [child_exited |-> "crashed", stop_requested |-> "down"],
     crashed      |-> [backoff_elapsed |-> "restarting", breaker_tripped |-> "breaker_open",
                       stop_requested |-> "down"],
     restarting   |-> [spawn_started |-> "handshaking", cred_unavailable |-> "awaiting_core",
                       stop_requested |-> "down"],
     awaiting_core |-> [cred_available |-> "restarting", stop_requested |-> "down"]]
Terminal == {"breaker_open", "down"}
States == DOMAIN Transitions \cup Terminal

\* A terminal state absorbs every event; an event without a transition is refused.
Feed(state, event) ==
    IF state \in Terminal THEN state
    ELSE IF event \in DOMAIN Transitions[state] THEN Transitions[state][event]
    ELSE "undefined"

Stages == {"queued", "top", "cred", "shake", "entering", "up", "backoff", "awaiting", "ended"}
Status == [kind : {"up", "down", "crashed", "breaker_open"}, seq : 0 .. MaxRestarts]

TypeOK ==
    /\ pc \in [Adapters -> Stages]
    /\ machine \in [Adapters -> States \cup {"undefined"}]
    /\ child \in [Adapters -> 0 .. 1]
    /\ crashes \in [Adapters -> 0 .. Threshold]
    /\ restarts \in [Adapters -> 0 .. MaxRestarts]
    /\ probes \in [Adapters -> 0 .. CoreCeiling]
    /\ stop \in [Adapters -> BOOLEAN]
    /\ outcome \in [Adapters -> {"none", "down", "breaker", "raised", "cancelled"}]
    /\ \A a \in Adapters : \A k \in 1 .. Len(frames[a]) : frames[a][k] \in Status
    /\ told \in [Adapters -> BOOLEAN]
    /\ core \in BOOLEAN /\ group \in {"running", "aborting", "shutdown"}

Init ==
    /\ pc = [a \in Adapters |-> "queued"]
    /\ machine = [a \in Adapters |-> "spawning"]
    /\ child = [a \in Adapters |-> 0]
    /\ crashes = [a \in Adapters |-> 0] /\ restarts = [a \in Adapters |-> 0]
    /\ probes = [a \in Adapters |-> 0]
    /\ stop = [a \in Adapters |-> FALSE]
    /\ outcome = [a \in Adapters |-> "none"]
    /\ frames = [a \in Adapters |-> <<>>]
    /\ core \in BOOLEAN /\ group = "running"
    /\ told = [a \in Adapters |-> FALSE]
-----------------------------------------------------------------------------
To(a, stage) == pc' = [pc EXCEPT ![a] = stage]
Child(a, n) == child' = [child EXCEPT ![a] = n]
Machine(a, state) == machine' = [machine EXCEPT ![a] = state]
End(a, how) == To(a, "ended") /\ outcome' = [outcome EXCEPT ![a] = how]
Emitted(a, kinds) ==
    frames[a] \o [k \in 1 .. Len(kinds) |-> [kind |-> kinds[k], seq |-> restarts[a]]]
Emit(a, kinds) == frames' = [frames EXCEPT ![a] = Emitted(a, kinds)]

\* A task the group cancels meets the cancellation where it is suspended, once.
CancelPending(a) == group # "running" /\ ~told[a]
Runs(a, stage) == ~CancelPending(a) /\ pc[a] = stage
Holding == {a \in Adapters : pc[a] \notin {"queued", "ended"}}

\* supervise_all: the semaphore is held as long as the adapter is supervised.
Begin(a) ==
    /\ Runs(a, "queued") /\ Cardinality(Holding) < MaxBoots
    /\ To(a, "top")
    /\ UNCHANGED <<runVars, stop, core, told, group>>

Stop(a) ==
    /\ Machine(a, Feed(machine[a], "stop_requested"))
    /\ Emit(a, <<"down">>)
    /\ End(a, "down")

StopAtTop(a) ==
    /\ Runs(a, "top") /\ stop[a]
    /\ Stop(a)
    /\ UNCHANGED <<child, crashes, restarts, probes, stop, core, told, group>>

\* _enter_awaiting_core: entered from wherever the loop is, by way of RESTARTING.
EnterAwaitingCore(a) ==
    /\ Machine(a, Feed("restarting", "cred_unavailable"))
    /\ probes' = [probes EXCEPT ![a] = 0]
    /\ To(a, "awaiting")
    /\ UNCHANGED <<crashes, restarts, stop, outcome, frames, core, told, group>>

CoreMissing(a) ==
    /\ Runs(a, "top") /\ ~stop[a] /\ ~core
    /\ Child(a, child[a])
    /\ EnterAwaitingCore(a)

StartChild(a) ==
    /\ Machine(a, Feed("spawning", "spawn_started"))
    /\ Child(a, child[a] + 1)
    /\ To(a, "cred")
    /\ UNCHANGED <<crashes, restarts, probes, stop, outcome, frames, core, told, group>>

Spawn(a) == Runs(a, "top") /\ ~stop[a] /\ core /\ StartChild(a)

\* Variant: a crash keeps the incarnation.
CountCrashUncounted(a, kept) ==
    /\ crashes' = [crashes EXCEPT ![a] = kept + 1]
    /\ IF kept + 1 >= Threshold
       THEN /\ Machine(a, Feed("crashed", "breaker_tripped"))
            /\ Emit(a, <<"crashed", "breaker_open">>) /\ End(a, "breaker")
       ELSE Machine(a, "crashed") /\ Emit(a, <<"crashed">>) /\ To(a, "backoff") /\ UNCHANGED outcome
    /\ UNCHANGED restarts

\* _handle_crash with its frame: older crashes may have left the window.
CountCrash(a, kept) ==
    /\ crashes' = [crashes EXCEPT ![a] = kept + 1]
    /\ IF kept + 1 >= Threshold
       THEN /\ Machine(a, Feed("crashed", "breaker_tripped"))
            /\ Emit(a, <<"crashed", "breaker_open">>)
            /\ End(a, "breaker")
            /\ UNCHANGED restarts
       ELSE /\ restarts[a] < MaxRestarts
            /\ Machine(a, "crashed")
            /\ Emit(a, <<"crashed">>)
            /\ restarts' = [restarts EXCEPT ![a] = @ + 1]
            /\ To(a, "backoff")
            /\ UNCHANGED outcome

\* The first spawn of an adapter fails loud: its error aborts the task group.
RaiseOut(a) ==
    /\ Machine(a, Feed("handshaking", "handshake_failed"))
    /\ Emit(a, <<"crashed">>)
    /\ End(a, "raised")
    /\ group' = IF group = "running" THEN "aborting" ELSE group
    /\ UNCHANGED <<crashes, restarts>>

FirstAttempt(a) == restarts[a] = 0 /\ crashes[a] = 0

\* A failed spawn: the child is reaped; the first is raised, a later one a crash.
SpawnLost(a) ==
    /\ Child(a, 0)
    /\ IF FirstAttempt(a)
       THEN RaiseOut(a)
       ELSE /\ \E kept \in 0 .. crashes[a] : CountCrash(a, kept)
            /\ UNCHANGED group
    /\ UNCHANGED <<probes, stop, core>>

\* The spawn, the credential or the handshake is refused.
SpawnFails(a) ==
    /\ \/ Runs(a, "top") /\ ~stop[a] /\ core
       \/ Runs(a, "cred")
       \/ Runs(a, "shake")
    /\ SpawnLost(a)
    /\ UNCHANGED told

\* The core leg is gone while the grant is out: not a crash.
LegDown(a) ==
    /\ Runs(a, "cred") /\ ~core
    /\ Child(a, 0)
    /\ EnterAwaitingCore(a)

Granted(a) ==
    /\ Runs(a, "cred") /\ core
    /\ To(a, "shake")
    /\ UNCHANGED <<runVars, stop, core, told, group>>

\* _enter_up: the frame is sent before the loop waits on the child.
HandshakeOk(a) ==
    /\ Runs(a, "shake")
    /\ Machine(a, Feed(machine[a], "handshake_ok"))
    /\ Emit(a, <<"up">>)
    /\ To(a, "entering")
    /\ UNCHANGED <<child, crashes, restarts, probes, outcome, stop, core, told, group>>

EnteredUp(a) ==
    /\ Runs(a, "entering")
    /\ To(a, "up")
    /\ UNCHANGED <<runVars, stop, core, told, group>>

\* Variant: a planned stop leaves the child.
StopUnreaped(a) ==
    /\ Runs(a, "up") /\ stop[a]
    /\ Stop(a)
    /\ UNCHANGED <<child, crashes, restarts, probes, stop, core, told, group>>

\* Variant: the wait on a live child does not watch the stop.
StopWhileUpIgnored(a) == FALSE /\ UNCHANGED vars

\* A stop wins over an exit seen at the same time.
StopWhileUp(a) ==
    /\ Runs(a, "up") /\ stop[a]
    /\ Child(a, 0)
    /\ Stop(a)
    /\ UNCHANGED <<crashes, restarts, probes, stop, core, told, group>>

ChildExits(a) ==
    /\ Runs(a, "up") /\ ~stop[a]
    /\ Child(a, 0)
    /\ \E kept \in 0 .. crashes[a] : CountCrash(a, kept)
    /\ UNCHANGED <<probes, stop, core, told, group>>

\* The retry inside _spawn_or_terminal looks at stop and epoch as the loop does.
BackoffOver(a) ==
    /\ Runs(a, "backoff")
    /\ Machine(a, Feed("crashed", "backoff_elapsed"))
    /\ To(a, "top")
    /\ UNCHANGED <<child, crashes, restarts, probes, outcome, frames, stop, core, told, group>>

StopWhileAwaiting(a) ==
    /\ Runs(a, "awaiting") /\ stop[a]
    /\ Stop(a)
    /\ UNCHANGED <<child, crashes, restarts, probes, stop, core, told, group>>

CoreIsBack(a) ==
    /\ Runs(a, "awaiting") /\ ~stop[a] /\ core
    /\ Machine(a, Feed(machine[a], "cred_available"))
    /\ To(a, "top")
    /\ UNCHANGED <<child, crashes, restarts, probes, outcome, frames, stop, core, told, group>>

\* A probe of the core fails; past the ceiling the breaker opens.
ProbeFails(a) ==
    /\ Runs(a, "awaiting") /\ ~stop[a] /\ ~core
    /\ probes' = [probes EXCEPT ![a] = @ + 1]
    /\ IF probes[a] + 1 < CoreCeiling
       THEN UNCHANGED <<pc, machine, outcome, frames>>
       ELSE /\ Machine(a, Feed("crashed", "breaker_tripped"))
            /\ Emit(a, <<"breaker_open">>)
            /\ End(a, "breaker")
    /\ UNCHANGED <<child, crashes, restarts, stop, core, told, group>>

\* Cancellation reaps a child waiting for its credential and in the wait on it,
\* not while the up frame is sent.
Cancelled(a) ==
    /\ CancelPending(a) /\ pc[a] \notin {"shake", "ended"}
    /\ told' = [told EXCEPT ![a] = TRUE]
    /\ End(a, "cancelled")
    /\ Child(a, IF pc[a] \in {"cred", "up"} THEN 0 ELSE child[a])
    /\ UNCHANGED <<machine, crashes, restarts, probes, frames, stop, core, group>>

\* spawn_and_handshake turns a cancellation of the handshake into a failed
\* spawn, and the loop goes on.
HandshakeCancelled(a) ==
    /\ CancelPending(a) /\ pc[a] = "shake"
    /\ told' = [told EXCEPT ![a] = TRUE]
    /\ SpawnLost(a)
-----------------------------------------------------------------------------
RequestStop(a) ==
    /\ ~stop[a] /\ pc[a] # "ended"
    /\ stop' = [stop EXCEPT ![a] = TRUE]
    /\ UNCHANGED <<pc, runVars, core, told, group>>

\* The gateway process cancels the supervisor.
Shutdown ==
    /\ group = "running" /\ group' = "shutdown"
    /\ UNCHANGED <<pc, runVars, stop, core, told>>

CoreLeg ==
    /\ core' = ~core
    /\ UNCHANGED <<pc, runVars, stop, told, group>>

Supervise(a) ==
    \/ Begin(a) \/ StopAtTop(a) \/ CoreMissing(a) \/ Spawn(a) \/ SpawnFails(a) \/ LegDown(a)
    \/ Granted(a) \/ HandshakeOk(a) \/ EnteredUp(a) \/ StopWhileUp(a) \/ BackoffOver(a)
    \/ StopWhileAwaiting(a) \/ CoreIsBack(a) \/ ProbeFails(a)
    \/ Cancelled(a) \/ HandshakeCancelled(a)

Next ==
    \/ \E a \in Adapters : Supervise(a) \/ ChildExits(a) \/ RequestStop(a)
    \/ CoreLeg
    \/ Shutdown

Spec == Init /\ [][Next]_vars

\* Every task that can go on does: its timers fire, its awaits return.
LiveSpec == Spec /\ \A a \in Adapters : WF_vars(Supervise(a))
-----------------------------------------------------------------------------
\* The frames of an adapter tell one story: an incarnation is up at most once and
\* crashes at most once, after it was up, in the order of host_restart_seq, and
\* nothing follows a down or an open breaker; and the loop never feeds the
\* lifecycle table an event its state does not take (_apply, _handle_crash, feed).
OneStory(s) ==
    \A j, k \in 1 .. Len(s) :
        j < k =>
          LET f == s[j]  g == s[k]
          IN  /\ f.kind \notin {"down", "breaker_open"}
              /\ f.seq <= g.seq
              /\ f.kind = g.kind => f.seq < g.seq
              /\ f.kind = "crashed" /\ g.kind = "up" => f.seq < g.seq
FramesTellOneStory ==
    \A a \in Adapters : machine[a] # "undefined" /\ OneStory(frames[a])

\* What makes it inductive: the state of the lifecycle machine where the loop
\* is, and what a frame sent so far may say while the incarnation r is at a stage.
Told(f, r, stage) ==
    /\ f.seq <= r
    /\ stage # "ended" => /\ f.kind \notin {"down", "breaker_open"}
                          /\ f.kind = "crashed" => f.seq < r
    /\ stage \notin {"entering", "up", "ended"} /\ f.kind = "up" => f.seq < r
Shown == [kind : {"up", "down", "crashed", "breaker_open"}, seq : Nat]
Tells(a) ==
    /\ frames[a] \in Seq(Shown)
    /\ OneStory(frames[a])
    /\ \A k \in 1 .. Len(frames[a]) : Told(frames[a][k], restarts[a], pc[a])
Fits(a) ==
    /\ machine[a] \in States
    /\ pc[a] \in {"queued", "top"} => machine[a] \in {"spawning", "restarting"}
    /\ pc[a] \in {"cred", "shake"} => machine[a] = "handshaking"
    /\ pc[a] \in {"entering", "up"} => machine[a] = "up"
    /\ pc[a] = "awaiting" => machine[a] = "awaiting_core"
StoryInv ==
    /\ pc = [a \in Adapters |-> pc[a]] /\ machine = [a \in Adapters |-> machine[a]]
    /\ frames = [a \in Adapters |-> frames[a]] /\ restarts \in [Adapters -> Nat]
    /\ \A a \in Adapters : Fits(a) /\ Tells(a)

\* A task that ended in a planned stop or an open breaker has no child left (_reap_child).
StopLeavesNoChild ==
    \A a \in Adapters : outcome[a] \in {"down", "breaker", "raised"} => child[a] = 0

\* What makes it inductive: a child lives only from its spawn to the end of the
\* wait on it, and a task that ended of itself goes nowhere.
Childless == {"queued", "top", "backoff", "awaiting"}
ChildInv ==
    /\ pc = [a \in Adapters |-> pc[a]]
    /\ child = [a \in Adapters |-> child[a]]
    /\ outcome = [a \in Adapters |-> outcome[a]]
    /\ \A a \in Adapters :
          /\ pc[a] \in Childless => child[a] = 0
          /\ outcome[a] \in {"down", "breaker", "raised"} => pc[a] = "ended" /\ child[a] = 0

\* A requested stop of a supervised adapter ends its task (supervise_one).
StopAsked(a) == stop[a] /\ pc[a] # "queued"
TaskEnded(a) == pc[a] = "ended"
StopEnds == \A a \in Adapters : StopAsked(a) ~> TaskEnded(a)

\* A shutdown leaks no child (_await_exit_or_stop).
NoLeakedChild == \A a \in Adapters : pc[a] = "ended" => child[a] = 0

\* The failed first spawn of one adapter does not stop the others (supervise_all).
SiblingsSurvive ==
    group = "aborting" => \A a \in Adapters : outcome[a] # "cancelled"

\* The semaphore bounds concurrent boots: an adapter that waits for it waits for
\* one that boots (supervise_all).
OnlyBootsAreBounded ==
    group = "running" /\ Cardinality(Holding) = MaxBoots =>
        \A a \in Adapters : pc[a] = "queued" =>
            \E b \in Adapters : pc[b] \notin {"up", "ended", "queued"}
=============================================================================
