----------------------------- MODULE MCAdapters -----------------------------
\* Four machines of the adapter path for one run: the pump of the core
\* (CommsRunner), the supervisor of the gateway (AdapterSupervision), the
\* status observer of the core (AdapterStatus) and the delivery of credentials
\* to the children (SpawnCredentials). They share no state here: `machine`
\* names the one a behaviour is of, and s1 .. s12 are its variables.
EXTENDS Integers, Sequences, FiniteSets
CONSTANTS Notes, Others, Nobody, MaxInFlight, PerCaller, WireLimit,
          Adapters, MaxBoots, Threshold, CoreCeiling, MaxRestarts,
          MaxSeq, MaxIncidents, MaxFrames,
          Spawns, Incarnations, Known, MaxGranted
ASSUME CapsAssumption == MaxIncidents \in Nat \ {0}

VARIABLES machine, s1, s2, s3, s4, s5, s6, s7, s8, s9, s10, s11, s12

vars == <<machine, s1, s2, s3, s4, s5, s6, s7, s8, s9, s10, s11, s12>>

Runner == INSTANCE CommsRunner WITH
    reader <- s1, stopped <- s2, cause <- s3, restarts <- s4, wire <- s5, unsent <- s6,
    plugin <- s7, sent <- s8, pending <- s9, nextId <- s10, caller <- s11, shutdown <- s12
Supervisor == INSTANCE AdapterSupervision WITH
    pc <- s1, machine <- s2, child <- s3, crashes <- s4, restarts <- s5, probes <- s6,
    stop <- s7, outcome <- s8, frames <- s9, core <- s10, group <- s11,
    told <- s12
Status == INSTANCE AdapterStatus WITH
    gateway <- s1, frames <- s2, tasks <- s3, rows <- s4, folds <- s5, current <- s6,
    incidents <- s7, latest <- s8, lost <- s9
Creds == INSTANCE SpawnCredentials WITH
    leg <- s1, spawn <- s2, pending <- s3, wire <- s4, core <- s5, granted <- s6, rows <- s7,
    restart <- s8

Unused == "unused"
Init ==
    \/ machine = "runner" /\ Runner!Init
    \/ machine = "supervisor" /\ Supervisor!Init
    \/ machine = "status" /\ Status!Init /\ s10 = Unused /\ s11 = Unused /\ s12 = Unused
    \/ machine = "credentials" /\ Creds!Init
       /\ s9 = Unused /\ s10 = Unused /\ s11 = Unused /\ s12 = Unused

RunnerStep(A) == machine = "runner" /\ A /\ UNCHANGED machine
SupervisorStep(A) == machine = "supervisor" /\ A /\ UNCHANGED machine
StatusStep(A) == machine = "status" /\ A /\ UNCHANGED <<machine, s10, s11, s12>>
CredentialStep(A) == machine = "credentials" /\ A /\ UNCHANGED <<machine, s9, s10, s11, s12>>

Next ==
    \/ RunnerStep(Runner!Next)
    \/ SupervisorStep(Supervisor!Next)
    \/ StatusStep(Status!Next)
    \/ CredentialStep(Creds!Next)

Spec ==
    /\ Init /\ [][Next]_vars
    /\ WF_vars(RunnerStep(Runner!Reader))
    /\ \A c \in Notes \cup Others : WF_vars(RunnerStep(Runner!Task(c)))
    /\ \A a \in Adapters : WF_vars(SupervisorStep(Supervisor!Supervise(a)))
-----------------------------------------------------------------------------
\* A closed pump leaves no task and no open future (CommsRunner!ClosedIsQuiet).
ClosedIsQuiet == machine = "runner" => Runner!ClosedIsQuiet

\* A shutdown ends the pump (CommsRunner!ShutdownCloses).
ShutdownCloses ==
    (machine = "runner" /\ Runner!ShutDown) ~> (machine = "runner" => Runner!Closed)

\* The frames of an adapter tell one story (AdapterSupervision!FramesTellOneStory).
FramesTellOneStory == machine = "supervisor" => Supervisor!FramesTellOneStory

\* A stopped adapter leaves no child (AdapterSupervision!StopLeavesNoChild).
StopLeavesNoChild == machine = "supervisor" => Supervisor!StopLeavesNoChild

\* A requested stop ends the adapter's task (AdapterSupervision!StopEnds).
StopEnds ==
    \A a \in Adapters :
        (machine = "supervisor" /\ Supervisor!StopAsked(a))
            ~> (machine = "supervisor" => Supervisor!TaskEnded(a))

\* A crash is counted once (AdapterStatus!OneIncidentPerIncarnation).
OneIncidentPerIncarnation == machine = "status" => Status!OneIncidentPerIncarnation

\* A delivered credential has its row (SpawnCredentials!DeliveredIsAudited).
DeliveredIsAudited == machine = "credentials" => Creds!DeliveredIsAudited
=============================================================================
