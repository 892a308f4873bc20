------------------------- MODULE MCProposalDispatch -------------------------
\* What an operator changes in the running system, for one run: the dispatch
\* of merged proposals, the commands that write them, the configuration file
\* and its watcher, the circuit breakers. They share no state here: `machine`
\* names the one a behaviour is of, and s1 .. s8 are the variables of the other
\* three. The dispatch's variables stay as Init leaves them in the behaviours
\* of another machine.
EXTENDS ProposalDispatch
CONSTANTS
    Shells, Ids, Nobody,                                \* OperatorProposals
    PolicyFields, Allowlist, Knobs, Editors, MaxWrites, Failures, Nothing,   \* OperatorConfig
    Callers, Threshold, FailureWindow, ReArm, MaxNow    \* Breakers

ASSUME BreakerAssumption == Threshold \in Nat

VARIABLES machine, s1, s2, s3, s4, s5, s6, s7, s8

slots == <<s1, s2, s3, s4, s5, s6, s7, s8>>
allVars == <<vars, machine, slots>>

Proposal == INSTANCE OperatorProposals WITH Procs <- Shells,
    proc <- s1, shown <- s2, rows <- s3, branches <- s4, main <- s5, merged <- s6, ledger <- s7
Config == INSTANCE OperatorConfig WITH Procs <- Editors, Fields <- PolicyFields,
    file <- s1, proc <- s2, active <- s3, watcher <- s4, cached <- s5, health <- s6, told <- s7
Breaker == INSTANCE Breakers WITH
    now <- s1, brk <- s2, row <- s3, calls <- s4, resetting <- s5, phase <- s6,
    stopping <- s7, resetTrips <- s8

\* Nothing is neither a file that parses nor the policies of one.
ASSUME ConfigAssumption == Nothing \notin Config!Texts /\ Nothing \notin Config!Policies

Unused == "unused"
Idle8 == s8 = Unused
Idle1 == s1 = Unused /\ s2 = Unused /\ s3 = Unused /\ s4 = Unused /\ s5 = Unused
         /\ s6 = Unused /\ s7 = Unused /\ Idle8

AllInit ==
    /\ Init
    /\ \/ machine = "dispatch" /\ Idle1
       \/ machine = "proposals" /\ Proposal!Init /\ Idle8
       \/ machine = "config" /\ Config!Init /\ Idle8
       \/ machine = "breakers" /\ Breaker!Init

DispatchStep(A) == machine = "dispatch" /\ A /\ UNCHANGED <<machine, slots>>
Of(name, A) == machine = name /\ A /\ UNCHANGED <<vars, machine>>

AllNext ==
    \/ DispatchStep(Next)
    \/ Of("proposals", Proposal!Next) /\ UNCHANGED s8
    \/ Of("config", Config!Next) /\ UNCHANGED s8
    \/ Of("breakers", Breaker!Next)

AllSpec == AllInit /\ [][AllNext]_allVars /\ WF_allVars(DispatchStep(CycleStep))
-----------------------------------------------------------------------------
\* Approving one proposal undoes no other (OperatorProposals!ApprovedStays).
ApprovedStays == machine = "proposals" => Proposal!ApprovedStays

\* A file the watcher takes for known is applied or refused (OperatorConfig!CachedMeansApplied).
CachedMeansApplied == machine = "config" => Config!CachedMeansApplied

\* A reset reported as a success is not undone by a later save (Breakers!ResetNotUndone).
ResetNotUndone == machine = "breakers" => Breaker!ResetNotUndone
=============================================================================
