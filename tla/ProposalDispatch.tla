-------------------------- MODULE ProposalDispatch --------------------------
(***************************************************************************)
(* The dispatch of merged state.git proposals (state/dispatch_loop.py and  *)
(* the loop of supervisor/core.py that ticks it).  A cycle reads the       *)
(* sentinel head from Postgres, walks the blobs added between it and       *)
(* origin/main, dispatches each to its handler, records a ledger row and   *)
(* an audit row, and bumps the sentinel.  Every Postgres transaction, git  *)
(* call, DLP scan and audit append is a step that may fail, and the        *)
(* process may die between any two of them.  The one registered handler    *)
(* resets a circuit breaker, which trips on its own.                       *)
(***************************************************************************)
EXTENDS Integers, Sequences, FiniteSets

CONSTANTS
    Resets,         \* proposals under policies/breaker-resets with a valid body
    Malformed,      \* ... whose body does not parse or validate
    Unknown,        \* proposals of a type without a handler
    Bootstrap,      \* what main held before the first cycle
    MaxHeads,       \* bound on the commits on main
    MaxTrips,       \* bound on the trips of the breaker
    MaxFaults       \* bound on the failures and crashes

Proposals == Resets \cup Malformed \cup Unknown

ASSUME DispatchAssumption ==
    /\ Proposals \subseteq Nat
    /\ Bootstrap \subseteq Proposals
    /\ MaxHeads \in Nat /\ MaxTrips \in Nat /\ MaxFaults \in Nat

NoHead == 0

VARIABLES
    main,       \* the trees of main, one per head; heads are numbered from 1
    sentinel,   \* processed_proposals_head.head_sha
    ledger,     \* processed_proposals: the result recorded for a proposal
    audited,    \* proposals with their state.proposal.* row
    before,     \* the tree the first cycle started from
    renamed,    \* added blobs a walk took for the new name of a deleted one
    refused,    \* proposals whose failure detail the DLP scan stopped
    breaker,    \* the breaker in memory
    stored,     \* its circuit_breakers row
    trips,      \* how often it tripped
    cleared,    \* for a proposal, the trips its handler's runs have cleared
    stage,      \* where the cycle is
    target,     \* current_head of the cycle
    batch,      \* the added blobs still to dispatch, by sorted path
    outcome,    \* what the handler, or the step before it, made of the blob
    faults

cycleVars == <<stage, target, batch, outcome>>
effectVars == <<breaker, stored, trips, cleared>>
vars == <<main, sentinel, before, renamed, ledger, audited, refused, breaker, stored,
          trips, cleared, stage, target, batch, outcome, faults>>

Results == {"applied", "failed_handler", "failed_parse", "failed_unknown_type"}
Stages == {"idle", "check", "handle", "persist", "handlerAudit", "scan", "record", "audit"}

OriginMain == Len(main)
Tree(h) == main[h]
Blob == CHOOSE p \in batch : \A q \in batch : p <= q

Init ==
    /\ main = <<Bootstrap>>
    /\ sentinel = NoHead /\ before = {} /\ renamed = {}
    /\ ledger = [p \in Proposals |-> "none"]
    /\ audited = {} /\ refused = {}
    /\ breaker = "closed" /\ stored = "closed" /\ trips = 0
    /\ cleared = [p \in Proposals |-> {}]
    /\ stage = "idle" /\ target = NoHead /\ batch = {} /\ outcome = "none"
    /\ faults = 0
-----------------------------------------------------------------------------
Fault == faults < MaxFaults /\ faults' = faults + 1

Cycle(s, h, b, o) == stage' = s /\ target' = h /\ batch' = b /\ outcome' = o

\* _emit_cycle_skipped and return: the sentinel stays where it was.  An error
\* the cycle lets through ends the same way in _proposal_dispatch_loop.
Skip ==
    /\ Fault
    /\ Cycle("idle", NoHead, {}, "none")

SkippedVars == <<main, sentinel, before, renamed, ledger, audited, refused>>

\* The blob is done: the next one is looked at.
NextBlob == Cycle("check", target, batch \ {Blob}, "none")
-----------------------------------------------------------------------------
\* The cycle's frame.

\* git diff last..current compares two trees.  It takes an added blob that is
\* like a deleted one for its new name, one for one, and --diff-filter=A then
\* leaves it out.  Which blobs are alike is in their bodies, which the model
\* does not hold: two resets of one component are.
Added(last, current) == Tree(current) \ Tree(last)
Renames(last, current) ==
    {r \in SUBSET Added(last, current) :
        Cardinality(r) <= Cardinality(Tree(last) \ Tree(current))}
_walk_added_blobs(last, current, names) == Added(last, current) \ names

\* A NULL sentinel is set to the current head and nothing is dispatched.
BootstrapSentinel ==
    /\ stage = "idle" /\ sentinel = NoHead
    /\ sentinel' = OriginMain /\ before' = Tree(OriginMain)
    /\ UNCHANGED <<main, renamed, ledger, audited, refused, effectVars, cycleVars, faults>>

BeginCycle ==
    /\ stage = "idle" /\ sentinel # NoHead /\ sentinel # OriginMain
    /\ \E names \in Renames(sentinel, OriginMain) :
         /\ Cycle("check", OriginMain, _walk_added_blobs(sentinel, OriginMain, names), "none")
         /\ renamed' = renamed \cup names
    /\ UNCHANGED <<main, sentinel, before, ledger, audited, refused, effectVars, faults>>

\* Postgres or git refuses one of the reads that open the cycle.
BeginFails ==
    /\ stage = "idle"
    /\ Skip
    /\ UNCHANGED <<SkippedVars, effectVars>>

_bump_sentinel ==
    /\ stage = "check" /\ batch = {}
    /\ sentinel' = target
    /\ Cycle("idle", NoHead, {}, "none")
    /\ UNCHANGED <<main, before, renamed, ledger, audited, refused, effectVars, faults>>

BumpFails ==
    /\ stage = "check" /\ batch = {}
    /\ Skip
    /\ UNCHANGED <<SkippedVars, effectVars>>
-----------------------------------------------------------------------------
\* _dispatch_one up to the handler.

Reaches(p) ==
    IF p \in Unknown THEN <<"record", "failed_unknown_type">>
    ELSE IF p \in Malformed THEN <<"scan", "failed_parse">>
    ELSE <<"handle", "none">>

\* Variant: the ledger is not looked up.
LookUpUnread ==
    /\ stage = "check" /\ batch # {}
    /\ Cycle(Reaches(Blob)[1], target, batch, Reaches(Blob)[2])
    /\ UNCHANGED <<SkippedVars, effectVars, faults>>

\* The composite-key lookup, then the handler's registration and the body.
LookUp ==
    /\ stage = "check" /\ batch # {}
    /\ IF ledger[Blob] # "none" THEN NextBlob
       ELSE Cycle(Reaches(Blob)[1], target, batch, Reaches(Blob)[2])
    /\ UNCHANGED <<SkippedVars, effectVars, faults>>

\* The blob cannot be read: recorded without a detail to scan.
ReadBlobFails ==
    /\ stage = "handle" /\ Fault
    /\ Cycle("record", target, batch, "failed_parse")
    /\ UNCHANGED <<SkippedVars, effectVars>>

\* The lookup, or a git timeout on the blob, ends the cycle.
LookUpFails ==
    /\ stage \in {"check", "handle"} /\ batch # {}
    /\ Skip
    /\ UNCHANGED <<SkippedVars, effectVars>>
-----------------------------------------------------------------------------
\* _handle_breaker_reset and Supervisor.reset_breaker: memory, then the
\* circuit_breakers row, then the supervisor's own audit row.

\* reset_breaker closes the breaker before its first await.
ResetInMemory ==
    /\ stage = "handle"
    /\ breaker' = "closed"
    /\ cleared' = IF breaker = "open" THEN [cleared EXCEPT ![Blob] = @ \cup {trips}] ELSE cleared
    /\ Cycle("persist", target, batch, "none")
    /\ UNCHANGED <<SkippedVars, stored, trips, faults>>

\* NoSuchComponentError: an outcome, not an exception.
NoSuchComponent ==
    /\ stage = "handle" /\ Fault
    /\ Cycle("scan", target, batch, "failed_handler")
    /\ UNCHANGED <<SkippedVars, effectVars>>

PersistReset ==
    /\ stage = "persist"
    /\ stored' = breaker
    /\ Cycle("handlerAudit", target, batch, "none")
    /\ UNCHANGED <<SkippedVars, breaker, trips, cleared, faults>>

HandlerReturns ==
    /\ stage = "handlerAudit"
    /\ Cycle("record", target, batch, "applied")
    /\ UNCHANGED <<SkippedVars, effectVars, faults>>

\* A transaction or audit append of the handler fails: whatever it has done
\* stays done and the exception is recorded as the handler's.
HandlerRaises ==
    /\ stage \in {"persist", "handlerAudit"} /\ Fault
    /\ Cycle("scan", target, batch, "failed_handler")
    /\ UNCHANGED <<SkippedVars, effectVars>>
-----------------------------------------------------------------------------
\* _record_applied and _record_failure.

\* Variant: a failure detail that passes the scan ends the cycle.
ScanAbandonsBatch ==
    /\ stage = "scan"
    /\ Cycle("idle", NoHead, {}, "none")
    /\ UNCHANGED <<SkippedVars, effectVars, faults>>

ScanPasses ==
    /\ stage = "scan"
    /\ Cycle("record", target, batch, outcome)
    /\ UNCHANGED <<SkippedVars, effectVars, faults>>

\* HookRefusal, or a fault of the scanner: an audit row of its own, no ledger
\* row, and the cycle goes on.
ScanRefuses ==
    /\ stage = "scan" /\ Fault
    /\ refused' = refused \cup {Blob}
    /\ NextBlob
    /\ UNCHANGED <<main, sentinel, before, renamed, ledger, audited, effectVars>>

ScanRefusalNotAudited ==
    /\ stage = "scan" /\ Skip
    /\ UNCHANGED <<SkippedVars, effectVars>>

InsertLedgerRow ==
    /\ stage = "record"
    /\ ledger' = [ledger EXCEPT ![Blob] = outcome]
    /\ Cycle("audit", target, batch, outcome)
    /\ UNCHANGED <<main, sentinel, before, renamed, audited, refused, effectVars, faults>>

InsertFails ==
    /\ stage = "record" /\ Skip
    /\ UNCHANGED <<SkippedVars, effectVars>>

AppendAuditRow ==
    /\ stage = "audit"
    /\ audited' = audited \cup {Blob}
    /\ NextBlob
    /\ UNCHANGED <<main, sentinel, before, renamed, ledger, refused, effectVars, faults>>

\* _PostHandlerAuditFailure: the row stays, the rest of the batch is given up.
PostHandlerAuditFailure ==
    /\ stage = "audit" /\ Skip
    /\ UNCHANGED <<SkippedVars, effectVars>>
-----------------------------------------------------------------------------
\* The surroundings.

\* A reviewer merges a proposal.
Merge(p) ==
    /\ Len(main) < MaxHeads
    /\ p \notin Tree(OriginMain)
    /\ main' = Append(main, Tree(OriginMain) \cup {p})
    /\ UNCHANGED <<sentinel, before, renamed, ledger, audited, refused, effectVars, cycleVars, faults>>

\* A merged proposal is reverted.
Revert(p) ==
    /\ Len(main) < MaxHeads
    /\ p \in Tree(OriginMain)
    /\ main' = Append(main, Tree(OriginMain) \ {p})
    /\ UNCHANGED <<sentinel, before, renamed, ledger, audited, refused, effectVars, cycleVars, faults>>

\* The component fails until its breaker opens.  Nothing saves it yet: only a
\* reset and a stop write the row.
Trip ==
    /\ trips < MaxTrips /\ breaker = "closed"
    /\ breaker' = "open" /\ trips' = trips + 1
    /\ UNCHANGED <<SkippedVars, stored, cleared, cycleVars, faults>>

\* The daemon dies, or is stopped, which saves its breakers, and boots: what
\* was in memory is gone, the breaker is new and no boot reads the row.
Crash ==
    /\ Skip
    /\ breaker' = "closed" /\ stored' \in {stored, breaker}
    /\ UNCHANGED <<SkippedVars, trips, cleared>>

CycleStep ==
    \/ BootstrapSentinel \/ BeginCycle \/ _bump_sentinel \/ LookUp
    \/ ResetInMemory \/ PersistReset \/ HandlerReturns
    \/ ScanPasses \/ InsertLedgerRow \/ AppendAuditRow

Failure ==
    \/ BeginFails \/ BumpFails \/ LookUpFails \/ ReadBlobFails \/ NoSuchComponent
    \/ HandlerRaises \/ ScanRefuses \/ ScanRefusalNotAudited \/ InsertFails
    \/ PostHandlerAuditFailure \/ Crash

Next ==
    \/ CycleStep
    \/ Failure
    \/ \E p \in Proposals : Merge(p) \/ Revert(p)
    \/ Trip

Spec == Init /\ [][Next]_vars

FairSpec == Spec /\ WF_vars(CycleStep)
-----------------------------------------------------------------------------
TypeOK ==
    /\ \A h \in 1..Len(main) : main[h] \subseteq Proposals
    /\ Len(main) >= 1
    /\ sentinel \in 0..Len(main) /\ target \in 0..Len(main)
    /\ ledger \in [Proposals -> Results \cup {"none"}]
    /\ audited \subseteq Proposals /\ refused \subseteq Proposals /\ renamed \subseteq Proposals
    /\ stage \in Stages /\ batch \subseteq Proposals
    /\ stage \notin {"idle", "check"} => batch # {}

\* A proposal is settled when its dispatch left a ledger row or was stopped by
\* the DLP scan.
Settled(p) == ledger[p] # "none" \/ p \in refused

\* "we do not bump the sentinel past unprocessed blobs": every blob of the tree
\* the sentinel names was settled, or was there when the first cycle started,
\* whatever was merged or reverted in between.
SentinelCovers ==
    sentinel # NoHead => \A p \in Tree(sentinel) : Settled(p) \/ p \in before

\* The walk's renames are all the sentinel can pass unsettled: whatever failed,
\* crashed, was merged or reverted, no blob that a walk surfaced is lost.
OnlyRenamesSkipped ==
    sentinel # NoHead => \A p \in Tree(sentinel) : Settled(p) \/ p \in before \cup renamed

\* Replay safety: once a proposal has its ledger row the row stays as it is and
\* its handler does not run again, although its blob may be walked again after
\* a crash before the bump, a skipped cycle, or a revert and a second merge.
LedgerStopsReplay ==
    [][\A p \in Proposals : ledger[p] # "none" =>
          ledger'[p] = ledger[p] /\ cleared'[p] = cleared[p]]_vars

\* The dispatch implements ProposalSettlement: whatever fails, crashes, is merged
\* or reverted, a proposal gets one result, its handler never acts after it, and
\* the sentinel names a tree of settled proposals, of what was there before and
\* of what a walk took for a rename.
Settlement == INSTANCE ProposalSettlement WITH
    decision <- ledger,
    acted    <- cleared,
    passed   <- IF sentinel = NoHead THEN {} ELSE Tree(sentinel),
    excused  <- before \cup refused \cup renamed

SettlesOnce == Settlement!Spec

\* A skipped cycle only delays: with the loop scheduled and the failures at an
\* end, a proposal that stays on main after the first cycle is settled, unless a
\* walk took it for a rename.
MergedIsSettled ==
    \A p \in Proposals :
        (sentinel # NoHead /\ p \in Tree(OriginMain) /\ p \notin before)
            ~> (Settled(p) \/ p \in renamed \/ p \notin Tree(OriginMain))

\* "every dispatch leaves an audit row + a ledger row", the ledger's half: the
\* sentinel passes no dispatched blob without a ledger row.
DispatchLeavesLedgerRow ==
    sentinel # NoHead => \A p \in Tree(sentinel) \ (before \cup renamed) : ledger[p] # "none"

\* The audit log's half: no recorded blob the sentinel has passed is without
\* its state.proposal.* row.
DispatchLeavesAuditRow ==
    sentinel # NoHead => \A p \in Tree(sentinel) \ before : ledger[p] # "none" => p \in audited

\* "re-invokes the handler (idempotent -> no observable change)": one approved
\* reset never clears two different trips.
ReplayClearsNothingNew ==
    \A p \in Proposals : \A t, u \in cleared[p] : t = u
=============================================================================
