----------------------- MODULE ProposalDispatchProofs -----------------------
(***************************************************************************)
(* For any proposals, any number of commits, trips and failures: the       *)
(* sentinel passes no blob a walk surfaced unsettled, and a ledger row      *)
(* stops every replay.  Then three services of the same run: the operator  *)
(* proposals, the policy file and the adapters' breakers.                  *)
(***************************************************************************)
EXTENDS MCProposalDispatch, WellFoundedInduction, TLAPS

USE SMTT(30)

\* What is done with a proposal.
Done(p) == ledger[p] # "none" \/ p \in refused \/ p \in before \cup renamed

\* Heads, trees and the ledger have their types; the sentinel and the cycle's
\* target are heads of main.
Typed ==
    /\ main \in Seq(SUBSET Proposals) /\ Len(main) >= 1
    /\ sentinel \in 0..Len(main)
    /\ target \in 0..Len(main)
    /\ ledger \in [Proposals -> Results \cup {"none"}]
    /\ cleared \in [Proposals -> SUBSET Nat]
    /\ trips \in Nat
    /\ outcome \in Results \cup {"none"}

\* In a cycle everything of the target's tree that is not in the batch any
\* more is done; a row about to be written has a result, and one about to be
\* audited was written.  A blob past the lookup has no row yet.
Underway ==
    /\ stage # "idle" => /\ sentinel # NoHead /\ target # NoHead
                         /\ \A p \in Tree(target) : p \in batch \/ Done(p)
    /\ stage \in {"scan", "record"} => outcome # "none"
    /\ stage = "audit" => (Blob \in Proposals => ledger[Blob] # "none")
    /\ stage \in {"handle", "persist", "handlerAudit", "scan", "record"}
          => (Blob \in Proposals => ledger[Blob] = "none")

Covered == sentinel # NoHead => \A p \in Tree(sentinel) : Done(p)

IInv == Typed /\ Underway /\ Covered
-----------------------------------------------------------------------------
\* The initial state: no sentinel, no cycle.
LEMMA InitIInv == Init => IInv
  BY DispatchAssumption DEF Init, IInv, Typed, Underway, Covered, Proposals, NoHead, Results

\* Steps that leave main, the sentinel and the records alone keep everything
\* that does not speak of the cycle.
LEMMA KeepCovered ==
  ASSUME IInv, UNCHANGED SkippedVars
  PROVE  /\ Covered'
         /\ \A p \in Proposals : Done(p)' <=> Done(p)
  BY Zenon DEF IInv, Covered, SkippedVars, Done, Tree, NoHead

\* A skipped cycle: the cycle is over.
LEMMA SkipStep ==
  ASSUME IInv, Skip, UNCHANGED SkippedVars, UNCHANGED <<cleared, trips>>
  PROVE  IInv'
  <1>1. Covered' BY KeepCovered, Zenon
  <1>2. Typed' BY DEF IInv, Typed, Skip, Cycle, SkippedVars, NoHead
  <1>3. Underway' BY Zenon DEF Skip, Cycle, Underway
  <1> QED BY <1>1, <1>2, <1>3, Zenon DEF IInv

\* The steps of the cycle up to the record, which change no record.
LEMMA QuietStep ==
  ASSUME IInv,
         \/ LookUp \/ ReadBlobFails \/ ResetInMemory \/ NoSuchComponent
         \/ PersistReset \/ HandlerReturns \/ HandlerRaises \/ ScanPasses
  PROVE  IInv'
  <1>u. UNCHANGED SkippedVars
    BY Zenon DEF LookUp, ReadBlobFails, ResetInMemory, NoSuchComponent,
           PersistReset, HandlerReturns, HandlerRaises, ScanPasses
  <1>1. Covered' BY <1>u, KeepCovered, Zenon
  <1>2. Typed'
    <2>1. outcome' \in Results \cup {"none"} /\ target' \in 0..Len(main)
      BY DEF IInv, Typed, LookUp, ReadBlobFails, ResetInMemory, NoSuchComponent,
           PersistReset, HandlerReturns, HandlerRaises, ScanPasses, Cycle, NextBlob, Reaches,
           Results
    <2>2. cleared' \in [Proposals -> SUBSET Nat] /\ trips' \in Nat
      BY Zenon DEF IInv, Typed, LookUp, ReadBlobFails, ResetInMemory, NoSuchComponent,
           PersistReset, HandlerReturns, HandlerRaises, ScanPasses, effectVars
    <2> QED BY <1>u, <2>1, <2>2, Zenon DEF IInv, Typed, SkippedVars
  <1>3. Underway'
    <2>2. CASE LookUp /\ ledger[Blob] # "none"
      <3>1. Cycle("check", target, batch \ {Blob}, "none")
        BY <2>2, Zenon DEF LookUp, NextBlob
      <3> QED BY <2>2, <3>1, <1>u, Zenon DEF IInv, Underway, Cycle, Tree, Done, SkippedVars, LookUp
    <2>3. CASE LookUp /\ ledger[Blob] = "none"
      <3>1. /\ stage' \in {"record", "scan", "handle"} /\ batch' = batch /\ target' = target
            /\ stage' # "handle" => outcome' # "none"
        BY <2>3, Zenon DEF LookUp, Cycle, Reaches
      <3>2. Blob' = Blob BY <3>1, Zenon DEF Blob
      <3> QED BY <2>3, <3>1, <3>2, <1>u, Zenon DEF IInv, Underway, Tree, Done, SkippedVars, LookUp
    <2>4. CASE \/ ReadBlobFails \/ ResetInMemory \/ NoSuchComponent
               \/ PersistReset \/ HandlerReturns \/ HandlerRaises \/ ScanPasses
      <3>1. /\ stage \in {"handle", "persist", "handlerAudit", "scan"}
            /\ stage' \in {"persist", "handlerAudit", "scan", "record"}
            /\ batch' = batch /\ target' = target
            /\ stage' \in {"scan", "record"} => outcome' # "none"
        BY <2>4, Zenon DEF IInv, Underway, ReadBlobFails, ResetInMemory, NoSuchComponent,
           PersistReset, HandlerReturns, HandlerRaises, ScanPasses, Cycle
      <3>2. Blob' = Blob BY <3>1, Zenon DEF Blob
      <3> QED BY <3>1, <3>2, <1>u, Zenon DEF IInv, Underway, Tree, Done, SkippedVars
    <2> QED BY <2>2, <2>3, <2>4, Zenon
  <1> QED BY <1>1, <1>2, <1>3, Zenon DEF IInv

\* A cycle begins with the added blobs its walk surfaced; the others are
\* renamed, and what the sentinel's tree held is done.
LEMMA WalkStep ==
  ASSUME IInv, BeginCycle
  PROVE  IInv'
  <1>1. PICK names \in Renames(sentinel, OriginMain) :
           /\ batch' = _walk_added_blobs(sentinel, OriginMain, names)
           /\ renamed' = renamed \cup names
    BY Zenon DEF BeginCycle, Cycle
  <1>2. /\ stage' = "check" /\ target' = OriginMain /\ outcome' = "none" /\ sentinel # NoHead
        /\ UNCHANGED <<main, sentinel, before, ledger, refused, cleared, trips>>
    BY Zenon DEF BeginCycle, Cycle, effectVars
  <1>3. Typed' BY <1>2 DEF IInv, Typed, OriginMain
  <1>4. \A p : Done(p) => Done(p)'
    BY <1>1, <1>2, Zenon DEF Done
  <1>5. Covered' BY <1>2, <1>4, Zenon DEF IInv, Covered, Tree
  <1>6. Underway'
    <2>1. \A p \in Tree(OriginMain) : p \in batch' \/ Done(p)'
      <3>1. \A p \in Tree(OriginMain) : p \in batch' \/ p \in names \/ p \in Tree(sentinel)
        BY <1>1, Zenon DEF _walk_added_blobs, Added
      <3>2. \A p \in Tree(sentinel) : Done(p) BY <1>2, Zenon DEF IInv, Covered
      <3>3. \A p \in names : Done(p)' BY <1>1, Zenon DEF Done
      <3> QED BY <3>1, <3>2, <3>3, <1>4, Zenon
    <2>2. OriginMain # NoHead BY DEF IInv, Typed, OriginMain, NoHead
    <2>3. Tree(target)' = Tree(OriginMain) BY <1>2, Zenon DEF Tree
    <2> QED BY <1>2, <2>1, <2>2, <2>3, Zenon DEF Underway, NoHead
  <1> QED BY <1>3, <1>5, <1>6, Zenon DEF IInv

\* The steps that record, and the ones that move the sentinel or main.
LEMMA RecordStep ==
  ASSUME IInv,
         \/ BootstrapSentinel \/ _bump_sentinel \/ ScanRefuses
         \/ InsertLedgerRow \/ AppendAuditRow
  PROVE  IInv'
  <1>1. CASE BootstrapSentinel
    BY <1>1 DEF IInv, Typed, Underway, Covered, BootstrapSentinel, effectVars, cycleVars,
                OriginMain, Tree, Done, NoHead
  <1>2. CASE _bump_sentinel
    <2>1. Typed' BY <1>2 DEF IInv, Typed, _bump_sentinel, Cycle, effectVars, NoHead
    <2>2. Underway' BY <1>2, Zenon DEF _bump_sentinel, Cycle, Underway
    <2>3. Covered'
      BY <1>2, Zenon DEF IInv, Underway, Covered, _bump_sentinel, Tree, Done, NoHead
    <2> QED BY <2>1, <2>2, <2>3, Zenon DEF IInv
  <1>3. CASE ScanRefuses
    <2>1. Typed' BY <1>3, Zenon DEF IInv, Typed, ScanRefuses, NextBlob, Cycle, effectVars
    <2>2. Underway'
      BY <1>3, Zenon DEF IInv, Underway, ScanRefuses, NextBlob, Cycle, Tree, Done
    <2>3. Covered' BY <1>3, Zenon DEF IInv, Covered, ScanRefuses, Tree, Done
    <2> QED BY <2>1, <2>2, <2>3, Zenon DEF IInv
  <1>4. CASE InsertLedgerRow
    <2>0. /\ stage = "record" /\ stage' = "audit" /\ batch' = batch /\ target' = target
          /\ ledger' = [ledger EXCEPT ![Blob] = outcome] /\ outcome # "none"
          /\ UNCHANGED <<main, sentinel, before, renamed, refused>>
      BY <1>4, Zenon DEF IInv, Underway, InsertLedgerRow, Cycle
    <2>1. Typed' BY <1>4, Zenon DEF IInv, Typed, InsertLedgerRow, Cycle, effectVars
    <2>2. \A p \in Proposals : Done(p) => Done(p)'
      BY <2>0, Zenon DEF IInv, Typed, Done
    <2>3. \A h \in 1..Len(main) : Tree(h) \subseteq Proposals
      BY DEF IInv, Typed, Tree
    <2>4. Blob' = Blob BY <2>0, Zenon DEF Blob
    <2>5. Underway'
      <3>1. Blob \in Proposals => ledger'[Blob] # "none" BY <2>0, Zenon DEF IInv, Typed
      <3>2. target \in 1..Len(main) /\ sentinel # NoHead
        BY <2>0 DEF IInv, Typed, Underway, NoHead
      <3>3. \A p \in Tree(target) : p \in batch \/ Done(p)'
        BY <2>0, <2>2, <2>3, <3>2, Zenon DEF IInv, Underway
      <3> QED BY <2>0, <2>4, <3>1, <3>2, <3>3 DEF Underway, Tree, NoHead
    <2>6. Covered'
      <3>1. CASE sentinel = NoHead BY <3>1, <2>0, Zenon DEF Covered
      <3>2. CASE sentinel # NoHead
        <4>1. sentinel \in 1..Len(main) BY <3>2 DEF IInv, Typed, NoHead
        <4> QED BY <4>1, <2>0, <2>2, <2>3, Zenon DEF IInv, Covered, Tree
      <3> QED BY <3>1, <3>2, Zenon
    <2> QED BY <2>1, <2>5, <2>6, Zenon DEF IInv
  <1>5. CASE AppendAuditRow
    <2>0. /\ stage = "audit" /\ stage' = "check" /\ batch' = batch \ {Blob} /\ target' = target
          /\ UNCHANGED <<main, sentinel, before, renamed, ledger, refused>>
      BY <1>5, Zenon DEF AppendAuditRow, NextBlob, Cycle
    <2>1. Typed' BY <1>5, Zenon DEF IInv, Typed, AppendAuditRow, NextBlob, Cycle, effectVars
    <2>2. target \in 1..Len(main) /\ sentinel # NoHead
      BY <2>0 DEF IInv, Typed, Underway, NoHead
    <2>3. Tree(target) \subseteq Proposals BY <2>2 DEF IInv, Typed, Tree
    <2>4. \A p \in Tree(target) : p \in batch \ {Blob} \/ Done(p)
      BY <2>0, <2>3, Zenon DEF IInv, Underway, Done
    <2>5. Underway' BY <2>0, <2>2, <2>4 DEF Underway, Tree, Done, NoHead
    <2>6. Covered' BY <2>0, Zenon DEF IInv, Covered, Tree, Done
    <2> QED BY <2>1, <2>5, <2>6, Zenon DEF IInv
  <1> QED BY <1>1, <1>2, <1>3, <1>4, <1>5, Zenon

\* A merge or a revert adds a head after the ones the cycle knows.
LEMMA CommitStep ==
  ASSUME IInv, NEW p \in Proposals, Merge(p) \/ Revert(p)
  PROVE  IInv'
  <1>0. PICK t \in SUBSET Proposals : main' = Append(main, t)
    <2>1. main[Len(main)] \in SUBSET Proposals BY DEF IInv, Typed
    <2> QED BY <2>1, Zenon DEF Merge, Revert, Tree, OriginMain
  <1>u. UNCHANGED <<sentinel, before, renamed, ledger, refused, cleared, trips, stage, target, batch, outcome>>
    BY Zenon DEF Merge, Revert, effectVars, cycleVars
  <1>1. /\ main' \in Seq(SUBSET Proposals) /\ Len(main') = Len(main) + 1
        /\ \A h \in 1..Len(main) : main'[h] = main[h]
    BY <1>0 DEF IInv, Typed
  <1>2. Typed' BY <1>1, <1>u DEF IInv, Typed
  <1>3. Covered'
    <2>1. CASE sentinel = NoHead BY <2>1, <1>u, Zenon DEF Covered
    <2>2. CASE sentinel # NoHead
      <3>1. sentinel \in 1..Len(main) BY <2>2 DEF IInv, Typed, NoHead
      <3> QED BY <3>1, <1>1, <1>u, Zenon DEF IInv, Covered, Tree, Done
    <2> QED BY <2>1, <2>2, Zenon
  <1>4. Underway'
    <2>1. Blob' = Blob BY <1>u, Zenon DEF Blob
    <2>2. CASE stage = "idle" BY <2>2, <1>u, Zenon DEF Underway
    <2>3. CASE stage # "idle"
      <3>1. target \in 1..Len(main) BY <2>3 DEF IInv, Typed, Underway, NoHead
      <3> QED BY <2>1, <2>3, <3>1, <1>1, <1>u, Zenon DEF IInv, Underway, Tree, Done
    <2> QED BY <2>2, <2>3, Zenon
  <1> QED BY <1>2, <1>3, <1>4, Zenon DEF IInv

\* Every step of the system keeps the invariant.
LEMMA StepIInv == IInv /\ [Next]_vars => IInv'
  <1> SUFFICES ASSUME IInv, [Next]_vars PROVE IInv' BY Zenon
  <1>0. CASE BeginCycle BY <1>0, WalkStep, Zenon
  <1>1. CASE \/ LookUp \/ ReadBlobFails \/ ResetInMemory \/ NoSuchComponent
             \/ PersistReset \/ HandlerReturns \/ HandlerRaises \/ ScanPasses
    BY <1>1, QuietStep, Zenon
  <1>2. CASE \/ BootstrapSentinel \/ _bump_sentinel \/ ScanRefuses
             \/ InsertLedgerRow \/ AppendAuditRow
    BY <1>2, RecordStep, Zenon
  <1>3. CASE \/ BeginFails \/ BumpFails \/ LookUpFails \/ ScanRefusalNotAudited
             \/ InsertFails \/ PostHandlerAuditFailure \/ Crash
    <2>1. Skip /\ UNCHANGED SkippedVars /\ UNCHANGED <<cleared, trips>>
      BY <1>3, Zenon DEF BeginFails, BumpFails, LookUpFails, ScanRefusalNotAudited, InsertFails,
                  PostHandlerAuditFailure, Crash, effectVars
    <2> QED BY <2>1, SkipStep, Zenon
  <1>4. CASE \E p \in Proposals : Merge(p) \/ Revert(p)
    BY <1>4, CommitStep, Zenon
  <1>5. CASE Trip
    BY <1>5 DEF IInv, Typed, Underway, Covered, Trip, SkippedVars, cycleVars, Tree, Done, Blob
  <1>6. CASE UNCHANGED vars
    BY <1>6, Zenon DEF vars, IInv, Typed, Underway, Covered, Tree, Done, Blob
  <1> QED
    BY <1>0, <1>1, <1>2, <1>3, <1>4, <1>5, <1>6, Zenon DEF Next, CycleStep, Failure
-----------------------------------------------------------------------------
\* The invariant holds in every reachable state.
THEOREM Invariant == Spec => []IInv
  BY InitIInv, StepIInv, PTL DEF Spec

\* For every set of proposals and any failures and crashes, the dispatch loop
\* bumps the sentinel past a blob it has not settled only when its walk took
\* the blob for the new name of a deleted one.
THEOREM SentinelSkipsOnlyRenames == Spec => []OnlyRenamesSkipped
  <1>1. IInv => OnlyRenamesSkipped
    BY Zenon DEF IInv, Covered, OnlyRenamesSkipped, Settled, Done
  <1> QED BY Invariant, <1>1, PTL

\* Only the insert writes the ledger and only the reset acts on the breaker,
\* both for the blob at hand, which has no row.
LEMMA LedgerKept ==
  ASSUME IInv, [Next]_vars, NEW p \in Proposals, ledger[p] # "none"
  PROVE  ledger'[p] = ledger[p] /\ cleared'[p] = cleared[p]
  <1>1. CASE InsertLedgerRow
    <2>1. ledger' = [ledger EXCEPT ![Blob] = outcome] /\ cleared' = cleared /\ stage = "record"
      BY <1>1, Zenon DEF InsertLedgerRow, effectVars
    <2>2. p # Blob BY <2>1, Zenon DEF IInv, Underway
    <2> QED BY <2>1, <2>2, Zenon DEF IInv, Typed
  <1>2. CASE ResetInMemory
    <2>1. /\ ledger' = ledger /\ stage = "handle"
          /\ cleared' = IF breaker = "open" THEN [cleared EXCEPT ![Blob] = @ \cup {trips}] ELSE cleared
      BY <1>2, Zenon DEF ResetInMemory, SkippedVars
    <2>2. p # Blob BY <2>1, Zenon DEF IInv, Underway
    <2> QED BY <2>1, <2>2, Zenon DEF IInv, Typed
  <1>3. CASE ~InsertLedgerRow /\ ~ResetInMemory
    <2>1. ledger' = ledger /\ cleared' = cleared
      BY <1>3, Zenon DEF Next, CycleStep, Failure, vars, SkippedVars, effectVars, BootstrapSentinel,
           BeginCycle, _bump_sentinel, LookUp, PersistReset, HandlerReturns, ScanPasses,
           AppendAuditRow, BeginFails, BumpFails, LookUpFails, ReadBlobFails, NoSuchComponent,
           HandlerRaises, ScanRefuses, ScanRefusalNotAudited, InsertFails,
           PostHandlerAuditFailure, Crash, Merge, Revert, Trip
    <2> QED BY <2>1, Zenon
  <1> QED BY <1>1, <1>2, <1>3, Zenon

\* For every set of proposals, a ledger row is final and stops its handler.
THEOREM ReplayIsStopped == Spec => LedgerStopsReplay
  <1>1. IInv /\ [Next]_vars =>
          [\A p \in Proposals : ledger[p] # "none" =>
              ledger'[p] = ledger[p] /\ cleared'[p] = cleared[p]]_vars
    BY LedgerKept, Zenon
  <1> QED BY Invariant, <1>1, PTL DEF Spec, LedgerStopsReplay
-----------------------------------------------------------------------------
\* The dispatch implements ProposalSettlement.

\* Until the sentinel is set nothing was there before.
NoneBefore == sentinel = NoHead => before = {}

\* Before the first cycle there is no tree to excuse.
LEMMA NoneBeforeStep == IInv /\ NoneBefore /\ [Next]_vars => NoneBefore'
  <1> SUFFICES ASSUME IInv, NoneBefore, [Next]_vars PROVE NoneBefore' BY Zenon
  <1>1. CASE BootstrapSentinel
    BY <1>1 DEF BootstrapSentinel, IInv, Typed, NoneBefore, NoHead, OriginMain
  <1>2. CASE _bump_sentinel
    BY <1>2, Zenon DEF _bump_sentinel, IInv, Underway, NoneBefore
  <1>3. CASE ~BootstrapSentinel /\ ~_bump_sentinel
    <2>1. sentinel' = sentinel /\ before' = before
      BY <1>3, Zenon DEF Next, CycleStep, Failure, vars, SkippedVars, BeginCycle, LookUp, ResetInMemory,
           PersistReset, HandlerReturns, ScanPasses, InsertLedgerRow, AppendAuditRow, BeginFails,
           BumpFails, LookUpFails, ReadBlobFails, NoSuchComponent, HandlerRaises, ScanRefuses,
           ScanRefusalNotAudited, InsertFails, PostHandlerAuditFailure, Crash, Merge, Revert, Trip
    <2> QED BY <2>1, Zenon DEF NoneBefore
  <1> QED BY <1>1, <1>2, <1>3, Zenon

\* What the mapping reads of main.
PassedBar == IF sentinel = NoHead THEN {} ELSE Tree(sentinel)

\* The trees that were there stay, so a sentinel that stays passes the same proposals.
LEMMA PassedKept ==
  ASSUME IInv, [Next]_vars, sentinel' = sentinel
  PROVE  PassedBar' = PassedBar
  <1>1. main' = main \/ \E t \in SUBSET Proposals : main' = Append(main, t)
    <2>1. CASE \E p \in Proposals : Merge(p) \/ Revert(p)
      <3>1. main[Len(main)] \in SUBSET Proposals BY DEF IInv, Typed
      <3> QED BY <2>1, <3>1, Zenon DEF Merge, Revert, Tree, OriginMain
    <2>2. CASE ~(\E p \in Proposals : Merge(p) \/ Revert(p))
      BY <2>2, Zenon DEF Next, CycleStep, Failure, vars, SkippedVars, BootstrapSentinel, _bump_sentinel,
           BeginCycle, LookUp, ResetInMemory,
           PersistReset, HandlerReturns, ScanPasses, InsertLedgerRow, AppendAuditRow, BeginFails,
           BumpFails, LookUpFails, ReadBlobFails, NoSuchComponent, HandlerRaises, ScanRefuses,
           ScanRefusalNotAudited, InsertFails, PostHandlerAuditFailure, Crash, Trip
    <2> QED BY <2>1, <2>2, Zenon
  <1>2. CASE sentinel = NoHead BY <1>2, Zenon DEF PassedBar
  <1>3. CASE sentinel # NoHead
    <2>1. sentinel \in 1..Len(main) BY <1>3 DEF IInv, Typed, NoHead
    <2>2. main'[sentinel] = main[sentinel] BY <1>1, <2>1 DEF IInv, Typed
    <2> QED BY <1>3, <2>2, Zenon DEF PassedBar, Tree
  <1> QED BY <1>2, <1>3, Zenon

\* A step of the dispatch is a step of the settlement or changes nothing of it.
LEMMA SettlementStep ==
  ASSUME IInv, IInv', NoneBefore, [Next]_vars
  PROVE  [Settlement!Next]_(Settlement!svars)
  <1> DEFINE ExcusedBar == before \cup refused \cup renamed
  <1>1. CASE InsertLedgerRow
    <2>1. /\ ledger' = [ledger EXCEPT ![Blob] = outcome] /\ outcome \in Results
          /\ Blob \in Proposals => ledger[Blob] = "none"
          /\ UNCHANGED <<cleared, sentinel, before, renamed, refused>>
      BY <1>1, Zenon DEF InsertLedgerRow, effectVars, IInv, Typed, Underway
    <2>2. PassedBar' = PassedBar BY <2>1, PassedKept, Zenon
    <2>3. CASE Blob \in Proposals
      <3>1. Settlement!Decide(Blob)
        BY <2>1, <2>2, <2>3, Zenon DEF Settlement!Decide, PassedBar
      <3> QED BY <2>3, <3>1, Zenon DEF Settlement!Next
    <2>4. CASE Blob \notin Proposals
      <3>1. ledger' = ledger BY <2>1, <2>4, Zenon DEF IInv, Typed
      <3> QED BY <2>1, <2>2, <3>1, Zenon DEF Settlement!svars, PassedBar
    <2> QED BY <2>3, <2>4, Zenon
  <1>2. CASE ResetInMemory
    <2>1. /\ cleared' = IF breaker = "open" THEN [cleared EXCEPT ![Blob] = @ \cup {trips}] ELSE cleared
          /\ Blob \in Proposals => ledger[Blob] = "none"
          /\ UNCHANGED <<ledger, sentinel, before, renamed, refused>>
      BY <1>2, Zenon DEF ResetInMemory, SkippedVars, IInv, Underway
    <2>2. PassedBar' = PassedBar BY <2>1, PassedKept, Zenon
    <2>3. CASE Blob \in Proposals
      <3>1. /\ cleared[Blob] \subseteq cleared'[Blob]
            /\ \A q \in Proposals \ {Blob} : cleared'[q] = cleared[q]
        BY <2>1, <2>3, Zenon DEF IInv, Typed
      <3>2. Settlement!Act(Blob)
        BY <2>1, <2>2, <2>3, <3>1, Zenon DEF Settlement!Act, PassedBar
      <3> QED BY <2>3, <3>2, Zenon DEF Settlement!Next
    <2>4. CASE Blob \notin Proposals
      <3>1. cleared' = cleared BY <2>1, <2>4 DEF IInv, Typed
      <3> QED BY <2>1, <2>2, <3>1, Zenon DEF Settlement!svars, PassedBar
    <2> QED BY <2>3, <2>4, Zenon
  <1>3. CASE BootstrapSentinel \/ _bump_sentinel
    <2>1. /\ UNCHANGED <<ledger, cleared, refused>> /\ ExcusedBar \subseteq ExcusedBar'
      BY <1>3, Zenon DEF BootstrapSentinel, _bump_sentinel, effectVars, NoneBefore
    <2>2. PassedBar' \in SUBSET Proposals
      BY DEF PassedBar, IInv, Typed, Tree, NoHead
    <2>3. \A p \in PassedBar' : ledger[p] # "none" \/ p \in ExcusedBar'
      BY <2>1, Zenon DEF PassedBar, IInv, Covered, Done
    <2>4. Settlement!Pass
      BY <2>1, <2>2, <2>3, Zenon DEF Settlement!Pass, Settlement!Excuse, PassedBar
    <2> QED BY <2>4, Zenon DEF Settlement!Next, Settlement!Move
  <1>4. CASE ScanRefuses \/ BeginCycle
    <2>1. UNCHANGED <<ledger, cleared, sentinel, before>> /\ ExcusedBar \subseteq ExcusedBar'
      BY <1>4, Zenon DEF ScanRefuses, BeginCycle, effectVars
    <2>2. PassedBar' = PassedBar BY <2>1, PassedKept, Zenon
    <2>3. Settlement!Move
      BY <2>1, <2>2, Zenon DEF Settlement!Move, Settlement!Excuse, PassedBar
    <2> QED BY <2>3, Zenon DEF Settlement!Next
  <1>5. CASE ~(\/ InsertLedgerRow \/ ResetInMemory \/ BootstrapSentinel \/ _bump_sentinel
               \/ ScanRefuses \/ BeginCycle)
    <2>1. UNCHANGED <<ledger, cleared, sentinel, before, renamed, refused>>
      BY <1>5, Zenon DEF Next, CycleStep, Failure, vars, SkippedVars, effectVars, BeginCycle, LookUp,
           PersistReset, HandlerReturns, ScanPasses, AppendAuditRow, BeginFails,
           BumpFails, LookUpFails, ReadBlobFails, NoSuchComponent, HandlerRaises,
           ScanRefusalNotAudited, InsertFails, PostHandlerAuditFailure, Crash, Merge, Revert, Trip
    <2>2. PassedBar' = PassedBar BY <2>1, PassedKept, Zenon
    <2> QED BY <2>1, <2>2, Zenon DEF Settlement!svars, PassedBar
  <1> QED BY <1>1, <1>2, <1>3, <1>4, <1>5, Zenon

\* For every set of proposals, any commits, failures and crashes, the dispatch
\* loop implements the settlement of proposals.
THEOREM DispatchSettles == Spec => SettlesOnce
  <1>1. Init => Settlement!Init /\ NoneBefore
    BY Zenon DEF Init, Settlement!Init, NoneBefore
  <1>2. IInv /\ IInv' /\ NoneBefore /\ [Next]_vars => [Settlement!Next]_(Settlement!svars)
    BY SettlementStep, Zenon
  <1> QED
    BY Invariant, NoneBeforeStep, <1>1, <1>2, PTL DEF Spec, SettlesOnce, Settlement!Spec
-----------------------------------------------------------------------------
(* The commands. s1 proc, s3 rows, s4 branches, s5 main, s6 merged.          *)

\* No command runs and no branch exists at the start.
LEMMA BranchInit == Proposal!Init => Proposal!BranchInv
<1> SUFFICES ASSUME Proposal!Init PROVE Proposal!BranchInv
  BY Zenon
<1>1. DOMAIN s4 = {} /\ s6 = {}
  BY DEF Proposal!Init
<1>2. Proposal!ApprovedStays /\ Proposal!BranchIsRecorded
  BY <1>1, Zenon DEF Proposal!ApprovedStays, Proposal!BranchIsRecorded
<1>3. DOMAIN s1 = Shells /\ \A p \in Shells : s1[p] = Proposal!Idle
  BY Zenon DEF Proposal!Init
<1>4. /\ DOMAIN Proposal!Idle = {"pc", "kind", "route", "id", "base"}
      /\ Proposal!Idle.pc \notin Proposal!Writing \cup {"payload"}
  BY Zenon DEF Proposal!Idle, Proposal!Writing
<1> QED BY <1>1, <1>2, <1>3, <1>4, Zenon DEF Proposal!BranchInv, Proposal!Ready

\* A process that moves, and does not write a branch next, keeps BranchInv.
LEMMA ProcessMoves ==
    ASSUME Proposal!BranchInv, NEW p \in Shells, NEW r, s1' = [s1 EXCEPT ![p] = r],
           DOMAIN r = {"pc", "kind", "route", "id", "base"},
           UNCHANGED Proposal!Repository, s3 \subseteq s3', r.pc \notin Proposal!Writing,
           r.pc = "payload" /\ r.kind = "breaker-reset" => Proposal!Attempted'
    PROVE  Proposal!BranchInv'
<1>1. \A q \in Shells : q # p => s1'[q] = s1[q]
  BY Zenon DEF Proposal!BranchInv, Proposal!Ready
<1>2. s1'[p] = r
  BY Zenon DEF Proposal!BranchInv, Proposal!Ready
<1>3. /\ \A i : Proposal!Requested(i) => Proposal!Requested(i)'
      /\ Proposal!Attempted => Proposal!Attempted'
  BY Zenon DEF Proposal!Requested, Proposal!Attempted
<1>4. Proposal!ApprovedStays' /\ Proposal!BranchIsRecorded'
  BY Zenon DEF Proposal!BranchInv, Proposal!Ready, Proposal!Repository, Proposal!ApprovedStays,
       Proposal!BranchIsRecorded, Proposal!Content
<1>5. DOMAIN s1' = Shells
  BY Zenon DEF Proposal!BranchInv, Proposal!Ready
<1> QED BY <1>1, <1>2, <1>3, <1>4, <1>5, Zenon DEF Proposal!BranchInv, Proposal!Ready, Proposal!Repository

\* A step that only adds rows keeps BranchInv.
LEMMA ProcessesRest ==
    ASSUME Proposal!BranchInv, UNCHANGED <<s1, Proposal!Repository>>, s3 \subseteq s3'
    PROVE  Proposal!BranchInv'
<1>1. Proposal!ApprovedStays' /\ Proposal!BranchIsRecorded'
  BY Zenon DEF Proposal!BranchInv, Proposal!Ready, Proposal!Repository, Proposal!ApprovedStays,
       Proposal!BranchIsRecorded, Proposal!Content
<1> QED BY <1>1, Zenon DEF Proposal!BranchInv, Proposal!Ready, Proposal!Repository, Proposal!Requested,
     Proposal!Attempted

\* A process that drew an id.
LEMMA IdDrawn ==
    ASSUME Proposal!BranchInv, NEW p \in Shells, NEW i \in Ids, NEW r, Proposal!Fresh(i),
           s1' = [s1 EXCEPT ![p] = r],
           DOMAIN r = {"pc", "kind", "route", "id", "base"}, r.id = i,
           UNCHANGED Proposal!Repository, s3 \subseteq s3',
           r.route = "cli" => Proposal!Requested(i)',
           r.kind = "breaker-reset" => Proposal!Attempted'
    PROVE  Proposal!BranchInv'
<1>1. \A q \in Shells : q # p => s1'[q] = s1[q] /\ s1[q].id # i
  BY Zenon DEF Proposal!BranchInv, Proposal!Ready, Proposal!Fresh
<1>2. s1'[p] = r /\ i \notin DOMAIN s4
  BY Zenon DEF Proposal!BranchInv, Proposal!Ready, Proposal!Fresh
<1>3. /\ \A j : Proposal!Requested(j) => Proposal!Requested(j)'
      /\ Proposal!Attempted => Proposal!Attempted'
  BY Zenon DEF Proposal!Requested, Proposal!Attempted
<1>4. Proposal!ApprovedStays' /\ Proposal!BranchIsRecorded'
  BY Zenon DEF Proposal!BranchInv, Proposal!Ready, Proposal!Repository, Proposal!ApprovedStays,
       Proposal!BranchIsRecorded, Proposal!Content
<1>5. DOMAIN s1' = Shells
  BY Zenon DEF Proposal!BranchInv, Proposal!Ready
<1> QED BY <1>1, <1>2, <1>3, <1>4, <1>5, Zenon DEF Proposal!BranchInv, Proposal!Ready, Proposal!Repository

\* A grant's and a reset's file is theirs alone.
LEMMA PathsApart ==
    ASSUME NEW i, NEW j, i # j, NEW k \in {"policy-grant", "breaker-reset"}, NEW m
    PROVE  Proposal!_on_disk_files_for(k, i) # Proposal!_on_disk_files_for(m, j)
  BY Zenon DEF Proposal!_on_disk_files_for, Proposal!Root

\* One step of a command, a merge or a dispatch keeps BranchInv.
LEMMA BranchNext == Proposal!BranchInv /\ Proposal!Next => Proposal!BranchInv'
<1> SUFFICES ASSUME Proposal!BranchInv, Proposal!Next PROVE Proposal!BranchInv'
  BY Zenon
<1> DEFINE Fields == {"pc", "kind", "route", "id", "base"}
<1>1. DOMAIN Proposal!Idle = Fields /\ Proposal!Idle.pc = "idle"
  BY Zenon DEF Proposal!Idle
<1>2. ASSUME NEW p \in Shells, NEW what, Proposal!Exit(p, what), s3 \subseteq s3',
             UNCHANGED Proposal!Repository
      PROVE  Proposal!BranchInv'
  BY <1>1, <1>2, ProcessMoves, Zenon DEF Proposal!Exit, Proposal!Writing
<1>3. ASSUME NEW p \in Shells, NEW s, Proposal!Goto(p, s),
             s \notin Proposal!Writing, s3 \subseteq s3', UNCHANGED Proposal!Repository,
             s = "payload" /\ s1[p].kind = "breaker-reset" => Proposal!Attempted'
      PROVE  Proposal!BranchInv'
  <2> DEFINE r == [s1[p] EXCEPT !.pc = s]
  <2>1. DOMAIN r = Fields /\ r.pc = s /\ r.kind = s1[p].kind
    BY Zenon DEF Proposal!BranchInv, Proposal!Ready
  <2>2. s1' = [s1 EXCEPT ![p] = r]
    BY <1>3, Zenon DEF Proposal!Goto, Proposal!BranchInv, Proposal!Ready
  <2> QED BY <2>1, <2>2, <1>3, ProcessMoves, Zenon
<1>4. ASSUME NEW p \in Shells, NEW kind, NEW s, Proposal!Starts(p, kind, s),
             s \in {"resolve", "payload"},
             s = "payload" => kind # "breaker-reset"
      PROVE  Proposal!BranchInv'
  <2> DEFINE r == [Proposal!Idle EXCEPT !.pc = s, !.kind = kind]
  <2>1. DOMAIN r = Fields /\ r.pc = s /\ r.kind = kind
    BY <1>1, Zenon DEF Proposal!Idle
  <2>2. CASE s1' = [s1 EXCEPT ![p] = r]
    BY <2>1, <2>2, <1>4, ProcessMoves, Zenon DEF Proposal!Starts, Proposal!Writing
  <2>3. CASE UNCHANGED s1
    BY <2>3, <1>4, ProcessesRest, Zenon DEF Proposal!Starts
  <2> QED BY <2>2, <2>3, <1>4, Zenon DEF Proposal!Starts, Proposal!ArgumentsRefused
<1>5. ASSUME NEW p \in Shells, Proposal!Command(p) PROVE Proposal!BranchInv'
  <2>1. CASE Proposal!grant(p)
    <3>1. CASE Proposal!_do_grant_status(p) \/ Proposal!_do_grant_list(p)
      BY <3>1, ProcessesRest, Zenon DEF Proposal!_do_grant_status, Proposal!_do_grant_list
    <3> QED BY <3>1, <2>1, <1>4, Zenon DEF Proposal!grant, Proposal!_queue_grant_proposal
  <2>2. CASE Proposal!revoke(p) \/ Proposal!config_set(p) \/ Proposal!allowlist_add(p)
             \/ Proposal!allowlist_remove(p)
             \/ Proposal!supervisor_reset(p)
    BY <2>2, <1>4, Zenon DEF Proposal!revoke, Proposal!config_set, Proposal!allowlist_add,
         Proposal!allowlist_remove, Proposal!supervisor_reset
  <2>3. CASE Proposal!create_proposal_branch(p)
    <3>1. PICK i \in Ids :
            /\ Proposal!Fresh(i) /\ UNCHANGED <<s3, Proposal!Repository>>
            /\ s1' = [s1 EXCEPT ![p] = [Proposal!Idle EXCEPT !.pc = "clone",
               !.kind = "policy-grant",
                                                        !.route = "gate", !.id = i]]
      BY <2>3, Zenon DEF Proposal!create_proposal_branch
    <3> DEFINE r == [Proposal!Idle EXCEPT !.pc = "clone", !.kind = "policy-grant",
                                 !.route = "gate", !.id = i]
    <3>2. DOMAIN r = Fields /\ r.id = i /\ r.route = "gate" /\ r.kind = "policy-grant"
      BY Zenon DEF Proposal!Idle
    <3> HIDE DEF r
    <3> QED BY <3>1, <3>2, IdDrawn, Zenon DEF r
  <2> QED BY <1>5, <2>1, <2>2, <2>3, Zenon DEF Proposal!Command
<1>6. ASSUME NEW p \in Shells, Proposal!Report(p) PROVE Proposal!BranchInv'
  BY <1>6, ProcessesRest, Zenon
     DEF Proposal!Report, Proposal!supervisor_status, Proposal!supervisor_proposals,
     Proposal!Reading, Proposal!_parse_duration, Proposal!ArgumentsRefused
<1>7. ASSUME NEW p \in Shells,
             \/ Proposal!_resolve_operator_session_or_refuse(p) \/ Proposal!PayloadInvalid(p)
                \/ Proposal!_run(p)
             \/ Proposal!queue_proposal_or_exit(p) \/ Proposal!AppendsRow(p) \/ Proposal!Killed(p)
      PROVE  Proposal!BranchInv'
  BY <1>7, <1>2, Zenon DEF Proposal!_resolve_operator_session_or_refuse, Proposal!_refusal_for,
       Proposal!PayloadInvalid, Proposal!_run,
     Proposal!queue_proposal_or_exit, Proposal!AppendsRow, Proposal!Killed, Proposal!Record,
     Proposal!_emit_breaker_reset_refused_audit
<1>8. ASSUME NEW p \in Shells, Proposal!resolve_operator_user_id_or_refuse(p)
             PROVE Proposal!BranchInv'
  BY <1>8, <1>3, Zenon DEF Proposal!resolve_operator_user_id_or_refuse, Proposal!Writing
<1>9. ASSUME NEW p \in Shells, Proposal!_emit_breaker_reset_attempt_audit(p)
             PROVE Proposal!BranchInv'
  <2>1. Proposal!Attempted' /\ s3 \subseteq s3'
    BY <1>9, Zenon DEF Proposal!_emit_breaker_reset_attempt_audit, Proposal!Record, Proposal!Attempted
  <2> QED BY <1>9, <2>1, <1>3, Zenon DEF Proposal!_emit_breaker_reset_attempt_audit, Proposal!Writing
<1>10. ASSUME NEW p \in Shells, Proposal!_emit_requested_audit_row(p) PROVE Proposal!BranchInv'
  <2>1. PICK i \in Ids :
          /\ s1[p].pc = "payload" /\ Proposal!Fresh(i) /\ Proposal!Record("requested", i)
          /\ s1' = [s1 EXCEPT ![p] = [s1[p] EXCEPT !.pc = "clone", !.id = i]]
          /\ UNCHANGED Proposal!Repository
    BY <1>10, Zenon DEF Proposal!_emit_requested_audit_row, Proposal!BranchInv, Proposal!Ready
  <2> DEFINE r == [s1[p] EXCEPT !.pc = "clone", !.id = i]
  <2>2. DOMAIN r = Fields /\ r.id = i /\ r.kind = s1[p].kind
    BY Zenon DEF Proposal!BranchInv, Proposal!Ready
  <2>3. Proposal!Requested(i)' /\ s3 \subseteq s3'
        /\ (r.kind = "breaker-reset" => Proposal!Attempted')
    BY <2>1, <2>2, Zenon DEF Proposal!Record, Proposal!Requested, Proposal!Attempted, Proposal!BranchInv,
         Proposal!Ready
  <2> HIDE DEF r
  <2> QED BY <2>1, <2>2, <2>3, IdDrawn, Zenon DEF r
<1>11. ASSUME NEW p \in Shells, Proposal!create_proposal_from_payload(p) PROVE Proposal!BranchInv'
  <2>1. /\ s1[p].pc = "clone" /\ UNCHANGED <<s3, s4, s5, s6>>
        /\ s1' = [s1 EXCEPT ![p] = [s1[p] EXCEPT !.pc = "push", !.base = s5]]
    BY <1>11, Zenon DEF Proposal!create_proposal_from_payload, Proposal!Repository, Proposal!BranchInv,
         Proposal!Ready
  <2>2. /\ \A q \in Shells : q # p => s1'[q] = s1[q]
        /\ s1'[p] = [s1[p] EXCEPT !.pc = "push", !.base = s5] /\ DOMAIN s1' = Shells
    BY <2>1, Zenon DEF Proposal!BranchInv, Proposal!Ready
  <2>3. /\ DOMAIN s1'[p] = Fields /\ s1'[p].pc = "push" /\ s1'[p].id = s1[p].id
        /\ s1'[p].kind = s1[p].kind /\ s1'[p].route = s1[p].route
    BY <2>2, Zenon DEF Proposal!BranchInv, Proposal!Ready
  <2>4. Proposal!ApprovedStays' /\ Proposal!BranchIsRecorded'
    BY <2>1, Zenon DEF Proposal!BranchInv, Proposal!Ready, Proposal!ApprovedStays,
         Proposal!BranchIsRecorded, Proposal!Content
  <2> QED BY <2>1, <2>2, <2>3, <2>4 DEF Proposal!BranchInv, Proposal!Ready, Proposal!Writing,
       Proposal!Requested, Proposal!Attempted
<1>12. ASSUME NEW p \in Shells, Proposal!_write_branch(p) PROVE Proposal!BranchInv'
  <2> DEFINE new == s1[p].id
             s == IF s1[p].route = "gate" THEN "row" ELSE "report"
  <2>1. /\ s1[p].pc = "push" /\ UNCHANGED <<s3, s5, s6>>
        /\ s1' = [s1 EXCEPT ![p] = [s1[p] EXCEPT !.pc = s]]
        /\ DOMAIN s4' = DOMAIN s4 \cup {new}
        /\ s4'[new].kind = s1[p].kind /\ s4'[new].route = s1[p].route
        /\ s4'[new].path = Proposal!_on_disk_files_for(s1[p].kind, new)
        /\ \A i \in DOMAIN s4 : i # new => s4'[i] = s4[i]
    BY <1>12, Zenon DEF Proposal!_write_branch, Proposal!Goto, Proposal!BranchInv, Proposal!Ready
  <2>2. /\ \A q \in Shells : q # p => s1'[q] = s1[q]
        /\ s1'[p] = [s1[p] EXCEPT !.pc = s] /\ DOMAIN s1' = Shells
    BY <2>1, Zenon DEF Proposal!BranchInv, Proposal!Ready
  <2>3. DOMAIN s1'[p] = Fields /\ s1'[p].pc = s
    BY <2>2, Zenon DEF Proposal!BranchInv, Proposal!Ready
  <2>4. /\ new \notin DOMAIN s4
        /\ s1[p].route = "cli" => Proposal!Requested(new)
        /\ s1[p].kind = "breaker-reset" => Proposal!Attempted
    BY <2>1, Zenon DEF Proposal!BranchInv, Proposal!Ready, Proposal!Writing
  <2>5. \A q \in Shells : q # p /\ s1[q].pc \in Proposal!Writing => s1[q].id # new
    BY <2>1, Zenon DEF Proposal!BranchInv, Proposal!Ready, Proposal!Writing
  <2> HIDE DEF new
  <2>6. Proposal!ApprovedStays'
    BY <2>1, <2>4, Zenon DEF Proposal!BranchInv, Proposal!Ready, Proposal!ApprovedStays, Proposal!Content
  <2>7. Proposal!BranchIsRecorded'
    BY <2>1, <2>4, Zenon DEF Proposal!BranchInv, Proposal!Ready, Proposal!BranchIsRecorded,
         Proposal!Requested, Proposal!Attempted
  <2>8. ASSUME NEW q \in Shells, q # p
        PROVE  Proposal!Ready(q)'
    <3>1. s1'[q] = s1[q] /\ s3' = s3
      BY <2>1, <2>2, <2>8, Zenon
    <3> QED BY <3>1, <2>1, <2>5, <2>8, Zenon DEF Proposal!BranchInv, Proposal!Ready, Proposal!Requested,
         Proposal!Attempted
  <2>9. \A i \in DOMAIN s4' : s4'[i].path = Proposal!_on_disk_files_for(s4'[i].kind, i)
    BY <2>1, <2>4, Zenon DEF Proposal!BranchInv, Proposal!Ready
  <2>10. s1'[p].pc \notin Proposal!Writing \cup {"payload"}
    BY <2>3, Zenon DEF Proposal!Writing
  <2>11. \A q, r \in Shells : s1'[q].pc \in Proposal!Writing /\ s1'[r].pc \in Proposal!Writing
                               /\ s1'[q].id = s1'[r].id => q = r
    BY <2>2, <2>10, Zenon DEF Proposal!BranchInv, Proposal!Ready
  <2>12. Proposal!Ready(p)'
    BY <2>3, <2>10, Zenon DEF Proposal!Ready, Proposal!Writing
  <2>13. s6' \subseteq DOMAIN s4'
    BY <2>1, Zenon DEF Proposal!BranchInv, Proposal!Ready
  <2> QED BY <2>2, <2>3, <2>6, <2>7, <2>8, <2>9, <2>11, <2>12, <2>13, Zenon DEF Proposal!BranchInv
<1>13. ASSUME NEW i \in DOMAIN s4, Proposal!Merge(i) PROVE Proposal!BranchInv'
  <2> DEFINE at == s4[i].path
  <2>1. /\ i \notin s6 /\ s6' = s6 \cup {i} /\ UNCHANGED <<s1, s3, s4>>
        /\ DOMAIN s5' = DOMAIN s5 \cup {at} /\ s5'[at] = i
        /\ \A x \in DOMAIN s5 : x # at => s5'[x] = s5[x]
    BY <1>13, Zenon DEF Proposal!Merge
  <2>2. \A j \in s6 : s4[j].kind \in {"policy-grant", "breaker-reset"} =>
          s4[j].path # at
    <3> SUFFICES ASSUME NEW j \in s6, s4[j].kind \in {"policy-grant", "breaker-reset"}
                 PROVE  s4[j].path # at
      BY Zenon
    <3>1. j # i /\ s4[j].path = Proposal!_on_disk_files_for(s4[j].kind, j)
          /\ at = Proposal!_on_disk_files_for(s4[i].kind, i)
      BY <2>1, Zenon DEF Proposal!BranchInv, Proposal!Ready
    <3> QED BY <3>1, PathsApart, Zenon
  <2> HIDE DEF at
  <2>3. \A x : x # at => Proposal!Content(s5', x) = Proposal!Content(s5, x)
    BY <2>1, Zenon DEF Proposal!Content
  <2>4. Proposal!Content(s5', at) = i
    BY <2>1, Zenon DEF Proposal!Content
  <2>5. Proposal!ApprovedStays'
    BY <2>1, <2>2, <2>3, <2>4, Zenon DEF Proposal!BranchInv, Proposal!Ready, Proposal!ApprovedStays, at
  <2> QED BY <2>1, <2>5, Zenon DEF Proposal!BranchInv, Proposal!Ready, Proposal!BranchIsRecorded,
       Proposal!Requested, Proposal!Attempted
<1>14. ASSUME NEW i \in DOMAIN s4, Proposal!Dispatched(i) PROVE Proposal!BranchInv'
  BY <1>14, Zenon DEF Proposal!Dispatched, Proposal!BranchInv, Proposal!Ready, Proposal!ApprovedStays,
       Proposal!BranchIsRecorded, Proposal!Content, Proposal!Requested, Proposal!Attempted
<1>15. ASSUME NEW p \in Shells, Proposal!Step(p) PROVE Proposal!BranchInv'
  BY <1>7, <1>8, <1>9, <1>10, <1>11, <1>12, <1>15, Zenon DEF Proposal!Step
<1> QED BY <1>5, <1>6, <1>13, <1>14, <1>15, Zenon DEF Proposal!Next

\* The behaviours of the run without their fairness.
LEMMA SafetyPart == AllSpec => AllInit /\ [][AllNext]_allVars
BY PTL DEF AllSpec

\* BranchInv is an invariant of the behaviours that are of the commands.
LEMMA BranchesHold == AllSpec => [](machine = "proposals" => Proposal!BranchInv)
<1> DEFINE I == machine = "proposals" => Proposal!BranchInv
<1>1. AllInit => I
  BY BranchInit, Zenon DEF AllInit
<1>2. I /\ [AllNext]_allVars => I'
  <2> SUFFICES ASSUME I, [AllNext]_allVars, machine' = "proposals" PROVE Proposal!BranchInv'
    BY Zenon
  <2>1. CASE AllNext
    BY <2>1, BranchNext, Zenon DEF AllNext, DispatchStep, Of
  <2>2. CASE UNCHANGED allVars
    BY <2>2, Zenon DEF allVars, slots, Proposal!BranchInv, Proposal!Ready, Proposal!Writing, Proposal!Requested,
           Proposal!Attempted, Proposal!ApprovedStays, Proposal!BranchIsRecorded, Proposal!Content
  <2> QED BY <2>1, <2>2, Zenon
<1> QED BY <1>1, <1>2, SafetyPart, PTL

\* No later merge displaces an approved grant or reset from main, whatever tree its branch
\* was cut from (create_proposal_from_payload, _write_branch, Merge).
THEOREM ApprovalsStay == AllSpec => []ApprovedStays
<1>1. (machine = "proposals" => Proposal!BranchInv) => ApprovedStays
  BY Zenon DEF ApprovedStays, Proposal!BranchInv
<1> QED BY BranchesHold, <1>1, PTL

\* A branch a command pushed has its request on record and a reset's also its attempt, with a
\* command that fails or is killed at any step (_emit_requested_audit_row, _write_branch).
THEOREM BranchesRecorded == AllSpec => [](machine = "proposals" => Proposal!BranchIsRecorded)
<1>1. Proposal!BranchInv => Proposal!BranchIsRecorded
  BY Zenon DEF Proposal!BranchInv
<1> QED BY BranchesHold, <1>1, PTL
-----------------------------------------------------------------------------
(* The configuration. s1 file, s2 proc, s3 active, s4 watcher, s5 cached.    *)

\* The watcher starts with the file applied.
LEMMA ConfigInit ==
  ASSUME Nothing \notin Config!Texts, Nothing \notin Config!Policies
  PROVE  Config!Init => Config!ConfigInv
<1> SUFFICES ASSUME Config!Init PROVE Config!ConfigInv
  OBVIOUS
<1>1. s3 \in Config!Policies /\ s3 # Nothing
  BY DEF Config!Init, Config!Policies
<1>2. s1.text \in Config!Texts /\ s1.text # Nothing
  BY <1>1 DEF Config!Init, Config!Texts
<1>3. Config!parse_policies(s1.text) = s3
  BY <1>2 DEF Config!Init, Config!parse_policies
<1> QED BY <1>1, <1>3 DEF Config!Init, Config!ConfigInv, Config!At

\* One step of the file, a command or the watcher keeps ConfigInv.
LEMMA ConfigNext == Config!ConfigInv /\ Config!Next => Config!ConfigInv'
<1> SUFFICES ASSUME Config!ConfigInv, Config!Next PROVE Config!ConfigInv'
  BY Zenon
<1>1. ASSUME UNCHANGED Config!Watch, NEW t, Config!Put(t) PROVE Config!ConfigInv'
  BY <1>1 DEF Config!Watch, Config!Put, Config!ConfigInv
<1>2. CASE Config!Edit
  BY <1>1, <1>2, Zenon DEF Config!Edit
<1>3. CASE Config!Vanish
  BY <1>3, Zenon DEF Config!Vanish, Config!Watch, Config!ConfigInv
<1>4. ASSUME NEW p \in Editors, Config!config_set(p) \/ Config!Killed(p) PROVE Config!ConfigInv'
  BY <1>4, Zenon DEF Config!config_set, Config!Killed, Config!Watch, Config!ConfigInv
<1>5. ASSUME NEW p \in Editors, Config!_yaml_set(p) PROVE Config!ConfigInv'
  BY <1>1, <1>5, Zenon DEF Config!_yaml_set
<1>6. CASE Config!StatFails
  <2>1. /\ UNCHANGED <<s1, s3, s5>> /\ s4' \in {Config!At("asleep"), Config!At("dead")}
    BY <1>6, Zenon DEF Config!StatFails, Config!Sleeps
  <2> QED BY <2>1 DEF Config!At, Config!ConfigInv
<1>7. CASE Config!_tick
  <2>1. /\ UNCHANGED <<s1, s3, s5>>
        /\ s4' \in {Config!At("asleep"), Config!At("dead"),
           [Config!At("load") EXCEPT !.pair = s1.pair]}
    BY <1>7, Zenon DEF Config!_tick
  <2> QED BY <2>1 DEF Config!At, Config!ConfigInv
<1>8. CASE Config!_load_and_parse
  <2>1. /\ UNCHANGED <<s1, s3, s5>>
        /\ \/ s4' = [s4 EXCEPT !.pc = "judge", !.text = Config!parse_policies(s1.text)]
           \/ s4' = [s4 EXCEPT !.pc = "judge", !.text = Nothing]
    BY <1>8, Zenon DEF Config!_load_and_parse
  <2> QED BY <2>1, Zenon DEF Config!ConfigInv
<1>9. CASE Config!Judge
  <2>1. /\ UNCHANGED s1 /\ s4' \in {Config!At("asleep"), Config!At("dead")} /\ s4.pc = "judge"
        /\ \/ UNCHANGED <<s3, s5>>
           \/ /\ s4.text # Nothing /\ s5' = s4.pair /\ s3' = s4.text
    BY <1>9, Zenon DEF Config!Judge, Config!Rejects, Config!Applied, Config!swap, Config!PairBefore,
         Config!Sleeps, Config!ConfigInv
  <2> QED BY <2>1 DEF Config!At, Config!ConfigInv
<1> QED BY <1>2, <1>3, <1>4, <1>5, <1>6, <1>7, <1>8, <1>9, Zenon DEF Config!Next, Config!Command

\* One step keeps the fields that are not on the allowlist.
LEMMA HighNext == Config!Next => Config!HighHeld
<1> SUFFICES ASSUME Config!Next, NEW k \in PolicyFields \ Allowlist PROVE s3'[k] = s3[k]
  BY Zenon DEF Config!HighHeld
<1>1. CASE ~Config!Judge
  BY <1>1, Zenon DEF Config!Next, Config!Edit, Config!Vanish, Config!StatFails, Config!_tick,
       Config!_load_and_parse, Config!Command, Config!config_set,
     Config!_yaml_set, Config!Killed, Config!Watch
<1>2. CASE Config!Judge
  <2>1. \/ s3' = s3
        \/ s3' = s4.text /\ Config!_diff_keys(s3, s4.text) \subseteq Allowlist
    BY <1>2, Zenon DEF Config!Judge, Config!Rejects, Config!Applied, Config!swap
  <2> QED BY <2>1, Zenon DEF Config!_diff_keys
<1> QED BY <1>1, <1>2, Zenon

\* ConfigInv is an invariant of the behaviours that are of the configuration.
LEMMA ConfigHolds == AllSpec => [](machine = "config" => Config!ConfigInv)
<1> DEFINE I == machine = "config" => Config!ConfigInv
<1>1. AllInit => I
  BY ConfigInit, ConfigAssumption, Zenon DEF AllInit
<1>2. I /\ [AllNext]_allVars => I'
  <2> SUFFICES ASSUME I, [AllNext]_allVars, machine' = "config" PROVE Config!ConfigInv'
    BY Zenon
  <2>1. CASE AllNext
    BY <2>1, ConfigNext, Zenon DEF AllNext, DispatchStep, Of
  <2>2. CASE UNCHANGED allVars
    BY <2>2, Zenon DEF allVars, slots, Config!ConfigInv
  <2> QED BY <2>1, <2>2, Zenon
<1> QED BY <1>1, <1>2, SafetyPart, PTL

\* While the pair the watcher remembers is the file's, the active snapshot is what the file
\* says, with writes between the stat, the read and the swap (_tick, _load_and_parse, Judge).
THEOREM FilesApplied == AllSpec => []CachedMeansApplied
<1>1. (machine = "config" => Config!ConfigInv) => CachedMeansApplied
  BY Zenon DEF CachedMeansApplied, Config!CachedMeansApplied, Config!ConfigInv
<1> QED BY ConfigHolds, <1>1, PTL

\* A reload never changes a field that is not on the allowlist, whatever that list is (Judge, swap).
THEOREM HighKeysHeld == AllSpec => [][machine = "config" => Config!HighHeld]_allVars
<1>1. [AllNext]_allVars => [machine = "config" => Config!HighHeld]_allVars
  BY HighNext, Zenon DEF AllNext, DispatchStep, Of
<1> QED BY <1>1, SafetyPart, PTL
-----------------------------------------------------------------------------
(* The breakers. s2 brk, s3 row, s5 resetting, s6 phase, s7 stopping,        *)
(* s8 resetTrips.                                                            *)

\* A non-empty set of naturals has a least element.
LEMMA LeastNumber ==
    ASSUME NEW T, T \subseteq Nat, T # {}
    PROVE  \E d \in T : \A y \in T : d <= y
<1> DEFINE R == OpToRel(<, Nat)
<1>1. IsWellFoundedOn(R, Nat)
  BY NatLessThanWellFounded, Zenon
<1>2. R = {p \in Nat \X Nat : p[1] < p[2]}
  BY Zenon DEF OpToRel
<1> HIDE DEF R
<1>3. PICK d \in T : \A y \in T : ~(<<y, d>> \in R)
  BY <1>1, WFMin, Zenon
<1>4. ASSUME NEW y \in T, y < d PROVE FALSE
  <2> DEFINE p == <<y, d>>
  <2>1. p \in Nat \X Nat /\ p[1] < p[2]
    BY <1>4, Zenon
  <2> HIDE DEF p
  <2>2. p \in R
    BY <2>1, <1>2, Zenon
  <2> QED
    BY <1>3, <2>2, Zenon DEF p
<1>5. \A y \in T : d <= y
  BY <1>4
<1> QED
  BY <1>5, Zenon

\* Induction along 0 .. N, for a set.
LEMMA Counting ==
    ASSUME NEW N \in Nat, NEW T, 0 \in T, \A n \in 1 .. N : n - 1 \in T => n \in T
    PROVE  N \in T
<1> DEFINE U == {n \in 0 .. N : n \notin T}
<1> SUFFICES ASSUME U # {} PROVE FALSE
  OBVIOUS
<1>1. U \subseteq Nat
  OBVIOUS
<1>2. PICK d \in U : \A y \in U : d <= y
  <2> HIDE DEF U
  <2> QED  BY <1>1, LeastNumber, Zenon
<1>3. d \in 1 .. N /\ d - 1 \in 0 .. N /\ d \notin T
  BY <1>2
<1>4. d - 1 \in T
  BY <1>2, <1>3
<1> QED
  BY <1>3, <1>4, Zenon

\* A failure recorded on a later copy of a breaker leaves a later copy.
LEMMA FailureRecorded ==
    ASSUME NEW b, NEW c, Breaker!Shape(b), Breaker!Since(b, c)
    PROVE  Breaker!Since(b, Breaker!record_failure(c))
<1>1. \/ Breaker!record_failure(c) = c
      \/ Breaker!record_failure(c) = Breaker!_trip(c)
      \/ c.st # "OPEN" /\ \E r : Breaker!record_failure(c) = [c EXCEPT !.recent = r]
  BY Zenon DEF Breaker!record_failure
<1>2. Breaker!Since(b, Breaker!_trip(c))
  BY DEF Breaker!_trip, Breaker!Since, Breaker!Shape
<1>3. ASSUME NEW r, c.st # "OPEN" PROVE Breaker!Since(b, [c EXCEPT !.recent = r])
  BY <1>3, Zenon DEF Breaker!Since, Breaker!Shape
<1> QED BY <1>1, <1>2, <1>3, Zenon

\* So do the failures that drive it open, however many the threshold asks for.
LEMMA DrivenOpen ==
    ASSUME Threshold \in Nat, NEW b, Breaker!Shape(b), b.st # "OPEN"
    PROVE  Breaker!Since(b, Breaker!_drive_breaker_open(b))
<1> DEFINE N == Threshold
           Runs(g, k) == /\ DOMAIN g = 0 .. k /\ g[0] = b
                         /\ \A n \in 1 .. k : g[n] = Breaker!record_failure(g[n - 1])
           T == {k \in 0 .. N : \E g : Runs(g, k)}
<1>1. 0 \in T
  <2> DEFINE g == [n \in 0 .. 0 |-> b]
  <2>1. Runs(g, 0)
    OBVIOUS
  <2> HIDE DEF Runs
  <2> QED BY <2>1
<1>2. ASSUME NEW k \in 1 .. N, k - 1 \in T PROVE k \in T
  <2>1. PICK g : Runs(g, k - 1)
    BY <1>2, Zenon
  <2> DEFINE h == [n \in 0 .. k |-> IF n = k THEN Breaker!record_failure(g[k - 1]) ELSE g[n]]
  <2>2. DOMAIN h = 0 .. k /\ h[0] = b /\ h[k] = Breaker!record_failure(g[k - 1])
    <3>1. 0 \in 0 .. k /\ k \in 0 .. k /\ 0 # k
      OBVIOUS
    <3>2. g[0] = b
      BY <2>1, Zenon
    <3> QED BY <3>1, <3>2, Zenon
  <2>3. \A n \in 0 .. k - 1 : h[n] = g[n]
    OBVIOUS
  <2>4. ASSUME NEW n \in 1 .. k PROVE h[n] = Breaker!record_failure(h[n - 1])
    <3>1. n - 1 \in 0 .. k - 1 /\ h[n - 1] = g[n - 1]
      BY <2>3
    <3>2. CASE n = k
      BY <2>2, <3>1, <3>2, Zenon
    <3>3. CASE n \in 1 .. k - 1
      BY <2>1, <2>3, <3>1, <3>3
    <3> QED BY <3>2, <3>3
  <2> HIDE DEF h
  <2>5. Runs(h, k)
    BY <2>2, <2>4, Zenon
  <2> HIDE DEF Runs
  <2>6. k \in 0 .. N
    OBVIOUS
  <2> QED BY <2>5, <2>6, Zenon
<1>3. N \in T
  <2> HIDE DEF T
  <2> QED BY <1>1, <1>2, Counting, Zenon
<1>4. PICK g : Runs(g, N)
  BY <1>3, Zenon
<1> DEFINE Solves(f) == f = [n \in 0 .. N |-> IF n = 0 THEN b ELSE Breaker!record_failure(f[n - 1])]
           f == CHOOSE x : Solves(x)
<1>5. \E x : Solves(x)
  <2> DEFINE x == [n \in 0 .. N |-> g[n]]
  <2>1. \A n \in 0 .. N : x[n] = IF n = 0 THEN b ELSE Breaker!record_failure(x[n - 1])
    BY <1>4
  <2>2. Solves(x)
    BY <2>1, Zenon
  <2> HIDE DEF Solves
  <2> QED BY <2>2, Zenon
<1>6. Solves(f)
  <2> HIDE DEF Solves
  <2> QED BY <1>5, Zenon
<1>7. Breaker!_drive_breaker_open(b) = f[N]
  BY Zenon DEF Breaker!_drive_breaker_open
<1> HIDE DEF f
<1>8. f[0] = b /\ \A n \in 1 .. N : f[n] = Breaker!record_failure(f[n - 1])
  <2>1. \A n \in 0 .. N : f[n] = IF n = 0 THEN b ELSE Breaker!record_failure(f[n - 1])
    BY <1>6, Zenon
  <2> QED BY <2>1
<1> DEFINE V == {n \in 0 .. N : Breaker!Since(b, f[n])}
<1>9. 0 \in V
  BY <1>8 DEF Breaker!Since, Breaker!Shape
<1>10. \A n \in 1 .. N : n - 1 \in V => n \in V
  BY <1>8, FailureRecorded
<1>11. N \in V
  <2> HIDE DEF V
  <2> QED BY <1>9, <1>10, Counting, Zenon
<1> QED BY <1>7, <1>11, Zenon

\* The breaker is closed and no reset is under way at the start.
LEMMA ResetInit == Breaker!Init => Breaker!ResetInv
  BY DEF Breaker!Init, Breaker!ResetInv, Breaker!Fresh, Breaker!NoReset, Breaker!Shape,
       Breaker!Later, Breaker!Snapshot

\* An operation of the running supervisor on the breaker.
LEMMA BreakerMoves ==
    ASSUME Breaker!ResetInv, s6 = "running", Breaker!Stays, Breaker!Shape(s2'),
           s2'.trips >= s2.trips,
           s2'.st = "OPEN" => s2'.trips > s2.trips \/ s2.st = "OPEN"
    PROVE  Breaker!ResetInv'
  BY DEF Breaker!ResetInv, Breaker!Stays, Breaker!Shape, Breaker!Later

\* One step of the breaker, a reset, a stop or a new process keeps ResetInv.
LEMMA ResetNext == ASSUME Threshold \in Nat PROVE Breaker!ResetInv /\ Breaker!Next
=> Breaker!ResetInv'
<1> SUFFICES ASSUME Breaker!ResetInv, Breaker!Next PROVE Breaker!ResetInv'
  BY Zenon
<1>1. ASSUME UNCHANGED s2, Breaker!Stays PROVE Breaker!ResetInv'
  BY <1>1, Zenon DEF Breaker!ResetInv, Breaker!Stays, Breaker!Shape, Breaker!Later, Breaker!Snapshot
<1>2. ASSUME NEW c, Breaker!trip_breaker(c) PROVE Breaker!ResetInv'
  <2>1. s6 = "running" /\ Breaker!Stays /\ Breaker!Since(s2, s2')
    BY <1>2, DrivenOpen, Zenon DEF Breaker!trip_breaker, Breaker!Running, Breaker!ResetInv
  <2> QED BY <2>1, BreakerMoves, Zenon DEF Breaker!Since
<1>3. ASSUME NEW c, Breaker!request_plugin_restart(c) PROVE Breaker!ResetInv'
  <2>1. s6 = "running" /\ Breaker!Stays
    BY <1>3, Zenon DEF Breaker!request_plugin_restart, Breaker!Running
  <2>2. CASE s2.st = "OPEN"
    BY <1>3, <2>1, <2>2, <1>1, Zenon DEF Breaker!request_plugin_restart
  <2>3. CASE s2.st # "OPEN"
    <3>1. Breaker!Since(s2, s2')
      BY <1>3, <2>3, DrivenOpen, Zenon DEF Breaker!request_plugin_restart, Breaker!ResetInv
    <3> QED BY <2>1, <3>1, BreakerMoves, Zenon DEF Breaker!Since
  <2> QED BY <2>2, <2>3, Zenon
<1>4. ASSUME NEW c, Breaker!on_crash(c) PROVE Breaker!ResetInv'
  <2>1. s6 = "running" /\ Breaker!Stays /\ s2' = Breaker!record_failure(s2)
    BY <1>4, Zenon DEF Breaker!on_crash, Breaker!Running
  <2>2. CASE s2.st = "OPEN"
    BY <2>1, <2>2, <1>1, Zenon DEF Breaker!record_failure
  <2>3. CASE s2.st # "OPEN"
    <3>1. Breaker!Since(s2, s2)
      BY <2>3 DEF Breaker!ResetInv, Breaker!Since, Breaker!Shape
    <3>2. Breaker!Since(s2, s2')
      BY <2>1, <3>1, FailureRecorded, Zenon DEF Breaker!ResetInv
    <3> QED BY <2>1, <3>2, BreakerMoves, Zenon DEF Breaker!Since
  <2> QED BY <2>2, <2>3, Zenon
<1>5. ASSUME NEW c, Breaker!start_plugin(c) \/ Breaker!RowSettles(c)
             \/ Breaker!_invoke_supervisor_hookpoint(c) PROVE Breaker!ResetInv'
  BY <1>5, <1>1, Zenon DEF Breaker!start_plugin, Breaker!RowSettles, Breaker!_invoke_supervisor_hookpoint
<1>6. CASE Breaker!maybe_rearm \/ Breaker!record_probe_success \/ Breaker!record_probe_failure
  <2>1. s6 = "running" /\ Breaker!Stays
    BY <1>6, Zenon DEF Breaker!maybe_rearm, Breaker!record_probe_success, Breaker!record_probe_failure,
         Breaker!Running
  <2>2. /\ Breaker!Shape(s2') /\ s2'.trips >= s2.trips
        /\ s2'.st = "OPEN" => s2'.trips > s2.trips \/ s2.st = "OPEN"
    <3>1. s2' \in {s2, [s2 EXCEPT !.st = "HALF_OPEN"], Breaker!reset(s2), Breaker!_trip(s2)}
      BY <1>6, Zenon DEF Breaker!maybe_rearm, Breaker!record_probe_success, Breaker!record_probe_failure,
           Breaker!Rearmed
    <3>2. Breaker!Shape(s2)
      BY Zenon DEF Breaker!ResetInv
    <3>3. CASE s2' = [s2 EXCEPT !.st = "HALF_OPEN"]
      BY <3>2, <3>3 DEF Breaker!Shape
    <3>4. CASE s2' = Breaker!reset(s2)
      BY <3>2, <3>4 DEF Breaker!reset, Breaker!Shape
    <3>5. CASE s2' = Breaker!_trip(s2)
      BY <3>2, <3>5 DEF Breaker!_trip, Breaker!Shape
    <3> QED BY <3>1, <3>2, <3>3, <3>4, <3>5 DEF Breaker!Shape
  <2> QED BY <2>1, <2>2, BreakerMoves, Zenon
<1>7. CASE Breaker!reset_breaker
  BY <1>7 DEF Breaker!reset_breaker, Breaker!reset, Breaker!NoReset, Breaker!ResetInv,
       Breaker!Shape, Breaker!Later
<1>8. CASE Breaker!ResetSaves
  BY <1>8, Zenon DEF Breaker!ResetSaves, Breaker!ResetInv, Breaker!Shape, Breaker!Later, Breaker!Snapshot
<1>9. CASE Breaker!ResetCommits
  BY <1>9 DEF Breaker!ResetCommits, Breaker!NoReset, Breaker!ResetInv, Breaker!Shape,
       Breaker!Later, Breaker!Snapshot
<1>10. CASE Breaker!stop
  BY <1>10, Zenon DEF Breaker!stop, Breaker!ResetInv, Breaker!Shape, Breaker!Later
<1>11. CASE Breaker!StopSaves
  BY <1>11, Zenon DEF Breaker!StopSaves, Breaker!ResetInv, Breaker!Shape, Breaker!Later, Breaker!Snapshot
<1>12. CASE Breaker!ForceCancel
  BY <1>12 DEF Breaker!ForceCancel, Breaker!NoReset, Breaker!ResetInv, Breaker!Shape, Breaker!Later
<1>13. CASE Breaker!StopCommits
  <2>1. UNCHANGED <<s2, s5, s7, s8>> /\ s6 = "saving" /\ s6' \in {"stopped", "unsaved"}
    BY <1>13, Zenon DEF Breaker!StopCommits
  <2>2. s7 = Breaker!Snapshot(s2) /\ s5.stage = "none"
    BY <2>1, Zenon DEF Breaker!ResetInv
  <2>3. Breaker!Later(Breaker!Snapshot(s2), s8)
    BY Zenon DEF Breaker!ResetInv, Breaker!Later, Breaker!Snapshot
  <2>4. CASE s6' = "stopped"
    <3>1. s3' = Breaker!Snapshot(s2)
      BY <1>13, <2>2, <2>4, Zenon DEF Breaker!StopCommits
    <3> QED BY <2>1, <2>2, <2>3, <2>4, <3>1, Zenon DEF Breaker!ResetInv, Breaker!Shape, Breaker!Later,
          Breaker!Snapshot
  <2>5. CASE s6' = "unsaved"
    <3>1. s3' = s3
      BY <1>13, <2>5, Zenon DEF Breaker!StopCommits
    <3> QED BY <2>1, <2>2, <2>5, <3>1, Zenon DEF Breaker!ResetInv, Breaker!Shape, Breaker!Later
  <2> QED BY <2>1, <2>4, <2>5, Zenon
<1>14. CASE Breaker!get_or_create_breaker \/ Breaker!load_all_breakers \/ Breaker!Killed
  <2>1. Breaker!NewProcess(Breaker!Fresh) \/ Breaker!NewProcess(Breaker!load_from_db(Breaker!Fresh))
    BY <1>14, Zenon DEF Breaker!get_or_create_breaker, Breaker!load_all_breakers, Breaker!Killed
  <2>2. /\ Breaker!Shape(s2') /\ Breaker!Later(s2', 0)
    <3>1. Breaker!Shape(Breaker!Fresh) /\ Breaker!Later(Breaker!Fresh, 0)
      BY Zenon DEF Breaker!Fresh, Breaker!Shape, Breaker!Later
    <3>2. Breaker!Shape(Breaker!load_from_db(Breaker!Fresh))
          /\ Breaker!Later(Breaker!load_from_db(Breaker!Fresh), 0)
      BY DEF Breaker!load_from_db, Breaker!Rearmed, Breaker!Fresh, Breaker!Shape, Breaker!Later,
           Breaker!ResetInv
    <3> QED BY <2>1, <3>1, <3>2, Zenon DEF Breaker!NewProcess
  <2> QED BY <2>1, <2>2 DEF Breaker!NewProcess, Breaker!NoReset, Breaker!ResetInv, Breaker!Shape,
       Breaker!Later
<1>15. CASE Breaker!Tick
  BY <1>15, Zenon DEF Breaker!Tick, Breaker!ResetInv, Breaker!Shape, Breaker!Later, Breaker!Snapshot
<1> QED BY <1>2, <1>3, <1>4, <1>5, <1>6, <1>7, <1>8, <1>9, <1>10, <1>11, <1>12, <1>13,
           <1>14, <1>15, Zenon DEF Breaker!Next, Breaker!CallerStep

\* ResetInv is an invariant of the behaviours that are of the breaker.
LEMMA ResetsHold == AllSpec => [](machine = "breakers" => Breaker!ResetInv)
<1> DEFINE I == machine = "breakers" => Breaker!ResetInv
<1>1. AllInit => I
  BY ResetInit, Zenon DEF AllInit
<1>2. I /\ [AllNext]_allVars => I'
  <2> SUFFICES ASSUME I, [AllNext]_allVars, machine' = "breakers" PROVE Breaker!ResetInv'
    BY Zenon
  <2>1. CASE AllNext
    BY <2>1, ResetNext, BreakerAssumption, Zenon DEF AllNext, DispatchStep, Of
  <2>2. CASE UNCHANGED allVars
    BY <2>2, Zenon DEF allVars, slots, Breaker!ResetInv, Breaker!Shape, Breaker!Later, Breaker!Snapshot
  <2> QED BY <2>1, <2>2, Zenon
<1> QED BY <1>1, <1>2, SafetyPart, PTL

\* No save of an older copy undoes a reset that was committed: a row that says OPEN is of a
\* later trip, and after a clean stop the row is the memory (reset_breaker, stop).
THEOREM ResetsStand == AllSpec => []ResetNotUndone
<1>1. (machine = "breakers" => Breaker!ResetInv) => ResetNotUndone
  BY Zenon DEF ResetNotUndone, Breaker!ResetNotUndone, Breaker!ResetInv, Breaker!Later
<1> QED BY ResetsHold, <1>1, PTL
=============================================================================
