----------------------- MODULE InboundPipelineProofs -----------------------
(***************************************************************************)
(* For any messages, any number of tasks, deliveries and restarts: what    *)
(* the tracker counts is accounted for, a commit of the forwarded path     *)
(* follows a turn while one of the direct path precedes it, and attempts   *)
(* stop at the ceiling.  Then three services of the same run: the outbound *)
(* queue, the content tiers and the secret scans.                          *)
(***************************************************************************)
EXTENDS MCInboundPipeline, Sequences, FiniteSetTheorems, WellFoundedInduction, TLAPS

\* A non-empty set of naturals has a least element.
LEMMA LeastNatural ==
    ASSUME NEW T, T \subseteq Nat, T # {}
    PROVE  \E d \in T : \A y \in T : d <= y
<1> DEFINE R == OpToRel(<, Nat)
<1>1. IsWellFoundedOn(R, Nat)
  BY NatLessThanWellFounded, Zenon
<1>2. R = {p \in Nat \X Nat : p[1] < p[2]}
  BY Zenon DEF OpToRel
<1> HIDE DEF R
<1>3. PICK d \in T : \A y \in T : ~(<<y, d>> \in R)
  BY <1>1, WFMin, Zenon
<1>4. ASSUME NEW y \in T, y < d PROVE FALSE
  <2> DEFINE p == <<y, d>>
  <2>1. p \in Nat \X Nat /\ p[1] < p[2]
    BY <1>4, Zenon
  <2> HIDE DEF p
  <2>2. p \in R
    BY <2>1, <1>2, Zenon
  <2> QED
    BY <1>3, <2>2, Zenon DEF p
<1>5. \A y \in T : d <= y
  BY <1>4
<1> QED
  BY <1>5, Zenon

\* The maximum of a non-empty interval subset is one of its elements: the
\* choice in Max is never arbitrary where the models use it.
LEMMA IntervalMax ==
    ASSUME NEW lo \in Int, NEW hi \in Int, NEW S \in SUBSET (lo .. hi), S # {}
    PROVE  Max(S) \in S /\ \A y \in S : Max(S) >= y
<1> DEFINE T == {hi - n : n \in S}
<1>1. T \subseteq Nat /\ T # {}
  <2>1. \A n \in S : hi - n \in Nat
    OBVIOUS
  <2> QED
    BY <2>1, Zenon
<1>2. PICK d \in T : \A y \in T : d <= y
  BY <1>1, LeastNatural, Zenon
<1>3. PICK m \in S : d = hi - m
  BY <1>2, Zenon
<1>4. \A n \in S : m >= n
  <2>1. \A n \in S : hi - n \in T
    BY Zenon
  <2> HIDE DEF T
  <2> QED  BY <1>2, <1>3, <2>1
<1> QED
  BY <1>4, Zenon DEF Max

TrackerOK(t) == t \in TrackerType /\ IsFiniteSet(t.seen)

\* observe counts the number it is given and what it had counted, no more.
LEMMA ObserveAddsOne ==
    ASSUME NEW t, TrackerOK(t), NEW seq \in Nat
    PROVE  /\ TrackerOK(Observe(t, seq))
           /\ \A s \in Nat : Observed(Observe(t, seq), s) => Observed(t, s) \/ s = seq
<1>1. CASE seq > t.high + MaxOOOGap
  BY <1>1, Zenon DEF Observe
<1>2. CASE ~(seq > t.high + MaxOOOGap)
  <2> DEFINE seen == t.seen \cup {seq}
             n == Cardinality(seen)
             S == {h \in t.high .. t.high + n : t.high + 1 .. h \subseteq seen}
             high == Max(S)
             rest == {s \in seen : s > high}
  <2>1. t.high \in Int /\ t.high >= -1 /\ seen \subseteq Nat
    BY DEF TrackerOK, TrackerType
  <2>2. IsFiniteSet(seen) /\ n \in Nat
    BY FS_AddElement, FS_CardinalityType, Zenon DEF TrackerOK
  <2>3. Observe(t, seq) = [high |-> high, seen |-> rest]
    BY <1>2, Zenon DEF Observe
  <2> HIDE DEF n
  <2>4. t.high \in S
    BY <2>1, <2>2
  <2>5. S \in SUBSET (t.high .. t.high + n) /\ S # {} /\ t.high + n \in Int
    BY <2>1, <2>2, <2>4
  <2>6. high \in S
    <3> HIDE DEF S
    <3> QED  BY <2>1, <2>5, IntervalMax, Zenon
  <2>7. high \in Int /\ high >= t.high /\ \A s \in Nat : s > t.high /\ s <= high => s \in seen
    BY <2>1, <2>2, <2>6
  <2>8. rest \subseteq Nat /\ IsFiniteSet(rest)
    BY <2>1, <2>2, FS_Subset, Zenon
  <2> HIDE DEF high, rest
  <2>9. TrackerOK(Observe(t, seq))
    BY <2>1, <2>3, <2>7, <2>8 DEF TrackerOK, TrackerType
  <2>10. ASSUME NEW s \in Nat, Observed(Observe(t, seq), s)
         PROVE  Observed(t, s) \/ s = seq
    <3>1. s <= high \/ s \in seen
      BY <2>3, <2>10 DEF Observed, rest
    <3> QED
      BY <3>1, <2>1, <2>7 DEF Observed
  <2> QED
    BY <2>9, <2>10, Zenon
<1> QED
  BY <1>1, <1>2, Zenon
-----------------------------------------------------------------------------

TaskShape(t) == t = [seq |-> t.seq, msg |-> t.msg, stage |-> t.stage]
CarriedBy(t) == [seq |-> t.seq, msg |-> t.msg]

\* A task holds a number of this connection and what it carries.
TasksCarried ==
    \A t \in tasks : TaskShape(t) /\ t.seq \in Nat /\ t.msg \in Messages
                       /\ CarriedBy(t) \in carried

\* Numbers are handed out once, and none is counted before.
NumbersFresh ==
    /\ nextSeq \in Nat
    /\ \A c \in carried : c = [seq |-> c.seq, msg |-> c.msg] /\ c.seq \in Nat
                              /\ c.seq < nextSeq
    /\ \A c, d \in carried : c.seq = d.seq => c = d
    /\ \A s \in Nat : Observed(tracker, s) => s < nextSeq

AckInv ==
    /\ TrackerOK(tracker)
    /\ TasksCarried
    /\ NumbersFresh
    /\ AckedIsAccounted

\* Nothing is carried, counted or committed at the start.
LEMMA AckInit == Init => AckInv
<1> SUFFICES ASSUME Init PROVE AckInv
  BY Zenon
<1>1. TrackerOK(tracker)
  BY FS_EmptySet, Zenon DEF Init, TrackerOK, TrackerType, NewTracker
<1>2. \A s \in Nat : ~Observed(tracker, s)
  BY DEF Init, NewTracker, Observed
<1> QED
  BY <1>1, <1>2, Zenon DEF Init, AckInv, TasksCarried, NumbersFresh, AckedIsAccounted

\* A step that moves or ends tasks of this connection and observes nothing.
LEMMA AckQuiet ==
    ASSUME AckInv, TasksCarried', UNCHANGED <<carried, nextSeq, tracker>>,
           committed \cup refused \subseteq committed' \cup refused'
    PROVE  AckInv'
  BY Zenon DEF AckInv, NumbersFresh, AckedIsAccounted, Accounted, TrackerOK, Observed

\* A step that observes the number of a task whose message is accounted for.
LEMMA AckDrain ==
    ASSUME AckInv, NEW t \in tasks, Drain(t), TasksCarried', UNCHANGED <<carried, nextSeq>>,
           committed \cup refused \cup {t.msg} \subseteq committed' \cup refused'
    PROVE  AckInv'
<1>1. t.seq \in Nat /\ CarriedBy(t) \in carried
  BY Zenon DEF AckInv, TasksCarried
<1>2. /\ TrackerOK(tracker')
      /\ \A s \in Nat : Observed(tracker', s) => Observed(tracker, s) \/ s = t.seq
  BY <1>1, ObserveAddsOne, Zenon DEF AckInv, Drain
<1>3. ASSUME NEW c \in carried, Observed(tracker', c.seq) PROVE Accounted(c.msg)'
  <2>1. c.seq \in Nat
    BY Zenon DEF AckInv, NumbersFresh
  <2>2. CASE Observed(tracker, c.seq)
    BY <2>2, Zenon DEF AckInv, AckedIsAccounted, Accounted
  <2>3. CASE c.seq = t.seq
    <3>1. c = CarriedBy(t)
      BY <1>1, <2>3, Zenon DEF AckInv, NumbersFresh, CarriedBy
    <3> QED
      BY <3>1, Zenon DEF Accounted, CarriedBy
  <2> QED
    BY <1>2, <1>3, <2>1, <2>2, <2>3, Zenon
<1>4. \A s \in Nat : Observed(tracker', s) => s < nextSeq
  BY <1>1, <1>2, Zenon DEF AckInv, NumbersFresh, CarriedBy
<1> QED
  BY <1>2, <1>3, <1>4, Zenon DEF AckInv, NumbersFresh, AckedIsAccounted

\* Moving a task to another await, or ending it, keeps what tasks carry.
LEMMA GotoCarried ==
    ASSUME AckInv, NEW t \in tasks, NEW stage, Goto(t, stage), UNCHANGED carried
    PROVE  TasksCarried'
<1> DEFINE new == [seq |-> t.seq, msg |-> t.msg, stage |-> stage]
<1>1. TaskShape(new) /\ new.seq \in Nat /\ new.msg \in Messages /\ CarriedBy(new) \in carried
  BY Zenon DEF AckInv, TasksCarried, TaskShape, CarriedBy
<1>2. tasks' = (tasks \ {t}) \cup {new}
  BY Zenon DEF Goto
<1> HIDE DEF new
<1> QED
  BY <1>1, <1>2, Zenon DEF AckInv, TasksCarried, TaskShape, CarriedBy

\* A task that ends leaves the other tasks as they are.
LEMMA EndCarried ==
    ASSUME AckInv, NEW t, tasks' = tasks \ {t}, UNCHANGED carried
    PROVE  TasksCarried'
  BY Zenon DEF AckInv, TasksCarried, TaskShape, CarriedBy

\* Every step of a dispatch task, a delivery and a restart keep AckInv.
LEMMA AckStep == AckInv /\ [Next]_vars => AckInv'
<1> SUFFICES ASSUME AckInv, [Next]_vars PROVE AckInv'
  BY Zenon
<1> USE DEF durable, conn
<1>1. ASSUME NEW m \in Messages, Deliver(m) PROVE AckInv'
  <2> DEFINE new == [seq |-> nextSeq, msg |-> m]
  <2> DEFINE task == [seq |-> nextSeq, msg |-> m,
                      stage |-> IF m \in Edge THEN "receive" ELSE "gate"]
  <2>1. /\ tasks' = tasks \cup {task} /\ carried' = carried \cup {new}
        /\ nextSeq' = nextSeq + 1 /\ UNCHANGED <<tracker, committed, refused>>
    BY <1>1, Zenon DEF Deliver
  <2>2. /\ TaskShape(task) /\ task.seq \in Nat /\ task.msg \in Messages /\ CarriedBy(task) = new
        /\ new = [seq |-> new.seq, msg |-> new.msg] /\ new.seq = nextSeq
    BY Zenon DEF TaskShape, CarriedBy, AckInv, NumbersFresh
  <2> HIDE DEF new, task
  <2>3. TasksCarried'
    BY <2>1, <2>2, Zenon DEF AckInv, TasksCarried, TaskShape, CarriedBy
  <2>4. NumbersFresh'
    BY <2>1, <2>2 DEF AckInv, NumbersFresh, Observed
  <2>5. AckedIsAccounted'
    BY <2>1, <2>2 DEF AckInv, NumbersFresh, AckedIsAccounted, Accounted, Observed
  <2> QED
    BY <2>1, <2>3, <2>4, <2>5, Zenon DEF AckInv, TrackerOK
<1>2. ASSUME NEW t \in tasks, Step(t) PROVE AckInv'
  <2>1. CASE Gate(t)
    <3>1. CASE t.msg \in committed \/ t.msg \notin Direct
      BY <2>1, <3>1, GotoCarried, AckQuiet, Zenon DEF Gate
    <3>2. CASE t.msg \notin committed /\ t.msg \in Direct
      BY <2>1, <3>2, GotoCarried, AckDrain, Zenon DEF Gate
    <3> QED  BY <3>1, <3>2, Zenon
  <2>2. CASE CommitAtDispatchEdge(t)
    BY <2>2, EndCarried, AckDrain, Zenon DEF CommitAtDispatchEdge, Return
  <2>3. CASE Audit(t)
    <3>1. tasks' = tasks \ {t} /\ UNCHANGED <<carried, nextSeq, committed>>
      BY <2>3, Zenon DEF Audit, Return, Abort
    <3>2. CASE Drains(t)
      BY <2>3, <3>1, <3>2, EndCarried, AckDrain, Zenon DEF Audit, Drains, RowOf
    <3>3. CASE ~Drains(t)
      BY <2>3, <3>1, <3>3, EndCarried, AckQuiet, Zenon DEF Audit, RowOf
    <3> QED  BY <3>2, <3>3, Zenon
  <2>4. CASE AuditFails(t) \/ Raises(t) \/ CheapValidateRefuses(t)
    BY <2>4, EndCarried, AckQuiet, Zenon DEF AuditFails, Raises, CheapValidateRefuses, Return, Abort
  <2>5. CASE AdmitAndReparse(t) \/ PreResolutionLimit(t) \/ ReadAttempts(t) \/ Extract(t)
    BY <2>5, GotoCarried, AckQuiet, Zenon DEF AdmitAndReparse, reparse_forwarded_inbound, PreResolutionLimit, ReadAttempts, Extract
  <2>6. CASE CountAttempt(t) \/ PromoteAndIngest(t) \/ DispatchFails(t)
    BY <2>6, GotoCarried, AckQuiet, Zenon DEF CountAttempt, PromoteAndIngest, DispatchFails
  <2>7. CASE ResolveAndAcquire(t) \/ Dispatch(t)
    <3>1. (tasks' = tasks \ {t} \/ \E stage : Goto(t, stage))
          /\ UNCHANGED <<carried, nextSeq, tracker, committed, refused>>
      BY <2>7, Zenon DEF ResolveAndAcquire, Dispatch, Return
    <3> QED
      BY <3>1, EndCarried, GotoCarried, AckQuiet, Zenon
  <2> QED
    BY <1>2, <2>1, <2>2, <2>3, <2>4, <2>5, <2>6, <2>7, Zenon DEF Step
<1>3. CASE Restart
  <2>1. TrackerOK(tracker') /\ \A s \in Nat : ~Observed(tracker', s)
    BY <1>3, FS_EmptySet DEF Restart, TrackerOK, TrackerType, NewTracker, Observed
  <2> QED
    BY <1>3, <2>1, Zenon DEF Restart, AckInv, TasksCarried, NumbersFresh, AckedIsAccounted
<1>4. CASE UNCHANGED vars
  BY <1>4, AckQuiet, Zenon DEF vars, AckInv, TasksCarried, TaskShape, CarriedBy
<1> QED
  BY <1>1, <1>2, <1>3, <1>4, Zenon DEF Next

\* The gateway never drops a message that is neither committed nor refused with
\* an audit row: audit comes before drain, commit and observe come together.
THEOREM AckedAccounted == Spec => []AckedIsAccounted
<1>1. AckInv => AckedIsAccounted
  BY Zenon DEF AckInv
<1> QED
  BY <1>1, AckInit, AckStep, PTL DEF Spec
-----------------------------------------------------------------------------
\* A terminal message past the gate.
Past(t) == t.msg \in Direct /\ t.stage \notin {"receive", "drop", "gate", "replay"}

\* A terminal message past the gate is committed, has not run, and is held by
\* one task; a forwarded message at its dispatched edge has run.
RunInv ==
    /\ runs \in [Messages -> Nat]
    /\ \A t \in tasks : TaskShape(t) /\ t.msg \in Messages
    /\ \A t \in tasks : t.stage = "commit" => t.msg \in Edge /\ runs[t.msg] > 0
    /\ \A t \in tasks : Past(t) => t.msg \in committed /\ runs[t.msg] = 0
    /\ \A t, u \in tasks : Past(t) /\ Past(u) /\ t.msg = u.msg => t = u
    /\ CommitMeansRan

\* No turn has run at the start.
LEMMA RunInit == Init => RunInv
  BY DEF Init, RunInv, CommitMeansRan, Messages

\* A task ends without a turn or a commit.
LEMMA RunEnd ==
    ASSUME RunInv, NEW t \in tasks, tasks' = tasks \ {t}, UNCHANGED <<committed, runs>>
    PROVE  RunInv'
  BY Zenon DEF RunInv, CommitMeansRan, Past, TaskShape

\* A task moves on between the gate and the dispatched edge.
LEMMA RunGoto ==
    ASSUME RunInv, NEW t \in tasks, NEW stage, Goto(t, stage), stage # "commit",
           Past(t) \/ t.msg \notin Direct \/ stage \in {"drop", "gate", "replay"},
           UNCHANGED <<committed, runs>>
    PROVE  RunInv'
<1> DEFINE new == [seq |-> t.seq, msg |-> t.msg, stage |-> stage]
<1>1. TaskShape(new) /\ new.msg = t.msg /\ new.stage = stage
  BY Zenon DEF TaskShape
<1>2. tasks' = (tasks \ {t}) \cup {new}
  BY Zenon DEF Goto
<1> HIDE DEF new
<1> QED
  BY <1>1, <1>2 DEF RunInv, CommitMeansRan, Past, TaskShape

\* Every step keeps the order of a turn and its commit.
LEMMA RunStep == RunInv /\ [Next]_vars => RunInv'
<1> SUFFICES ASSUME RunInv, [Next]_vars PROVE RunInv'
  BY Zenon
<1> USE DEF durable, conn
<1>1. ASSUME NEW m \in Messages, Deliver(m) PROVE RunInv'
  <2> DEFINE task == [seq |-> nextSeq, msg |-> m,
                      stage |-> IF m \in Edge THEN "receive" ELSE "gate"]
  <2>1. tasks' = tasks \cup {task} /\ UNCHANGED <<committed, runs>>
    BY <1>1, Zenon DEF Deliver
  <2>2. TaskShape(task) /\ task.msg = m /\ task.stage \in {"receive", "gate"}
    BY Zenon DEF TaskShape
  <2> HIDE DEF task
  <2> QED
    BY <2>1, <2>2, Zenon DEF RunInv, CommitMeansRan, Past, TaskShape
<1>2. ASSUME NEW t \in tasks, Step(t) PROVE RunInv'
  <2>1. CASE Gate(t)
    <3>1. CASE t.msg \in committed
      BY <2>1, <3>1, RunGoto, Zenon DEF Gate
    <3>2. CASE t.msg \notin committed
      <4> DEFINE new == [seq |-> t.seq, msg |-> t.msg, stage |-> "limit"]
      <4>1. TaskShape(new) /\ new.msg = t.msg /\ new.stage = "limit"
        BY Zenon DEF TaskShape
      <4>2. tasks' = (tasks \ {t}) \cup {new} /\ UNCHANGED runs
        BY <2>1, <3>2, Zenon DEF Gate, Goto
      <4>3. committed' = IF t.msg \in Direct THEN committed \cup {t.msg} ELSE committed
        BY <2>1, <3>2, Zenon DEF Gate
      <4> HIDE DEF new
      <4> QED
        BY <3>2, <4>1, <4>2, <4>3, PipelineAssumption
           DEF RunInv, CommitMeansRan, Past, TaskShape, Messages
    <3> QED  BY <3>1, <3>2, Zenon
  <2>2. CASE Dispatch(t)
    <3>1. t.msg \in Messages /\ runs' = [runs EXCEPT ![t.msg] = @ + 1]
      BY <2>2, Zenon DEF Dispatch, RunInv
    <3>2. /\ runs' \in [Messages -> Nat] /\ runs'[t.msg] = runs[t.msg] + 1
          /\ \A m \in Messages : m # t.msg => runs'[m] = runs[m]
      BY <3>1 DEF RunInv
    <3>3. CASE t.msg \in Edge
      <4> DEFINE new == [seq |-> t.seq, msg |-> t.msg, stage |-> "commit"]
      <4>1. TaskShape(new) /\ new.msg = t.msg /\ new.stage = "commit"
        BY Zenon DEF TaskShape
      <4>2. tasks' = (tasks \ {t}) \cup {new} /\ UNCHANGED committed
        BY <2>2, <3>3, Zenon DEF Dispatch, Goto
      <4> HIDE DEF new
      <4> QED
        BY <3>1, <3>2, <3>3, <4>1, <4>2, PipelineAssumption
           DEF RunInv, CommitMeansRan, Past, TaskShape, Messages
    <3>4. CASE t.msg \notin Edge
      <4>1. tasks' = tasks \ {t} /\ UNCHANGED committed /\ t.stage = "dispatch"
        BY <2>2, <3>4, Zenon DEF Dispatch, Return
      <4>2. t.msg \in Direct /\ Past(t) /\ runs[t.msg] = 0 /\ t.msg \in committed
        BY <3>4, <4>1, Zenon DEF RunInv, Messages, Past
      <4> QED
        BY <3>1, <3>2, <4>1, <4>2, PipelineAssumption
           DEF RunInv, CommitMeansRan, Past, TaskShape, Messages
    <3> QED  BY <3>3, <3>4, Zenon
  <2>3. CASE CommitAtDispatchEdge(t)
    <3>1. /\ tasks' = tasks \ {t} /\ committed' = committed \cup {t.msg} /\ UNCHANGED runs
          /\ t.stage = "commit"
      BY <2>3, Zenon DEF CommitAtDispatchEdge, Return
    <3> QED
      BY <3>1, PipelineAssumption, Zenon DEF RunInv, CommitMeansRan, Past, TaskShape, Messages
  <2>4. CASE Audit(t) \/ AuditFails(t) \/ Raises(t) \/ CheapValidateRefuses(t)
    BY <2>4, RunEnd, Zenon DEF Audit, RowOf, AuditFails, Raises, CheapValidateRefuses, Return, Abort
  <2>5. CASE AdmitAndReparse(t) \/ PreResolutionLimit(t) \/ ReadAttempts(t) \/ Extract(t)
    BY <2>5, RunGoto, Zenon DEF AdmitAndReparse, reparse_forwarded_inbound, PreResolutionLimit, ReadAttempts, Extract, Past
  <2>6. CASE CountAttempt(t) \/ PromoteAndIngest(t) \/ DispatchFails(t)
    BY <2>6, RunGoto, Zenon DEF CountAttempt, PromoteAndIngest, DispatchFails, Past
  <2>7. CASE ResolveAndAcquire(t)
    BY <2>7, RunGoto, RunEnd, Zenon DEF ResolveAndAcquire, Return, Past
  <2> QED
    BY <1>2, <2>1, <2>2, <2>3, <2>4, <2>5, <2>6, <2>7, Zenon DEF Step
<1>3. CASE Restart
  BY <1>3, Zenon DEF Restart, RunInv, CommitMeansRan
<1>4. CASE UNCHANGED vars
  BY <1>4, Zenon DEF vars, RunInv, CommitMeansRan, Past, TaskShape
<1> QED
  BY <1>1, <1>2, <1>3, <1>4, Zenon DEF Next

\* A forwarded message is committed only after a turn of it ran to its end, and
\* a terminal message, committed first, runs at most once.
THEOREM CommitsMeanRan == Spec => []CommitMeansRan
<1>1. RunInv => CommitMeansRan
  BY Zenon DEF RunInv
<1> QED
  BY <1>1, RunInit, RunStep, PTL DEF Spec
-----------------------------------------------------------------------------
(* The attempt ceiling: counts of the tasks of a message at given awaits. *)

Held(m, stages) == {t \in tasks : t.msg = m /\ t.stage \in stages}

\* The awaits between the read of the attempt count and its increment, and
\* those between the increment and the end of the turn.
Reading == {"resolve", "extract", "count"}
Counted == {"promote", "dispatch"}

TasksBounded ==
    /\ IsFiniteSet(tasks) /\ Cardinality(tasks) <= MaxInFlight
    /\ \A t \in tasks : TaskShape(t) /\ t.msg \in Messages

\* What the tasks that read the count may still add, and what the counted
\* tasks may still run, is within the two bounds.
AttemptInv ==
    /\ attempts \in [Edge -> Nat] /\ runs \in [Messages -> Nat]
    /\ TasksBounded
    /\ \A m \in Edge : attempts[m] + Cardinality(Held(m, Reading)) < Ceiling + MaxInFlight
    /\ \A m \in Edge : runs[m] + Cardinality(Held(m, Counted)) <= attempts[m]

\* The tasks of a message that are in given stages are finitely many.
LEMMA HeldFinite ==
    ASSUME IsFiniteSet(tasks), NEW m, NEW stages
    PROVE  /\ IsFiniteSet(Held(m, stages)) /\ Cardinality(Held(m, stages)) \in Nat
           /\ Cardinality(Held(m, stages)) <= Cardinality(tasks)
<1>1. Held(m, stages) \subseteq tasks
  BY Zenon DEF Held
<1> QED
  BY <1>1, FS_Subset, FS_CardinalityType, Zenon

\* After a step they are no more than the tasks the runner admits.
LEMMA HeldNext ==
    ASSUME TasksBounded', NEW m, NEW stages
    PROVE  /\ Cardinality(Held(m, stages)') \in Nat
           /\ Cardinality(Held(m, stages)') <= MaxInFlight
<1>1. IsFiniteSet(tasks') /\ Held(m, stages)' \subseteq tasks'
  BY Zenon DEF TasksBounded, Held
<1>2. /\ Cardinality(Held(m, stages)') <= Cardinality(tasks')
      /\ Cardinality(Held(m, stages)') \in Nat /\ Cardinality(tasks') \in Nat
  BY <1>1, FS_Subset, FS_CardinalityType, Zenon
<1> QED
  BY <1>2, PipelineAssumption DEF TasksBounded

\* A task that ends, or moves from its await to another, leaves a count no
\* larger unless it enters the awaits counted, and one smaller if it leaves them.
LEMMA HeldEnd ==
    ASSUME TasksBounded, NEW t \in tasks, tasks' = tasks \ {t}, NEW m, NEW stages
    PROVE  /\ TasksBounded'
           /\ Cardinality(Held(m, stages)') <= Cardinality(Held(m, stages))
           /\ t \in Held(m, stages) => Cardinality(Held(m, stages)') = Cardinality(Held(m, stages)) - 1
<1>1. IsFiniteSet(Held(m, stages)) /\ Held(m, stages)' = Held(m, stages) \ {t}
  BY HeldFinite, Zenon DEF TasksBounded, Held
<1>2. /\ IsFiniteSet(tasks') /\ Cardinality(tasks') <= Cardinality(tasks)
  BY FS_Subset, Zenon DEF TasksBounded
<1>3. TasksBounded'
  BY <1>2, FS_CardinalityType, PipelineAssumption DEF TasksBounded, TaskShape
<1>4. Cardinality(Held(m, stages)') <= Cardinality(Held(m, stages))
  BY <1>1, FS_Subset, Zenon
<1>5. t \in Held(m, stages) => Cardinality(Held(m, stages)') = Cardinality(Held(m, stages)) - 1
  BY <1>1, FS_RemoveElement, Zenon
<1> QED
  BY <1>3, <1>4, <1>5, Zenon

\* A task that moves to a stage changes their number by one at most.
LEMMA HeldGoto ==
    ASSUME TasksBounded, NEW t \in tasks, NEW stage, Goto(t, stage), NEW m, NEW stages
    PROVE  /\ TasksBounded'
           /\ Cardinality(Held(m, stages)') <= Cardinality(Held(m, stages)) + 1
           /\ t \in Held(m, stages) \/ t.msg # m \/ stage \notin stages =>
                  Cardinality(Held(m, stages)') <= Cardinality(Held(m, stages))
           /\ t \in Held(m, stages) /\ stage \notin stages =>
                  Cardinality(Held(m, stages)') = Cardinality(Held(m, stages)) - 1
<1> DEFINE new == [seq |-> t.seq, msg |-> t.msg, stage |-> stage]
           H == Held(m, stages)
           left == H \ {t}
<1>1. tasks' = (tasks \ {t}) \cup {new} /\ TaskShape(new) /\ new.msg = t.msg /\ new.stage = stage
  BY Zenon DEF Goto, TaskShape
<1>2. /\ IsFiniteSet(H) /\ Cardinality(H) \in Nat
      /\ IsFiniteSet(left) /\ Cardinality(left) \in Nat /\ Cardinality(left) <= Cardinality(H)
      /\ t \in H => Cardinality(left) = Cardinality(H) - 1
  <2>1. IsFiniteSet(H) /\ Cardinality(H) \in Nat
    BY HeldFinite, Zenon DEF TasksBounded
  <2> HIDE DEF H
  <2>2. /\ IsFiniteSet(left)
        /\ Cardinality(left) = IF t \in H THEN Cardinality(H) - 1 ELSE Cardinality(H)
    BY <2>1, FS_RemoveElement, Zenon
  <2> HIDE DEF left
  <2>3. Cardinality(left) \in Nat
    BY <2>2, FS_CardinalityType, Zenon
  <2> QED
    BY <2>1, <2>2, <2>3
<1>3. H' = IF t.msg = m /\ stage \in stages THEN left \cup {new} ELSE left
  <2> HIDE DEF new
  <2> QED
    BY <1>1, Zenon DEF Held
<1>4. /\ IsFiniteSet(left \cup {new})
      /\ Cardinality(left \cup {new}) \in {Cardinality(left), Cardinality(left) + 1}
  <2> HIDE DEF left, new
  <2> QED
    BY <1>2, FS_AddElement, Zenon
<1>5. TasksBounded'
  <2> DEFINE others == tasks \ {t}
  <2>1. /\ IsFiniteSet(others) /\ Cardinality(others) = Cardinality(tasks) - 1
        /\ Cardinality(tasks) \in Nat
    BY FS_RemoveElement, FS_CardinalityType, Zenon DEF TasksBounded
  <2> HIDE DEF others, new
  <2>2. /\ IsFiniteSet(others \cup {new})
        /\ Cardinality(others \cup {new}) \in {Cardinality(others), Cardinality(others) + 1}
    BY <2>1, FS_AddElement, Zenon
  <2>3. Cardinality(tasks') <= MaxInFlight /\ IsFiniteSet(tasks')
    BY <1>1, <2>1, <2>2, PipelineAssumption DEF TasksBounded, others
  <2> QED
    BY <1>1, <2>3, Zenon DEF TasksBounded, TaskShape
<1> HIDE DEF left, new, H
<1>6. /\ Cardinality(H') <= Cardinality(H) + 1
      /\ t \in H \/ t.msg # m \/ stage \notin stages => Cardinality(H') <= Cardinality(H)
      /\ t \in H /\ stage \notin stages => Cardinality(H') = Cardinality(H) - 1
  BY <1>2, <1>3, <1>4
<1> QED
  BY <1>5, <1>6, Zenon DEF H
\* No attempt is counted at the start.
LEMMA AttemptInit == Init => AttemptInv
<1> SUFFICES ASSUME Init PROVE AttemptInv
  BY Zenon
<1>1. \A m, stages : Held(m, stages) = {}
  BY Zenon DEF Init, Held
<1>2. IsFiniteSet({}) /\ Cardinality({}) = 0
  BY FS_EmptySet, Zenon
<1>3. TasksBounded
  BY <1>2, PipelineAssumption DEF Init, TasksBounded
<1>4. \A m \in Edge : attempts[m] = 0 /\ runs[m] = 0
  BY Zenon DEF Init, Messages
<1> QED
  BY <1>1, <1>2, <1>3, <1>4, PipelineAssumption DEF Init, AttemptInv

\* A step of a task that enters none of the awaits counted and counts nothing.
LEMMA AttemptQuiet ==
    ASSUME AttemptInv, TasksBounded', UNCHANGED <<attempts, runs>>,
           \A m \in Edge :
               /\ Cardinality(Held(m, Reading)') <= Cardinality(Held(m, Reading))
               /\ Cardinality(Held(m, Counted)') <= Cardinality(Held(m, Counted))
    PROVE  AttemptInv'
<1>1. \A m \in Edge : /\ Cardinality(Held(m, Reading)) \in Nat /\ Cardinality(Held(m, Reading)') \in Nat
                      /\ Cardinality(Held(m, Counted)) \in Nat /\ Cardinality(Held(m, Counted)') \in Nat
                      /\ attempts[m] \in Nat /\ runs[m] \in Nat
  <2> TAKE m \in Edge
  <2>1. \A stages : Cardinality(Held(m, stages)) \in Nat
    BY HeldFinite, Zenon DEF AttemptInv, TasksBounded
  <2>2. \A stages : Cardinality(Held(m, stages)') \in Nat
    BY HeldNext, Zenon
  <2> QED
    BY <2>1, <2>2, Zenon DEF AttemptInv, Messages
<1>2. \A m \in Edge : attempts'[m] + Cardinality(Held(m, Reading)') < Ceiling + MaxInFlight
  BY <1>1, PipelineAssumption DEF AttemptInv
<1>3. \A m \in Edge : runs'[m] + Cardinality(Held(m, Counted)') <= attempts'[m]
  BY <1>1 DEF AttemptInv
<1> QED
  BY <1>2, <1>3, Zenon DEF AttemptInv
\* A task that ends takes nothing from the count of attempts.
LEMMA AttemptEnd ==
    ASSUME AttemptInv, NEW t \in tasks, tasks' = tasks \ {t}, UNCHANGED <<attempts, runs>>
    PROVE  AttemptInv'
<1>1. TasksBounded
  BY Zenon DEF AttemptInv
<1>2. TasksBounded' /\ \A m, stages : Cardinality(Held(m, stages)') <= Cardinality(Held(m, stages))
  BY <1>1, HeldEnd, Zenon
<1> QED
  BY <1>2, AttemptQuiet, Zenon

\* A move that neither enters the reading nor the counted stages keeps AttemptInv.
LEMMA AttemptGoto ==
    ASSUME AttemptInv, NEW t \in tasks, NEW stage, Goto(t, stage), UNCHANGED <<attempts, runs>>,
           \/ t.msg \notin Edge
           \/ /\ stage \in Reading => t.stage \in Reading
              /\ stage \in Counted => t.stage \in Counted
    PROVE  AttemptInv'
<1>1. TasksBounded
  BY Zenon DEF AttemptInv
<1>2. TasksBounded'
  BY <1>1, HeldGoto, Zenon
<1>3. ASSUME NEW m \in Edge, NEW stages, t.msg = m /\ stage \in stages => t.stage \in stages
      PROVE  Cardinality(Held(m, stages)') <= Cardinality(Held(m, stages))
  <2>1. t \in Held(m, stages) \/ t.msg # m \/ stage \notin stages
    BY <1>3, Zenon DEF Held
  <2> QED
    BY <1>1, <2>1, HeldGoto, Zenon
<1> QED
  BY <1>2, <1>3, AttemptQuiet, Zenon

\* The count is read below the ceiling: the tasks that may still raise it are
\* as many as there are tasks at all.
LEMMA AttemptRead ==
    ASSUME AttemptInv, NEW t \in tasks, ReadAttempts(t)
    PROVE  AttemptInv'
<1>1. UNCHANGED <<attempts, runs>> /\ t.stage = "attempts"
  BY Zenon DEF ReadAttempts, durable
<1>2. CASE attempts[t.msg] >= Ceiling
  BY <1>1, <1>2, AttemptGoto, Zenon DEF ReadAttempts, Reading, Counted
<1>3. CASE ~(attempts[t.msg] >= Ceiling)
  <2>1. Goto(t, "resolve")
    BY <1>3, Zenon DEF ReadAttempts
  <2>2. TasksBounded /\ TasksBounded'
    BY <2>1, HeldGoto, Zenon DEF AttemptInv
  <2>3. ASSUME NEW m \in Edge
        PROVE  attempts'[m] + Cardinality(Held(m, Reading)') < Ceiling + MaxInFlight
    <3>1. attempts[m] \in Nat
      BY Zenon DEF AttemptInv
    <3>2. CASE t.msg = m
      <4>1. Cardinality(Held(m, Reading)') \in Nat /\ Cardinality(Held(m, Reading)') <= MaxInFlight
        BY <2>2, HeldNext, Zenon
      <4> QED
        BY <1>1, <1>3, <3>1, <3>2, <4>1, PipelineAssumption
    <3>3. CASE t.msg # m
      <4>1. Cardinality(Held(m, Reading)') <= Cardinality(Held(m, Reading))
        BY <2>1, <2>2, <3>3, HeldGoto, Zenon
      <4>2. Cardinality(Held(m, Reading)') \in Nat /\ Cardinality(Held(m, Reading)) \in Nat
        BY <2>2, HeldFinite, HeldNext, Zenon DEF TasksBounded
      <4> QED
        BY <1>1, <3>1, <4>1, <4>2, PipelineAssumption DEF AttemptInv
    <3> QED
      BY <3>2, <3>3, Zenon
  <2>4. ASSUME NEW m \in Edge
        PROVE  runs'[m] + Cardinality(Held(m, Counted)') <= attempts'[m]
    <3>1. "resolve" \notin Counted
      BY Zenon DEF Counted
    <3>2. Cardinality(Held(m, Counted)') <= Cardinality(Held(m, Counted))
      BY <2>1, <2>2, <3>1, HeldGoto, Zenon
    <3>3. Cardinality(Held(m, Counted)') \in Nat /\ Cardinality(Held(m, Counted)) \in Nat
      BY <2>2, HeldFinite, HeldNext, Zenon DEF TasksBounded
    <3> QED
      BY <1>1, <3>2, <3>3 DEF AttemptInv, Messages
  <2> QED
    BY <1>1, <2>2, <2>3, <2>4, Zenon DEF AttemptInv
<1> QED
  BY <1>2, <1>3, Zenon
\* The count is raised as the task leaves the first group of awaits for the second.
LEMMA AttemptCount ==
    ASSUME AttemptInv, NEW t \in tasks, CountAttempt(t)
    PROVE  AttemptInv'
<1>1. /\ t.stage = "count" /\ Goto(t, "promote") /\ UNCHANGED runs
      /\ attempts' = [attempts EXCEPT ![t.msg] = @ + 1]
  BY Zenon DEF CountAttempt
<1>2. attempts' \in [Edge -> Nat] /\ TasksBounded
  <2>1. attempts' = [m \in Edge |-> IF m = t.msg THEN attempts[m] + 1 ELSE attempts[m]]
    BY <1>1, Zenon DEF AttemptInv
  <2> QED
    BY <2>1 DEF AttemptInv
<1>3. TasksBounded'
  BY <1>1, <1>2, HeldGoto, Zenon
<1>4. \A m \in Edge : attempts[m] \in Nat /\ runs[m] \in Nat
                      /\ attempts'[m] = IF m = t.msg THEN attempts[m] + 1 ELSE attempts[m]
  BY <1>1, Zenon DEF AttemptInv, Messages
<1>5. \A m \in Edge : \A stages : /\ Cardinality(Held(m, stages)) \in Nat
                                   /\ Cardinality(Held(m, stages)') \in Nat
  BY <1>2, <1>3, HeldFinite, HeldNext, Zenon DEF TasksBounded
<1>6. ASSUME NEW m \in Edge
      PROVE  attempts'[m] + Cardinality(Held(m, Reading)') < Ceiling + MaxInFlight
  <2>1. Cardinality(Held(m, Reading)') <= Cardinality(Held(m, Reading))
    BY <1>1, <1>2, HeldGoto DEF Reading
  <2>2. t.msg = m => Cardinality(Held(m, Reading)') = Cardinality(Held(m, Reading)) - 1
    <3>1. t.msg = m => t \in Held(m, Reading) /\ "promote" \notin Reading
      BY <1>1, Zenon DEF Held, Reading
    <3> QED
      BY <1>1, <1>2, <3>1, HeldGoto
  <2> QED
    BY <1>4, <1>5, <2>1, <2>2, PipelineAssumption DEF AttemptInv
<1>7. ASSUME NEW m \in Edge
      PROVE  runs'[m] + Cardinality(Held(m, Counted)') <= attempts'[m]
  <2>1. Cardinality(Held(m, Counted)') <= Cardinality(Held(m, Counted)) + 1
    BY <1>1, <1>2, HeldGoto, Zenon
  <2>2. t.msg # m => Cardinality(Held(m, Counted)') <= Cardinality(Held(m, Counted))
    BY <1>1, <1>2, HeldGoto, Zenon
  <2> QED
    BY <1>1, <1>4, <1>5, <2>1, <2>2 DEF AttemptInv
<1> QED
  BY <1>1, <1>2, <1>3, <1>6, <1>7, Zenon DEF AttemptInv

\* A turn is run by a task that leaves the second group of awaits.
LEMMA AttemptDispatch ==
    ASSUME AttemptInv, NEW t \in tasks, Dispatch(t)
    PROVE  AttemptInv'
<1>1. /\ t.stage = "dispatch" /\ UNCHANGED attempts /\ t.msg \in Messages
      /\ runs' = [runs EXCEPT ![t.msg] = @ + 1]
      /\ Goto(t, "commit") \/ tasks' = tasks \ {t}
  BY Zenon DEF Dispatch, Return, AttemptInv, TasksBounded
<1>2. runs' \in [Messages -> Nat] /\ TasksBounded
  BY <1>1 DEF AttemptInv
<1>3. TasksBounded'
  BY <1>1, <1>2, HeldGoto, HeldEnd, Zenon
<1>4. \A m \in Edge : attempts[m] \in Nat /\ runs[m] \in Nat
                      /\ runs'[m] = IF m = t.msg THEN runs[m] + 1 ELSE runs[m]
  BY <1>1, Zenon DEF AttemptInv, Messages
<1>5. \A m \in Edge : \A stages : /\ Cardinality(Held(m, stages)) \in Nat
                                   /\ Cardinality(Held(m, stages)') \in Nat
  BY <1>2, <1>3, HeldFinite, HeldNext, Zenon DEF TasksBounded
<1>6. "commit" \notin Reading /\ "commit" \notin Counted
  BY Zenon DEF Reading, Counted
<1>7. \A m \in Edge : \A stages :
          "commit" \notin stages => Cardinality(Held(m, stages)') <= Cardinality(Held(m, stages))
  BY <1>1, <1>2, HeldGoto, HeldEnd, Zenon
<1>8. ASSUME NEW m \in Edge, t.msg = m
      PROVE  Cardinality(Held(m, Counted)') = Cardinality(Held(m, Counted)) - 1
  <2>1. t \in Held(m, Counted)
    BY <1>1, <1>8, Zenon DEF Held, Counted
  <2> QED
    BY <1>1, <1>2, <1>6, <2>1, HeldGoto, HeldEnd
<1>9. \A m \in Edge : attempts'[m] + Cardinality(Held(m, Reading)') < Ceiling + MaxInFlight
  BY <1>1, <1>4, <1>5, <1>6, <1>7, PipelineAssumption DEF AttemptInv
<1>10. \A m \in Edge : runs'[m] + Cardinality(Held(m, Counted)') <= attempts'[m]
  BY <1>1, <1>4, <1>5, <1>6, <1>7, <1>8 DEF AttemptInv
<1> QED
  BY <1>1, <1>2, <1>3, <1>9, <1>10, Zenon DEF AttemptInv
\* Every step keeps the count of attempts above the turns begun.
LEMMA AttemptStep == AttemptInv /\ [Next]_vars => AttemptInv'
<1> SUFFICES ASSUME AttemptInv, [Next]_vars PROVE AttemptInv'
  BY Zenon
<1> USE DEF durable, conn
<1>1. ASSUME NEW m \in Messages, Deliver(m) PROVE AttemptInv'
  <2> DEFINE task == [seq |-> nextSeq, msg |-> m,
                      stage |-> IF m \in Edge THEN "receive" ELSE "gate"]
  <2>1. /\ tasks' = tasks \cup {task} /\ UNCHANGED <<attempts, runs>>
        /\ Cardinality(tasks) < MaxInFlight
    BY <1>1, Zenon DEF Deliver
  <2>2. TaskShape(task) /\ task.msg = m /\ task.stage \in {"receive", "gate"}
    BY Zenon DEF TaskShape
  <2> HIDE DEF task
  <2>3. TasksBounded'
    <3>1. IsFiniteSet(tasks) /\ Cardinality(tasks) \in Nat
      BY FS_CardinalityType, Zenon DEF AttemptInv, TasksBounded
    <3>2. IsFiniteSet(tasks') /\ Cardinality(tasks') \in {Cardinality(tasks), Cardinality(tasks) + 1}
      BY <2>1, <3>1, FS_AddElement, Zenon
    <3>3. Cardinality(tasks') <= MaxInFlight
      BY <2>1, <3>1, <3>2, PipelineAssumption
    <3> QED
      BY <2>1, <2>2, <3>2, <3>3, Zenon DEF AttemptInv, TasksBounded, TaskShape
  <2>4. \A n \in Edge : Held(n, Reading)' = Held(n, Reading) /\ Held(n, Counted)' = Held(n, Counted)
    BY <2>1, <2>2, Zenon DEF Held, Reading, Counted
  <2>5. \A n \in Edge : /\ Cardinality(Held(n, Reading)) \in Nat
                        /\ Cardinality(Held(n, Counted)) \in Nat
    BY HeldFinite, Zenon DEF AttemptInv, TasksBounded
  <2> QED
    BY <2>1, <2>3, <2>4, <2>5, AttemptQuiet
<1>2. ASSUME NEW t \in tasks, Step(t) PROVE AttemptInv'
  <2>1. CASE ReadAttempts(t) \/ CountAttempt(t) \/ Dispatch(t)
    BY <2>1, AttemptRead, AttemptCount, AttemptDispatch, Zenon
  <2>2. CASE AdmitAndReparse(t) \/ Gate(t) \/ DispatchFails(t)
    <3>1. \E stage \in {"gate", "drop", "replay", "limit", "failed"} : Goto(t, stage)
      BY <2>2, Zenon DEF AdmitAndReparse, reparse_forwarded_inbound, Gate, DispatchFails
    <3>2. UNCHANGED <<attempts, runs>>
      BY <2>2, Zenon DEF AdmitAndReparse, Gate, DispatchFails
    <3> QED
      BY <3>1, <3>2, AttemptGoto, Zenon DEF Reading, Counted
  <2>3. CASE PreResolutionLimit(t) \/ Extract(t) \/ PromoteAndIngest(t)
    BY <2>3, AttemptGoto, Zenon DEF PreResolutionLimit, Extract, PromoteAndIngest, Reading, Counted
  <2>4. CASE ResolveAndAcquire(t)
    BY <2>4, AttemptGoto, AttemptEnd, Zenon DEF ResolveAndAcquire, Return, Reading, Counted
  <2>5. CASE CheapValidateRefuses(t) \/ CommitAtDispatchEdge(t) \/ Audit(t) \/ AuditFails(t) \/ Raises(t)
    BY <2>5, AttemptEnd, Zenon DEF CheapValidateRefuses, CommitAtDispatchEdge, Audit, AuditFails, Raises,
                            Return, Abort
  <2> QED
    BY <1>2, <2>1, <2>2, <2>3, <2>4, <2>5, Zenon DEF Step
<1>3. CASE Restart
  <2>1. \A m \in Edge : \A stages : Held(m, stages)' = {}
    BY <1>3, Zenon DEF Restart, Held
  <2>2. IsFiniteSet({}) /\ Cardinality({}) = 0
    BY FS_EmptySet, Zenon
  <2>3. TasksBounded' /\ UNCHANGED <<attempts, runs>>
    BY <1>3, <2>2, PipelineAssumption DEF Restart, TasksBounded
  <2>4. \A m \in Edge : \A stages : Cardinality(Held(m, stages)) \in Nat
    BY HeldFinite, Zenon DEF AttemptInv, TasksBounded
  <2> QED
    BY <2>1, <2>2, <2>3, <2>4, AttemptQuiet
<1>4. CASE UNCHANGED vars
  BY <1>4, Zenon DEF vars, AttemptInv, TasksBounded, Held, TaskShape
<1> QED
  BY <1>1, <1>2, <1>3, <1>4, Zenon DEF Next

\* A forwarded message that keeps failing is run at most as often as its
\* attempts are counted, and these stop at the ceiling plus the tasks that had
\* read the count before: for every ceiling, in-flight bound and restart.
THEOREM AttemptsStop == Spec => []AttemptsBounded
<1>1. AttemptInv => AttemptsBounded
  <2> SUFFICES ASSUME AttemptInv, NEW m \in Edge
               PROVE  runs[m] <= attempts[m] /\ attempts[m] < Ceiling + MaxInFlight
    BY Zenon DEF AttemptsBounded
  <2>1. \A stages : Cardinality(Held(m, stages)) \in Nat
    BY HeldFinite, Zenon DEF AttemptInv, TasksBounded
  <2> QED
    BY <2>1, PipelineAssumption DEF AttemptInv, Messages
<1> QED
  BY <1>1, AttemptInit, AttemptStep, PTL DEF Spec
-----------------------------------------------------------------------------
(* The outbound queue. s1 open, s2 deadline, s3 timers, s4 gen, s5 through,  *)
(* s6 queue, s8 producer, s10 waited, s11 scanned, s13 byHand.               *)

\* The queue is empty at the start.
LEMMA QueueInit == Outbound!Init => Outbound!QueueInv
  BY DEF Outbound!Init, Outbound!QueueInv, Outbound!WaitedIsRescanned, Outbound!Entry

\* One step of the queue, its consumers and its pauses keeps QueueInv.
LEMMA QueueNext == Outbound!QueueInv /\ Outbound!Next => Outbound!QueueInv'
<1> SUFFICES ASSUME Outbound!QueueInv, Outbound!Next PROVE Outbound!QueueInv'
  BY Zenon
<1>1. ASSUME NEW m \in Outgoing, Outbound!submit(m) PROVE Outbound!QueueInv'
  <2> DEFINE e == [msg |-> m, gen |-> s4]
  <2>1. /\ e \in Outbound!Entry /\ s6' = Append(s6, e)
        /\ UNCHANGED <<s4, s5, s10, s11, s14>>
        /\ s8' = [s8 EXCEPT ![m] = "in"] /\ s8[m] = "new"
    BY <1>1, Zenon DEF Outbound!submit, Outbound!Gate, Outbound!QueueInv, Outbound!Entry
  <2>2. /\ s6' \in Seq(Outbound!Entry) /\ Len(s6') = Len(s6) + 1 /\ Len(s6) \in Nat
        /\ s6'[Len(s6) + 1] = e
        /\ \A i \in 1..Len(s6) : s6'[i] = s6[i] /\ s6[i] \in Outbound!Entry
    BY <2>1 DEF Outbound!QueueInv
  <2>3. \A i \in 1..Len(s6) : s6[i].msg # m
    BY <2>1, Zenon DEF Outbound!QueueInv
  <2> QED BY <2>1, <2>2, <2>3 DEF Outbound!QueueInv, Outbound!WaitedIsRescanned, Outbound!Entry
<1>2. ASSUME NEW c \in Consumers, Outbound!consume(c) \/ Outbound!PassGate(c)
             PROVE Outbound!QueueInv'
  <2>1. UNCHANGED <<s4, s5, s6, s8, s10, s11, s14>>
    BY <1>2, Zenon DEF Outbound!consume, Outbound!PassGate, Outbound!Gate
  <2> QED BY <2>1, Zenon DEF Outbound!QueueInv, Outbound!WaitedIsRescanned
<1>3. ASSUME NEW c \in Consumers, Outbound!Get(c) PROVE Outbound!QueueInv'
  <2> DEFINE e == Head(s6)
  <2>1. /\ s6 # <<>> /\ s6' = Tail(s6) /\ UNCHANGED <<s4, s5, s10, s14>>
        /\ s8' = [s8 EXCEPT ![e.msg] = "out"]
        /\ s11' = IF s14 /\ e.gen < s5 THEN s11 \cup {e.msg} ELSE s11
    BY <1>3, Zenon DEF Outbound!Get, Outbound!Gate, Outbound!_rescan_or_refuse
  <2>2. /\ s6' \in Seq(Outbound!Entry) /\ Len(s6') = Len(s6) - 1 /\ Len(s6) \in Nat
        /\ 1 \in 1..Len(s6) /\ e \in Outbound!Entry /\ e = s6[1]
        /\ \A i \in 1..Len(s6') : i + 1 \in 1..Len(s6) /\ s6'[i] = s6[i + 1]
        /\ \A i \in 1..Len(s6) : s6[i] \in Outbound!Entry
    BY <2>1 DEF Outbound!QueueInv
  <2> HIDE DEF e
  <2>3. \A i \in 1..Len(s6') : s6'[i].msg # e.msg
    <3> SUFFICES ASSUME NEW i \in 1..Len(s6'), s6[i + 1].msg = s6[1].msg PROVE FALSE
      BY <2>2, Zenon
    <3>1. i + 1 = 1
      BY <2>2, Zenon DEF Outbound!QueueInv
    <3> QED BY <3>1
  <2> QED BY <2>1, <2>2, <2>3 DEF Outbound!QueueInv, Outbound!WaitedIsRescanned, Outbound!Entry
<1>4. ASSUME NEW after \in 1..MaxRetry, Outbound!pause(after) PROVE Outbound!QueueInv'
  BY <1>4, Zenon DEF Outbound!pause, Outbound!QueueInv, Outbound!WaitedIsRescanned
<1>5. CASE Outbound!resume \/ Outbound!_auto_resume
  <2>1. /\ UNCHANGED <<s6, s8, s11, s14>>
        /\ \/ UNCHANGED <<s4, s5, s10>>
           \/ /\ s4' = s4 + 1 /\ s5' = s4 + 1
              /\ s10' = s10 \cup {s6[i].msg : i \in 1..Len(s6)}
    BY <1>5, Zenon DEF Outbound!resume, Outbound!_auto_resume, Outbound!_clear_pause
  <2>2. \A i \in 1..Len(s6) : s6[i] \in Outbound!Entry
    BY DEF Outbound!QueueInv
  <2> QED BY <2>1, <2>2 DEF Outbound!QueueInv, Outbound!WaitedIsRescanned, Outbound!Entry
<1>6. CASE Outbound!Tick
  BY <1>6, Zenon DEF Outbound!Tick, Outbound!QueueInv, Outbound!WaitedIsRescanned
<1> QED BY <1>1, <1>2, <1>3, <1>4, <1>5, <1>6, Zenon DEF Outbound!Next

\* One step keeps GateInv, and opens the gate in time.
LEMMA GateNext == ASSUME Never \notin Nat PROVE Outbound!GateInv /\ Outbound!Next
=> Outbound!GateInv' /\ Outbound!OpensInTime
<1> SUFFICES ASSUME Outbound!GateInv, Outbound!Next PROVE Outbound!GateInv' /\ Outbound!OpensInTime
  BY Zenon
<1> USE DEF Outbound!GateInv, Outbound!OpensInTime
<1>1. ASSUME NEW m \in Outgoing, Outbound!submit(m) PROVE Outbound!GateInv' /\ Outbound!OpensInTime
  BY <1>1, Zenon DEF Outbound!submit, Outbound!Gate
<1>2. ASSUME NEW c \in Consumers, Outbound!consume(c) \/ Outbound!PassGate(c) \/ Outbound!Get(c)
             PROVE Outbound!GateInv' /\ Outbound!OpensInTime
  BY <1>2 DEF Outbound!consume, Outbound!PassGate, Outbound!Get, Outbound!Gate
<1>3. ASSUME NEW after \in 1..MaxRetry, Outbound!pause(after) PROVE Outbound!GateInv'
             /\ Outbound!OpensInTime
  BY <1>3 DEF Outbound!pause
<1>4. CASE Outbound!resume \/ Outbound!_auto_resume
  BY <1>4, Zenon DEF Outbound!resume, Outbound!_auto_resume, Outbound!_clear_pause
<1>5. CASE Outbound!Tick
  <2>1. ~s1 /\ s2 \in Nat \ {0} /\ s3' = {s2 - 1} /\ s2' = s2 - 1
    BY <1>5, Zenon DEF Outbound!Tick
  <2> QED BY <2>1, <1>5 DEF Outbound!Tick
<1> QED BY <1>1, <1>2, <1>3, <1>4, <1>5, Zenon DEF Outbound!Next

\* QueueInv is an invariant of the behaviours that are of the queue.
LEMMA QueueHolds == AllSpec => [](machine = "outbound" => Outbound!QueueInv)
<1> DEFINE I == machine = "outbound" => Outbound!QueueInv
<1>1. AllInit => I
  BY QueueInit, Zenon DEF AllInit
<1>2. I /\ [AllNext]_allVars => I'
  <2> SUFFICES ASSUME I, [AllNext]_allVars, machine' = "outbound" PROVE Outbound!QueueInv'
    BY Zenon
  <2>1. CASE AllNext
    BY <2>1, QueueNext, Zenon DEF AllNext, Of
  <2>2. CASE UNCHANGED allVars
    BY <2>2, Zenon DEF allVars, slots, Outbound!QueueInv, Outbound!WaitedIsRescanned, Outbound!Entry
  <2> QED BY <2>1, <2>2, Zenon
<1> QED BY <1>1, <1>2, PTL DEF AllSpec

\* Whatever pauses, submissions and resumptions overlap, a message that was queued when a
\* pause ended is scanned again before it leaves (submit, Get, _clear_pause).
THEOREM WaitersRescanned == AllSpec => []WaitedIsRescanned
<1>1. (machine = "outbound" => Outbound!QueueInv) => WaitedIsRescanned
  BY Zenon DEF WaitedIsRescanned, Outbound!QueueInv
<1> QED BY QueueHolds, <1>1, PTL

\* The gate reopens by itself only at the latest deadline asked for: no timer of a shorter
\* pause survives the pause that extends it (pause, _auto_resume).
THEOREM PausesRunOut == AllSpec => [][machine = "outbound" => Outbound!OpensInTime]_allVars
<1> DEFINE I == machine = "outbound" => Outbound!GateInv
<1>1. AllInit => I
  BY Zenon DEF AllInit, Outbound!Init, Outbound!GateInv
<1>2. I /\ [AllNext]_allVars => I' /\ [machine = "outbound" => Outbound!OpensInTime]_allVars
  <2> SUFFICES ASSUME I, [AllNext]_allVars
               PROVE  I' /\ [machine = "outbound" => Outbound!OpensInTime]_allVars
    BY Zenon
  <2>1. CASE AllNext
    BY <2>1, GateNext, QueueAssumption, Zenon DEF AllNext, Of
  <2>2. CASE UNCHANGED allVars
    BY <2>2, Zenon DEF allVars, slots, Outbound!GateInv
  <2> QED BY <2>1, <2>2, Zenon
<1> QED BY <1>1, <1>2, PTL DEF AllSpec
-----------------------------------------------------------------------------
(* The tiers of content. s1 nonce, s2 value, s4 body, s5 scan.               *)

\* No value is tagged at the start.
LEMMA TagInit == Tier!Init => Tier!TagInv
  BY DEF Tier!Init, Tier!TagInv, Tier!T3StaysT3, Tier!NoValue, Tier!Value

\* One step of the tags or of the store keeps TagInv.
LEMMA TagNext == Tier!TagInv /\ Tier!Next => Tier!TagInv'
<1> SUFFICES ASSUME Tier!TagInv, Tier!Next PROVE Tier!TagInv'
  BY Zenon
<1>1. CASE Tier!Storing
  <2>1. UNCHANGED Tier!Tags
    BY <1>1, Zenon DEF Tier!Storing, Tier!Tick, Tier!write, Tier!promote, Tier!Peek,
         Tier!Quarantine, Tier!extract
  <2> QED BY <2>1, Zenon DEF Tier!Tags, Tier!TagInv, Tier!T3StaysT3, Tier!Value
<1>2. CASE Tier!_set_authorized_t3_nonce
  BY <1>2, Zenon DEF Tier!_set_authorized_t3_nonce, Tier!TagInv, Tier!T3StaysT3, Tier!Value
<1>3. ASSUME NEW why, Tier!Refused(why) PROVE Tier!TagInv'
  BY <1>3, Zenon DEF Tier!Refused, Tier!TagInv, Tier!T3StaysT3, Tier!Value
<1>4. ASSUME NEW param, NEW tier, NEW origin, Tier!Made(Tier!Value(param, tier, origin)),
             origin = "T3" => tier = "T3", tier = "T3" => param = "T3" /\ origin = "T3" /\ s1
      PROVE  Tier!TagInv'
  BY <1>4, Zenon DEF Tier!Made, Tier!TagInv, Tier!T3StaysT3, Tier!Value
<1> USE DEF Tier!_enforce_tier_admissible
<1>5. ASSUME NEW param \in Tier!Tiers \cup {"any"}, NEW tier \in Tier!Tiers,
             Tier!Construct(param, tier)
      PROVE  Tier!TagInv'
  BY <1>3, <1>4, <1>5, Zenon DEF Tier!Construct
<1>6. ASSUME NEW tier \in Tier!Tiers, Tier!tag(tier) PROVE Tier!TagInv'
  BY <1>3, <1>4, <1>6, Zenon DEF Tier!tag
<1>7. ASSUME NEW held \in BOOLEAN, Tier!tag_t3_with_nonce(held) PROVE Tier!TagInv'
  BY <1>3, <1>4, <1>7, Zenon DEF Tier!tag_t3_with_nonce
<1>8. ASSUME NEW tier \in Tier!Tiers, Tier!model_copy(tier) PROVE Tier!TagInv'
  <2>1. CASE tier = s2.tier
    BY <1>8, <2>1, Zenon DEF Tier!model_copy, Tier!Made, Tier!TagInv, Tier!T3StaysT3
  <2>2. CASE tier # s2.tier
    BY <1>8, <2>2, <1>3, Zenon DEF Tier!model_copy, Tier!Made, Tier!TagInv, Tier!T3StaysT3, Tier!Value
  <2> QED BY <2>1, <2>2, Zenon
<1>9. ASSUME NEW param \in Tier!Tiers \cup {"any"}, Tier!_resolve_tier_from_wire(param)
             PROVE Tier!TagInv'
  BY <1>9, <1>3, Zenon DEF Tier!_resolve_tier_from_wire, Tier!Made, Tier!TagInv, Tier!T3StaysT3, Tier!Value
<1> QED BY <1>1, <1>2, <1>5, <1>6, <1>7, <1>8, <1>9, Zenon DEF Tier!Next, Tier!Tagging

\* TagInv is an invariant of the behaviours that are of the tiers.
LEMMA TagsHold == AllSpec => [](machine = "tiers" => Tier!TagInv)
<1> DEFINE I == machine = "tiers" => Tier!TagInv
<1>1. AllInit => I
  BY TagInit, Zenon DEF AllInit
<1>2. I /\ [AllNext]_allVars => I'
  <2> SUFFICES ASSUME I, [AllNext]_allVars, machine' = "tiers" PROVE Tier!TagInv'
    BY Zenon
  <2>1. CASE AllNext
    BY <2>1, TagNext, Zenon DEF AllNext, Of
  <2>2. CASE UNCHANGED allVars
    BY <2>2, Zenon DEF allVars, slots, Tier!TagInv, Tier!T3StaysT3, Tier!Value
  <2> QED BY <2>1, <2>2, Zenon
<1> QED BY <1>1, <1>2, PTL DEF AllSpec

\* Content that came in as T3 is T3 in every copy and after every round trip, and there is
\* none before the nonce (tag_t3_with_nonce, model_copy, _resolve_tier_from_wire).
THEOREM TaggedStaysTagged == AllSpec => []T3StaysT3
<1>1. (machine = "tiers" => Tier!TagInv) => T3StaysT3
  BY Zenon DEF T3StaysT3, Tier!TagInv
<1> QED BY TagsHold, <1>1, PTL
-----------------------------------------------------------------------------
(* The scans. s1 disk, s2 env, s3 broker, s4 fileSecrets, s5 version,         *)
(* s6 cache, s7 subscriber, s8 draft, s9 left, s11 matcher.                  *)

\* The redactor never has to cut its patterns: each name gives one value at most.
LEMMA KnownWithinLimit ==
    ASSUME IsFiniteSet(Names), MaxPatterns \in Nat, Cardinality(Names) <= MaxPatterns
    PROVE  Cardinality(Secret!_known_with_values) <= MaxPatterns
<1> DEFINE all == {Secret!get(n) : n \in Names}
<1>1. IsFiniteSet(all) /\ Cardinality(all) <= Cardinality(Names)
  <2> DEFINE f == [n \in Names |-> Secret!get(n)]
  <2>1. f \in Surjection(Names, all)
    BY Zenon DEF Surjection
  <2> HIDE DEF f, all
  <2> QED BY <2>1, FS_Surjection, Zenon
<1>2. Secret!_known_with_values \subseteq all
  BY Zenon DEF Secret!_known_with_values
<1> HIDE DEF all
<1>3. Cardinality(Secret!_known_with_values) <= Cardinality(all)
  BY <1>1, <1>2, FS_Subset, Zenon
<1>4. IsFiniteSet(Secret!_known_with_values)
  BY <1>1, <1>2, FS_Subset, Zenon
<1> QED BY <1>1, <1>3, <1>4, FS_CardinalityType

\* No redactor is compiled at the start.
LEMMA RedactorInit == Secret!Init => Secret!RedactorInv
  BY DEF Secret!Init, Secret!RedactorInv, Secret!NoCache

\* One step keeps RedactorInv, and a text that leaves in it is clean.
LEMMA RedactorNext ==
    ASSUME Cardinality(Secret!_known_with_values) <= MaxPatterns
    PROVE  Secret!RedactorInv /\ Secret!Next => Secret!RedactorInv' /\ Secret!LeavesClean
<1> SUFFICES ASSUME Secret!RedactorInv, Secret!Next PROVE Secret!RedactorInv' /\ Secret!LeavesClean
  BY Zenon
<1>1. Secret!Compiled.version = s5 /\ Secret!Compiled.values = Secret!_known_with_values
  <2>1. Secret!Cardinality(Secret!_known_with_values) <= MaxPatterns
    BY Zenon DEF Secret!Cardinality, Cardinality
  <2> QED BY <2>1, Zenon DEF Secret!Compiled, Secret!RedactorInv
<1>2. ASSUME UNCHANGED <<s2, s4>> PROVE Secret!_known_with_values' = Secret!_known_with_values
  BY <1>2, Zenon DEF Secret!_known_with_values, Secret!get
<1>3. CASE Secret!Rotate \/ Secret!register_extract_dlp_subscriber
  BY <1>2, <1>3, Zenon DEF Secret!Rotate, Secret!register_extract_dlp_subscriber, Secret!Broker,
       Secret!Texts, Secret!RedactorInv, Secret!LeavesClean
<1>4. CASE Secret!Construct
  <2>1. s3 = "none" /\ UNCHANGED <<s5, s6, s8, s9>>
    BY <1>4, Zenon DEF Secret!Construct, Secret!Texts
  <2> QED BY <2>1, Zenon DEF Secret!RedactorInv, Secret!LeavesClean
<1>5. CASE Secret!reload
  <2>1. \/ UNCHANGED <<s2, s4, s5>>
        \/ s5' = s5 + 1
    BY <1>5, Zenon DEF Secret!reload
  <2>2. s3 = "up" /\ UNCHANGED <<s3, s6, s8, s9>>
    BY <1>5, Zenon DEF Secret!reload, Secret!Texts
  <2> QED BY <2>1, <2>2, <1>2 DEF Secret!RedactorInv, Secret!LeavesClean
<1>6. CASE Secret!Compose
  <2>1. s3 = "up" /\ UNCHANGED <<s2, Secret!Broker>> /\ s9' = {}
    BY <1>6, Zenon DEF Secret!Compose
  <2> QED BY <2>1, <1>2, Zenon DEF Secret!RedactorInv, Secret!LeavesClean, Secret!Broker
<1>7. ASSUME s8 # {}, Secret!_scan_stages, s8' = {}, UNCHANGED <<s2, s3, s4, s5>>
      PROVE Secret!RedactorInv'
  BY <1>1, <1>2, <1>7 DEF Secret!_scan_stages, Secret!RedactorInv
<1>8. CASE Secret!scan_for_outbound
  <2>1. Secret!RedactorInv'
    BY <1>7, <1>8, Zenon DEF Secret!scan_for_outbound
  <2>2. s9' # s9 => (s11 => "canary" \notin s8) /\ s9' \subseteq Secret!Redacted
    BY <1>8, Zenon DEF Secret!scan_for_outbound, Secret!_scan_canary
  <2>3. s9' # s9 => \A x \in s9' : /\ x \notin Secret!_known_with_values \cup {"api key"}
                                   /\ x \in s8
    BY <2>2, <1>1, Zenon DEF Secret!Redacted, Secret!redact
  <2>4. Secret!LeavesClean
    BY <2>2, <2>3, Zenon DEF Secret!LeavesClean
  <2> QED BY <2>1, <2>4, Zenon
<1>9. CASE Secret!ExtractScan
  <2>1. Secret!RedactorInv'
    BY <1>7, <1>9, Zenon DEF Secret!ExtractScan
  <2>2. s9' # s9 => (s11 => "canary" \notin s8) /\ s9' \subseteq Secret!Redacted
    BY <1>9, Zenon DEF Secret!ExtractScan, Secret!_scan_canary
  <2>3. s9' # s9 => \A x \in s9' : /\ x \notin Secret!_known_with_values \cup {"api key"}
                                   /\ x \in s8
    BY <2>2, <1>1, Zenon DEF Secret!Redacted, Secret!redact
  <2>4. Secret!LeavesClean
    BY <2>2, <2>3, Zenon DEF Secret!LeavesClean
  <2> QED BY <2>1, <2>4, Zenon
<1> QED BY <1>3, <1>4, <1>5, <1>6, <1>8, <1>9, Zenon DEF Secret!Next

\* A text that leaves holds no value the broker would hand out then, however the reloads fall
\* between the compilation of the redactor and the scan (reload, Compiled, scan_for_outbound).
THEOREM SecretsStayIn == AllSpec => CurrentSecretsStay
<1> DEFINE I == machine = "secrets" => Secret!RedactorInv
<1>1. AllInit => I
  BY RedactorInit, Zenon DEF AllInit
<1>2. I /\ [AllNext]_allVars => I' /\ [(machine = "secrets") => Secret!LeavesClean]_allVars
  <2> SUFFICES ASSUME I, [AllNext]_allVars
               PROVE  I' /\ [(machine = "secrets") => Secret!LeavesClean]_allVars
    BY Zenon
  <2>1. Cardinality(Secret!_known_with_values) <= MaxPatterns
    BY KnownWithinLimit, SecretsAssumption, Zenon
  <2>2. CASE AllNext
    BY <2>1, <2>2, RedactorNext, Zenon DEF AllNext, Of
  <2>3. CASE UNCHANGED allVars
    BY <2>3, Zenon DEF allVars, slots, Secret!RedactorInv, Secret!_known_with_values, Secret!get
  <2> QED BY <2>2, <2>3, Zenon
<1> QED BY <1>1, <1>2, PTL DEF AllSpec, CurrentSecretsStay
=============================================================================
