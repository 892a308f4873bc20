------------------------ MODULE GatewayResumeProofs ------------------------
(***************************************************************************)
(* For any legs, caps and number of restarts: a frame of the terminal runs *)
(* at most one turn, a forwarded frame is committed only after one, what   *)
(* travels on the live connection under a number is the frame the leg      *)
(* minted it for, and a leg's frames travel in their source's order.  A    *)
(* gateway that hosts only the terminal loses no frame silently: each one  *)
(* it took is committed by the core, given up with a log line, or still    *)
(* queued, retained or awaiting replay.                                    *)
(***************************************************************************)
EXTENDS GatewayResume, FiniteSetTheorems, WellFoundedInduction, TLAPS

\* A non-empty set of naturals has a least element.
LEMMA LeastNatural ==
    ASSUME NEW T, T \subseteq Nat, T # {}
    PROVE  \E d \in T : \A y \in T : d <= y
<1> DEFINE R == OpToRel(<, Nat)
<1>1. IsWellFoundedOn(R, Nat)
  BY NatLessThanWellFounded, Zenon
<1>2. R = {p \in Nat \X Nat : p[1] < p[2]}
  BY Zenon DEF OpToRel
<1> HIDE DEF R
<1>3. PICK d \in T : \A y \in T : ~(<<y, d>> \in R)
  BY <1>1, WFMin, Zenon
<1>4. ASSUME NEW y \in T, y < d PROVE FALSE
  <2> DEFINE p == <<y, d>>
  <2>1. p \in Nat \X Nat /\ p[1] < p[2]
    BY <1>4, Zenon
  <2> HIDE DEF p
  <2>2. p \in R
    BY <2>1, <1>2, Zenon
  <2> QED
    BY <1>3, <2>2, Zenon DEF p
<1>5. \A y \in T : d <= y
  BY <1>4
<1> QED
  BY <1>5, Zenon

\* The maximum of a non-empty interval subset is one of its elements: the
\* choice in Max is never arbitrary where the models use it.
LEMMA IntervalMax ==
    ASSUME NEW lo \in Int, NEW hi \in Int, NEW S \in SUBSET (lo .. hi), S # {}
    PROVE  Max(S) \in S /\ \A y \in S : Max(S) >= y
<1> DEFINE T == {hi - n : n \in S}
<1>1. T \subseteq Nat /\ T # {}
  <2>1. \A n \in S : hi - n \in Nat
    OBVIOUS
  <2> QED
    BY <2>1, Zenon
<1>2. PICK d \in T : \A y \in T : d <= y
  BY <1>1, LeastNatural, Zenon
<1>3. PICK m \in S : d = hi - m
  BY <1>2, Zenon
<1>4. \A n \in S : m >= n
  <2>1. \A n \in S : hi - n \in T
    BY Zenon
  <2> HIDE DEF T
  <2> QED  BY <1>2, <1>3, <2>1
<1> QED
  BY <1>4, Zenon DEF Max

\* The same for sets of naturals.
LEMMA BoundedMax ==
    ASSUME NEW N \in Nat, NEW S \in SUBSET (0 .. N), S # {}
    PROVE  Max(S) \in S
<1>1. 0 \in Int /\ N \in Int
  OBVIOUS
<1> QED
  BY <1>1, IntervalMax, Zenon

TrackerOK(t) == t \in TrackerType /\ IsFiniteSet(t.seen)

\* observe counts the number it is given and what it had counted, no more.
LEMMA ObserveAddsOne ==
    ASSUME NEW t, TrackerOK(t), NEW seq \in Nat
    PROVE  /\ TrackerOK(Observe(t, seq))
           /\ \A s \in Nat : Observed(Observe(t, seq), s) => Observed(t, s) \/ s = seq
<1>1. CASE seq > t.high + MaxOOOGap
  BY <1>1, Zenon DEF Observe
<1>2. CASE ~(seq > t.high + MaxOOOGap)
  <2> DEFINE seen == t.seen \cup {seq}
             n == Cardinality(seen)
             S == {h \in t.high .. t.high + n : t.high + 1 .. h \subseteq seen}
             high == Max(S)
             rest == {s \in seen : s > high}
  <2>1. t.high \in Int /\ t.high >= -1 /\ seen \subseteq Nat
    BY DEF TrackerOK, TrackerType
  <2>2. IsFiniteSet(seen) /\ n \in Nat
    BY FS_AddElement, FS_CardinalityType, Zenon DEF TrackerOK
  <2>3. Observe(t, seq) = [high |-> high, seen |-> rest]
    BY <1>2, Zenon DEF Observe
  <2> HIDE DEF n
  <2>4. t.high \in S
    BY <2>1, <2>2
  <2>5. S \in SUBSET (t.high .. t.high + n) /\ S # {} /\ t.high + n \in Int
    BY <2>1, <2>2, <2>4
  <2>6. high \in S
    <3> HIDE DEF S
    <3> QED  BY <2>1, <2>5, IntervalMax, Zenon
  <2>7. high \in Int /\ high >= t.high /\ \A s \in Nat : s > t.high /\ s <= high => s \in seen
    BY <2>1, <2>2, <2>6
  <2>8. rest \subseteq Nat /\ IsFiniteSet(rest)
    BY <2>1, <2>2, FS_Subset, Zenon
  <2> HIDE DEF high, rest
  <2>9. TrackerOK(Observe(t, seq))
    BY <2>1, <2>3, <2>7, <2>8 DEF TrackerOK, TrackerType
  <2>10. ASSUME NEW s \in Nat, Observed(Observe(t, seq), s)
         PROVE  Observed(t, s) \/ s = seq
    <3>1. s <= high \/ s \in seen
      BY <2>3, <2>10 DEF Observed, rest
    <3> QED
      BY <3>1, <2>1, <2>7 DEF Observed
  <2> QED
    BY <2>9, <2>10, Zenon
<1> QED
  BY <1>1, <1>2, Zenon

\* The removal loops of trim_to_ack and evict_expired remove at most the whole
\* buffer, and only entries they are to remove.
LEMMA PrefixInRange ==
    ASSUME NEW entries \in Seq(Retained), NEW gone
    PROVE  /\ RemovedPrefix(entries, gone) \in 0 .. Len(entries)
           /\ 1 .. RemovedPrefix(entries, gone) \subseteq gone
<1> DEFINE S == {n \in 0 .. Len(entries) : 1 .. n \subseteq gone}
<1>1. 0 \in S
  OBVIOUS
<1>2. Len(entries) \in Nat /\ S \in SUBSET (0 .. Len(entries)) /\ S # {}
  BY <1>1
<1>3. Max(S) \in S
  <2> HIDE DEF S
  <2> QED  BY <1>2, BoundedMax, Zenon
<1> QED
  BY <1>3, Zenon DEF RemovedPrefix

\* What is left of a sequence without its first k elements.
LEMMA SuffixShape ==
    ASSUME NEW S, NEW r \in Seq(S), NEW k \in 0 .. Len(r)
    PROVE  /\ SubSeq(r, k + 1, Len(r)) \in Seq(S)
           /\ Len(SubSeq(r, k + 1, Len(r))) = Len(r) - k
           /\ \A i \in 1 .. Len(r) - k : SubSeq(r, k + 1, Len(r))[i] = r[i + k]
  OBVIOUS
-----------------------------------------------------------------------------

\* In a module of this length the default time limit is short.
USE SMTT(30)

TaskShape(t) == t = [leg |-> t.leg, seq |-> t.seq, n |-> t.n, stage |-> t.stage]
TurnDue(t) == t.leg = Tui /\ t.stage = "dispatch"

\* A terminal frame about to run is committed, has not run, and no other task
\* is about to run it.
DueOnce ==
    /\ \A t \in inflight : TurnDue(t) =>
          /\ FrameOf(t) \in committed
          /\ FrameOf(t) \in Frames => dispatched[FrameOf(t)] = 0
    /\ \A t, u \in inflight : TurnDue(t) /\ TurnDue(u) /\ t.n = u.n => t = u

\* A terminal frame that ran is committed, and ran once.
RanCommitted ==
    \A f \in Frames : f.leg = Tui =>
        dispatched[f] <= 1 /\ (dispatched[f] > 0 => f \in committed)

\* A forwarded frame about to be committed has run; no terminal frame is
\* committed at the dispatched edge.
EdgeRan ==
    \A t \in inflight : t.stage = "commit" =>
        t.leg # Tui /\ (FrameOf(t) \in Frames => dispatched[FrameOf(t)] > 0)

TurnInv ==
    /\ dispatched \in [Frames -> Nat]
    /\ \A t \in inflight : TaskShape(t)
    /\ DueOnce
    /\ RanCommitted
    /\ EdgeRan
    /\ ForwardedCommitRan

\* The initial state has no task, no row and no turn.
LEMMA TurnInit == Init => TurnInv
  BY DEF Init, TurnInv, DueOnce, RanCommitted, EdgeRan, ForwardedCommitRan, Frames

\* A step that leaves tasks, rows and turns alone preserves the invariant.
LEMMA TurnStutter ==
    ASSUME TurnInv, UNCHANGED <<inflight, committed, dispatched>>
    PROVE  TurnInv'
  BY Zenon DEF TurnInv, DueOnce, RanCommitted, EdgeRan, ForwardedCommitRan, TurnDue, FrameOf, TaskShape

\* The admission gate: a terminal frame let through was not committed, so no
\* other task holds it and it has not run.
LEMMA TurnAdmit ==
    ASSUME TurnInv, NEW t \in inflight, Admit(t)
    PROVE  TurnInv'
<1>1. CASE FrameOf(t) \in committed
  <2>1. inflight' = inflight \ {t} /\ committed' = committed /\ dispatched' = dispatched
    BY <1>1, Zenon DEF Admit, Finish
  <2>2. QED
    BY <2>1, Zenon DEF TurnInv, DueOnce, RanCommitted, EdgeRan, ForwardedCommitRan, TurnDue, FrameOf,
                TaskShape
<1>2. CASE FrameOf(t) \notin committed
  <2> DEFINE new == [leg |-> t.leg, seq |-> t.seq, n |-> t.n, stage |-> "dispatch"]
  <2>1. inflight' = (inflight \ {t}) \cup {new} /\ dispatched' = dispatched
    BY <1>2, Zenon DEF Admit, Advance
  <2>2. /\ t.leg = Tui => committed' = committed \cup {FrameOf(t)}
        /\ t.leg # Tui => committed' = committed
    BY <1>2, Zenon DEF Admit
  <2>3. /\ new.leg = t.leg /\ new.n = t.n /\ new.stage = "dispatch"
        /\ FrameOf(new) = FrameOf(t) /\ TaskShape(new)
    BY Zenon DEF FrameOf, TaskShape
  <2>4. t.leg = Tui /\ FrameOf(t) \in Frames => dispatched[FrameOf(t)] = 0
    BY <1>2 DEF TurnInv, RanCommitted, FrameOf
  <2>5. \A u \in inflight : TurnDue(u) /\ t.leg = Tui => u.n # t.n
    BY <1>2, Zenon DEF TurnInv, DueOnce, TurnDue, FrameOf
  <2> HIDE DEF new
  <2>6. DueOnce'
    BY <2>1, <2>2, <2>3, <2>4, <2>5 DEF TurnInv, DueOnce, TurnDue, FrameOf
  <2>7. RanCommitted'
    BY <2>1, <2>2, Zenon DEF TurnInv, RanCommitted
  <2>8. EdgeRan'
    BY <2>1, <2>3, Zenon DEF TurnInv, EdgeRan, FrameOf
  <2>9. ForwardedCommitRan'
    BY <2>1, <2>2 DEF TurnInv, ForwardedCommitRan, FrameOf
  <2>10. QED
    BY <2>1, <2>3, <2>6, <2>7, <2>8, <2>9, Zenon DEF TurnInv, TaskShape
<1>3. QED
  BY <1>1, <1>2, Zenon

\* Counting one more at f, whether or not f is counted at all.
LEMMA CountUp ==
    ASSUME NEW D, NEW d \in [D -> Nat], NEW f
    PROVE  /\ [d EXCEPT ![f] = @ + 1] \in [D -> Nat]
           /\ \A g \in D : g # f => [d EXCEPT ![f] = @ + 1][g] = d[g]
           /\ f \in D => [d EXCEPT ![f] = @ + 1][f] = d[f] + 1
<1>1. CASE f \in D
  BY <1>1
<1>2. CASE f \notin D
  <2>1. [d EXCEPT ![f] = @ + 1] = d
    BY <1>2, Zenon
  <2>2. QED
    BY <1>2, <2>1, Zenon
<1>3. QED
  BY <1>1, <1>2, Zenon

\* A turn runs or fails.
LEMMA TurnDispatch ==
    ASSUME TurnInv, NEW t \in inflight, Dispatch(t)
    PROVE  TurnInv'
<1> DEFINE f == FrameOf(t)
           new == [leg |-> t.leg, seq |-> t.seq, n |-> t.n, stage |-> "commit"]
<1>1. committed' = committed /\ t.stage = "dispatch"
  BY Zenon DEF Dispatch
<1>2. CASE dispatched' = dispatched /\ inflight' = inflight \ {t}
  BY <1>1, <1>2, Zenon DEF TurnInv, DueOnce, RanCommitted, EdgeRan, ForwardedCommitRan, TurnDue,
                    FrameOf, TaskShape
<1>3. ASSUME dispatched' = [dispatched EXCEPT ![f] = @ + 1],
             \/ t.leg = Tui /\ inflight' = inflight \ {t}
             \/ t.leg # Tui /\ inflight' = (inflight \ {t}) \cup {new}
      PROVE  TurnInv'
  <2>1. /\ dispatched' \in [Frames -> Nat]
        /\ \A g \in Frames : g # f => dispatched'[g] = dispatched[g]
        /\ f \in Frames => dispatched'[f] = dispatched[f] + 1
    BY <1>3, CountUp, Zenon DEF TurnInv
  <2>2. /\ new.leg = t.leg /\ new.n = t.n /\ new.stage = "commit"
        /\ FrameOf(new) = f /\ TaskShape(new)
    BY Zenon DEF FrameOf, TaskShape
  <2>3. f.leg = t.leg
    BY Zenon DEF FrameOf
  <2>4. \A u \in inflight : TurnDue(u) /\ FrameOf(u) = f => u = t
    BY <1>1, Zenon DEF TurnInv, DueOnce, TurnDue, FrameOf
  <2>5. t.leg = Tui => f \in committed /\ (f \in Frames => dispatched[f] = 0)
    BY <1>1, Zenon DEF TurnInv, DueOnce, TurnDue
  <2> HIDE DEF f, new
  <2>6. \A u \in inflight' : (u \in inflight /\ u # t) \/ (u = new /\ t.leg # Tui)
    BY <1>3, Zenon
  <2>7. DueOnce'
    BY <1>1, <2>1, <2>2, <2>4, <2>6, Zenon DEF TurnInv, DueOnce, TurnDue, FrameOf
  <2>8. RanCommitted'
    BY <1>1, <2>1, <2>3, <2>5 DEF TurnInv, RanCommitted
  <2>9. EdgeRan'
    BY <1>1, <2>1, <2>2, <2>6 DEF TurnInv, EdgeRan, FrameOf
  <2>10. ForwardedCommitRan'
    BY <1>1, <2>1 DEF TurnInv, ForwardedCommitRan
  <2>11. QED
    BY <2>1, <2>2, <2>6, <2>7, <2>8, <2>9, <2>10, Zenon DEF TurnInv, TaskShape
<1>4. QED
  BY <1>1, <1>2, <1>3, Zenon DEF Dispatch, Advance, Finish

\* The commit of a forwarded frame.
LEMMA TurnCommit ==
    ASSUME TurnInv, NEW t \in inflight, CommitAtEdge(t)
    PROVE  TurnInv'
<1>1. /\ inflight' = inflight \ {t} /\ dispatched' = dispatched
      /\ committed' = committed \cup {FrameOf(t)}
      /\ t.leg # Tui /\ (FrameOf(t) \in Frames => dispatched[FrameOf(t)] > 0)
  BY Zenon DEF CommitAtEdge, Finish, TurnInv, EdgeRan
<1>2. DueOnce' /\ RanCommitted' /\ EdgeRan'
  BY <1>1, Zenon DEF TurnInv, DueOnce, RanCommitted, EdgeRan, TurnDue, FrameOf
<1>3. ForwardedCommitRan'
  BY <1>1, Zenon DEF TurnInv, ForwardedCommitRan
<1>4. QED
  BY <1>1, <1>2, <1>3, Zenon DEF TurnInv, TaskShape

\* A task starts at the admission gate.
LEMMA TurnReceive ==
    ASSUME TurnInv, Receive
    PROVE  TurnInv'
<1> DEFINE new == [leg |-> Head(up).leg, seq |-> Head(up).seq, n |-> Head(up).n,
                   stage |-> "admit"]
<1>1. inflight' = inflight \cup {new} /\ committed' = committed /\ dispatched' = dispatched
  BY Zenon DEF Receive, durable
<1>2. new.stage = "admit" /\ TaskShape(new)
  BY Zenon DEF TaskShape
<1> HIDE DEF new
<1>3. QED
  BY <1>1, <1>2, Zenon DEF TurnInv, DueOnce, RanCommitted, EdgeRan, ForwardedCommitRan, TurnDue,
                    FrameOf, TaskShape

\* Every step keeps TurnInv.
LEMMA TurnNext == TurnInv /\ [Next]_vars => TurnInv'
<1> SUFFICES ASSUME TurnInv, [Next]_vars PROVE TurnInv'
  BY Zenon
<1>1. CASE UNCHANGED <<inflight, committed, dispatched>>
  BY <1>1, TurnStutter, Zenon
<1>2. CASE Receive
  BY <1>2, TurnReceive, Zenon
<1>3. CASE TaskStep
  BY <1>3, TurnAdmit, TurnDispatch, TurnCommit, Zenon DEF TaskStep
<1>4. CASE CrashCore
  BY <1>4, Zenon DEF CrashCore, durable, TurnInv, DueOnce, RanCommitted, EdgeRan, ForwardedCommitRan
<1>5. CASE ClientPassGate \/ ClientRead \/ \E l \in Legs : AdapterForward(l)
  BY <1>1, <1>5, Zenon DEF ClientPassGate, ClientRead, AdapterForward, forward_adapter_inbound, taskVars, durable
<1>6. CASE SchedulerStep \/ EvictExpiredFrames
  BY <1>1, <1>6, Zenon DEF SchedulerStep, DrainFrame, ResumeDrain, EvictExpiredFrames, taskVars, durable
<1>7. CASE LinkStep
  BY <1>1, <1>7, Zenon DEF LinkStep, Dial, ConnectFails, Handshake, Bind, FlushFrame, RouteUnit, PumpEof,
                    CloseStale, taskVars, durable
<1>8. CASE BootCore \/ AnnounceGoingDown \/ EmitAck
  BY <1>1, <1>8, Zenon DEF BootCore, AnnounceGoingDown, EmitAck, taskVars, durable
<1>9. CASE UNCHANGED vars
  BY <1>1, <1>9, Zenon DEF vars, taskVars, durable
<1>10. QED
  BY <1>2, <1>3, <1>4, <1>5, <1>6, <1>7, <1>8, <1>9, Zenon DEF Next

\* However often the gateway replays a terminal frame and whenever the core
\* dies between the commit and the turn, the frame runs at most one turn: the
\* receipt-time commit of process_inbound_message.
THEOREM TurnsAtMostOnce == Spec => []TurnAtMostOnce
<1>1. TurnInv => TurnAtMostOnce
  BY Zenon DEF TurnInv, RanCommitted, TurnAtMostOnce
<1>2. QED
  BY TurnInit, TurnNext, <1>1, PTL DEF Spec

\* A forwarded frame has a committed row only once a turn ran for it, so a
\* retry is never answered from the ledger without a turn.
THEOREM ForwardedCommitsRan == Spec => []ForwardedCommitRan
<1>1. TurnInv => ForwardedCommitRan
  BY Zenon DEF TurnInv
<1>2. QED
  BY TurnInit, TurnNext, <1>1, PTL DEF Spec
-----------------------------------------------------------------------------
\* The numbers of a leg.  Rising, Below and Upto speak of the sequences of
\* payloads a leg holds at the successive stages of its path.
Rising(s) == \A i, j \in 1 .. Len(s) : i < j => s[i] < s[j]
Below(s, t) == \A i \in 1 .. Len(s), j \in 1 .. Len(t) : s[i] < t[j]
Upto(s, n) == \A i \in 1 .. Len(s) : s[i] <= n

\* The retained entries carry rising numbers below the next one to mint.
KeptBelow(kept, s) ==
    /\ kept \in Seq(Retained)
    /\ \A i, j \in 1 .. Len(kept) : i < j => kept[i].seq < kept[j].seq
    /\ \A i \in 1 .. Len(kept) : kept[i].seq < s

\* One leg: the payloads it minted numbers for, those that wait for replay and
\* those that wait in the queue follow each other in the order of the source,
\* which has handed over p frames.
InLine(kept, s, m, w, q, p) ==
    /\ m \in Seq(Nat) /\ w \in Seq(Nat) /\ q \in Seq(Nat) /\ p \in Nat
    /\ s = Len(m)
    /\ KeptBelow(kept, s)
    /\ Rising(m) /\ Rising(w) /\ Rising(q)
    /\ Below(m, w) /\ Below(m, q) /\ Below(w, q)
    /\ Upto(m, p) /\ Upto(w, p) /\ Upto(q, p)

\* The elements of an appended sequence.
LEMMA AppendAt ==
    ASSUME NEW S, NEW s \in Seq(S), NEW x \in S
    PROVE  /\ Append(s, x) \in Seq(S)
           /\ \A i \in 1 .. Len(Append(s, x)) :
                 (i \in 1 .. Len(s) /\ Append(s, x)[i] = s[i]) \/ Append(s, x)[i] = x
  OBVIOUS

\* A larger payload extends a rising sequence.
LEMMA RisingAppend ==
    ASSUME NEW s \in Seq(Nat), NEW x \in Nat, Rising(s), \A i \in 1 .. Len(s) : s[i] < x
    PROVE  Append(s, x) \in Seq(Nat) /\ Rising(Append(s, x))
<1> DEFINE a == Append(s, x)
<1>1. /\ a \in Seq(Nat) /\ Len(s) \in Nat /\ Len(a) = Len(s) + 1
      /\ a[Len(s) + 1] = x /\ \A i \in 1 .. Len(s) : a[i] = s[i]
  OBVIOUS
<1> HIDE DEF a
<1>2. ASSUME NEW i \in 1 .. Len(a), NEW j \in 1 .. Len(a), i < j PROVE a[i] < a[j]
  <2>1. i \in 1 .. Len(s) /\ a[i] = s[i]
    BY <1>1, <1>2
  <2>2. CASE j = Len(s) + 1
    BY <1>1, <2>1, <2>2, Zenon
  <2>3. CASE j \in 1 .. Len(s)
    BY <1>1, <1>2, <2>1, <2>3, Zenon DEF Rising
  <2> QED
    BY <1>1, <2>2, <2>3
<1> QED
  BY <1>1, <1>2, Zenon DEF Rising, a

\* What comes before or after every element of a sequence and of one payload
\* does so for the sequence with the payload appended.
LEMMA BoundsAppend ==
    ASSUME NEW s \in Seq(Nat), NEW x \in Nat, NEW t \in Seq(Nat), NEW p \in Nat
    PROVE  /\ Below(s, t) /\ (\A j \in 1 .. Len(t) : x < t[j]) => Below(Append(s, x), t)
           /\ Below(t, s) /\ (\A j \in 1 .. Len(t) : t[j] < x) => Below(t, Append(s, x))
           /\ Upto(s, p) /\ x <= p => Upto(Append(s, x), p)
<1> DEFINE a == Append(s, x)
<1>1. /\ Len(s) \in Nat /\ Len(a) = Len(s) + 1
      /\ a[Len(s) + 1] = x /\ \A i \in 1 .. Len(s) : a[i] = s[i]
  OBVIOUS
<1> HIDE DEF a
<1>2. \A i \in 1 .. Len(a) : (i \in 1 .. Len(s) /\ a[i] = s[i]) \/ a[i] = x
  BY <1>1
<1> QED
  BY <1>2, Zenon DEF Below, Upto, a

\* The tail of a sequence keeps what is known of the whole.
LEMMA TailInLine ==
    ASSUME NEW s \in Seq(Nat), s # <<>>, NEW t \in Seq(Nat), NEW p \in Nat
    PROVE  /\ Tail(s) \in Seq(Nat) /\ Head(s) \in Nat /\ Len(s) \in Nat /\ 1 \in 1 .. Len(s)
           /\ Head(s) = s[1]
           /\ Rising(s) => Rising(Tail(s)) /\ \A j \in 1 .. Len(Tail(s)) : s[1] < Tail(s)[j]
           /\ Below(s, t) => Below(Tail(s), t)
           /\ Below(t, s) => Below(t, Tail(s))
           /\ Upto(s, p) => Upto(Tail(s), p)
<1> DEFINE a == Tail(s)
<1>1. /\ a \in Seq(Nat) /\ Head(s) \in Nat /\ Head(s) = s[1]
      /\ Len(s) \in Nat /\ Len(s) > 0 /\ Len(a) = Len(s) - 1
      /\ \A i \in 1 .. Len(a) : a[i] = s[i + 1]
  OBVIOUS
<1> HIDE DEF a
<1>2. 1 \in 1 .. Len(s) /\ \A i \in 1 .. Len(a) : i + 1 \in 1 .. Len(s) /\ 1 < i + 1
  BY <1>1
<1>3. Rising(s) => Rising(a) /\ \A j \in 1 .. Len(a) : s[1] < a[j]
  <2> SUFFICES ASSUME Rising(s) PROVE Rising(a) /\ \A j \in 1 .. Len(a) : s[1] < a[j]
    BY Zenon
  <2>1. \A j \in 1 .. Len(a) : s[1] < a[j]
    BY <1>1, <1>2, Zenon DEF Rising
  <2>2. ASSUME NEW i \in 1 .. Len(a), NEW j \in 1 .. Len(a), i < j PROVE a[i] < a[j]
    <3>1. /\ i + 1 \in 1 .. Len(s) /\ j + 1 \in 1 .. Len(s) /\ i + 1 < j + 1
          /\ a[i] = s[i + 1] /\ a[j] = s[j + 1]
      BY <1>1, <1>2, <2>2
    <3> QED
      BY <3>1, Zenon DEF Rising
  <2> QED
    BY <2>1, <2>2, Zenon DEF Rising
<1>4. /\ Below(s, t) => Below(a, t)
      /\ Below(t, s) => Below(t, a)
      /\ Upto(s, p) => Upto(a, p)
  BY <1>1, <1>2, Zenon DEF Below, Upto
<1> QED
  BY <1>1, <1>2, <1>3, <1>4, Zenon DEF a

\* record_for_send retains the frame under the number it mints.
LEMMA KeptAppend ==
    ASSUME NEW b, NEW s \in Nat, KeptBelow(b.retained, s)
    PROVE  KeptBelow(Appended(b, s, 1, 0).retained, s + 1)
<1> DEFINE e == [seq |-> s, size |-> 1, enqueuedAt |-> 0]
           r == b.retained
           a == Append(r, e)
<1>1. e \in Retained /\ e.seq = s /\ r \in Seq(Retained)
  BY Zenon DEF Retained, KeptBelow
<1>2. /\ a \in Seq(Retained) /\ Len(r) \in Nat /\ Len(a) = Len(r) + 1
      /\ a[Len(r) + 1] = e /\ \A i \in 1 .. Len(r) : a[i] = r[i]
  BY <1>1
<1>3. Appended(b, s, 1, 0).retained = a
  BY Zenon DEF Appended
<1>4. \A i \in 1 .. Len(r) : r[i].seq \in Nat /\ r[i].seq < s
  <2>1. \A i \in 1 .. Len(r) : r[i] \in Retained
    BY <1>1
  <2> QED
    BY <2>1, Zenon DEF KeptBelow, Retained
<1>5. \A i, j \in 1 .. Len(r) : i < j => r[i].seq < r[j].seq
  BY Zenon DEF KeptBelow
<1> HIDE DEF e, r, a
<1>6. \A i \in 1 .. Len(a) : a[i].seq < s + 1
  <2> TAKE i \in 1 .. Len(a)
  <2>1. CASE i = Len(r) + 1
    BY <1>1, <1>2, <2>1
  <2>2. CASE i \in 1 .. Len(r)
    BY <1>2, <1>4, <2>2
  <2> QED
    BY <1>2, <2>1, <2>2
<1>7. ASSUME NEW i \in 1 .. Len(a), NEW j \in 1 .. Len(a), i < j PROVE a[i].seq < a[j].seq
  <2>1. i \in 1 .. Len(r) /\ a[i] = r[i]
    BY <1>2, <1>7
  <2>2. CASE j = Len(r) + 1
    BY <1>1, <1>2, <1>4, <2>1, <2>2, Zenon
  <2>3. CASE j \in 1 .. Len(r)
    BY <1>2, <1>5, <1>7, <2>1, <2>3, Zenon
  <2> QED
    BY <1>2, <2>2, <2>3
<1> QED
  BY <1>2, <1>3, <1>6, <1>7, Zenon DEF KeptBelow

\* A trim or an eviction keeps a suffix.
LEMMA KeptSuffix ==
    ASSUME NEW b, NEW s \in Nat, KeptBelow(b.retained, s), NEW k \in 0 .. Len(b.retained), NEW u
    PROVE  KeptBelow(WithoutPrefix(b, k, u).retained, s)
<1> DEFINE r == b.retained
           a == SubSeq(r, k + 1, Len(r))
<1>1. r \in Seq(Retained)
  BY Zenon DEF KeptBelow
<1>2. /\ a \in Seq(Retained) /\ Len(r) \in Nat /\ Len(a) = Len(r) - k
      /\ \A i \in 1 .. Len(a) : a[i] = r[i + k]
  BY <1>1
<1>3. WithoutPrefix(b, k, u).retained = a
  BY Zenon DEF WithoutPrefix
<1>4. /\ \A i, j \in 1 .. Len(r) : i < j => r[i].seq < r[j].seq
      /\ \A i \in 1 .. Len(r) : r[i].seq < s
  BY Zenon DEF KeptBelow
<1> HIDE DEF a
<1>5. \A i \in 1 .. Len(a) : i + k \in 1 .. Len(r)
  BY <1>2
<1> HIDE DEF r
<1>6. ASSUME NEW i \in 1 .. Len(a), NEW j \in 1 .. Len(a), i < j PROVE a[i].seq < a[j].seq
  <2>1. i + k \in 1 .. Len(r) /\ j + k \in 1 .. Len(r) /\ i + k < j + k
    BY <1>5, <1>6
  <2> QED
    BY <1>2, <1>4, <2>1, Zenon
<1> QED
  BY <1>2, <1>3, <1>4, <1>5, <1>6, Zenon DEF KeptBelow

\* Nothing retained is below any number.
LEMMA KeptNothing == \A s : KeptBelow(<<>>, s)
  BY DEF KeptBelow

\* A discarded buffer and one of a new epoch retain nothing.
LEMMA PurgedIsEmpty == \A b : Discard(b).retained = <<>> /\ ResetForNewEpoch(b).retained = <<>>
  BY Zenon DEF Discard, ResetForNewEpoch, Purge

\* What is in line is retained under numbers below the counter.
LEMMA KeptInLine ==
    ASSUME NEW kept, NEW s, NEW m, NEW w, NEW q, NEW p, InLine(kept, s, m, w, q, p)
    PROVE  KeptBelow(kept, s) /\ s \in Nat
<1>1. KeptBelow(kept, s) /\ s = Len(m) /\ m \in Seq(Nat)
  BY Zenon DEF InLine
<1> QED
  BY <1>1

\* The source hands over its next frame, which is queued or dropped.
LEMMA LineGrows ==
    ASSUME NEW r, NEW s, NEW m, NEW w, NEW q, NEW p, InLine(r, s, m, w, q, p)
    PROVE  /\ InLine(r, s, m, w, q, p + 1)
           /\ InLine(r, s, m, w, Append(q, p + 1), p + 1)
<1> USE DEF InLine
<1>1. /\ m \in Seq(Nat) /\ w \in Seq(Nat) /\ q \in Seq(Nat) /\ p \in Nat /\ p + 1 \in Nat
  OBVIOUS
<1>2. /\ \A i \in 1 .. Len(m) : m[i] < p + 1
      /\ \A i \in 1 .. Len(w) : w[i] < p + 1
      /\ \A i \in 1 .. Len(q) : q[i] < p + 1
  BY <1>1 DEF Upto
<1>3. Upto(m, p + 1) /\ Upto(w, p + 1) /\ Upto(q, p + 1)
  BY <1>1, <1>2 DEF Upto
<1>4. Append(q, p + 1) \in Seq(Nat) /\ Rising(Append(q, p + 1))
  BY <1>1, <1>2, RisingAppend, Zenon
<1>5. Below(m, Append(q, p + 1)) /\ Below(w, Append(q, p + 1)) /\ Upto(Append(q, p + 1), p + 1)
  <2> DEFINE x == p + 1
  <2>1. /\ x \in Nat /\ Below(m, q) /\ Below(w, q) /\ Upto(q, x) /\ x <= x
        /\ (\A i \in 1 .. Len(m) : m[i] < x) /\ (\A i \in 1 .. Len(w) : w[i] < x)
    BY <1>1, <1>2, <1>3
  <2> HIDE DEF x
  <2>2. Below(m, Append(q, x)) /\ Below(w, Append(q, x)) /\ Upto(Append(q, x), x)
    BY <1>1, <2>1, BoundsAppend, Zenon
  <2> QED
    BY <2>2, Zenon DEF x
<1> QED
  BY <1>1, <1>3, <1>4, <1>5, Zenon

\* A number is minted for the payload at the head of the line: the head of
\* the queue when nothing waits for replay ...
LEMMA LineDrains ==
    ASSUME NEW r, NEW s, NEW m, NEW q, NEW p, InLine(r, s, m, <<>>, q, p), q # <<>>,
           NEW kept, KeptBelow(kept, s + 1)
    PROVE  /\ InLine(kept, s + 1, Append(m, Head(q)), <<>>, Tail(q), p)
           /\ InLine(kept, s + 1, Append(m, Head(q)), <<>>, <<>>, p)
<1> DEFINE x == Head(q)
<1>1. m \in Seq(Nat) /\ q \in Seq(Nat) /\ p \in Nat /\ s = Len(m) /\ <<>> \in Seq(Nat)
  BY Zenon DEF InLine
<1>2. /\ Rising(m) /\ Rising(q) /\ Below(m, q) /\ Upto(m, p) /\ Upto(q, p)
  BY Zenon DEF InLine
<1>3. /\ Tail(q) \in Seq(Nat) /\ x \in Nat /\ 1 \in 1 .. Len(q) /\ x = q[1]
      /\ Rising(Tail(q)) /\ (\A j \in 1 .. Len(Tail(q)) : x < Tail(q)[j])
      /\ Below(m, Tail(q)) /\ Upto(Tail(q), p)
  BY <1>1, <1>2, TailInLine
<1>4. (\A i \in 1 .. Len(m) : m[i] < x) /\ x <= p
  BY <1>2, <1>3, Zenon DEF Below, Upto
<1> HIDE DEF x
<1>5. Append(m, x) \in Seq(Nat) /\ Len(Append(m, x)) = s + 1 /\ Rising(Append(m, x))
  BY <1>1, <1>2, <1>3, <1>4, RisingAppend
<1>6. Below(Append(m, x), Tail(q)) /\ Upto(Append(m, x), p)
  BY <1>1, <1>2, <1>3, <1>4, BoundsAppend, Zenon
<1>7. /\ Rising(<<>>) /\ Upto(<<>>, p)
      /\ \A t \in Seq(Nat) : Below(<<>>, t) /\ Below(t, <<>>)
  BY DEF Rising, Below, Upto
<1> QED
  BY <1>1, <1>3, <1>5, <1>6, <1>7, Zenon DEF InLine, x

\* ... or the head of what waits for replay.
LEMMA LineFlushes ==
    ASSUME NEW r, NEW s, NEW m, NEW w, NEW q, NEW p, InLine(r, s, m, w, q, p), w # <<>>,
           NEW kept, KeptBelow(kept, s + 1)
    PROVE  InLine(kept, s + 1, Append(m, Head(w)), Tail(w), q, p)
<1> DEFINE x == Head(w)
<1>1. m \in Seq(Nat) /\ w \in Seq(Nat) /\ q \in Seq(Nat) /\ p \in Nat /\ s = Len(m)
  BY Zenon DEF InLine
<1>2. /\ Rising(m) /\ Rising(w) /\ Rising(q) /\ Below(m, w) /\ Below(m, q) /\ Below(w, q)
      /\ Upto(m, p) /\ Upto(w, p) /\ Upto(q, p)
  BY Zenon DEF InLine
<1>3. /\ Tail(w) \in Seq(Nat) /\ x \in Nat /\ 1 \in 1 .. Len(w) /\ x = w[1]
      /\ Rising(Tail(w)) /\ (\A j \in 1 .. Len(Tail(w)) : x < Tail(w)[j])
      /\ Below(m, Tail(w)) /\ Upto(Tail(w), p)
  BY <1>1, <1>2, TailInLine
<1>4. Below(Tail(w), q)
  BY <1>1, <1>2, TailInLine, Zenon
<1>5. /\ \A i \in 1 .. Len(m) : m[i] < x
      /\ \A j \in 1 .. Len(q) : x < q[j]
      /\ x <= p
  BY <1>2, <1>3, Zenon DEF Below, Upto
<1> HIDE DEF x
<1>6. Append(m, x) \in Seq(Nat) /\ Len(Append(m, x)) = s + 1 /\ Rising(Append(m, x))
  BY <1>1, <1>2, <1>3, <1>5, RisingAppend
<1>7. Below(Append(m, x), Tail(w)) /\ Below(Append(m, x), q) /\ Upto(Append(m, x), p)
  BY <1>1, <1>2, <1>3, <1>5, BoundsAppend, Zenon
<1> QED
  BY <1>1, <1>2, <1>3, <1>4, <1>6, <1>7, Zenon DEF InLine, x

\* A new epoch: nothing is minted and what was retained waits for replay.
LEMMA LineResets ==
    ASSUME NEW r, NEW s, NEW m, NEW q, NEW p, InLine(r, s, m, <<>>, q, p)
    PROVE  InLine(<<>>, 0, <<>>, [i \in 1 .. Len(r) |-> m[r[i].seq + 1]], q, p)
<1> DEFINE u == [i \in 1 .. Len(r) |-> m[r[i].seq + 1]]
<1>1. /\ m \in Seq(Nat) /\ q \in Seq(Nat) /\ p \in Nat /\ s = Len(m) /\ r \in Seq(Retained)
      /\ Rising(m) /\ Rising(q) /\ Below(m, q) /\ Upto(m, p) /\ Upto(q, p)
  BY Zenon DEF InLine, KeptBelow
<1>2. Len(r) \in Nat /\ Len(m) \in Nat
  BY <1>1
<1>3. ASSUME NEW i \in 1 .. Len(r)
      PROVE  r[i].seq \in Nat /\ r[i].seq + 1 \in 1 .. Len(m) /\ m[r[i].seq + 1] \in Nat
  <2>1. r[i] \in Retained
    BY <1>1
  <2>2. r[i].seq \in Nat /\ r[i].seq < Len(m)
    BY <1>1, <2>1, Zenon DEF InLine, KeptBelow, Retained
  <2> QED
    BY <1>1, <1>2, <2>2
<1>4. u \in Seq(Nat) /\ Len(u) = Len(r) /\ \A i \in 1 .. Len(r) : u[i] = m[r[i].seq + 1]
  BY <1>2, <1>3
<1> HIDE DEF u
<1>5. Rising(u)
  <2> SUFFICES ASSUME NEW i \in 1 .. Len(r), NEW j \in 1 .. Len(r), i < j PROVE u[i] < u[j]
    BY <1>4, Zenon DEF Rising
  <2>1. r[i].seq < r[j].seq
    BY Zenon DEF InLine, KeptBelow
  <2>2. r[i].seq + 1 < r[j].seq + 1
    BY <1>3, <2>1
  <2> QED
    BY <1>1, <1>3, <1>4, <2>2, Zenon DEF Rising
<1>6. Below(u, q) /\ Upto(u, p)
  BY <1>1, <1>3, <1>4, Zenon DEF Below, Upto
<1>7. Rising(<<>>) /\ Below(<<>>, u) /\ Below(<<>>, q) /\ Upto(<<>>, p)
  BY DEF Rising, Below, Upto
<1> QED
  BY <1>1, <1>4, <1>5, <1>6, <1>7, KeptNothing, Zenon DEF InLine, u
-----------------------------------------------------------------------------
\* The link task.  It holds a transport from the binding to the end of the
\* pump, replays only between the handshake and the end of the flush with the
\* gate closed, and while the transport is dead nothing travels and the core
\* has no task and no count.
LinkInv ==
    /\ boot \in Nat /\ conn \in 0 .. boot /\ transport \in 0 .. boot
    /\ coreUp => boot # 0
    /\ linkPc \in {"dial", "ack", "ready", "dead"} => transport = None
    /\ linkPc \in {"ack", "ready", "flush", "pump"} => conn # None
    /\ linkPc \in {"flush", "pump"} => transport = conn
    /\ linkPc = "crash" => ~ConnAlive(transport)
    /\ linkPc \notin {"ready", "flush"} => pending = <<>>
    /\ linkPc = "flush" => pending # <<>>
    /\ pending # <<>> => ~gate
    /\ ~ConnAlive(transport) => up = <<>> /\ inflight = {} /\ tracker = NewTracker

\* The link is down and nothing travels at the start.
LEMMA LinkInit == Init => LinkInv
<1> SUFFICES ASSUME Init PROVE LinkInv
  BY Zenon
<1>1. coreUp = (boot = 1) /\ boot \in {0, 1}
  BY Zenon DEF Init
<1>2. coreUp => boot = 1
  BY <1>1, Zenon
<1>3. boot \in Nat /\ 0 \in 0 .. boot /\ (coreUp => boot # 0)
  BY <1>1, <1>2
<1>4. /\ linkPc = "dial" /\ conn = 0 /\ transport = 0 /\ pending = <<>>
      /\ up = <<>> /\ inflight = {} /\ tracker = NewTracker
  BY Zenon DEF Init, None
<1> QED
  BY <1>3, <1>4, Zenon DEF LinkInv, None, ConnAlive

\* A step of the sources, the scheduler, the evictor or the core's tasks: the
\* link task's own state stays, and what is written needs a live transport.
LEMMA LinkKept ==
    ASSUME LinkInv, UNCHANGED <<linkPc, conn, transport, gate, pending, boot, coreUp>>,
           UNCHANGED <<up, inflight, tracker>> \/ ConnAlive(transport)
    PROVE  LinkInv'
  BY Zenon DEF LinkInv, ConnAlive

\* A transport that is not alive never becomes alive: a boot is not repeated.
LEMMA DeadStaysDead ==
    ASSUME LinkInv, BootCore
    PROVE  ~ConnAlive(transport)' /\ ~ConnAlive(transport)
  BY DEF LinkInv, BootCore, linkVars, ConnAlive

\* The receive and the tasks need a live transport.
LEMMA TasksNeedTransport ==
    ASSUME LinkInv, up # <<>> \/ inflight # {}
    PROVE  ConnAlive(transport)
  BY Zenon DEF LinkInv

\* The link task binds a connection it shook hands on and enters the flush.
LEMMA LinkBind ==
    ASSUME LinkInv, conn # None, transport = None, NEW frames, BindAndFlush(frames),
           UNCHANGED <<conn, boot, coreUp, up, inflight, tracker>>
    PROVE  LinkInv'
<1>1. /\ transport' = conn /\ pending' = frames
      /\ linkPc' = IF frames = <<>> THEN "pump" ELSE "flush"
  BY Zenon DEF BindAndFlush
<1>2. pending' # <<>> => ~gate'
  BY Zenon DEF BindAndFlush
<1>3. up = <<>> /\ inflight = {} /\ tracker = NewTracker
  BY Zenon DEF LinkInv, ConnAlive
<1> QED
  BY <1>1, <1>2, <1>3, Zenon DEF LinkInv, ConnAlive

\* A completed handshake keeps LinkInv.
LEMMA LinkHandshake == LinkInv /\ Handshake => LinkInv'
<1> SUFFICES ASSUME LinkInv, Handshake PROVE LinkInv'
  BY Zenon
<1> DEFINE unacked == [i \in 1 .. Len(buffer[Tui].retained) |->
                          minted[Tui][buffer[Tui].retained[i].seq + 1]]
           frames == pending \o unacked
<1>1. /\ linkPc = "ack" /\ UNCHANGED <<conn, boot, coreUp, up, inflight, tracker>>
      /\ conn # None /\ transport = None
  BY Zenon DEF Handshake, procVars, taskVars, LinkInv
<1>2. CASE BindAndFlush(frames)
  <2> HIDE DEF frames
  <2> QED  BY <1>1, <1>2, LinkBind, Zenon
<1>3. CASE CaptureReplay(frames) /\ linkPc' = "ready" /\ transport' = transport
  <2> HIDE DEF frames
  <2>1. pending' # <<>> => ~gate'
    BY <1>3, Zenon DEF CaptureReplay
  <2> QED
    BY <1>1, <1>3, <2>1, Zenon DEF LinkInv, ConnAlive
<1> QED
  BY <1>2, <1>3, Zenon DEF Handshake

\* Every step keeps LinkInv.
LEMMA LinkNext == LinkInv /\ [Next]_vars => LinkInv'
<1> SUFFICES ASSUME LinkInv, [Next]_vars PROVE LinkInv'
  BY Zenon
<1> USE DEF linkVars, procVars, taskVars
<1>1. CASE ClientPassGate \/ ClientRead \/ \E l \in Legs : AdapterForward(l)
  BY <1>1, LinkKept, Zenon DEF ClientPassGate, ClientRead, AdapterForward
<1>2. ASSUME NEW l \in Legs, DrainFrame(l) PROVE LinkInv'
  <2>1. UNCHANGED <<linkPc, conn, transport, gate, pending, boot, coreUp, inflight, tracker>>
    BY <1>2, Zenon DEF DrainFrame
  <2>2. up' = up \/ ConnAlive(transport)
    BY <1>2, Zenon DEF DrainFrame, IsolateLeg, WriteUnit
  <2> QED
    BY <2>1, <2>2, LinkKept, Zenon
<1>3. CASE ResumeDrain
  <2>1. UNCHANGED <<linkPc, conn, transport, gate, pending, boot, coreUp, inflight, tracker>>
    BY <1>3, Zenon DEF ResumeDrain
  <2>2. up' = up \/ ConnAlive(transport)
    BY <1>3, Zenon DEF ResumeDrain, WriteUnit
  <2> QED
    BY <2>1, <2>2, LinkKept, Zenon
<1>4. CASE EvictExpiredFrames
  BY <1>4, LinkKept, Zenon DEF EvictExpiredFrames
<1>5. CASE Dial
  BY <1>5 DEF Dial, LinkInv, ConnAlive, None
<1>6. CASE ConnectFails
  <2>1. /\ linkPc \in {"dial", "ack"} /\ linkPc' \in {"crash", "dial"} /\ conn' = None
        /\ UNCHANGED <<transport, gate, pending, boot, coreUp, up, inflight, tracker>>
    BY <1>6, Zenon DEF ConnectFails
  <2> QED
    BY <2>1, Zenon DEF LinkInv, ConnAlive, None
<1>7. CASE Handshake
  BY <1>7, LinkHandshake, Zenon
<1>8. CASE Bind
  <2>1. /\ linkPc = "ready" /\ BindAndFlush(pending)
        /\ UNCHANGED <<conn, boot, coreUp, up, inflight, tracker>>
    BY <1>8, Zenon DEF Bind
  <2>2. conn # None /\ transport = None
    BY <2>1, Zenon DEF LinkInv
  <2> QED
    BY <2>1, <2>2, LinkBind, Zenon
<1>9. CASE FlushFrame
  <2>1. /\ linkPc = "flush" /\ pending' = Tail(pending)
        /\ linkPc' = IF Tail(pending) = <<>> THEN "pump" ELSE "flush"
        /\ UNCHANGED <<conn, transport, boot, coreUp, inflight, tracker>>
    BY <1>9, Zenon DEF FlushFrame
  <2>2. pending' # <<>> => ~gate'
    BY <1>9, Zenon DEF FlushFrame
  <2>3. up' = up \/ ConnAlive(transport)
    BY <1>9, Zenon DEF FlushFrame, WriteUnit
  <2> QED
    BY <2>1, <2>2, <2>3, Zenon DEF LinkInv, ConnAlive
<1>10. CASE RouteUnit
  BY <1>10, LinkKept, Zenon DEF RouteUnit
<1>11. CASE PumpEof \/ CloseStale
  <2>1. /\ linkPc \in {"pump", "crash"} /\ linkPc' \in {"crash", "dead", "dial"}
        /\ linkPc' = "crash" => UNCHANGED <<transport, conn>>
        /\ linkPc' # "crash" => transport' = None /\ conn' = None
        /\ UNCHANGED <<gate, pending, boot, coreUp, up, inflight, tracker>>
    BY <1>11, Zenon DEF PumpEof, CloseStale, StartRedial
  <2>2. ~ConnAlive(transport)
    BY <1>11, Zenon DEF PumpEof, CloseStale, LinkInv
  <2> QED
    BY <2>1, <2>2 DEF LinkInv, ConnAlive, None
<1>12. CASE BootCore
  <2>1. ~ConnAlive(transport)' /\ ~ConnAlive(transport)
    BY <1>12, DeadStaysDead, Zenon
  <2>2. /\ boot' = boot + 1
        /\ UNCHANGED <<linkPc, conn, transport, gate, pending, up, inflight, tracker>>
    BY <1>12, Zenon DEF BootCore
  <2> QED
    BY <2>1, <2>2 DEF LinkInv
<1>13. CASE CrashCore
  <2>1. /\ ~coreUp' /\ up' = <<>> /\ inflight' = {} /\ tracker' = NewTracker
        /\ UNCHANGED <<linkPc, conn, transport, gate, pending, boot>>
    BY <1>13, Zenon DEF CrashCore
  <2> QED
    BY <2>1, Zenon DEF LinkInv, ConnAlive
<1>14. CASE AnnounceGoingDown \/ EmitAck
  BY <1>14, LinkKept, Zenon DEF AnnounceGoingDown, EmitAck
<1>15. CASE Receive
  <2>1. UNCHANGED <<linkPc, conn, transport, gate, pending, boot, coreUp>> /\ up # <<>>
    BY <1>15, Zenon DEF Receive
  <2> QED
    BY <2>1, LinkKept, TasksNeedTransport, Zenon
<1>16. CASE TaskStep
  <2>1. UNCHANGED <<linkPc, conn, transport, gate, pending, boot, coreUp>> /\ inflight # {}
    BY <1>16, Zenon DEF TaskStep, Admit, Dispatch, CommitAtEdge, coreStepUnchanged
  <2> QED
    BY <2>1, LinkKept, TasksNeedTransport, Zenon
<1>17. CASE UNCHANGED vars
  BY <1>17, LinkKept, Zenon DEF vars
<1> QED
  BY <1>1, <1>2, <1>3, <1>4, <1>5, <1>6, <1>7, <1>8, <1>9, <1>10, <1>11, <1>12, <1>13, <1>14,
     <1>15, <1>16, <1>17, Zenon DEF Next, SchedulerStep, LinkStep
-----------------------------------------------------------------------------
\* Every leg's payloads are in line.
Waiting(l) == IF l = Tui THEN pending ELSE <<>>

LineOf(l) == InLine(buffer[l].retained, sendSeq[l], minted[l], Waiting(l), queue[l], produced[l])

PerLeg(f) == f = [l \in Legs |-> f[l]]

LineInv ==
    /\ PerLeg(buffer) /\ PerLeg(sendSeq) /\ PerLeg(minted) /\ PerLeg(queue) /\ PerLeg(produced)
    /\ \A l \in Legs : LineOf(l)

\* No frame is in any line at the start.
LEMMA LineInit == Init => LineInv
<1> SUFFICES ASSUME Init PROVE LineInv
  BY Zenon
<1>1. InLine(<<>>, 0, <<>>, <<>>, <<>>, 0)
  BY KeptNothing DEF InLine, Rising, Below, Upto
<1>2. \A l \in Legs : /\ buffer[l].retained = <<>> /\ sendSeq[l] = 0 /\ minted[l] = <<>>
                      /\ Waiting(l) = <<>> /\ queue[l] = <<>> /\ produced[l] = 0
  BY Zenon DEF Init, EmptyBuffer, Waiting
<1>3. PerLeg(buffer) /\ PerLeg(sendSeq) /\ PerLeg(minted) /\ PerLeg(queue) /\ PerLeg(produced)
  BY Zenon DEF Init, PerLeg
<1>4. ASSUME NEW l \in Legs PROVE LineOf(l)
  BY <1>1, <1>2, Zenon DEF LineOf
<1> QED
  BY <1>3, <1>4, Zenon DEF LineInv

\* A step of one leg.
OnlyAt(l, f, g) == g = [f EXCEPT ![l] = g[l]]

\* A step that touches the line of one leg keeps the lines of the others.
LEMMA LineOne ==
    ASSUME LineInv, NEW l \in Legs,
           OnlyAt(l, buffer, buffer'), OnlyAt(l, sendSeq, sendSeq'), OnlyAt(l, minted, minted'),
           OnlyAt(l, queue, queue'), OnlyAt(l, produced, produced'),
           l = Tui \/ pending' = pending, LineOf(l)'
    PROVE  LineInv'
<1>1. \A k \in Legs : k # l =>
         /\ buffer'[k] = buffer[k] /\ sendSeq'[k] = sendSeq[k] /\ minted'[k] = minted[k]
         /\ queue'[k] = queue[k] /\ produced'[k] = produced[k]
  BY Zenon DEF OnlyAt, LineInv, PerLeg
<1>2. /\ PerLeg(buffer') /\ PerLeg(sendSeq') /\ PerLeg(minted') /\ PerLeg(queue')
      /\ PerLeg(produced')
  BY Zenon DEF OnlyAt, LineInv, PerLeg
<1>3. \A k \in Legs : k # l => Waiting(k)' = Waiting(k)
  BY Zenon DEF Waiting
<1>4. \A k \in Legs : LineOf(k)'
  BY <1>1, <1>3, Zenon DEF LineOf, LineInv
<1> QED
  BY <1>2, <1>4, Zenon DEF LineInv, PerLeg

\* A function unchanged, or changed at one leg only.
LEMMA OnlyAtSame == ASSUME NEW f, PerLeg(f), NEW l \in Legs PROVE OnlyAt(l, f, f)
  BY Zenon DEF OnlyAt, PerLeg
\* An update of one leg is one at that leg only.
LEMMA OnlyAtExcept ==
    ASSUME NEW f, PerLeg(f), NEW l \in Legs, NEW x
    PROVE  OnlyAt(l, f, [f EXCEPT ![l] = x]) /\ [f EXCEPT ![l] = x][l] = x
  BY Zenon DEF OnlyAt, PerLeg

\* A frame leaves the source.
LEMMA LineProduce ==
    ASSUME LineInv, NEW l \in Legs, UNCHANGED <<legVars, pending>>,
           produced' = [produced EXCEPT ![l] = @ + 1],
           queue' = queue \/ queue' = [queue EXCEPT ![l] = Append(@, produced[l] + 1)]
    PROVE  LineInv'
<1>1. /\ OnlyAt(l, buffer, buffer') /\ OnlyAt(l, sendSeq, sendSeq') /\ OnlyAt(l, minted, minted')
      /\ OnlyAt(l, queue, queue') /\ OnlyAt(l, produced, produced')
      /\ produced'[l] = produced[l] + 1
      /\ queue'[l] = queue[l] \/ queue'[l] = Append(queue[l], produced[l] + 1)
  <2>1. /\ OnlyAt(l, buffer, buffer') /\ OnlyAt(l, sendSeq, sendSeq') /\ OnlyAt(l, minted, minted')
    BY OnlyAtSame, Zenon DEF LineInv, legVars
  <2>2. OnlyAt(l, produced, produced') /\ produced'[l] = produced[l] + 1
    BY OnlyAtExcept, Zenon DEF LineInv
  <2>3. CASE queue' = queue
    BY <2>1, <2>2, <2>3, OnlyAtSame, Zenon DEF LineInv
  <2>4. CASE queue' = [queue EXCEPT ![l] = Append(@, produced[l] + 1)]
    <3>1. OnlyAt(l, queue, queue') /\ queue'[l] = Append(queue[l], produced[l] + 1)
      BY <2>4, OnlyAtExcept, Zenon DEF LineInv
    <3> QED
      BY <2>1, <2>2, <3>1, Zenon
  <2> QED
    BY <2>3, <2>4, Zenon
<1>2. InLine(buffer[l].retained, sendSeq[l], minted[l], Waiting(l), queue[l], produced[l])
  BY Zenon DEF LineInv, LineOf
<1>3. InLine(buffer[l].retained, sendSeq[l], minted[l], Waiting(l), queue'[l], produced'[l])
  <2>1. /\ InLine(buffer[l].retained, sendSeq[l], minted[l], Waiting(l), queue[l], produced[l] + 1)
        /\ InLine(buffer[l].retained, sendSeq[l], minted[l], Waiting(l),
                  Append(queue[l], produced[l] + 1), produced[l] + 1)
    BY <1>2, LineGrows, Zenon
  <2> QED
    BY <1>1, <2>1, Zenon
<1>4. LineOf(l)'
  BY <1>3, Zenon DEF LineOf, Waiting, legVars
<1> QED
  BY <1>1, <1>4, LineOne, Zenon

\* A number is minted, and the frame retained under it or refused.
LEMMA LineMint ==
    ASSUME LineInv, NEW l \in Legs, NEW n,
           sendSeq' = [sendSeq EXCEPT ![l] = @ + 1], minted' = [minted EXCEPT ![l] = Append(@, n)],
           OnlyAt(l, buffer, buffer'), OnlyAt(l, queue, queue'), UNCHANGED produced,
           \/ buffer'[l] = Appended(buffer[l], sendSeq[l], 1, 0)
           \/ buffer'[l] = buffer[l]
           \/ buffer'[l] = Discard(buffer[l]),
           \/ /\ queue[l] # <<>> /\ n = Head(queue[l]) /\ Waiting(l) = <<>> /\ pending' = pending
              /\ queue'[l] = Tail(queue[l]) \/ queue'[l] = <<>>
           \/ /\ l = Tui /\ pending # <<>> /\ n = Head(pending) /\ pending' = Tail(pending)
              /\ queue'[l] = queue[l]
    PROVE  LineInv'
<1>1. /\ OnlyAt(l, sendSeq, sendSeq') /\ OnlyAt(l, minted, minted') /\ OnlyAt(l, produced, produced')
      /\ sendSeq'[l] = sendSeq[l] + 1 /\ minted'[l] = Append(minted[l], n)
      /\ produced'[l] = produced[l]
  BY OnlyAtSame, OnlyAtExcept, Zenon DEF LineInv
<1>2. InLine(buffer[l].retained, sendSeq[l], minted[l], Waiting(l), queue[l], produced[l])
  BY Zenon DEF LineInv, LineOf
<1>3. KeptBelow(buffer[l].retained, sendSeq[l]) /\ sendSeq[l] \in Nat
  BY <1>2, KeptInLine, Zenon
<1>4. KeptBelow(buffer[l].retained, sendSeq[l] + 1)
  <2> DEFINE r == buffer[l].retained
             s == sendSeq[l]
  <2>1. r \in Seq(Retained) /\ \A i \in 1 .. Len(r) : r[i] \in Retained
    BY <1>3 DEF KeptBelow
  <2>2. \A i \in 1 .. Len(r) : r[i].seq \in Nat /\ r[i].seq < s
    BY <1>3, <2>1, Zenon DEF KeptBelow, Retained
  <2> HIDE DEF r, s
  <2>3. \A i \in 1 .. Len(r) : r[i].seq < s + 1
    BY <1>3, <2>2 DEF s
  <2> QED
    BY <1>3, <2>3, Zenon DEF KeptBelow, r, s
<1>5. KeptBelow(buffer'[l].retained, sendSeq[l] + 1)
  <2>1. CASE buffer'[l] = Appended(buffer[l], sendSeq[l], 1, 0)
    BY <1>3, <2>1, KeptAppend, Zenon
  <2>2. CASE buffer'[l] = buffer[l]
    BY <1>4, <2>2, Zenon
  <2>3. CASE buffer'[l] = Discard(buffer[l])
    <3>1. buffer'[l].retained = <<>>
      BY <2>3, PurgedIsEmpty, Zenon
    <3> QED
      BY <3>1, KeptNothing, Zenon
  <2> QED
    BY <2>1, <2>2, <2>3, Zenon
<1>6. InLine(buffer'[l].retained, sendSeq'[l], minted'[l], Waiting(l)', queue'[l], produced'[l])
  <2>1. CASE /\ queue[l] # <<>> /\ n = Head(queue[l]) /\ Waiting(l) = <<>> /\ pending' = pending
             /\ queue'[l] = Tail(queue[l]) \/ queue'[l] = <<>>
    <3>1. Waiting(l)' = <<>>
      BY <2>1, Zenon DEF Waiting
    <3>2. /\ InLine(buffer'[l].retained, sendSeq[l] + 1, Append(minted[l], n), <<>>, Tail(queue[l]), produced[l])
          /\ InLine(buffer'[l].retained, sendSeq[l] + 1, Append(minted[l], n), <<>>, <<>>, produced[l])
      BY <1>2, <1>5, <2>1, LineDrains, Zenon
    <3> QED
      BY <1>1, <2>1, <3>1, <3>2, Zenon
  <2>2. CASE /\ l = Tui /\ pending # <<>> /\ n = Head(pending) /\ pending' = Tail(pending)
             /\ queue'[l] = queue[l]
    <3>1. Waiting(l) = pending /\ Waiting(l)' = Tail(pending)
      BY <2>2, Zenon DEF Waiting
    <3>2. InLine(buffer'[l].retained, sendSeq[l] + 1, Append(minted[l], n), Tail(pending), queue[l], produced[l])
      BY <1>2, <1>5, <2>2, <3>1, LineFlushes, ZenonT(60)
    <3> QED
      BY <1>1, <2>2, <3>1, <3>2, Zenon
  <2> QED
    BY <2>1, <2>2, Zenon
<1>7. LineOf(l)' /\ (l = Tui \/ pending' = pending)
  BY <1>6, Zenon DEF LineOf
<1> QED
  BY <1>1, <1>7, LineOne, Zenon

\* The oldest frames are trimmed or evicted.
LEMMA LineTrim ==
    ASSUME LineInv, NEW l \in Legs, NEW k \in 0 .. Len(buffer[l].retained), NEW u,
           buffer' = [buffer EXCEPT ![l] = WithoutPrefix(@, k, u)],
           UNCHANGED <<sendSeq, minted, queue, produced, pending>>
    PROVE  LineInv'
<1>1. /\ OnlyAt(l, buffer, buffer') /\ OnlyAt(l, sendSeq, sendSeq') /\ OnlyAt(l, minted, minted')
      /\ OnlyAt(l, queue, queue') /\ OnlyAt(l, produced, produced')
      /\ buffer'[l] = WithoutPrefix(buffer[l], k, u)
  BY OnlyAtSame, OnlyAtExcept, Zenon DEF LineInv
<1>2. InLine(buffer[l].retained, sendSeq[l], minted[l], Waiting(l), queue[l], produced[l])
  BY Zenon DEF LineInv, LineOf
<1>3. KeptBelow(buffer[l].retained, sendSeq[l]) /\ sendSeq[l] \in Nat
  BY <1>2, KeptInLine, Zenon
<1>4. KeptBelow(buffer'[l].retained, sendSeq[l])
  BY <1>1, <1>3, KeptSuffix, Zenon
<1>5. LineOf(l)'
  BY <1>2, <1>4, Zenon DEF LineOf, InLine, Waiting
<1> QED
  BY <1>1, <1>5, LineOne, Zenon

\* A step that leaves the lines alone keeps LineInv.
LEMMA LineKept ==
    ASSUME LineInv, UNCHANGED <<buffer, sendSeq, minted, queue, produced, pending>>
    PROVE  LineInv'
  BY Zenon DEF LineInv, LineOf, Waiting, PerLeg

\* Taking a frame from the queue keeps LineInv.
LEMMA LineDrain == ASSUME LinkInv, LineInv, NEW l \in Legs, DrainFrame(l) PROVE LineInv'
<1>1. Waiting(l) = <<>> /\ queue[l] # <<>>
  BY Zenon DEF DrainFrame, LinkInv, Waiting
<1>2. UNCHANGED <<produced, pending>>
  BY Zenon DEF DrainFrame, sourceVars
<1>3. /\ sendSeq' = [sendSeq EXCEPT ![l] = @ + 1]
      /\ minted' = [minted EXCEPT ![l] = Append(@, Head(queue[l]))]
  BY Zenon DEF DrainFrame, IsolateLeg, Record
<1>4. CASE IsolateLeg(l)
  <2>1. /\ OnlyAt(l, buffer, buffer') /\ buffer'[l] = Discard(buffer[l])
        /\ OnlyAt(l, queue, queue') /\ queue'[l] = <<>>
    BY <1>4, OnlyAtExcept, Zenon DEF IsolateLeg, LineInv
  <2> QED
    BY <1>1, <1>2, <1>3, <2>1, LineMint, Zenon
<1>5. CASE Record(l, Head(queue[l])) /\ queue' = [queue EXCEPT ![l] = Tail(@)]
  <2>1. OnlyAt(l, buffer, buffer') /\ buffer'[l] = Appended(buffer[l], sendSeq[l], 1, 0)
    BY <1>5, OnlyAtExcept, Zenon DEF Record, LineInv
  <2>2. OnlyAt(l, queue, queue') /\ queue'[l] = Tail(queue[l])
    BY <1>5, OnlyAtExcept, Zenon DEF LineInv
  <2> QED
    BY <1>1, <1>2, <1>3, <2>1, <2>2, LineMint, Zenon
<1> QED
  BY <1>4, <1>5, Zenon DEF DrainFrame

\* Flushing a pending frame keeps LineInv.
LEMMA LineFlush == ASSUME LinkInv, LineInv, FlushFrame PROVE LineInv'
<1>1. Tui \in Legs /\ pending # <<>> /\ pending' = Tail(pending)
  BY ResumeAssumption, Zenon DEF FlushFrame, LinkInv
<1>2. UNCHANGED <<produced, queue>>
  BY Zenon DEF FlushFrame, sourceVars, schedVars
<1>3. /\ sendSeq' = [sendSeq EXCEPT ![Tui] = @ + 1]
      /\ minted' = [minted EXCEPT ![Tui] = Append(@, Head(pending))]
  BY Zenon DEF FlushFrame, Record
<1>4. OnlyAt(Tui, queue, queue') /\ queue'[Tui] = queue[Tui]
  BY <1>1, <1>2, OnlyAtSame, Zenon DEF LineInv
<1>5. /\ OnlyAt(Tui, buffer, buffer')
      /\ \/ buffer'[Tui] = Appended(buffer[Tui], sendSeq[Tui], 1, 0)
         \/ buffer'[Tui] = buffer[Tui]
  <2>1. CASE buffer' = buffer
    BY <1>1, <2>1, OnlyAtSame, Zenon DEF LineInv
  <2>2. CASE Record(Tui, Head(pending))
    BY <1>1, <2>2, OnlyAtExcept, Zenon DEF Record, LineInv
  <2> QED
    BY <2>1, <2>2, Zenon DEF FlushFrame
<1> QED
  BY <1>1, <1>2, <1>3, <1>4, <1>5, LineMint, Zenon

\* The frames of the last epoch wait for replay.
Unacked == [i \in 1 .. Len(buffer[Tui].retained) |->
               minted[Tui][buffer[Tui].retained[i].seq + 1]]

\* A handshake keeps LineInv, and leaves the unacked frames pending.
LEMMA LineHandshake ==
    ASSUME LinkInv, LineInv, Handshake
    PROVE  LineInv' /\ pending' = Unacked /\ Unacked \in Seq(Nat)
<1>1. Tui \in Legs /\ pending = <<>> /\ UNCHANGED <<produced, queue>>
  BY ResumeAssumption, Zenon DEF Handshake, LinkInv, sourceVars, schedVars
<1>2. InLine(buffer[Tui].retained, sendSeq[Tui], minted[Tui], <<>>, queue[Tui], produced[Tui])
  BY <1>1, Zenon DEF LineInv, LineOf, Waiting
<1>3. InLine(<<>>, 0, <<>>, Unacked, queue[Tui], produced[Tui])
  BY <1>2, LineResets, Zenon DEF Unacked
<1>4. Unacked \in Seq(Nat)
  BY <1>3, Zenon DEF InLine
<1>5. pending' = Unacked
  <2>1. pending' = pending \o Unacked
    BY Zenon DEF Handshake, BindAndFlush, CaptureReplay, Unacked
  <2> QED
    BY <1>1, <1>4, <2>1
<1>6. /\ OnlyAt(Tui, buffer, buffer') /\ buffer'[Tui].retained = <<>>
      /\ OnlyAt(Tui, sendSeq, sendSeq') /\ sendSeq'[Tui] = 0
      /\ OnlyAt(Tui, minted, minted') /\ minted'[Tui] = <<>>
  <2>1. OnlyAt(Tui, buffer, buffer') /\ buffer'[Tui] = ResetForNewEpoch(buffer[Tui])
    BY <1>1, OnlyAtExcept, Zenon DEF Handshake, LineInv
  <2>2. OnlyAt(Tui, sendSeq, sendSeq') /\ sendSeq'[Tui] = 0
    BY <1>1, OnlyAtExcept, Zenon DEF Handshake, LineInv
  <2>3. OnlyAt(Tui, minted, minted') /\ minted'[Tui] = <<>>
    BY <1>1, OnlyAtExcept, Zenon DEF Handshake, LineInv
  <2>4. buffer'[Tui].retained = <<>>
    BY <2>1, PurgedIsEmpty, Zenon
  <2> QED
    BY <2>1, <2>2, <2>3, <2>4, Zenon
<1>7. OnlyAt(Tui, queue, queue') /\ OnlyAt(Tui, produced, produced')
  BY <1>1, OnlyAtSame, Zenon DEF LineInv
<1>8. LineOf(Tui)'
  BY <1>1, <1>3, <1>5, <1>6, Zenon DEF LineOf, Waiting
<1> QED
  BY <1>1, <1>4, <1>5, <1>6, <1>7, <1>8, LineOne, Zenon

\* Every step keeps LineInv.
LEMMA LineNext == LinkInv /\ LineInv /\ [Next]_vars => LineInv'
<1> SUFFICES ASSUME LinkInv, LineInv, [Next]_vars PROVE LineInv'
  BY Zenon
<1> USE DEF sourceVars, legVars, schedVars, linkVars
<1>1. CASE ClientPassGate
  BY <1>1, LineKept, Zenon DEF ClientPassGate
<1>2. CASE ClientRead
  <2>1. /\ UNCHANGED <<legVars, pending>> /\ produced' = [produced EXCEPT ![Tui] = @ + 1]
        /\ queue' = queue \/ queue' = [queue EXCEPT ![Tui] = Append(@, produced[Tui] + 1)]
    BY <1>2, Zenon DEF ClientRead
  <2> QED
    BY <2>1, ResumeAssumption, LineProduce, Zenon
<1>3. ASSUME NEW l \in Legs, AdapterForward(l) PROVE LineInv'
  <2>1. /\ UNCHANGED <<legVars, pending>> /\ produced' = [produced EXCEPT ![l] = @ + 1]
        /\ queue' = queue \/ queue' = [queue EXCEPT ![l] = Append(@, produced[l] + 1)]
    BY <1>3, Zenon DEF AdapterForward, forward_adapter_inbound
  <2> QED
    BY <2>1, LineProduce, Zenon
<1>4. ASSUME NEW l \in Legs, DrainFrame(l) PROVE LineInv'
  BY <1>4, LineDrain, Zenon
<1>5. CASE ResumeDrain
  BY <1>5, LineKept, Zenon DEF ResumeDrain
<1>6. CASE EvictExpiredFrames
  <2>1. PICK k \in 1 .. Len(buffer[Tui].retained) :
              buffer' = [buffer EXCEPT ![Tui] = WithoutPrefix(@, k, @.lastNow)]
    BY <1>6, Zenon DEF EvictExpiredFrames
  <2>2. UNCHANGED <<sendSeq, minted, queue, produced, pending>>
    BY <1>6, Zenon DEF EvictExpiredFrames
  <2>3. k \in 0 .. Len(buffer[Tui].retained)
    OBVIOUS
  <2>4. buffer' = [buffer EXCEPT ![Tui] = WithoutPrefix(@, k, buffer[Tui].lastNow)]
    BY <2>1, Zenon
  <2> QED
    BY <2>2, <2>3, <2>4, ResumeAssumption, LineTrim, Zenon
<1>7. CASE Dial \/ ConnectFails \/ PumpEof \/ CloseStale
  BY <1>7, LineKept, Zenon DEF Dial, ConnectFails, PumpEof, CloseStale
<1>8. CASE Handshake
  BY <1>8, LineHandshake, Zenon
<1>9. CASE Bind
  BY <1>9, LineKept, Zenon DEF Bind, BindAndFlush
<1>10. CASE FlushFrame
  BY <1>10, LineFlush, Zenon
<1>11. CASE RouteUnit
  <2>1. UNCHANGED <<sendSeq, minted, queue, produced, pending>>
    BY <1>11, Zenon DEF RouteUnit
  <2>2. CASE buffer' = buffer
    BY <2>1, <2>2, LineKept, Zenon
  <2>3. CASE buffer' = [buffer EXCEPT ![Tui] = TrimToAck(@, Head(down).ack)]
    <3> DEFINE r == buffer[Tui].retained
               k == RemovedPrefix(r, Acked(r, Head(down).ack))
    <3>1. r \in Seq(Retained)
      BY ResumeAssumption, Zenon DEF LineInv, LineOf, InLine, KeptBelow
    <3>2. k \in 0 .. Len(r)
      BY <3>1, PrefixInRange, Zenon
    <3>3. buffer' = [buffer EXCEPT ![Tui] = WithoutPrefix(@, k, buffer[Tui].lastNow)]
      BY <2>3, Zenon DEF TrimToAck
    <3> HIDE DEF k
    <3> QED
      BY <2>1, <3>2, <3>3, ResumeAssumption, LineTrim, Zenon
  <2> QED
    BY <1>11, <2>2, <2>3, Zenon DEF RouteUnit
<1>12. CASE BootCore \/ CrashCore \/ AnnounceGoingDown \/ Receive \/ EmitAck
  BY <1>12, LineKept, Zenon DEF BootCore, CrashCore, AnnounceGoingDown, Receive, EmitAck
<1>13. CASE TaskStep
  BY <1>13, LineKept, Zenon DEF TaskStep, Admit, Dispatch, CommitAtEdge, coreStepUnchanged
<1>14. CASE UNCHANGED vars
  BY <1>14, LineKept, Zenon DEF vars
<1> QED
  BY <1>1, <1>2, <1>3, <1>4, <1>5, <1>6, <1>7, <1>8, <1>9, <1>10, <1>11, <1>12, <1>13, <1>14, Zenon
     DEF Next, SchedulerStep, LinkStep
-----------------------------------------------------------------------------
\* What travels: the number is one the leg minted for this payload in this
\* generation, and the numbers of a leg rise.
Wire == [leg : Legs, seq : Nat, n : Nat]
Carries(m, l, s, n) == s \in Nat /\ s < Len(m[l]) /\ m[l][s + 1] = n

WireInv ==
    /\ up \in Seq(Wire)
    /\ \A i \in 1 .. Len(up) : Carries(minted, up[i].leg, up[i].seq, up[i].n)
    /\ \A i, j \in 1 .. Len(up) : i < j /\ up[i].leg = up[j].leg => up[i].seq < up[j].seq

\* A suspended drain holds a number of this or of an older generation; one of
\* this generation comes after all its leg has sent, and it is not the
\* terminal's while a replay is due.
HandInv ==
    /\ generation \in [Legs -> Nat]
    /\ inHand # NoFrame =>
          /\ inHand.leg \in Legs /\ inHand.gen \in Nat /\ inHand.gen <= generation[inHand.leg]
          /\ inHand.gen = generation[inHand.leg] =>
                /\ Carries(minted, inHand.leg, inHand.seq, inHand.n)
                /\ \A i \in 1 .. Len(up) : up[i].leg = inHand.leg => up[i].seq < inHand.seq
                /\ inHand.leg = Tui => pending = <<>>

\* A number keeps its payload when the leg mints another.
LEMMA CarriesGrows ==
    ASSUME LineInv, NEW l \in Legs, NEW x \in Nat, minted' = [minted EXCEPT ![l] = Append(@, x)]
    PROVE  /\ \A k \in Legs : \A s, n : Carries(minted, k, s, n) => Carries(minted', k, s, n)
           /\ \A s \in Nat : s = sendSeq[l] => Carries(minted', l, s, x)
<1>1. \A k \in Legs : minted[k] \in Seq(Nat)
  BY Zenon DEF LineInv, LineOf, InLine
<1>2. \A k \in Legs : minted'[k] = IF k = l THEN Append(minted[l], x) ELSE minted[k]
  BY Zenon DEF LineInv, PerLeg
<1>3. ASSUME NEW k \in Legs, NEW s, NEW n, Carries(minted, k, s, n) PROVE Carries(minted', k, s, n)
  <2>1. s + 1 \in 1 .. Len(minted[k]) /\ Len(minted[k]) \in Nat /\ s \in Nat
    BY <1>1, <1>3 DEF Carries
  <2>2. Len(minted'[k]) >= Len(minted[k]) /\ minted'[k][s + 1] = minted[k][s + 1]
    BY <1>1, <1>2, <2>1
  <2>3. Len(minted'[k]) \in Nat
    BY <1>1, <1>2
  <2> QED
    BY <1>3, <2>1, <2>2, <2>3 DEF Carries
<1>4. ASSUME NEW s \in Nat, s = sendSeq[l] PROVE Carries(minted', l, s, x)
  <2>1. s = Len(minted[l]) /\ minted'[l] = Append(minted[l], x)
    BY <1>2, <1>4, Zenon DEF LineInv, LineOf, InLine
  <2>2. Len(minted'[l]) = s + 1 /\ minted'[l][s + 1] = x
    BY <1>1, <2>1
  <2> QED
    BY <2>2 DEF Carries
<1> QED
  BY <1>3, <1>4, Zenon

\* A frame is written after everything its leg has on the connection.
LEMMA WireWrites ==
    ASSUME WireInv, NEW l \in Legs, NEW s \in Nat, NEW n \in Nat,
           \A k \in Legs : \A t, x : Carries(minted, k, t, x) => Carries(minted', k, t, x),
           \/ up' = up
           \/ /\ up' = Append(up, [leg |-> l, seq |-> s, n |-> n]) /\ Carries(minted', l, s, n)
              /\ \A i \in 1 .. Len(up) : up[i].leg = l => up[i].seq < s
    PROVE  WireInv'
<1>1. \A i \in 1 .. Len(up) : /\ up[i].leg \in Legs /\ up[i].seq \in Nat /\ up[i].n \in Nat
                              /\ Carries(minted', up[i].leg, up[i].seq, up[i].n)
  <2>1. \A i \in 1 .. Len(up) : up[i] \in Wire
    BY DEF WireInv
  <2> QED
    BY <2>1, Zenon DEF WireInv, Wire
<1>2. CASE up' = up
  <2>1. \A i \in 1 .. Len(up') : Carries(minted', up[i].leg, up[i].seq, up[i].n)
    BY <1>1, <1>2, Zenon
  <2> QED
    BY <1>2, <2>1, Zenon DEF WireInv
<1>3. CASE /\ up' = Append(up, [leg |-> l, seq |-> s, n |-> n]) /\ Carries(minted', l, s, n)
           /\ \A i \in 1 .. Len(up) : up[i].leg = l => up[i].seq < s
  <2> DEFINE e == [leg |-> l, seq |-> s, n |-> n]
  <2>1. e \in Wire /\ e.leg = l /\ e.seq = s /\ e.n = n /\ up \in Seq(Wire)
    BY Zenon DEF Wire, WireInv
  <2>2. up' = Append(up, e)
    BY <1>3, Zenon
  <2> HIDE DEF e
  <2>3. /\ up' \in Seq(Wire) /\ Len(up) \in Nat /\ Len(up') = Len(up) + 1
        /\ up'[Len(up) + 1] = e /\ \A i \in 1 .. Len(up) : up'[i] = up[i]
    BY <2>1, <2>2
  <2>4. \A i \in 1 .. Len(up') : (i \in 1 .. Len(up) /\ up'[i] = up[i]) \/ (i = Len(up) + 1 /\ up'[i] = e)
    BY <2>3
  <2>5. ASSUME NEW i \in 1 .. Len(up') PROVE Carries(minted', up'[i].leg, up'[i].seq, up'[i].n)
    BY <1>1, <1>3, <2>1, <2>4, Zenon
  <2>6. ASSUME NEW i \in 1 .. Len(up'), NEW j \in 1 .. Len(up'), i < j, up'[i].leg = up'[j].leg
        PROVE  up'[i].seq < up'[j].seq
    <3>1. i \in 1 .. Len(up) /\ up'[i] = up[i]
      <4>1. Len(up) \in Nat /\ Len(up') = Len(up) + 1
        BY <2>3, Zenon
      <4>2. i \in 1 .. Len(up)
        BY <2>6, <4>1
      <4> QED
        BY <2>3, <4>2, Zenon
    <3>2. CASE j = Len(up) + 1
      BY <1>3, <2>1, <2>3, <2>6, <3>1, <3>2, Zenon
    <3>3. CASE j \in 1 .. Len(up)
      <4>1. up'[j] = up[j]
        BY <2>3, <3>3, Zenon
      <4> QED
        BY <2>6, <3>1, <3>3, <4>1, Zenon DEF WireInv
    <3> QED
      BY <2>4, <3>2, <3>3, Zenon
  <2> QED
    BY <2>3, <2>5, <2>6, Zenon DEF WireInv
<1> QED
  BY <1>2, <1>3, Zenon

\* The core reads the oldest frame; what a suspended drain holds still comes last.
LEMMA WireReads ==
    ASSUME WireInv, up # <<>>
    PROVE  /\ Tail(up) \in Seq(Wire) /\ Head(up) \in Wire /\ Head(up) = up[1] /\ 1 \in 1 .. Len(up)
           /\ \A i \in 1 .. Len(Tail(up)) : i + 1 \in 1 .. Len(up) /\ Tail(up)[i] = up[i + 1]
           /\ \A i, j \in 1 .. Len(Tail(up)) :
                 i < j /\ Tail(up)[i].leg = Tail(up)[j].leg => Tail(up)[i].seq < Tail(up)[j].seq
<1> DEFINE a == Tail(up)
<1>1. /\ up \in Seq(Wire) /\ a \in Seq(Wire) /\ Head(up) \in Wire /\ Head(up) = up[1]
      /\ Len(up) \in Nat /\ Len(up) > 0 /\ Len(a) = Len(up) - 1
      /\ \A i \in 1 .. Len(a) : a[i] = up[i + 1]
  BY DEF WireInv
<1> HIDE DEF a
<1>2. 1 \in 1 .. Len(up) /\ \A i \in 1 .. Len(a) : i + 1 \in 1 .. Len(up)
  BY <1>1
<1>3. ASSUME NEW i \in 1 .. Len(a), NEW j \in 1 .. Len(a), i < j, a[i].leg = a[j].leg
      PROVE  a[i].seq < a[j].seq
  <2>1. i + 1 \in 1 .. Len(up) /\ j + 1 \in 1 .. Len(up) /\ i + 1 < j + 1
    BY <1>2, <1>3
  <2> QED
    BY <1>1, <1>3, <2>1, Zenon DEF WireInv
<1> QED
  BY <1>1, <1>2, <1>3, Zenon DEF a

\* An empty wire keeps every promise about what travels.
LEMMA WireEmpty == ASSUME up' = <<>> PROVE WireInv' /\ \A i \in 1 .. Len(up') : FALSE
<1>1. up' \in Seq(Wire) /\ \A i \in 1 .. Len(up') : FALSE
  OBVIOUS
<1> QED
  BY <1>1, Zenon DEF WireInv

\* A step that moves no frame keeps WireInv and HandInv.
LEMMA TravelKept ==
    ASSUME WireInv, HandInv, UNCHANGED <<minted, generation, inHand, up, pending>>
    PROVE  WireInv' /\ HandInv'
  BY Zenon DEF WireInv, HandInv

\* The next number of a leg is above all its frames on the connection.
LEMMA NextAbove ==
    ASSUME LineInv, WireInv, NEW l \in Legs
    PROVE  /\ sendSeq[l] \in Nat
           /\ \A i \in 1 .. Len(up) : up[i].leg = l => up[i].seq < sendSeq[l]
<1>1. sendSeq[l] = Len(minted[l]) /\ minted[l] \in Seq(Nat)
  BY Zenon DEF LineInv, LineOf, InLine
<1>2. \A i \in 1 .. Len(up) : up[i].leg = l => up[i].seq < Len(minted[l])
  BY Zenon DEF WireInv, Carries
<1> QED
  BY <1>1, <1>2

\* Taking a frame from the queue keeps them.
LEMMA TravelDrain ==
    ASSUME LinkInv, LineInv, WireInv, HandInv, NEW l \in Legs, DrainFrame(l)
    PROVE  WireInv' /\ HandInv'
<1> DEFINE n == Head(queue[l])
           s == sendSeq[l]
<1>1. queue[l] \in Seq(Nat) /\ queue[l] # <<>>
  BY Zenon DEF LineInv, LineOf, InLine, DrainFrame
<1>2. n \in Nat /\ s \in Nat /\ \A i \in 1 .. Len(up) : up[i].leg = l => up[i].seq < s
  BY <1>1, NextAbove
<1>3. /\ minted' = [minted EXCEPT ![l] = Append(@, n)] /\ generation' = generation
      /\ inHand = NoFrame /\ pending' = pending
  BY Zenon DEF DrainFrame, IsolateLeg, Record
<1>4. /\ \A k \in Legs : \A t, x : Carries(minted, k, t, x) => Carries(minted', k, t, x)
      /\ Carries(minted', l, s, n)
  BY <1>2, <1>3, CarriesGrows, Zenon
<1>5. /\ up' = up \/ up' = Append(up, [leg |-> l, seq |-> s, n |-> n])
      /\ \/ inHand' = inHand
         \/ up' = up /\ inHand' = [leg |-> l, n |-> n, seq |-> s, gen |-> generation[l]]
  BY Zenon DEF DrainFrame, IsolateLeg, WriteUnit
<1>6. l = Tui => pending' = <<>>
  BY <1>3, Zenon DEF DrainFrame, LinkInv
<1> HIDE DEF n, s
<1>7. WireInv'
  BY <1>2, <1>4, <1>5, WireWrites, Zenon
<1>8. HandInv'
  <2>1. CASE inHand' = inHand
    BY <1>3, <2>1, Zenon DEF HandInv
  <2>2. CASE up' = up /\ inHand' = [leg |-> l, n |-> n, seq |-> s, gen |-> generation[l]]
    <3>1. inHand'.leg = l /\ inHand'.n = n /\ inHand'.seq = s /\ inHand'.gen = generation[l]
      BY <2>2, Zenon
    <3>2. \A i \in 1 .. Len(up') : up'[i].leg = l => up'[i].seq < s
      BY <1>2, <2>2, Zenon
    <3>3. generation' \in [Legs -> Nat] /\ generation[l] \in Nat /\ generation'[l] = generation[l]
      BY <1>3, Zenon DEF HandInv
    <3>4. inHand'.gen \in Nat /\ inHand'.gen <= generation'[inHand'.leg]
      BY <3>1, <3>3
    <3>5. Carries(minted', inHand'.leg, inHand'.seq, inHand'.n)
      BY <1>4, <3>1, Zenon
    <3> QED
      BY <1>6, <3>1, <3>2, <3>3, <3>4, <3>5, Zenon DEF HandInv
  <2> QED
    BY <1>5, <2>1, <2>2, Zenon
<1> QED
  BY <1>7, <1>8, Zenon

\* Resuming the drain with the frame in hand keeps them.
LEMMA TravelResume ==
    ASSUME LineInv, WireInv, HandInv, ResumeDrain
    PROVE  WireInv' /\ HandInv'
<1>1. /\ inHand # NoFrame /\ inHand' = NoFrame /\ UNCHANGED <<minted, generation>>
  BY Zenon DEF ResumeDrain, legVars
<1>2. HandInv'
  BY <1>1, Zenon DEF HandInv
<1>3. CASE up' = up
  BY <1>1, <1>2, <1>3, Zenon DEF WireInv
<1>4. CASE /\ generation[inHand.leg] = inHand.gen
           /\ up' = Append(up, [leg |-> inHand.leg, seq |-> inHand.seq, n |-> inHand.n])
  <2>1. /\ inHand.leg \in Legs /\ Carries(minted, inHand.leg, inHand.seq, inHand.n)
        /\ \A i \in 1 .. Len(up) : up[i].leg = inHand.leg => up[i].seq < inHand.seq
    BY <1>1, <1>4, Zenon DEF HandInv
  <2>2. minted[inHand.leg] \in Seq(Nat) /\ inHand.seq \in Nat
    BY <2>1, Zenon DEF LineInv, LineOf, InLine, Carries
  <2>3. inHand.n \in Nat
    BY <2>1, <2>2 DEF Carries
  <2>4. WireInv'
    BY <1>1, <1>4, <2>1, <2>2, <2>3, WireWrites, Zenon
  <2> QED
    BY <1>2, <2>4, Zenon
<1> QED
  BY <1>3, <1>4, Zenon DEF ResumeDrain, WriteUnit

\* A handshake keeps them.
LEMMA TravelHandshake ==
    ASSUME LinkInv, LineInv, WireInv, HandInv, Handshake
    PROVE  WireInv' /\ HandInv'
<1>1. up = <<>> /\ up' = up /\ inHand' = inHand
  BY Zenon DEF Handshake, schedVars, LinkInv, ConnAlive
<1>2. /\ generation' = [generation EXCEPT ![Tui] = @ + 1]
      /\ minted' = [minted EXCEPT ![Tui] = <<>>]
  BY Zenon DEF Handshake
<1>3. /\ generation' \in [Legs -> Nat] /\ generation'[Tui] = generation[Tui] + 1
      /\ generation[Tui] \in Nat
      /\ \A k \in Legs : k # Tui => generation'[k] = generation[k] /\ minted'[k] = minted[k]
  BY <1>2, ResumeAssumption DEF HandInv, LineInv, PerLeg
<1>4. WireInv'
  BY <1>1, WireEmpty, Zenon
<1>5. ASSUME inHand # NoFrame, inHand.gen = generation'[inHand.leg]
      PROVE  /\ inHand.leg \in Legs /\ inHand.leg # Tui
             /\ inHand.gen = generation[inHand.leg] /\ minted'[inHand.leg] = minted[inHand.leg]
  <2>1. inHand.leg \in Legs /\ inHand.gen \in Nat /\ inHand.gen <= generation[inHand.leg]
    BY <1>5, Zenon DEF HandInv
  <2>2. inHand.leg # Tui
    <3> SUFFICES ASSUME inHand.leg = Tui PROVE FALSE
      BY Zenon
    <3>1. /\ generation[Tui] \in Nat /\ inHand.gen <= generation[Tui]
          /\ inHand.gen = generation[Tui] + 1
      BY <1>3, <1>5, <2>1, Zenon
    <3> QED
      BY <3>1
  <2> QED
    BY <1>3, <1>5, <2>1, <2>2, Zenon
<1>6. ASSUME inHand # NoFrame PROVE inHand.gen <= generation'[inHand.leg]
  BY <1>3, <1>6 DEF HandInv
<1> QED
  BY <1>1, <1>3, <1>4, <1>5, <1>6, Zenon DEF HandInv, Carries

\* Flushing a pending frame keeps them.
LEMMA TravelFlush ==
    ASSUME LinkInv, LineInv, WireInv, HandInv, FlushFrame
    PROVE  WireInv' /\ HandInv'
<1> DEFINE n == Head(pending)
           s == sendSeq[Tui]
<1>1. Tui \in Legs /\ pending \in Seq(Nat) /\ pending # <<>>
  BY ResumeAssumption, Zenon DEF LineInv, LineOf, InLine, Waiting, FlushFrame, LinkInv
<1>2. n \in Nat /\ s \in Nat /\ \A i \in 1 .. Len(up) : up[i].leg = Tui => up[i].seq < s
  BY <1>1, NextAbove
<1>3. /\ minted' = [minted EXCEPT ![Tui] = Append(@, n)] /\ generation' = generation
      /\ inHand' = inHand
  BY Zenon DEF FlushFrame, Record, schedVars
<1>4. /\ \A k \in Legs : \A t, x : Carries(minted, k, t, x) => Carries(minted', k, t, x)
      /\ Carries(minted', Tui, s, n)
  BY <1>1, <1>2, <1>3, CarriesGrows, Zenon
<1>5. up' = up \/ up' = Append(up, [leg |-> Tui, seq |-> s, n |-> n])
  BY Zenon DEF FlushFrame, WriteUnit
<1> HIDE DEF n, s
<1>6. WireInv'
  BY <1>1, <1>2, <1>4, <1>5, WireWrites, Zenon
<1>7. ASSUME inHand # NoFrame, inHand.gen = generation[inHand.leg]
      PROVE  /\ inHand.leg \in Legs /\ inHand.leg # Tui
             /\ Carries(minted', inHand.leg, inHand.seq, inHand.n)
             /\ \A i \in 1 .. Len(up') : up'[i].leg = inHand.leg => up'[i].seq < inHand.seq
  <2>1. /\ inHand.leg \in Legs /\ inHand.leg # Tui
        /\ Carries(minted', inHand.leg, inHand.seq, inHand.n)
        /\ \A i \in 1 .. Len(up) : up[i].leg = inHand.leg => up[i].seq < inHand.seq
    BY <1>1, <1>4, <1>7, Zenon DEF HandInv
  <2>2. \A i \in 1 .. Len(up') : (i \in 1 .. Len(up) /\ up'[i] = up[i]) \/ up'[i].leg = Tui
    <3> DEFINE e == [leg |-> Tui, seq |-> s, n |-> n]
    <3>1. e.leg = Tui
      BY Zenon
    <3> HIDE DEF e
    <3>2. up \in Seq(Wire) /\ Len(up) \in Nat
      BY DEF WireInv
    <3>3. CASE up' = up
      BY <3>3, Zenon
    <3>4. CASE up' = Append(up, e)
      BY <3>1, <3>2, <3>4
    <3> QED
      BY <1>5, <3>3, <3>4, Zenon DEF e
  <2> QED
    BY <2>1, <2>2, Zenon
<1> QED
  BY <1>3, <1>6, <1>7, Zenon DEF HandInv

\* A frame the core receives keeps them.
LEMMA TravelReceive ==
    ASSUME WireInv, HandInv, Receive
    PROVE  WireInv' /\ HandInv'
<1>1. up # <<>> /\ up' = Tail(up) /\ UNCHANGED <<minted, generation, inHand, pending>>
  BY Zenon DEF Receive, legVars, schedVars, linkVars
<1>2. \A i \in 1 .. Len(up') : i + 1 \in 1 .. Len(up) /\ up'[i] = up[i + 1]
  BY <1>1, WireReads, Zenon
<1>3. WireInv'
  BY <1>1, <1>2, WireReads, Zenon DEF WireInv
<1>4. HandInv'
  BY <1>1, <1>2, Zenon DEF HandInv
<1> QED
  BY <1>3, <1>4, Zenon

\* Every step keeps them.
LEMMA TravelNext == LinkInv /\ LineInv /\ WireInv /\ HandInv /\ [Next]_vars => WireInv' /\ HandInv'
<1> SUFFICES ASSUME LinkInv, LineInv, WireInv, HandInv, [Next]_vars PROVE WireInv' /\ HandInv'
  BY Zenon
<1> USE DEF legVars, schedVars, linkVars
<1>1. CASE ClientPassGate \/ ClientRead \/ \E l \in Legs : AdapterForward(l)
  BY <1>1, TravelKept, Zenon DEF ClientPassGate, ClientRead, AdapterForward
<1>2. CASE SchedulerStep
  BY <1>2, TravelDrain, TravelResume, Zenon DEF SchedulerStep
<1>3. CASE EvictExpiredFrames \/ RouteUnit
  BY <1>3, TravelKept, Zenon DEF EvictExpiredFrames, RouteUnit
<1>4. CASE Dial \/ ConnectFails \/ PumpEof \/ CloseStale
  BY <1>4, TravelKept, Zenon DEF Dial, ConnectFails, PumpEof, CloseStale
<1>5. CASE Handshake
  BY <1>5, TravelHandshake, Zenon
<1>6. CASE Bind
  BY <1>6, TravelKept, Zenon DEF Bind, BindAndFlush
<1>7. CASE FlushFrame
  BY <1>7, TravelFlush, Zenon
<1>8. CASE BootCore \/ AnnounceGoingDown \/ EmitAck
  BY <1>8, TravelKept, Zenon DEF BootCore, AnnounceGoingDown, EmitAck
<1>9. CASE CrashCore
  <2>1. up' = <<>> /\ UNCHANGED <<minted, generation, inHand, pending>>
    BY <1>9, Zenon DEF CrashCore
  <2>2. WireInv' /\ \A i \in 1 .. Len(up') : FALSE
    BY <2>1, WireEmpty, Zenon
  <2> QED
    BY <2>1, <2>2, Zenon DEF HandInv
<1>10. CASE Receive
  BY <1>10, TravelReceive, Zenon
<1>11. CASE TaskStep
  BY <1>11, TravelKept, Zenon DEF TaskStep, Admit, Dispatch, CommitAtEdge, coreStepUnchanged
<1>12. CASE UNCHANGED vars
  BY <1>12, TravelKept, Zenon DEF vars
<1> QED
  BY <1>1, <1>2, <1>3, <1>4, <1>5, <1>6, <1>7, <1>8, <1>9, <1>10, <1>11, <1>12, Zenon DEF Next, LinkStep

\* Nothing travels and nothing is in hand at the start.
LEMMA TravelInit == Init => WireInv /\ HandInv
<1> SUFFICES ASSUME Init PROVE WireInv /\ HandInv
  BY Zenon
<1>1. up \in Seq(Wire) /\ \A i \in 1 .. Len(up) : FALSE
  BY DEF Init
<1>2. generation \in [Legs -> Nat] /\ inHand = NoFrame
  BY Zenon DEF Init
<1>3. WireInv
  BY <1>1, Zenon DEF WireInv
<1> QED
  BY <1>2, <1>3, Zenon DEF HandInv

\* What the live connection carries under a number is the frame the leg minted
\* it for since its last reset: _drain_one_frame compares the generations
\* after escalate_if_breaker_tripped, so a drain suspended across a reconnect
\* never writes a number of the old epoch.
THEOREM NumbersNeverStale == Spec => []NoStaleNumber
<1>1. WireInv => NoStaleNumber
  BY Zenon DEF WireInv, NoStaleNumber, Carries
<1> QED
  BY LinkInit, LinkNext, LineInit, LineNext, TravelInit, TravelNext, <1>1, PTL DEF Spec

\* On one connection the frames of a leg travel in the order of their source:
\* the replay gate holds the fresh frames back while _flush_pending_replay
\* sends the old ones, across any number of restarts.
THEOREM FramesInSourceOrder == Spec => []SourceOrder
<1>1. LineInv /\ WireInv => SourceOrder
  <2> SUFFICES ASSUME LineInv, WireInv, NEW i \in 1 .. Len(up), NEW j \in 1 .. Len(up),
                      i < j, up[i].leg = up[j].leg
               PROVE  up[i].seq < up[j].seq /\ up[i].n < up[j].n
    BY Zenon DEF SourceOrder
  <2> DEFINE l == up[i].leg
             m == minted[l]
  <2>1. up[i] \in Wire
    BY DEF WireInv
  <2>2. l \in Legs /\ m \in Seq(Nat) /\ Rising(m)
    BY <2>1, Zenon DEF Wire, LineInv, LineOf, InLine
  <2>3. up[i].seq < up[j].seq
    BY Zenon DEF WireInv
  <2> DEFINE a == up[i].seq
             b == up[j].seq
  <2>4. /\ a \in Nat /\ a < Len(m) /\ m[a + 1] = up[i].n
        /\ b \in Nat /\ b < Len(m) /\ m[b + 1] = up[j].n
    BY Zenon DEF WireInv, Carries
  <2>5. Len(m) \in Nat
    BY <2>2
  <2> HIDE DEF m, a, b
  <2>6. /\ a + 1 \in 1 .. Len(m) /\ b + 1 \in 1 .. Len(m)
        /\ a < b => a + 1 < b + 1
    BY <2>4, <2>5
  <2>7. a < b => m[a + 1] < m[b + 1]
    BY <2>2, <2>6, Zenon DEF Rising
  <2> QED
    BY <2>3, <2>4, <2>7, Zenon DEF a, b
<1> QED
  BY LinkInit, LinkNext, LineInit, LineNext, TravelInit, TravelNext, <1>1, PTL DEF Spec
-----------------------------------------------------------------------------
\* The terminal's leg alone on the connection (a gateway that hosts no
\* adapter): what the core acknowledges is durable.
FrameAt(n) == [leg |-> Tui, n |-> n]

\* A number of this generation whose frame is committed.
Settled(s) == s < Len(minted[Tui]) /\ FrameAt(minted[Tui][s + 1]) \in committed

Unit == [type : {"ack", "going_down"}, ack : Nat]

AckInv ==
    /\ TrackerOK(tracker) /\ lastEmitted \in Int /\ lastEmitted >= -1
    /\ \A s \in Nat : Observed(tracker, s) => Settled(s)
    /\ \A t \in inflight : TaskShape(t) /\ t.leg = Tui /\ Carries(minted, Tui, t.seq, t.n)
    /\ down \in Seq(Unit)
    /\ \A i \in 1 .. Len(down) : down[i].type = "ack" =>
          linkPc # "ack" /\ \A s \in Nat : s <= down[i].ack => Settled(s)

\* A new tracker has counted nothing.
LEMMA NewTrackerOK == TrackerOK(NewTracker) /\ \A s \in Nat : ~Observed(NewTracker, s)
<1>1. IsFiniteSet({})
  BY FS_EmptySet, Zenon
<1> QED
  BY <1>1 DEF TrackerOK, NewTracker, TrackerType, Observed

\* Nothing is counted or acked at the start.
LEMMA AckInit == Init => AckInv
  BY NewTrackerOK DEF Init, AckInv, Unit

\* A step that keeps the tracker, the tasks and the connection, keeps or grows
\* the numbers and the rows, and does not start a handshake.
LEMMA AckKept ==
    ASSUME AckInv, UNCHANGED <<inflight, tracker, lastEmitted, down>>,
           linkPc' = linkPc \/ linkPc' # "ack", committed \subseteq committed',
           \A s, n : Carries(minted, Tui, s, n) => Carries(minted', Tui, s, n)
    PROVE  AckInv'
<1>1. ASSUME NEW s \in Nat, Settled(s) PROVE Settled(s)'
  <2>1. Carries(minted, Tui, s, minted[Tui][s + 1])
    BY <1>1, Zenon DEF Settled, Carries
  <2>2. Carries(minted', Tui, s, minted[Tui][s + 1])
    BY <2>1, Zenon
  <2> QED
    BY <1>1, <2>2, Zenon DEF Settled, Carries, FrameAt
<1>2. \A t \in inflight' : TaskShape(t) /\ t.leg = Tui /\ Carries(minted', Tui, t.seq, t.n)
  BY Zenon DEF AckInv
<1> QED
  BY <1>1, <1>2, Zenon DEF AckInv

\* The end of a task, and the tracker observing its number once its frame is
\* committed.
LEMMA AckTask ==
    ASSUME AckInv, NEW t \in inflight, UNCHANGED <<lastEmitted, down, linkPc, minted>>,
           committed \subseteq committed', tracker' = tracker \/
             (tracker' = Observe(tracker, t.seq) /\ FrameOf(t) \in committed'),
           \A u \in inflight' : u \in inflight \/
             (TaskShape(u) /\ u.leg = t.leg /\ u.seq = t.seq /\ u.n = t.n)
    PROVE  AckInv'
<1>1. \A s \in Nat : Settled(s) => Settled(s)'
  BY Zenon DEF Settled, FrameAt
<1>2. t.leg = Tui /\ Carries(minted, Tui, t.seq, t.n) /\ t.seq \in Nat
  BY Zenon DEF AckInv, Carries
<1>3. FrameOf(t) \in committed' => \A s \in Nat : s = t.seq => Settled(s)'
  BY Zenon, <1>2 DEF Carries, Settled, FrameOf, FrameAt
<1>4. TrackerOK(tracker') /\ \A s \in Nat : Observed(tracker', s) => Settled(s)'
  <2>1. CASE tracker' = tracker
    BY <1>1, <2>1, Zenon DEF AckInv
  <2>2. CASE tracker' = Observe(tracker, t.seq) /\ FrameOf(t) \in committed'
    <3>1. /\ TrackerOK(tracker')
          /\ \A s \in Nat : Observed(tracker', s) => Observed(tracker, s) \/ s = t.seq
      BY <1>2, <2>2, ObserveAddsOne, Zenon DEF AckInv
    <3> QED
      BY <1>1, <1>3, <2>2, <3>1, Zenon DEF AckInv
  <2> QED
    BY <2>1, <2>2, Zenon
<1>5. \A u \in inflight' : TaskShape(u) /\ u.leg = Tui /\ Carries(minted', Tui, u.seq, u.n)
  BY <1>2, Zenon DEF AckInv
<1> QED
  BY <1>1, <1>4, <1>5, Zenon DEF AckInv

\* A step of a dispatch task keeps AckInv.
LEMMA AckTaskStep == AckInv /\ TaskStep => AckInv'
<1> SUFFICES ASSUME AckInv, NEW t \in inflight, Admit(t) \/ Dispatch(t) \/ CommitAtEdge(t)
             PROVE  AckInv'
  BY Zenon DEF TaskStep
<1>1. UNCHANGED <<lastEmitted, down, linkPc, minted>>
  BY Zenon DEF Admit, Dispatch, CommitAtEdge, coreStepUnchanged, linkVars, legVars
<1>2. t.leg = Tui
  BY Zenon DEF AckInv
<1>3. ASSUME NEW stage, Advance(t, stage) \/ Finish(t)
      PROVE  \A u \in inflight' : u \in inflight \/
               (TaskShape(u) /\ u.leg = t.leg /\ u.seq = t.seq /\ u.n = t.n)
  <2> DEFINE new == [leg |-> t.leg, seq |-> t.seq, n |-> t.n, stage |-> stage]
  <2>1. TaskShape(new) /\ new.leg = t.leg /\ new.seq = t.seq /\ new.n = t.n
    BY Zenon DEF TaskShape
  <2>2. \A u \in inflight' : u \in inflight \/ u = new
    BY <1>3, Zenon DEF Advance, Finish
  <2> HIDE DEF new
  <2> QED
    BY <2>1, <2>2, Zenon
<1>4. CASE Admit(t)
  <2>1. /\ committed \subseteq committed'
        /\ tracker' = tracker \/ (tracker' = Observe(tracker, t.seq) /\ FrameOf(t) \in committed')
    BY <1>2, <1>4, Zenon DEF Admit
  <2>2. Advance(t, "dispatch") \/ Finish(t)
    BY <1>4, Zenon DEF Admit
  <2> QED
    BY <1>1, <1>3, <2>1, <2>2, AckTask, Zenon
<1>5. CASE Dispatch(t)
  <2>1. committed' = committed /\ tracker' = tracker
    BY <1>5, Zenon DEF Dispatch
  <2>2. Advance(t, "commit") \/ Finish(t)
    BY <1>5, Zenon DEF Dispatch
  <2> QED
    BY <1>1, <1>3, <2>1, <2>2, AckTask, Zenon
<1>6. CASE CommitAtEdge(t)
  BY <1>1, <1>3, <1>6, AckTask, Zenon DEF CommitAtEdge
<1> QED
  BY <1>4, <1>5, <1>6, Zenon

\* A frame the core receives keeps AckInv.
LEMMA AckReceive ==
    ASSUME Legs = {Tui}, WireInv, AckInv, Receive
    PROVE  AckInv'
<1> DEFINE new == [leg |-> Head(up).leg, seq |-> Head(up).seq, n |-> Head(up).n,
                   stage |-> "admit"]
<1>1. /\ up # <<>> /\ inflight' = inflight \cup {new}
      /\ UNCHANGED <<tracker, lastEmitted, down, linkPc, minted, committed>>
  BY Zenon DEF Receive, legVars, linkVars, durable
<1>2. Head(up) = up[1] /\ 1 \in 1 .. Len(up) /\ Head(up) \in Wire
  BY Zenon, <1>1, WireReads
<1>3. Head(up).leg = Tui /\ Carries(minted, Tui, Head(up).seq, Head(up).n)
  BY Zenon, <1>2 DEF WireInv, Wire
<1>4. /\ TaskShape(new) /\ new.leg = Tui /\ new.seq = Head(up).seq /\ new.n = Head(up).n
  BY <1>3, Zenon DEF TaskShape
<1> HIDE DEF new
<1>5. \A u \in inflight' : TaskShape(u) /\ u.leg = Tui /\ Carries(minted', Tui, u.seq, u.n)
  BY <1>1, <1>3, <1>4, Zenon DEF AckInv
<1>6. \A s \in Nat : Settled(s) => Settled(s)'
  BY <1>1, Zenon DEF Settled, FrameAt
<1> QED
  BY Zenon, <1>1, <1>5, <1>6 DEF AckInv

\* The timer sends the highest contiguous number, never one of an unbound link.
LEMMA AckEmit ==
    ASSUME LinkInv, AckInv, EmitAck
    PROVE  AckInv'
<1> DEFINE m == [type |-> "ack", ack |-> Max({tracker.high, 0})]
<1>1. /\ down' = Append(down, m) /\ tracker.high > lastEmitted /\ lastEmitted' = tracker.high
      /\ UNCHANGED <<tracker, inflight, linkPc, minted, committed>>
  BY Zenon DEF EmitAck, legVars, linkVars, durable
<1>2. tracker.high \in Int /\ tracker.high >= 0
  BY <1>1 DEF AckInv, TrackerOK, TrackerType
<1>3. Max({tracker.high, 0}) = tracker.high
  <2> DEFINE S == {tracker.high, 0}
  <2>1. S \in SUBSET (0 .. tracker.high) /\ S # {} /\ 0 \in Int
    BY <1>2
  <2>2. Max(S) \in S /\ \A y \in S : Max(S) >= y
    <3> HIDE DEF S
    <3> QED  BY <1>2, <2>1, IntervalMax, Zenon
  <2> HIDE DEF S
  <2>3. tracker.high \in S /\ \A y \in S : y = tracker.high \/ y = 0
    BY Zenon DEF S
  <2>4. Max(S) = tracker.high
    BY <1>2, <2>2, <2>3
  <2> QED
    BY <2>4, Zenon DEF S
<1>4. linkPc # "ack"
  <2> SUFFICES ASSUME linkPc = "ack" PROVE FALSE
    BY Zenon
  <2>1. tracker = NewTracker
    BY Zenon DEF LinkInv, ConnAlive
  <2> QED
    BY <1>2, <2>1 DEF NewTracker
<1>5. m \in Unit /\ m.type = "ack" /\ m.ack = tracker.high
  BY <1>2, <1>3 DEF Unit
<1> HIDE DEF m
<1>6. \A s \in Nat : Settled(s)' <=> Settled(s)
  BY <1>1, Zenon DEF Settled, FrameAt
<1>7. \A s \in Nat : s <= m.ack => Settled(s)
  BY <1>5, Zenon DEF AckInv, Observed
<1>8. /\ down' \in Seq(Unit) /\ Len(down) \in Nat
      /\ \A i \in 1 .. Len(down') : (i \in 1 .. Len(down) /\ down'[i] = down[i]) \/ down'[i] = m
  BY <1>1, <1>5 DEF AckInv
<1>9. ASSUME NEW i \in 1 .. Len(down'), down'[i].type = "ack"
      PROVE  linkPc' # "ack" /\ \A s \in Nat : s <= down'[i].ack => Settled(s)'
  BY Zenon, <1>1, <1>4, <1>6, <1>7, <1>8, <1>9 DEF AckInv
<1>10. /\ TrackerOK(tracker') /\ lastEmitted' \in Int /\ lastEmitted' >= -1
       /\ \A s \in Nat : Observed(tracker', s) => Settled(s)'
  BY <1>1, <1>2, <1>6 DEF AckInv
<1> QED
  BY Zenon, <1>1, <1>8, <1>9, <1>10 DEF AckInv

\* The pump takes a unit off the connection.
LEMMA AckRoute ==
    ASSUME AckInv, down # <<>>, down' = Tail(down),
           UNCHANGED <<tracker, lastEmitted, inflight, linkPc, minted, committed>>
    PROVE  AckInv'
<1>1. \A s \in Nat : Settled(s)' <=> Settled(s)
  BY Zenon DEF Settled, FrameAt
<1>2. /\ down' \in Seq(Unit)
      /\ \A i \in 1 .. Len(down') : i + 1 \in 1 .. Len(down) /\ down'[i] = down[i + 1]
  BY DEF AckInv
<1>3. ASSUME NEW i \in 1 .. Len(down'), down'[i].type = "ack"
      PROVE  linkPc' # "ack" /\ \A s \in Nat : s <= down'[i].ack => Settled(s)'
  BY <1>1, <1>2, <1>3, Zenon DEF AckInv
<1> QED
  BY Zenon, <1>1, <1>2, <1>3 DEF AckInv

\* The announcement of a planned stop keeps AckInv.
LEMMA AckAnnounce ==
    ASSUME AckInv, AnnounceGoingDown
    PROVE  AckInv'
<1> DEFINE m == [type |-> "going_down", ack |-> 0]
<1>1. /\ down' = Append(down, m)
      /\ UNCHANGED <<tracker, lastEmitted, inflight, linkPc, minted, committed>>
  BY Zenon DEF AnnounceGoingDown, legVars, linkVars, taskVars, durable
<1>2. m \in Unit /\ m.type = "going_down"
  BY Zenon DEF Unit
<1> HIDE DEF m
<1>3. \A s \in Nat : Settled(s)' <=> Settled(s)
  BY <1>1, Zenon DEF Settled, FrameAt
<1>4. /\ down' \in Seq(Unit)
      /\ \A i \in 1 .. Len(down') : (i \in 1 .. Len(down) /\ down'[i] = down[i]) \/ down'[i] = m
  <2>1. down \in Seq(Unit) /\ down' = Append(down, m) /\ m \in Unit
    BY <1>1, <1>2, Zenon DEF AckInv
  <2> QED
    BY <2>1, AppendAt, Zenon
<1>5. ASSUME NEW i \in 1 .. Len(down'), down'[i].type = "ack"
      PROVE  linkPc' # "ack" /\ \A s \in Nat : s <= down'[i].ack => Settled(s)'
  BY <1>1, <1>2, <1>3, <1>4, <1>5, Zenon DEF AckInv
<1> QED
  BY <1>1, <1>3, <1>4, <1>5, Zenon DEF AckInv

\* A handshake finds no task, no count and no ack of the old numbers.
LEMMA AckHandshake ==
    ASSUME LinkInv, AckInv, Handshake
    PROVE  AckInv'
<1>1. /\ linkPc = "ack" /\ UNCHANGED <<tracker, lastEmitted, inflight, down>>
  BY Zenon DEF Handshake, taskVars
<1>2. inflight = {} /\ tracker = NewTracker
  BY <1>1, Zenon DEF LinkInv, ConnAlive
<1>3. \A i \in 1 .. Len(down) : down[i].type # "ack"
  BY <1>1, Zenon DEF AckInv
<1> QED
  BY Zenon, <1>1, <1>2, <1>3, NewTrackerOK DEF AckInv

\* Every step keeps AckInv.
LEMMA AckNext ==
    ASSUME Legs = {Tui}, LinkInv, LineInv, WireInv, AckInv, [Next]_vars
    PROVE  AckInv'
<1> USE DEF legVars, linkVars, taskVars, durable
<1>1. CASE ClientPassGate \/ ClientRead \/ (\E l \in Legs : AdapterForward(l)) \/ ResumeDrain
           \/ EvictExpiredFrames \/ BootCore
  BY <1>1, AckKept, Zenon DEF ClientPassGate, ClientRead, AdapterForward, ResumeDrain,
                       EvictExpiredFrames, BootCore
<1>2. ASSUME NEW l \in Legs, DrainFrame(l) PROVE AckInv'
  <2>1. minted' = [minted EXCEPT ![l] = Append(@, Head(queue[l]))] /\ Head(queue[l]) \in Nat
    <3>1. minted' = [minted EXCEPT ![l] = Append(@, Head(queue[l]))]
      BY <1>2, Zenon DEF DrainFrame, IsolateLeg, Record
    <3>2. queue[l] \in Seq(Nat) /\ queue[l] # <<>>
      BY <1>2, Zenon DEF DrainFrame, LineInv, LineOf, InLine
    <3>3. Head(queue[l]) \in Nat
      BY <3>2
    <3> QED
      BY <3>1, <3>3, Zenon
  <2>2. \A s, n : Carries(minted, Tui, s, n) => Carries(minted', Tui, s, n)
    BY <2>1, CarriesGrows, ResumeAssumption, Zenon
  <2>3. UNCHANGED <<inflight, tracker, lastEmitted, down, linkPc, committed>>
    BY <1>2, Zenon DEF DrainFrame
  <2> QED
    BY <2>2, <2>3, AckKept, Zenon
<1>3. CASE Dial
  <2>1. /\ down' = <<>> /\ UNCHANGED <<tracker, lastEmitted, inflight, minted, committed>>
    BY <1>3, Zenon DEF Dial
  <2>2. \A s \in Nat : Settled(s)' <=> Settled(s)
    BY <2>1, Zenon DEF Settled, FrameAt
  <2>3. down' \in Seq(Unit) /\ \A i \in 1 .. Len(down') : FALSE
    BY <2>1
  <2> QED
    BY <2>1, <2>2, <2>3, Zenon DEF AckInv
<1>4. CASE ConnectFails \/ PumpEof \/ CloseStale
  <2>1. UNCHANGED <<inflight, tracker, lastEmitted, down, minted, committed>> /\ linkPc' # "ack"
    BY <1>4, Zenon DEF ConnectFails, PumpEof, CloseStale, StartRedial
  <2> QED
    BY <2>1, AckKept, Zenon
<1>5. CASE Handshake
  BY <1>5, AckHandshake, Zenon
<1>6. CASE Bind
  <2>1. UNCHANGED <<inflight, tracker, lastEmitted, down, minted, committed>> /\ linkPc' # "ack"
    BY <1>6, Zenon DEF Bind, BindAndFlush
  <2> QED
    BY <2>1, AckKept, Zenon
<1>7. CASE FlushFrame
  <2>1. /\ minted' = [minted EXCEPT ![Tui] = Append(@, Head(pending))]
        /\ UNCHANGED <<inflight, tracker, lastEmitted, down, committed>> /\ linkPc' # "ack"
    BY <1>7, Zenon DEF FlushFrame, Record
  <2>2. Tui \in Legs /\ pending \in Seq(Nat) /\ pending # <<>>
    BY <1>7, ResumeAssumption, Zenon DEF LineInv, LineOf, InLine, Waiting, FlushFrame, LinkInv
  <2>3. Head(pending) \in Nat
    BY <2>2
  <2>4. \A s, n : Carries(minted, Tui, s, n) => Carries(minted', Tui, s, n)
    BY <2>1, <2>2, <2>3, CarriesGrows, Zenon
  <2> QED
    BY <2>1, <2>4, AckKept, Zenon
<1>8. CASE RouteUnit
  BY <1>8, AckRoute, Zenon DEF RouteUnit
<1>9. CASE CrashCore
  <2>1. /\ inflight' = {} /\ tracker' = NewTracker /\ lastEmitted' = -1
        /\ UNCHANGED <<down, linkPc, minted, committed>>
    BY <1>9, Zenon DEF CrashCore
  <2>2. \A s \in Nat : Settled(s)' <=> Settled(s)
    BY <2>1, Zenon DEF Settled, FrameAt
  <2> QED
    BY <2>1, <2>2, NewTrackerOK DEF AckInv
<1>10. CASE AnnounceGoingDown
  BY <1>10, AckAnnounce, Zenon
<1>11. CASE Receive
  BY <1>11, AckReceive, Zenon
<1>12. CASE TaskStep
  BY <1>12, AckTaskStep, Zenon
<1>13. CASE EmitAck
  BY <1>13, AckEmit, Zenon
<1>14. CASE UNCHANGED vars
  BY <1>14, AckKept, Zenon DEF vars
<1> QED
  BY <1>1, <1>2, <1>3, <1>4, <1>5, <1>6, <1>7, <1>8, <1>9, <1>10, <1>11, <1>12, <1>13, <1>14, Zenon
     DEF Next, SchedulerStep, LinkStep
-----------------------------------------------------------------------------
\* Where a frame of the terminal is while it is neither committed nor given up.
Queues(n) == \E i \in 1 .. Len(queue[Tui]) : queue[Tui][i] = n
Retains(n) == \E i \in 1 .. Len(buffer[Tui].retained) :
                 minted[Tui][buffer[Tui].retained[i].seq + 1] = n
Replays(n) == \E i \in 1 .. Len(pending) : pending[i] = n
Over(n) == FrameAt(n) \in committed \/ FrameAt(n) \in dropped

AccountInv ==
    \A n \in 1 .. FramesPerLeg :
        n <= produced[Tui] => Over(n) \/ Queues(n) \/ Retains(n) \/ Replays(n)

\* A step after which every frame it moves is still somewhere.
LEMMA AccountKept ==
    ASSUME AccountInv, produced' = produced, committed \subseteq committed',
           dropped \subseteq dropped',
           \A n \in Nat : /\ Queues(n) => Queues(n)' \/ Retains(n)' \/ Replays(n)' \/ Over(n)'
                          /\ Retains(n) => Queues(n)' \/ Retains(n)' \/ Replays(n)' \/ Over(n)'
                          /\ Replays(n) => Queues(n)' \/ Retains(n)' \/ Replays(n)' \/ Over(n)'
    PROVE  AccountInv'
<1>1. \A n : Over(n) => Over(n)'
  BY Zenon DEF Over, FrameAt
<1>2. 1 .. FramesPerLeg \subseteq Nat
  BY ResumeAssumption
<1> QED
  BY <1>1, <1>2, Zenon DEF AccountInv

\* A step that moves no frame and only adds commits keeps AccountInv.
LEMMA AccountSame ==
    ASSUME AccountInv, UNCHANGED <<produced, queue, buffer, minted, pending, dropped>>,
           committed \subseteq committed'
    PROVE  AccountInv'
  BY AccountKept, Zenon DEF Queues, Retains, Replays

\* No frame has been produced at the start.
LEMMA AccountInit == Init => AccountInv
  BY ResumeAssumption DEF Init, AccountInv

\* The frame read from the client is queued or dropped.
LEMMA AccountRead ==
    ASSUME LineInv, AccountInv, ClientRead
    PROVE  AccountInv'
<1>1. Tui \in Legs /\ queue[Tui] \in Seq(Nat) /\ produced[Tui] \in Nat
  BY ResumeAssumption, Zenon DEF LineInv, LineOf, InLine
<1>2. PICK x \in Nat : x = produced[Tui] + 1
  <2>1. produced[Tui] + 1 \in Nat
    BY <1>1
  <2> QED
    BY <2>1, Zenon
<1>3. /\ produced'[Tui] = x
      /\ UNCHANGED <<buffer, minted, pending, committed>> /\ dropped \subseteq dropped'
  BY <1>1, <1>2, Zenon DEF ClientRead, LineInv, PerLeg, legVars, linkVars, durable
<1>4. \/ queue' = queue /\ FrameAt(x) \in dropped'
      \/ queue'[Tui] = Append(queue[Tui], x)
  BY <1>1, <1>2, Zenon DEF ClientRead, LineInv, PerLeg, FrameAt
<1>5. \A n : Over(n) => Over(n)'
  BY <1>3, Zenon DEF Over, FrameAt
<1>6. (\A n : Queues(n) => Queues(n)') /\ (Queues(x)' \/ Over(x)')
  <2>1. CASE queue' = queue /\ FrameAt(x) \in dropped'
    BY <2>1, Zenon DEF Queues, Over, FrameAt
  <2>2. CASE queue'[Tui] = Append(queue[Tui], x)
    <3>1. /\ Len(queue[Tui]) \in Nat /\ Len(queue'[Tui]) = Len(queue[Tui]) + 1
          /\ queue'[Tui][Len(queue[Tui]) + 1] = x
          /\ \A i \in 1 .. Len(queue[Tui]) : queue'[Tui][i] = queue[Tui][i]
      BY <1>1, <2>2
    <3>2. Len(queue[Tui]) + 1 \in 1 .. Len(queue'[Tui])
          /\ \A i \in 1 .. Len(queue[Tui]) : i \in 1 .. Len(queue'[Tui])
      BY <3>1
    <3> QED
      BY <3>1, <3>2, Zenon DEF Queues
  <2> QED
    BY <1>4, <2>1, <2>2, Zenon
<1>7. \A n : (Retains(n) => Retains(n)') /\ (Replays(n) => Replays(n)')
  BY <1>3, Zenon DEF Retains, Replays
<1>8. \A n \in 1 .. FramesPerLeg : n <= produced'[Tui] => n <= produced[Tui] \/ n = x
  BY <1>1, <1>3, <1>2, ResumeAssumption
<1> QED
  BY <1>5, <1>6, <1>7, <1>8, Zenon DEF AccountInv

\* The terminal's retained entries point at minted payloads.
LEMMA RetainedMinted ==
    ASSUME LineInv
    PROVE  /\ Tui \in Legs /\ minted[Tui] \in Seq(Nat) /\ sendSeq[Tui] = Len(minted[Tui])
           /\ queue[Tui] \in Seq(Nat) /\ pending \in Seq(Nat)
           /\ buffer[Tui].retained \in Seq(Retained)
           /\ \A i \in 1 .. Len(buffer[Tui].retained) :
                 /\ buffer[Tui].retained[i].seq \in Nat
                 /\ buffer[Tui].retained[i].seq + 1 \in 1 .. Len(minted[Tui])
<1> DEFINE r == buffer[Tui].retained
<1>1. /\ Tui \in Legs /\ minted[Tui] \in Seq(Nat) /\ sendSeq[Tui] = Len(minted[Tui])
      /\ queue[Tui] \in Seq(Nat) /\ pending \in Seq(Nat) /\ KeptBelow(r, sendSeq[Tui])
  BY ResumeAssumption, Zenon DEF LineInv, LineOf, InLine, Waiting
<1>2. r \in Seq(Retained) /\ \A i \in 1 .. Len(r) : r[i] \in Retained /\ r[i].seq < sendSeq[Tui]
  BY <1>1 DEF KeptBelow
<1>3. \A i \in 1 .. Len(r) : r[i].seq \in Nat
  BY <1>2, Zenon DEF Retained
<1>4. Len(minted[Tui]) \in Nat
  BY <1>1
<1> HIDE DEF r
<1>5. \A i \in 1 .. Len(r) : r[i].seq + 1 \in 1 .. Len(minted[Tui])
  BY <1>1, <1>2, <1>3, <1>4
<1> QED
  BY <1>1, <1>2, <1>3, <1>5, Zenon DEF r

\* Minting keeps what is retained, and retains the new frame unless refused.
LEMMA RetainsMint ==
    ASSUME LineInv, NEW x \in Nat, minted' = [minted EXCEPT ![Tui] = Append(@, x)]
    PROVE  /\ buffer' = buffer => \A n : Retains(n) => Retains(n)'
           /\ buffer' = [buffer EXCEPT ![Tui] = Appended(@, sendSeq[Tui], 1, 0)] =>
                 (\A n : Retains(n) => Retains(n)') /\ Retains(x)'
<1> DEFINE r == buffer[Tui].retained
           m == minted[Tui]
<1>1. minted'[Tui] = Append(m, x)
  BY RetainedMinted, Zenon DEF LineInv, PerLeg
<1>2. /\ Len(m) \in Nat /\ \A i \in 1 .. Len(m) : minted'[Tui][i] = m[i]
      /\ minted'[Tui][Len(m) + 1] = x
  BY <1>1, RetainedMinted
<1>3. \A i \in 1 .. Len(r) : minted'[Tui][r[i].seq + 1] = m[r[i].seq + 1]
  BY <1>2, RetainedMinted, Zenon
<1>4. buffer' = buffer => \A n : Retains(n) => Retains(n)'
  BY <1>3, Zenon DEF Retains
<1>5. ASSUME buffer' = [buffer EXCEPT ![Tui] = Appended(@, sendSeq[Tui], 1, 0)]
      PROVE  (\A n : Retains(n) => Retains(n)') /\ Retains(x)'
  <2> DEFINE e == [seq |-> sendSeq[Tui], size |-> 1, enqueuedAt |-> 0]
  <2>1. buffer'[Tui].retained = Append(r, e) /\ e.seq = Len(m)
    BY Zenon, <1>5, RetainedMinted DEF LineInv, PerLeg, Appended
  <2>2. e \in Retained /\ r \in Seq(Retained)
    BY Zenon, <1>2, RetainedMinted DEF Retained
  <2> HIDE DEF e
  <2>3. /\ Len(r) \in Nat /\ Len(Append(r, e)) = Len(r) + 1 /\ Append(r, e)[Len(r) + 1] = e
        /\ \A i \in 1 .. Len(r) : i \in 1 .. Len(Append(r, e)) /\ Append(r, e)[i] = r[i]
    BY <2>2
  <2>4. Len(r) + 1 \in 1 .. Len(Append(r, e))
    BY <2>3
  <2>5. Retains(x)'
    <3>1. minted'[Tui][buffer'[Tui].retained[Len(r) + 1].seq + 1] = x
      BY <1>2, <2>1, <2>3, Zenon
    <3> QED
      BY <2>1, <2>4, <3>1, Zenon DEF Retains
  <2>6. \A n : Retains(n) => Retains(n)'
    BY <1>3, <2>1, <2>3, Zenon DEF Retains
  <2> QED
    BY <2>5, <2>6, Zenon
<1> QED
  BY <1>4, <1>5, Zenon

\* The three places as the sets the model names.
LEMMA HeldFrames ==
    ASSUME LineInv, NEW n
    PROVE  /\ Queues(n) => FrameAt(n) \in Queued(Tui)
           /\ Retains(n) => FrameAt(n) \in Retention(Tui)
           /\ Replays(n) => FrameAt(n) \in Replaying
<1>1. ASSUME NEW i \in 1 .. Len(queue[Tui]), queue[Tui][i] = n PROVE FrameAt(n) \in Queued(Tui)
  <2>1. n \in Range(queue[Tui])
    BY <1>1, RetainedMinted DEF Range
  <2> QED
    BY <2>1, Zenon DEF Queued, FrameAt
<1>2. ASSUME NEW i \in 1 .. Len(buffer[Tui].retained),
             minted[Tui][buffer[Tui].retained[i].seq + 1] = n
      PROVE  FrameAt(n) \in Retention(Tui)
  <2>1. buffer[Tui].retained[i] \in Range(buffer[Tui].retained)
    BY RetainedMinted DEF Range
  <2> QED
    BY <1>2, <2>1, Zenon DEF Retention, FrameAt
<1>3. ASSUME NEW i \in 1 .. Len(pending), pending[i] = n PROVE FrameAt(n) \in Replaying
  <2>1. n \in Range(pending)
    BY <1>3, RetainedMinted DEF Range
  <2> QED
    BY <2>1, Zenon DEF Replaying, FrameAt
<1> QED
  BY Zenon, <1>1, <1>2, <1>3 DEF Queues, Retains, Replays

\* What leaves the head of a sequence.
LEMMA HeadOrTail ==
    ASSUME NEW s \in Seq(Nat), s # <<>>, NEW i \in 1 .. Len(s)
    PROVE  s[i] = Head(s) \/ \E j \in 1 .. Len(Tail(s)) : Tail(s)[j] = s[i]
<1>1. CASE i = 1
  BY <1>1
<1>2. CASE i # 1
  <2>1. i - 1 \in 1 .. Len(Tail(s)) /\ Tail(s)[i - 1] = s[i]
    BY <1>2
  <2> QED
    BY <2>1, Zenon
<1> QED
  BY <1>1, <1>2, Zenon

\* Taking a frame from the queue keeps AccountInv.
LEMMA AccountDrain ==
    ASSUME LineInv, AccountInv, DrainFrame(Tui)
    PROVE  AccountInv'
<1>1. /\ queue[Tui] # <<>> /\ UNCHANGED <<produced, pending, committed>>
  BY Zenon DEF DrainFrame, sourceVars, durable
<1>2. \A n : Replays(n) => Replays(n)'
  BY <1>1, Zenon DEF Replays
<1>3. CASE IsolateLeg(Tui)
  <2>1. dropped' = dropped \cup Queued(Tui) \cup Retention(Tui)
    BY <1>3, Zenon DEF IsolateLeg
  <2>2. \A n \in Nat : Queues(n) => FrameAt(n) \in Queued(Tui)
    BY HeldFrames, Zenon
  <2>3. \A n \in Nat : Retains(n) => FrameAt(n) \in Retention(Tui)
    BY HeldFrames, Zenon
  <2>4. \A n \in Nat : Queues(n) \/ Retains(n) => Over(n)'
    BY <2>1, <2>2, <2>3, Zenon DEF Over, FrameAt
  <2>5. dropped \subseteq dropped'
    BY <2>1, Zenon
  <2> QED
    BY <1>1, <1>2, <2>4, <2>5, AccountKept, Zenon
<1>4. CASE /\ Record(Tui, Head(queue[Tui])) /\ queue' = [queue EXCEPT ![Tui] = Tail(@)]
           /\ dropped' = dropped
  <2>1. PICK x \in Nat : x = Head(queue[Tui])
    BY <1>1, RetainedMinted
  <2>2. /\ minted' = [minted EXCEPT ![Tui] = Append(@, x)]
        /\ buffer' = [buffer EXCEPT ![Tui] = Appended(@, sendSeq[Tui], 1, 0)]
    BY <1>4, <2>1, Zenon DEF Record
  <2>3. (\A n : Retains(n) => Retains(n)') /\ Retains(x)'
    BY <2>2, RetainsMint, Zenon
  <2>4. queue'[Tui] = Tail(queue[Tui])
    BY <1>4, RetainedMinted, Zenon DEF LineInv, PerLeg
  <2>5. \A n \in Nat : Queues(n) => n = x \/ Queues(n)'
    <3>1. ASSUME NEW i \in 1 .. Len(queue[Tui])
          PROVE  queue[Tui][i] = x \/ \E j \in 1 .. Len(queue'[Tui]) : queue'[Tui][j] = queue[Tui][i]
      <4>1. queue[Tui] \in Seq(Nat) /\ queue[Tui] # <<>>
        BY <1>1, RetainedMinted, Zenon
      <4>2. \/ queue[Tui][i] = Head(queue[Tui])
            \/ \E j \in 1 .. Len(Tail(queue[Tui])) : Tail(queue[Tui])[j] = queue[Tui][i]
        BY <4>1, HeadOrTail, Zenon
      <4> QED BY <2>1, <2>4, <4>2, Zenon
    <3> QED
      BY <3>1, Zenon DEF Queues
  <2>6. \A n \in Nat : Queues(n) => Retains(n)' \/ Queues(n)'
    BY <2>3, <2>5, Zenon
  <2> QED
    BY <1>1, <1>2, <1>4, <2>3, <2>6, AccountKept, Zenon
<1> QED
  BY <1>3, <1>4, Zenon DEF DrainFrame

\* Flushing a pending frame keeps AccountInv.
LEMMA AccountFlush ==
    ASSUME LinkInv, LineInv, AccountInv, FlushFrame
    PROVE  AccountInv'
<1>1. /\ pending # <<>> /\ pending' = Tail(pending) /\ UNCHANGED <<produced, queue, committed>>
  BY Zenon DEF FlushFrame, LinkInv, sourceVars, schedVars, durable
<1>2. PICK x \in Nat : x = Head(pending)
  BY <1>1, RetainedMinted
<1>3. minted' = [minted EXCEPT ![Tui] = Append(@, x)]
  BY <1>2, Zenon DEF FlushFrame, Record
<1>4. \A n \in Nat : Replays(n) => n = x \/ Replays(n)'
  BY <1>1, <1>2, RetainedMinted, HeadOrTail, Zenon DEF Replays
<1>5. \A n : Queues(n) => Queues(n)'
  BY <1>1, Zenon DEF Queues
<1>6. CASE Record(Tui, Head(pending)) /\ dropped' = dropped
  <2>1. (\A n : Retains(n) => Retains(n)') /\ Retains(x)'
    BY <1>3, <1>6, RetainsMint, Zenon DEF Record
  <2>2. \A n \in Nat : Replays(n) => Retains(n)' \/ Replays(n)'
    BY <1>4, <2>1, Zenon
  <2> QED
    BY <1>1, <1>5, <1>6, <2>1, <2>2, AccountKept, Zenon
<1>7. CASE buffer' = buffer /\ dropped' = dropped \cup {FrameAt(x)}
  <2>1. (\A n : Retains(n) => Retains(n)') /\ Over(x)'
    BY <1>3, <1>7, RetainsMint, Zenon DEF Over, FrameAt
  <2>2. \A n \in Nat : Replays(n) => Over(n)' \/ Replays(n)'
    BY <1>4, <2>1, Zenon
  <2>3. dropped \subseteq dropped'
    BY <1>7, Zenon
  <2> QED
    BY <1>1, <1>5, <2>1, <2>2, <2>3, AccountKept, Zenon
<1> QED
  BY <1>2, <1>6, <1>7, Zenon DEF FlushFrame, FrameAt

\* The oldest k frames leave the buffer.
LEMMA AccountTrim ==
    ASSUME LineInv, AccountInv, NEW k \in 0 .. Len(buffer[Tui].retained), NEW u,
           buffer' = [buffer EXCEPT ![Tui] = WithoutPrefix(@, k, u)],
           UNCHANGED <<produced, queue, minted, pending, committed>>, dropped \subseteq dropped',
           \A i \in 1 .. k : \A n : n = minted[Tui][buffer[Tui].retained[i].seq + 1] => Over(n)'
    PROVE  AccountInv'
<1> DEFINE r == buffer[Tui].retained
           a == SubSeq(r, k + 1, Len(r))
<1>1. r \in Seq(Retained) /\ Len(r) \in Nat
  <2>1. r \in Seq(Retained)
    BY RetainedMinted, Zenon
  <2>2. Len(r) \in Nat
    BY <2>1
  <2> QED
    BY <2>1, <2>2, Zenon
<1>2. buffer'[Tui].retained = a
  BY RetainedMinted, Zenon DEF LineInv, PerLeg, WithoutPrefix
<1>3. Len(a) = Len(r) - k /\ \A i \in 1 .. Len(a) : a[i] = r[i + k]
  BY <1>1, SuffixShape, Zenon
<1> HIDE DEF a
<1>4. ASSUME NEW i \in 1 .. Len(r), i \notin 1 .. k
      PROVE  i - k \in 1 .. Len(a) /\ a[i - k] = r[i]
  BY <1>1, <1>3, <1>4
<1>5. ASSUME NEW n, NEW i \in 1 .. Len(r), minted[Tui][r[i].seq + 1] = n
      PROVE  Retains(n)' \/ Over(n)'
  <2>1. CASE i \in 1 .. k
    BY <1>5, <2>1, Zenon
  <2>2. CASE i \notin 1 .. k
    <3>1. minted'[Tui][buffer'[Tui].retained[i - k].seq + 1] = n
      BY <1>2, <1>4, <1>5, <2>2, Zenon
    <3> QED
      BY <1>2, <1>4, <2>2, <3>1, Zenon DEF Retains
  <2> QED
    BY <2>1, <2>2, Zenon
<1>6. \A n \in Nat : Retains(n) => Retains(n)' \/ Over(n)'
  BY <1>5, Zenon DEF Retains
<1>7. \A n : (Queues(n) => Queues(n)') /\ (Replays(n) => Replays(n)')
  BY Zenon DEF Queues, Replays
<1> QED
  BY <1>6, <1>7, AccountKept, Zenon

\* Evicting expired frames keeps AccountInv: they are counted as dropped.
LEMMA AccountEvict ==
    ASSUME LineInv, AccountInv, EvictExpiredFrames
    PROVE  AccountInv'
<1> DEFINE r == buffer[Tui].retained
<1>1. PICK k \in 1 .. Len(r) :
         /\ buffer' = [buffer EXCEPT ![Tui] = WithoutPrefix(@, k, @.lastNow)]
         /\ dropped' = dropped \cup {[leg |-> Tui, n |-> minted[Tui][r[i].seq + 1]] : i \in 1 .. k}
  BY Zenon DEF EvictExpiredFrames
<1>2. UNCHANGED <<produced, queue, minted, pending, committed>>
  BY Zenon DEF EvictExpiredFrames, sourceVars, schedVars, linkVars, durable
<1>3. /\ k \in 0 .. Len(r) /\ dropped \subseteq dropped'
      /\ buffer' = [buffer EXCEPT ![Tui] = WithoutPrefix(@, k, buffer[Tui].lastNow)]
  <2>1. k \in 0 .. Len(r)
    OBVIOUS
  <2>2. dropped \subseteq dropped'
    BY <1>1, Zenon
  <2> QED
    BY <1>1, <2>1, <2>2, Zenon
<1>4. ASSUME NEW i \in 1 .. k, NEW n, n = minted[Tui][r[i].seq + 1] PROVE Over(n)'
  BY <1>1, <1>4, Zenon DEF Over, FrameAt
<1> QED
  BY <1>2, <1>3, <1>4, AccountTrim, Zenon

\* An ack trims only frames that are committed.
LEMMA AccountRoute ==
    ASSUME LineInv, AckInv, AccountInv, RouteUnit
    PROVE  AccountInv'
<1> DEFINE r == buffer[Tui].retained
           ack == Head(down).ack
           k == RemovedPrefix(r, Acked(r, ack))
<1>1. UNCHANGED <<produced, queue, minted, pending, committed, dropped>>
  BY Zenon DEF RouteUnit, sourceVars, schedVars, linkVars, durable
<1>2. CASE buffer' = buffer
  BY <1>1, <1>2, AccountSame, Zenon
<1>3. CASE /\ Head(down).type = "ack"
           /\ buffer' = [buffer EXCEPT ![Tui] = TrimToAck(@, ack)]
  <2>1. k \in 0 .. Len(r) /\ 1 .. k \subseteq Acked(r, ack)
    BY PrefixInRange, RetainedMinted, Zenon
  <2>2. buffer' = [buffer EXCEPT ![Tui] = WithoutPrefix(@, k, buffer[Tui].lastNow)]
    BY <1>3, Zenon DEF TrimToAck
  <2>3. Head(down) = down[1] /\ 1 \in 1 .. Len(down)
    <3>1. down \in Seq(Unit) /\ down # <<>>
      BY Zenon DEF RouteUnit, AckInv
    <3> QED
      BY <3>1
  <2>4. \A s \in Nat : s <= ack => Settled(s)
    BY Zenon, <1>3, <2>3 DEF AckInv
  <2> HIDE DEF k
  <2>5. \A i \in 1 .. k : i \in 1 .. Len(r) /\ r[i].seq <= ack
    BY <2>1, Zenon DEF Acked
  <2>6. \A i \in 1 .. k : Settled(r[i].seq)
    BY <2>4, <2>5, RetainedMinted, Zenon
  <2>7. ASSUME NEW i \in 1 .. k, NEW n, n = minted[Tui][r[i].seq + 1] PROVE Over(n)'
    BY <1>1, <2>6, <2>7, Zenon DEF Settled, Over, FrameAt
  <2> QED
    BY <1>1, <2>1, <2>2, <2>7, AccountTrim, Zenon
<1> QED
  BY <1>2, <1>3, Zenon DEF RouteUnit

\* The new epoch replays all that was retained.
LEMMA AccountHandshake ==
    ASSUME LinkInv, LineInv, AccountInv, Handshake
    PROVE  AccountInv'
<1>1. UNCHANGED <<produced, queue, committed, dropped>> /\ pending = <<>> /\ pending' = Unacked
  BY LineHandshake, Zenon DEF Handshake, LinkInv, sourceVars, schedVars, durable
<1>2. /\ Len(Unacked) = Len(buffer[Tui].retained)
      /\ \A i \in 1 .. Len(Unacked) : Unacked[i] = minted[Tui][buffer[Tui].retained[i].seq + 1]
  BY RetainedMinted DEF Unacked
<1>3. \A n : Retains(n) => Replays(n)'
  BY Zenon, <1>1, <1>2 DEF Retains, Replays
<1>4. \A n : (Queues(n) => Queues(n)') /\ ~Replays(n)
  <2>1. \A n : Queues(n) => Queues(n)'
    BY <1>1, Zenon DEF Queues
  <2>2. \A i \in 1 .. Len(pending) : FALSE
    BY <1>1
  <2> QED
    BY <2>1, <2>2, Zenon DEF Replays
<1> QED
  BY <1>1, <1>3, <1>4, AccountKept, Zenon

\* Every step keeps AccountInv.
LEMMA AccountNext ==
    ASSUME Legs = {Tui}, LinkInv, LineInv, AckInv, AccountInv, [Next]_vars
    PROVE  AccountInv'
<1> USE DEF sourceVars, legVars, schedVars, linkVars, durable
<1>1. CASE ClientPassGate \/ ResumeDrain
  BY <1>1, AccountSame, Zenon DEF ClientPassGate, ResumeDrain
<1>2. CASE ClientRead
  BY <1>2, AccountRead, Zenon
<1>3. ~\E l \in Legs : AdapterForward(l)
  BY Zenon DEF AdapterForward
<1>4. ASSUME NEW l \in Legs, DrainFrame(l) PROVE AccountInv'
  BY <1>4, AccountDrain, Zenon
<1>5. CASE EvictExpiredFrames
  BY <1>5, AccountEvict, Zenon
<1>6. CASE Dial \/ ConnectFails \/ PumpEof \/ CloseStale
  BY Zenon, <1>6, AccountSame DEF Dial, ConnectFails, PumpEof, CloseStale
<1>7. CASE Handshake
  BY <1>7, AccountHandshake, Zenon
<1>8. CASE Bind
  BY <1>8, AccountSame, Zenon DEF Bind, BindAndFlush
<1>9. CASE FlushFrame
  BY <1>9, AccountFlush, Zenon
<1>10. CASE RouteUnit
  BY <1>10, AccountRoute, Zenon
<1>11. CASE BootCore \/ CrashCore \/ AnnounceGoingDown \/ Receive \/ EmitAck
  BY <1>11, AccountSame, Zenon DEF BootCore, CrashCore, AnnounceGoingDown, Receive, EmitAck
<1>12. CASE TaskStep
  <2>1. UNCHANGED <<produced, queue, buffer, minted, pending, dropped>>
    BY <1>12, Zenon DEF TaskStep, Admit, Dispatch, CommitAtEdge, coreStepUnchanged
  <2>2. committed \subseteq committed'
    BY <1>12, Zenon DEF TaskStep, Admit, Dispatch, CommitAtEdge
  <2> QED
    BY <2>1, <2>2, AccountSame, Zenon
<1>13. CASE UNCHANGED vars
  BY <1>13, AccountSame, Zenon DEF vars
<1> QED
  BY <1>1, <1>2, <1>3, <1>4, <1>5, <1>6, <1>7, <1>8, <1>9, <1>10, <1>11, <1>12, <1>13, Zenon
     DEF Next, SchedulerStep, LinkStep

\* On a gateway that hosts no adapter, no ack, reset, replay, eviction or
\* restart loses a frame without a log line: daemon.comms.ack counts only
\* committed numbers of this epoch, so _route_unit trims only what is durable,
\* and _peer_handshake captures all the rest before it resets the leg.  (With a
\* second leg on the connection the ack counts both legs' numbers.)
THEOREM NothingLostSilently ==
    ASSUME Legs = {Tui}
    PROVE  Spec => []NoSilentLoss
<1>1. Init => LinkInv /\ LineInv /\ WireInv /\ HandInv /\ AckInv /\ AccountInv
  BY LinkInit, LineInit, TravelInit, AckInit, AccountInit, Zenon
<1>2. LinkInv /\ LineInv /\ WireInv /\ HandInv /\ AckInv /\ AccountInv /\ [Next]_vars
        => (LinkInv /\ LineInv /\ WireInv /\ HandInv /\ AckInv /\ AccountInv)'
  BY LinkNext, LineNext, TravelNext, AckNext, AccountNext, Zenon
<1>3. LineInv /\ AccountInv => NoSilentLoss
  <2> SUFFICES ASSUME LineInv, AccountInv, NEW f \in HandedOver
               PROVE  \/ f \in committed \/ f \in dropped
                      \/ f \in Queued(f.leg) \/ f \in Retention(f.leg) \/ f \in Replaying
    BY Zenon DEF NoSilentLoss
  <2>1. f.leg = Tui /\ f.n \in 1 .. FramesPerLeg /\ f.n <= produced[Tui] /\ f = FrameAt(f.n)
    BY Zenon DEF HandedOver, Frames, FrameAt
  <2> QED
    BY <2>1, HeldFrames, Zenon DEF AccountInv, Over
<1> QED
  BY <1>1, <1>2, <1>3, PTL DEF Spec
=============================================================================
