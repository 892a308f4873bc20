--------------------------- MODULE AdaptersProofs ---------------------------
(***************************************************************************)
(* For every set of adapters and of spawns and every bound, of three of    *)
(* the machines of MCAdapters: a stop leaves no child and the frames of an *)
(* adapter tell one story (AdapterSupervision), a crash is counted at most *)
(* once per incarnation (AdapterStatus), a delivered credential has its    *)
(* row and every pipe is closed once (SpawnCredentials).                   *)
(*                                                                         *)
(* In these proofs a variable goes by its slot. Of the supervisor: s1 pc,  *)
(* s2 machine, s5 restarts, s9 frames. Of the status observer: s1 gateway, *)
(* s2 frames, s3 tasks, s5 folds, s6 current, s7 incidents. Of the         *)
(* credentials: s1 leg, s2 spawn, s3 pending, s4 wire, s5 core,            *)
(* s6 granted, s7 rows, s8 restart.                                        *)
(***************************************************************************)
EXTENDS MCAdapters, FiniteSetTheorems, TLAPS

\* The supervisor's steps, in the order of the code.
LEMMA ChildNext == Supervisor!ChildInv /\ Supervisor!Next => Supervisor!ChildInv'
<1> SUFFICES ASSUME Supervisor!ChildInv, Supervisor!Next PROVE Supervisor!ChildInv'
  BY Zenon
<1> USE DEF Supervisor!ChildInv, Supervisor!Childless, Supervisor!Runs, Supervisor!To,
            Supervisor!Child, Supervisor!End, Supervisor!runVars
<1>1. ASSUME NEW a \in Adapters, Supervisor!Begin(a) PROVE Supervisor!ChildInv'
  BY <1>1, Zenon DEF Supervisor!Begin
<1>2. ASSUME NEW a \in Adapters,
             Supervisor!StopAtTop(a) \/ Supervisor!StopWhileUp(a) \/ Supervisor!StopWhileAwaiting(a)
      PROVE  Supervisor!ChildInv'
  BY <1>2, Zenon DEF Supervisor!StopAtTop, Supervisor!StopWhileUp, Supervisor!StopWhileAwaiting,
              Supervisor!Stop
<1>3. ASSUME NEW a \in Adapters, Supervisor!CoreMissing(a) \/ Supervisor!LegDown(a)
      PROVE  Supervisor!ChildInv'
  BY <1>3, Zenon DEF Supervisor!CoreMissing, Supervisor!LegDown, Supervisor!EnterAwaitingCore
<1>4. ASSUME NEW a \in Adapters, Supervisor!Spawn(a) PROVE Supervisor!ChildInv'
  BY <1>4, Zenon DEF Supervisor!Spawn, Supervisor!StartChild
<1>5. ASSUME NEW a \in Adapters, Supervisor!SpawnFails(a) \/ Supervisor!HandshakeCancelled(a)
      PROVE  Supervisor!ChildInv'
  <2>1. s1[a] # "ended" /\ Supervisor!SpawnLost(a)
    BY <1>5, Zenon DEF Supervisor!SpawnFails, Supervisor!HandshakeCancelled
  <2> QED
    BY <2>1, Zenon DEF Supervisor!SpawnLost, Supervisor!RaiseOut, Supervisor!CountCrash
<1>6. ASSUME NEW a \in Adapters, Supervisor!ChildExits(a) PROVE Supervisor!ChildInv'
  BY <1>6, Zenon DEF Supervisor!ChildExits, Supervisor!CountCrash
<1>7. ASSUME NEW a \in Adapters,
             Supervisor!Granted(a) \/ Supervisor!HandshakeOk(a) \/ Supervisor!EnteredUp(a)
      PROVE  Supervisor!ChildInv'
  BY <1>7, Zenon DEF Supervisor!Granted, Supervisor!HandshakeOk, Supervisor!EnteredUp
<1>8. ASSUME NEW a \in Adapters, Supervisor!BackoffOver(a) \/ Supervisor!CoreIsBack(a)
      PROVE  Supervisor!ChildInv'
  BY <1>8, Zenon DEF Supervisor!BackoffOver, Supervisor!CoreIsBack
<1>9. ASSUME NEW a \in Adapters, Supervisor!ProbeFails(a) PROVE Supervisor!ChildInv'
  BY <1>9, Zenon DEF Supervisor!ProbeFails
<1>10. ASSUME NEW a \in Adapters, Supervisor!Cancelled(a) PROVE Supervisor!ChildInv'
  BY <1>10, Zenon DEF Supervisor!Cancelled
<1>11. ASSUME NEW a \in Adapters, Supervisor!RequestStop(a) PROVE Supervisor!ChildInv'
  BY <1>11, Zenon DEF Supervisor!RequestStop
<1>12. CASE Supervisor!CoreLeg \/ Supervisor!Shutdown
  BY <1>12, Zenon DEF Supervisor!CoreLeg, Supervisor!Shutdown
<1> QED
  BY <1>1, <1>2, <1>3, <1>4, <1>5, <1>6, <1>7, <1>8, <1>9, <1>10, <1>11, <1>12, Zenon
     DEF Supervisor!Next, Supervisor!Supervise

\* The behaviours of the run without their fairness.
LEMMA SafetyPart == Spec => Init /\ [][Next]_vars
BY PTL DEF Spec

\* A task that stopped, tripped its breaker or failed its first spawn has
\* reaped its child, whatever the core, the stop and the shutdown do meanwhile.
THEOREM StopsReapChildren == Spec => []StopLeavesNoChild
<1> DEFINE I == machine = "supervisor" => Supervisor!ChildInv
<1>1. Init => I
  BY DEF Init, Supervisor!Init, Supervisor!ChildInv
<1>2. I /\ [Next]_vars => I'
  <2> SUFFICES ASSUME I, [Next]_vars, machine' = "supervisor" PROVE Supervisor!ChildInv'
    BY Zenon
  <2>1. CASE Next
    BY <2>1, ChildNext, Zenon DEF Next, RunnerStep, SupervisorStep, StatusStep, CredentialStep
  <2>2. CASE UNCHANGED vars
    BY <2>2, Zenon DEF vars, Supervisor!ChildInv
  <2> QED
    BY <2>1, <2>2, Zenon
<1>3. I => StopLeavesNoChild
  BY Zenon DEF StopLeavesNoChild, Supervisor!StopLeavesNoChild, Supervisor!ChildInv
<1> QED
  BY <1>1, <1>2, <1>3, SafetyPart, PTL
-----------------------------------------------------------------------------
(* The frames of an adapter.                                               *)

\* One frame, or a crash and the breaker it trips, at the end of a sequence.
LEMMA EmitOne ==
    ASSUME NEW s \in Seq(Supervisor!Shown), NEW k, NEW r
    PROVE  s \o [i \in 1 .. Len(<<k>>) |-> [kind |-> <<k>>[i], seq |-> r]]
             = Append(s, [kind |-> k, seq |-> r])
<1> DEFINE e == [i \in 1 .. Len(<<k>>) |-> [kind |-> <<k>>[i], seq |-> r]]
<1>1. e = <<[kind |-> k, seq |-> r]>>
  OBVIOUS
<1> HIDE DEF e
<1> QED
  BY <1>1

\* Two frames emitted together are two frames emitted one after the other.
LEMMA EmitTwo ==
    ASSUME NEW s \in Seq(Supervisor!Shown), NEW k, NEW m, NEW r
    PROVE  s \o [i \in 1 .. Len(<<k, m>>) |-> [kind |-> <<k, m>>[i], seq |-> r]]
             = Append(Append(s, [kind |-> k, seq |-> r]), [kind |-> m, seq |-> r])
<1> DEFINE e == [i \in 1 .. Len(<<k, m>>) |-> [kind |-> <<k, m>>[i], seq |-> r]]
<1>1. e = <<[kind |-> k, seq |-> r], [kind |-> m, seq |-> r]>>
  OBVIOUS
<1> HIDE DEF e
<1> QED
  BY <1>1

\* A frame of the incarnation r continues a story that may still go on.
LEMMA StoryGoesOn ==
    ASSUME NEW s \in Seq(Supervisor!Shown), Supervisor!OneStory(s), NEW r \in Nat, NEW stage,
           stage # "ended", \A k \in 1 .. Len(s) : Supervisor!Told(s[k], r, stage),
           NEW f \in Supervisor!Shown, f.seq = r,
           f.kind = "up" => stage \notin {"entering", "up"}
    PROVE  /\ Append(s, f) \in Seq(Supervisor!Shown)
           /\ Supervisor!OneStory(Append(s, f))
<1> DEFINE t == Append(s, f)
<1>1. /\ t \in Seq(Supervisor!Shown) /\ Len(t) = Len(s) + 1 /\ t[Len(s) + 1] = f
      /\ \A k \in 1 .. Len(s) : t[k] = s[k]
      /\ Len(s) \in Nat
  OBVIOUS
<1>2. \A k \in 1 .. Len(s) : /\ s[k].seq \in Nat /\ s[k].seq <= r
                             /\ s[k].kind \notin {"down", "breaker_open"}
                             /\ s[k].kind = "crashed" => s[k].seq < r
                             /\ s[k].kind = "up" => f.kind # "up" \/ s[k].seq < r
  <2>1. \A k \in 1 .. Len(s) : s[k] \in Supervisor!Shown
    OBVIOUS
  <2> QED
    BY <2>1, Zenon DEF Supervisor!Shown, Supervisor!Told
<1>3. f.kind \in {"up", "down", "crashed", "breaker_open"}
  BY Zenon DEF Supervisor!Shown
<1> HIDE DEF t
<1>4. ASSUME NEW j \in 1 .. Len(t), NEW k \in 1 .. Len(t), j < k
      PROVE  /\ t[j].kind \notin {"down", "breaker_open"}
             /\ t[j].seq <= t[k].seq
             /\ t[j].kind = t[k].kind => t[j].seq < t[k].seq
             /\ t[j].kind = "crashed" /\ t[k].kind = "up" => t[j].seq < t[k].seq
  <2>1. j \in 1 .. Len(s) /\ t[j] = s[j]
    BY <1>1, <1>4
  <2>2. CASE k = Len(s) + 1
    <3>1. t[k] = f
      BY <1>1, <2>2, Zenon
    <3>2. s[j].kind \in {"up", "crashed"}
      <4>1. s[j] \in Supervisor!Shown
        BY <2>1
      <4> QED
        BY <1>2, <2>1, <4>1, Zenon DEF Supervisor!Shown
    <3> QED
      BY <1>2, <2>1, <3>1, <3>2, Zenon
  <2>3. CASE k \in 1 .. Len(s)
    BY <1>1, <1>4, <2>1, <2>3, Zenon DEF Supervisor!OneStory
  <2> QED
    BY <1>1, <2>2, <2>3
<1> QED
  BY <1>1, <1>4, Zenon DEF Supervisor!OneStory, t

\* ... and so does the breaker that opens on its crash.
LEMMA StoryTrips ==
    ASSUME NEW s \in Seq(Supervisor!Shown), Supervisor!OneStory(s), NEW r \in Nat, NEW stage,
           stage # "ended", \A k \in 1 .. Len(s) : Supervisor!Told(s[k], r, stage)
    PROVE  /\ Append(Append(s, [kind |-> "crashed", seq |-> r]), [kind |-> "breaker_open", seq |-> r])
                \in Seq(Supervisor!Shown)
           /\ Supervisor!OneStory(Append(Append(s, [kind |-> "crashed", seq |-> r]),
                                         [kind |-> "breaker_open", seq |-> r]))
<1> DEFINE c == [kind |-> "crashed", seq |-> r]
           b == [kind |-> "breaker_open", seq |-> r]
           t == Append(s, c)
<1>1. c \in Supervisor!Shown /\ c.seq = r /\ c.kind = "crashed"
  BY Zenon DEF Supervisor!Shown
<1>2. b \in Supervisor!Shown /\ b.seq = r /\ b.kind = "breaker_open"
  BY Zenon DEF Supervisor!Shown
<1> HIDE DEF c, b
<1>3. t \in Seq(Supervisor!Shown) /\ Supervisor!OneStory(t)
  BY <1>1, StoryGoesOn, Zenon
<1>4. /\ Len(t) = Len(s) + 1 /\ t[Len(s) + 1] = c /\ \A k \in 1 .. Len(s) : t[k] = s[k]
      /\ Len(s) \in Nat
  BY <1>1
<1> DEFINE v == Append(t, b)
<1>5. /\ v \in Seq(Supervisor!Shown) /\ Len(v) = Len(t) + 1 /\ v[Len(t) + 1] = b
      /\ \A k \in 1 .. Len(t) : v[k] = t[k]
      /\ Len(t) \in Nat
  BY <1>2, <1>3
<1>6. \A k \in 1 .. Len(t) : t[k].seq <= r /\ t[k].kind \in {"up", "crashed"}
  <2>1. ASSUME NEW k \in 1 .. Len(s) PROVE s[k].seq <= r /\ s[k].kind \in {"up", "crashed"}
    <3>1. s[k] \in Supervisor!Shown
      OBVIOUS
    <3> QED
      BY <3>1, Zenon DEF Supervisor!Shown, Supervisor!Told
  <2> HIDE DEF t
  <2>2. \A k \in 1 .. Len(t) : k \in 1 .. Len(s) \/ k = Len(s) + 1
    BY <1>4
  <2> QED
    BY <1>1, <1>4, <2>1, <2>2
<1> HIDE DEF t, v
<1>7. ASSUME NEW j \in 1 .. Len(v), NEW k \in 1 .. Len(v), j < k
      PROVE  /\ v[j].kind \notin {"down", "breaker_open"}
             /\ v[j].seq <= v[k].seq
             /\ v[j].kind = v[k].kind => v[j].seq < v[k].seq
             /\ v[j].kind = "crashed" /\ v[k].kind = "up" => v[j].seq < v[k].seq
  <2>1. j \in 1 .. Len(t) /\ v[j] = t[j]
    BY <1>5, <1>7
  <2>2. CASE k = Len(t) + 1
    BY <1>2, <1>5, <1>6, <2>1, <2>2, Zenon
  <2>3. CASE k \in 1 .. Len(t)
    BY <1>3, <1>5, <1>7, <2>1, <2>3, Zenon DEF Supervisor!OneStory
  <2> QED
    BY <1>5, <2>2, <2>3
<1> QED
  BY <1>5, <1>7, Zenon DEF Supervisor!OneStory, v, t, b, c


\* A step of one adapter keeps the stories of the others.
LEMMA StoryOne ==
    ASSUME Supervisor!StoryInv, NEW a \in Adapters, NEW stage, NEW m, NEW r \in Nat, NEW s,
           s1' = [s1 EXCEPT ![a] = stage], s2' = [s2 EXCEPT ![a] = m],
           s5' = [s5 EXCEPT ![a] = r], s9' = [s9 EXCEPT ![a] = s],
           s \in Seq(Supervisor!Shown), Supervisor!OneStory(s),
           \A k \in 1 .. Len(s) : Supervisor!Told(s[k], r, stage),
           m \in Supervisor!States,
           stage \in {"queued", "top"} => m \in {"spawning", "restarting"},
           stage \in {"cred", "shake"} => m = "handshaking",
           stage \in {"entering", "up"} => m = "up",
           stage = "awaiting" => m = "awaiting_core"
    PROVE  Supervisor!StoryInv'
<1>1. /\ s1' = [b \in Adapters |-> s1'[b]] /\ s2' = [b \in Adapters |-> s2'[b]]
      /\ s9' = [b \in Adapters |-> s9'[b]] /\ s5' \in [Adapters -> Nat]
  BY Zenon DEF Supervisor!StoryInv
<1>2. s1'[a] = stage /\ s2'[a] = m /\ s5'[a] = r /\ s9'[a] = s
  BY Zenon DEF Supervisor!StoryInv
<1>3. \A b \in Adapters \ {a} : s1'[b] = s1[b] /\ s2'[b] = s2[b] /\ s5'[b] = s5[b] /\ s9'[b] = s9[b]
  BY Zenon DEF Supervisor!StoryInv
<1>4. Supervisor!Fits(a)' /\ Supervisor!Tells(a)'
  BY <1>2, Zenon DEF Supervisor!Fits, Supervisor!Tells
<1>5. \A b \in Adapters \ {a} : Supervisor!Fits(b)' /\ Supervisor!Tells(b)'
  BY <1>3, Zenon DEF Supervisor!StoryInv, Supervisor!Fits, Supervisor!Tells
<1> QED
  BY <1>1, <1>4, <1>5, Zenon DEF Supervisor!StoryInv

\* The loop moves and sends nothing.
LEMMA StoryMoves ==
    ASSUME Supervisor!StoryInv, NEW a \in Adapters, NEW stage, NEW m,
           s1' = [s1 EXCEPT ![a] = stage], s2' = [s2 EXCEPT ![a] = m], UNCHANGED <<s5, s9>>,
           s1[a] # "ended",
           stage \in {"entering", "up", "ended"} \/ s1[a] \notin {"entering", "up"},
           m \in Supervisor!States,
           stage \in {"queued", "top"} => m \in {"spawning", "restarting"},
           stage \in {"cred", "shake"} => m = "handshaking",
           stage \in {"entering", "up"} => m = "up",
           stage = "awaiting" => m = "awaiting_core"
    PROVE  Supervisor!StoryInv'
<1> DEFINE r == s5[a]
           s == s9[a]
<1>1. s5' = [s5 EXCEPT ![a] = r] /\ s9' = [s9 EXCEPT ![a] = s] /\ r \in Nat
  BY Zenon DEF Supervisor!StoryInv
<1>2. s \in Seq(Supervisor!Shown) /\ Supervisor!OneStory(s)
  BY Zenon DEF Supervisor!StoryInv, Supervisor!Tells
<1>3. \A k \in 1 .. Len(s) : Supervisor!Told(s[k], r, stage)
  BY Zenon DEF Supervisor!StoryInv, Supervisor!Tells, Supervisor!Told
<1> HIDE DEF r, s
<1> QED
  BY <1>1, <1>2, <1>3, StoryOne, Zenon

\* The task ends, with one frame or two behind the others.
LEMMA StoryEnds ==
    ASSUME Supervisor!StoryInv, NEW a \in Adapters, NEW m \in Supervisor!States,
           NEW s \in Seq(Supervisor!Shown), Supervisor!OneStory(s),
           \A k \in 1 .. Len(s) : s[k].seq <= s5[a],
           s1' = [s1 EXCEPT ![a] = "ended"], s2' = [s2 EXCEPT ![a] = m], s5' = s5,
           s9' = [s9 EXCEPT ![a] = s]
    PROVE  Supervisor!StoryInv'
<1> DEFINE r == s5[a]
<1>1. s5' = [s5 EXCEPT ![a] = r] /\ r \in Nat
  BY Zenon DEF Supervisor!StoryInv
<1>2. \A k \in 1 .. Len(s) : Supervisor!Told(s[k], r, "ended")
  BY Zenon DEF Supervisor!Told
<1> HIDE DEF r
<1> QED
  BY <1>1, <1>2, StoryOne, Zenon

\* The events of the lifecycle table the loop feeds it.
LEMMA TableTakes ==
    /\ \A m \in Supervisor!States : Supervisor!Feed(m, "stop_requested") \in Supervisor!States
    /\ Supervisor!Feed("restarting", "cred_unavailable") = "awaiting_core"
    /\ Supervisor!Feed("spawning", "spawn_started") = "handshaking"
    /\ Supervisor!Feed("handshaking", "handshake_ok") = "up"
    /\ Supervisor!Feed("handshaking", "handshake_failed") = "crashed"
    /\ Supervisor!Feed("crashed", "backoff_elapsed") = "restarting"
    /\ Supervisor!Feed("crashed", "breaker_tripped") = "breaker_open"
    /\ Supervisor!Feed("awaiting_core", "cred_available") = "restarting"
    /\ {"spawning", "handshaking", "up", "crashed", "restarting", "awaiting_core",
        "breaker_open"} \subseteq Supervisor!States
BY DEF Supervisor!Feed, Supervisor!States, Supervisor!Terminal, Supervisor!Transitions

\* The story so far of a task that is not at its end.
LEMMA StorySoFar ==
    ASSUME Supervisor!StoryInv, NEW a \in Adapters
    PROVE  /\ s5[a] \in Nat /\ s9[a] \in Seq(Supervisor!Shown) /\ Supervisor!OneStory(s9[a])
           /\ \A k \in 1 .. Len(s9[a]) : Supervisor!Told(s9[a][k], s5[a], s1[a])
BY Zenon DEF Supervisor!StoryInv, Supervisor!Tells

\* A task that is not at its end sends its last frame.
LEMMA StoryLast ==
    ASSUME Supervisor!StoryInv, NEW a \in Adapters, s1[a] # "ended",
           NEW k \in {"down", "crashed", "breaker_open"}, NEW m \in Supervisor!States,
           Supervisor!Emit(a, <<k>>), s1' = [s1 EXCEPT ![a] = "ended"],
           s2' = [s2 EXCEPT ![a] = m], s5' = s5
    PROVE  Supervisor!StoryInv'
<1> DEFINE f == [kind |-> k, seq |-> s5[a]]
           s == Append(s9[a], f)
<1>1. f \in Supervisor!Shown /\ f.seq = s5[a] /\ f.kind # "up" /\ s5[a] \in Nat
  BY StorySoFar, Zenon DEF Supervisor!Shown
<1>2. s9' = [s9 EXCEPT ![a] = s]
  BY StorySoFar, EmitOne, Zenon DEF Supervisor!Emit, Supervisor!Emitted
<1> HIDE DEF f
<1>3. s \in Seq(Supervisor!Shown) /\ Supervisor!OneStory(s)
  BY <1>1, StorySoFar, StoryGoesOn, Zenon
<1>4. \A i \in 1 .. Len(s) : s[i].seq <= s5[a]
  <2>1. \A i \in 1 .. Len(s9[a]) : s9[a][i].seq <= s5[a]
    BY StorySoFar, Zenon DEF Supervisor!Told
  <2>2. \A i \in 1 .. Len(s) : s[i] = IF i \in 1 .. Len(s9[a]) THEN s9[a][i] ELSE f
    BY <1>1, StorySoFar
  <2> HIDE DEF s
  <2> QED
    BY <1>1, <2>1, <2>2
<1> HIDE DEF s
<1> QED
  BY <1>2, <1>3, <1>4, StoryEnds, Zenon

\* A crash: the breaker trips and the task ends, or the next incarnation is due.
LEMMA StoryCrash ==
    ASSUME Supervisor!StoryInv, NEW a \in Adapters, s1[a] # "ended",
           NEW kept, Supervisor!CountCrash(a, kept)
    PROVE  Supervisor!StoryInv'
<1> DEFINE r == s5[a]
           c == [kind |-> "crashed", seq |-> r]
           b == [kind |-> "breaker_open", seq |-> r]
<1>1. /\ c \in Supervisor!Shown /\ c.seq = r /\ c.kind = "crashed" /\ r \in Nat
      /\ b \in Supervisor!Shown /\ b.seq = r
  BY StorySoFar, Zenon DEF Supervisor!Shown
<1>2. \A i \in 1 .. Len(s9[a]) : s9[a][i].seq <= r
  BY StorySoFar, Zenon DEF Supervisor!Told
<1>3. CASE kept + 1 >= Threshold
  <2> DEFINE s == Append(Append(s9[a], c), b)
  <2>1. s9' = [s9 EXCEPT ![a] = s]
    <3>1. Supervisor!Emit(a, <<"crashed", "breaker_open">>)
      BY <1>3, Zenon DEF Supervisor!CountCrash
    <3>2. Supervisor!Emitted(a, <<"crashed", "breaker_open">>) = s
      <4>1. s9[a] \in Seq(Supervisor!Shown)
        BY StorySoFar, Zenon
      <4> QED
        BY <4>1, EmitTwo DEF Supervisor!Emitted
    <3> HIDE DEF s
    <3> QED
      BY <3>1, <3>2, Zenon DEF Supervisor!Emit
  <2>2. s \in Seq(Supervisor!Shown) /\ Supervisor!OneStory(s)
    BY StorySoFar, StoryTrips, Zenon
  <2> HIDE DEF c, b
  <2>3. \A i \in 1 .. Len(s) : s[i] \in {c, b} \/ (i \in 1 .. Len(s9[a]) /\ s[i] = s9[a][i])
    BY <1>1, StorySoFar
  <2> HIDE DEF s
  <2>4. \A i \in 1 .. Len(s) : s[i].seq <= r
    BY <1>1, <1>2, <2>3
  <2>5. /\ s1' = [s1 EXCEPT ![a] = "ended"] /\ s2' = [s2 EXCEPT ![a] = "breaker_open"]
        /\ s5' = s5 /\ "breaker_open" \in Supervisor!States
    BY <1>3, TableTakes, Zenon DEF Supervisor!CountCrash, Supervisor!End, Supervisor!To, Supervisor!Machine
  <2> QED
    BY <2>1, <2>2, <2>4, <2>5, StoryEnds, Zenon
<1>4. CASE ~(kept + 1 >= Threshold)
  <2> DEFINE s == Append(s9[a], c)
             n == r + 1
  <2>1. s9' = [s9 EXCEPT ![a] = s]
    BY <1>4, StorySoFar, EmitOne
       DEF Supervisor!CountCrash, Supervisor!Emit, Supervisor!Emitted
  <2>2. /\ s1' = [s1 EXCEPT ![a] = "backoff"] /\ s2' = [s2 EXCEPT ![a] = "crashed"]
        /\ s5' = [s5 EXCEPT ![a] = n] /\ "crashed" \in Supervisor!States /\ n \in Nat
    BY <1>1, <1>4, TableTakes DEF Supervisor!CountCrash, Supervisor!To, Supervisor!Machine
  <2> HIDE DEF c
  <2>3. s \in Seq(Supervisor!Shown) /\ Supervisor!OneStory(s)
    BY <1>1, StorySoFar, StoryGoesOn, Zenon
  <2>4. \A i \in 1 .. Len(s) : s[i] = c \/ (i \in 1 .. Len(s9[a]) /\ s[i] = s9[a][i])
    BY <1>1, StorySoFar
  <2>5. ASSUME NEW i \in 1 .. Len(s9[a])
        PROVE  s9[a][i].seq < n /\ s9[a][i].kind \notin {"down", "breaker_open"}
    <3>1. s9[a][i] \in Supervisor!Shown
      BY StorySoFar
    <3>2. s9[a][i].seq \in Nat /\ s9[a][i].seq <= r
      BY <1>2, <3>1, Zenon DEF Supervisor!Shown
    <3>3. s9[a][i].kind \notin {"down", "breaker_open"}
      BY StorySoFar, Zenon DEF Supervisor!Told
    <3> QED
      BY <1>1, <3>2, <3>3
  <2> HIDE DEF s
  <2>6. \A i \in 1 .. Len(s) : s[i].seq < n /\ s[i].kind \notin {"down", "breaker_open"}
    <3>1. c.seq < n /\ c.kind \notin {"down", "breaker_open"}
      BY <1>1
    <3> HIDE DEF n
    <3> QED
      BY <2>4, <2>5, <3>1, Zenon
  <2>7. \A i \in 1 .. Len(s) : Supervisor!Told(s[i], n, "backoff")
    <3>1. \A i \in 1 .. Len(s) : s[i].seq \in Nat
      <4>1. \A i \in 1 .. Len(s) : s[i] \in Supervisor!Shown
        BY <2>3
      <4> QED
        BY <4>1, Zenon DEF Supervisor!Shown
    <3> QED
      BY <2>2, <2>6, <3>1 DEF Supervisor!Told
  <2> HIDE DEF n
  <2> QED
    BY <2>1, <2>2, <2>3, <2>7, StoryOne, Zenon
<1> QED
  BY <1>3, <1>4, Zenon


\* One step of the supervisor keeps StoryInv.
LEMMA StoryNext == Supervisor!StoryInv /\ Supervisor!Next => Supervisor!StoryInv'
<1> SUFFICES ASSUME Supervisor!StoryInv, Supervisor!Next PROVE Supervisor!StoryInv'
  BY Zenon
<1> USE DEF Supervisor!Runs, Supervisor!To, Supervisor!Machine, Supervisor!End, Supervisor!runVars
<1>0. \A a \in Adapters :
         /\ s2[a] \in Supervisor!States
         /\ s1[a] \in {"queued", "top"} => s2[a] \in {"spawning", "restarting"}
         /\ s1[a] \in {"cred", "shake"} => s2[a] = "handshaking"
         /\ s1[a] \in {"entering", "up"} => s2[a] = "up"
         /\ s1[a] = "awaiting" => s2[a] = "awaiting_core"
         /\ s2 = [s2 EXCEPT ![a] = s2[a]]
  BY Zenon DEF Supervisor!StoryInv, Supervisor!Fits
<1>1. ASSUME NEW a \in Adapters,
             Supervisor!Begin(a) \/ Supervisor!Granted(a) \/ Supervisor!EnteredUp(a)
      PROVE  Supervisor!StoryInv'
  <2>1. PICK stage \in {"top", "shake", "up"} :
           /\ s1' = [s1 EXCEPT ![a] = stage] /\ s2' = [s2 EXCEPT ![a] = s2[a]]
           /\ UNCHANGED <<s5, s9>>
           /\ s1[a] = CASE stage = "top" -> "queued" [] stage = "shake" -> "cred"
                        [] stage = "up" -> "entering"
    BY <1>0, <1>1, Zenon DEF Supervisor!Begin, Supervisor!Granted, Supervisor!EnteredUp
  <2> QED
    BY <1>0, <2>1, StoryMoves, Zenon
<1>2. ASSUME NEW a \in Adapters,
             Supervisor!StopAtTop(a) \/ Supervisor!StopWhileUp(a) \/ Supervisor!StopWhileAwaiting(a)
      PROVE  Supervisor!StoryInv'
  <2> DEFINE m == Supervisor!Feed(s2[a], "stop_requested")
  <2>1. /\ s1[a] # "ended" /\ Supervisor!Emit(a, <<"down">>) /\ s5' = s5
        /\ s1' = [s1 EXCEPT ![a] = "ended"] /\ s2' = [s2 EXCEPT ![a] = m]
    BY <1>2, Zenon DEF Supervisor!StopAtTop, Supervisor!StopWhileUp, Supervisor!StopWhileAwaiting,
                Supervisor!Stop
  <2>2. m \in Supervisor!States
    BY <1>0, TableTakes, Zenon
  <2> HIDE DEF m
  <2> QED
    BY <2>1, <2>2, StoryLast, Zenon
<1>3. ASSUME NEW a \in Adapters, Supervisor!CoreMissing(a) \/ Supervisor!LegDown(a)
      PROVE  Supervisor!StoryInv'
  <2>1. /\ s1[a] \in {"top", "cred"} /\ UNCHANGED <<s5, s9>>
        /\ s1' = [s1 EXCEPT ![a] = "awaiting"] /\ s2' = [s2 EXCEPT ![a] = "awaiting_core"]
    BY <1>3, TableTakes, Zenon
       DEF Supervisor!CoreMissing, Supervisor!LegDown, Supervisor!EnterAwaitingCore
  <2> QED
    BY <2>1, StoryMoves, TableTakes, Zenon
<1>4. ASSUME NEW a \in Adapters, Supervisor!Spawn(a) PROVE Supervisor!StoryInv'
  <2>1. /\ s1[a] = "top" /\ UNCHANGED <<s5, s9>>
        /\ s1' = [s1 EXCEPT ![a] = "cred"] /\ s2' = [s2 EXCEPT ![a] = "handshaking"]
    BY <1>4, TableTakes, Zenon DEF Supervisor!Spawn, Supervisor!StartChild
  <2> QED
    BY <2>1, StoryMoves, TableTakes, Zenon
<1>5. ASSUME NEW a \in Adapters, Supervisor!SpawnFails(a) \/ Supervisor!HandshakeCancelled(a)
      PROVE  Supervisor!StoryInv'
  <2>1. s1[a] # "ended" /\ Supervisor!SpawnLost(a)
    BY <1>5, Zenon DEF Supervisor!SpawnFails, Supervisor!HandshakeCancelled
  <2>2. CASE Supervisor!RaiseOut(a)
    <3>1. /\ s1' = [s1 EXCEPT ![a] = "ended"] /\ s2' = [s2 EXCEPT ![a] = "crashed"]
          /\ s5' = s5 /\ Supervisor!Emit(a, <<"crashed">>)
      BY <2>2, TableTakes, Zenon DEF Supervisor!RaiseOut
    <3> QED
      BY <2>1, <3>1, StoryLast, TableTakes, Zenon
  <2>3. CASE \E kept \in 0 .. s4[a] : Supervisor!CountCrash(a, kept)
    BY <2>1, <2>3, StoryCrash, Zenon
  <2> QED
    BY <2>1, <2>2, <2>3, Zenon DEF Supervisor!SpawnLost
<1>6. ASSUME NEW a \in Adapters, Supervisor!ChildExits(a) PROVE Supervisor!StoryInv'
  BY <1>6, StoryCrash, Zenon DEF Supervisor!ChildExits
<1>7. ASSUME NEW a \in Adapters, Supervisor!HandshakeOk(a) PROVE Supervisor!StoryInv'
  <2> DEFINE r == s5[a]
             f == [kind |-> "up", seq |-> r]
             s == Append(s9[a], f)
  <2>1. /\ s1[a] = "shake" /\ s1' = [s1 EXCEPT ![a] = "entering"] /\ s2' = [s2 EXCEPT ![a] = "up"]
        /\ s5' = s5 /\ Supervisor!Emit(a, <<"up">>)
    BY <1>0, <1>7, TableTakes, Zenon DEF Supervisor!HandshakeOk
  <2>2. f \in Supervisor!Shown /\ f.seq = r /\ f.kind = "up" /\ r \in Nat
    BY StorySoFar, Zenon DEF Supervisor!Shown
  <2>3. s9' = [s9 EXCEPT ![a] = s] /\ s5' = [s5 EXCEPT ![a] = r]
    BY <2>1, StorySoFar, EmitOne, Zenon DEF Supervisor!Emit, Supervisor!Emitted, Supervisor!StoryInv
  <2> HIDE DEF f
  <2>4. s \in Seq(Supervisor!Shown) /\ Supervisor!OneStory(s)
    <3>1. "shake" # "ended" /\ "shake" \notin {"entering", "up"}
      BY Zenon
    <3> QED
      BY <2>1, <2>2, <3>1, StorySoFar, StoryGoesOn, Zenon
  <2>5. \A i \in 1 .. Len(s) : s[i] = f \/ (i \in 1 .. Len(s9[a]) /\ s[i] = s9[a][i])
    BY <2>2, StorySoFar
  <2>6. \A i \in 1 .. Len(s9[a]) : Supervisor!Told(s9[a][i], r, "entering")
    BY <2>1, StorySoFar, Zenon DEF Supervisor!Told
  <2>7. Supervisor!Told(f, r, "entering")
    BY <2>2 DEF Supervisor!Told
  <2> HIDE DEF s, r
  <2>8. \A i \in 1 .. Len(s) : Supervisor!Told(s[i], r, "entering")
    BY <2>5, <2>6, <2>7, Zenon
  <2> QED
    BY <2>1, <2>2, <2>3, <2>4, <2>8, StoryOne, TableTakes, Zenon
<1>8. ASSUME NEW a \in Adapters, Supervisor!BackoffOver(a) \/ Supervisor!CoreIsBack(a)
      PROVE  Supervisor!StoryInv'
  <2>1. /\ s1[a] \in {"backoff", "awaiting"} /\ UNCHANGED <<s5, s9>>
        /\ s1' = [s1 EXCEPT ![a] = "top"] /\ s2' = [s2 EXCEPT ![a] = "restarting"]
    BY <1>0, <1>8, TableTakes DEF Supervisor!BackoffOver, Supervisor!CoreIsBack
  <2> QED
    BY <2>1, StoryMoves, TableTakes, Zenon
<1>9. ASSUME NEW a \in Adapters, Supervisor!ProbeFails(a) PROVE Supervisor!StoryInv'
  <2>1. CASE UNCHANGED <<s1, s2, s5, s9>>
    BY <2>1, Zenon DEF Supervisor!StoryInv, Supervisor!Fits, Supervisor!Tells
  <2>2. CASE /\ s1[a] = "awaiting" /\ s5' = s5 /\ Supervisor!Emit(a, <<"breaker_open">>)
             /\ s1' = [s1 EXCEPT ![a] = "ended"] /\ s2' = [s2 EXCEPT ![a] = "breaker_open"]
    BY <2>2, StoryLast, TableTakes, Zenon
  <2> QED
    BY <1>9, <2>1, <2>2, TableTakes, Zenon DEF Supervisor!ProbeFails
<1>10. ASSUME NEW a \in Adapters, Supervisor!Cancelled(a) PROVE Supervisor!StoryInv'
  <2>1. /\ s1[a] # "ended" /\ UNCHANGED <<s5, s9>>
        /\ s1' = [s1 EXCEPT ![a] = "ended"] /\ s2' = [s2 EXCEPT ![a] = s2[a]]
    BY <1>0, <1>10, Zenon DEF Supervisor!Cancelled
  <2> QED
    BY <1>0, <2>1, StoryMoves, Zenon
<1>11. ASSUME NEW a \in Adapters, Supervisor!RequestStop(a) PROVE Supervisor!StoryInv'
  BY <1>11, Zenon DEF Supervisor!RequestStop, Supervisor!StoryInv, Supervisor!Fits, Supervisor!Tells
<1>12. CASE Supervisor!CoreLeg \/ Supervisor!Shutdown
  BY <1>12, Zenon DEF Supervisor!CoreLeg, Supervisor!Shutdown, Supervisor!StoryInv, Supervisor!Fits,
               Supervisor!Tells
<1> QED
  BY <1>1, <1>2, <1>3, <1>4, <1>5, <1>6, <1>7, <1>8, <1>9, <1>10, <1>11, <1>12, Zenon
     DEF Supervisor!Next, Supervisor!Supervise

\* The frames the core folds into incidents never contradict each other: one
\* `up` and one `crashed` of an incarnation, in the order of the incarnations,
\* and nothing behind a `down` or an open breaker; and the loop feeds the
\* lifecycle table only events it takes.
THEOREM FramesConsistent == Spec => []FramesTellOneStory
<1> DEFINE I == machine = "supervisor" => Supervisor!StoryInv
<1>1. Init => I
  <2> SUFFICES ASSUME Supervisor!Init PROVE Supervisor!StoryInv
    BY Zenon DEF Init
  <2>1. ASSUME NEW a \in Adapters PROVE Supervisor!Fits(a)
    BY TableTakes, Zenon DEF Supervisor!Init, Supervisor!Fits
  <2>2. ASSUME NEW a \in Adapters PROVE Supervisor!Tells(a)
    <3>1. s9[a] = <<>>
      BY Zenon DEF Supervisor!Init
    <3> QED
      BY <3>1 DEF Supervisor!Tells, Supervisor!OneStory
  <2>3. /\ s1 = [a \in Adapters |-> s1[a]] /\ s2 = [a \in Adapters |-> s2[a]]
        /\ s9 = [a \in Adapters |-> s9[a]] /\ s5 \in [Adapters -> Nat]
    BY Zenon DEF Supervisor!Init
  <2> QED
    BY <2>1, <2>2, <2>3, Zenon DEF Supervisor!StoryInv
<1>2. I /\ [Next]_vars => I'
  <2> SUFFICES ASSUME I, [Next]_vars, machine' = "supervisor" PROVE Supervisor!StoryInv'
    BY Zenon
  <2>1. CASE Next
    BY <2>1, StoryNext, Zenon DEF Next, RunnerStep, SupervisorStep, StatusStep, CredentialStep
  <2>2. CASE UNCHANGED vars
    BY <2>2, Zenon DEF vars, Supervisor!StoryInv, Supervisor!Fits, Supervisor!Tells
  <2> QED
    BY <2>1, <2>2, Zenon
<1>3. I => FramesTellOneStory
  <2>1. "undefined" \notin Supervisor!States
    BY Zenon DEF Supervisor!States, Supervisor!Transitions, Supervisor!Terminal
  <2> QED
    BY <2>1, Zenon DEF FramesTellOneStory, Supervisor!FramesTellOneStory, Supervisor!StoryInv,
       Supervisor!Fits, Supervisor!Tells
<1> QED
  BY <1>1, <1>2, <1>3, SafetyPart, PTL
-----------------------------------------------------------------------------
(* The incidents of an adapter.                                            *)

\* The id of a new incident was never used.
LEMMA FreshIdIsNew ==
    ASSUME NEW n \in Nat, {f.id : f \in s5} = 1 .. n
    PROVE  Status!FreshId = n + 1
<1> DEFINE ids == {f.id : f \in s5}
<1>1. Cardinality(1 .. n) = n
  <2>1. 1 \in Int /\ n \in Int
    OBVIOUS
  <2> QED
    BY <2>1, FS_Interval
<1>2. ids = 1 .. n
  BY Zenon
<1>3. Status!FreshId = Status!Cardinality(ids) + 1
  BY Zenon DEF Status!FreshId
<1> HIDE DEF ids
<1>4. Status!Cardinality(ids) = Cardinality(ids)
  BY Zenon DEF Status!Cardinality, Cardinality
<1> QED
  BY <1>1, <1>2, <1>3, <1>4, Zenon

\* A new incident at the end of the table, the oldest forgotten.
LEMMA TableGrows ==
    ASSUME NEW T, NEW F, NEW c \in Nat, Status!Tabled(T, F, c),
           NEW s \in Nat, c <= s, \A f \in F : f.seq # s,
           NEW e \in [seq : Nat, id : Nat, gw : BOOLEAN, child : BOOLEAN], e.seq = s,
           NEW g, g.seq = s, g.id = e.id
    PROVE  Status!Tabled(Status!Evict(Append(T, e)), F \cup {g}, s)
<1> DEFINE E == [seq : Nat, id : Nat, gw : BOOLEAN, child : BOOLEAN]
           A == Append(T, e)
           H == F \cup {g}
<1>1. T \in Seq(E) /\ e \in E
  BY Zenon DEF Status!Tabled
<1> HIDE DEF E
<1>2. /\ A \in Seq(E) /\ Len(A) = Len(T) + 1 /\ A[Len(T) + 1] = e
      /\ \A i \in 1 .. Len(T) : A[i] = T[i]
      /\ Len(T) \in Nat
  BY <1>1
<1>3. \A i \in 1 .. Len(T) : T[i].seq < s
  <2>1. ASSUME NEW i \in 1 .. Len(T) PROVE T[i].seq < s
    <3>1. PICK f \in F : f.seq = T[i].seq
      BY Zenon DEF Status!Tabled
    <3>2. f.seq \in Nat /\ f.seq <= c /\ f.seq # s
      BY Zenon DEF Status!Tabled
    <3> QED
      BY <3>1, <3>2
  <2> QED
    BY <2>1, Zenon
<1> HIDE DEF A
<1>4. \A i, j \in 1 .. Len(A) : i < j => A[i].seq < A[j].seq
  <2>1. ASSUME NEW i \in 1 .. Len(A), NEW j \in 1 .. Len(A), i < j PROVE A[i].seq < A[j].seq
    <3>1. i \in 1 .. Len(T) /\ A[i] = T[i]
      BY <1>2, <2>1
    <3>2. CASE j = Len(T) + 1
      BY <1>2, <1>3, <3>1, <3>2, Zenon
    <3>3. CASE j \in 1 .. Len(T)
      BY <1>2, <2>1, <3>1, <3>3, Zenon DEF Status!Tabled
    <3> QED
      BY <1>2, <3>2, <3>3
  <2> QED
    BY <2>1, Zenon
<1>5. \A i \in 1 .. Len(A) : \E f \in H : f.seq = A[i].seq /\ f.id = A[i].id
  <2>1. ASSUME NEW i \in 1 .. Len(A) PROVE \E f \in H : f.seq = A[i].seq /\ f.id = A[i].id
    <3>1. CASE i = Len(T) + 1
      BY <1>2, <3>1, Zenon
    <3>2. CASE i \in 1 .. Len(T)
      <4>1. PICK f \in F : f.seq = T[i].seq /\ f.id = T[i].id
        BY <3>2, Zenon DEF Status!Tabled
      <4> QED
        BY <1>2, <3>2, <4>1, Zenon
    <3> QED
      BY <1>2, <3>1, <3>2
  <2> QED
    BY <2>1, Zenon
<1>6. \A f \in H : f.seq \in Nat /\ f.seq <= s
  BY DEF Status!Tabled
<1>7. A[Len(A)].seq = s
  BY <1>2, Zenon
<1>8. CASE ~(Len(A) > MaxIncidents)
  <2>1. Status!Evict(A) = A /\ A # <<>>
    BY <1>2, <1>8 DEF Status!Evict
  <2> QED
    BY <1>2, <1>4, <1>5, <1>6, <1>7, <2>1, ZenonT(60) DEF Status!Tabled, A, E
<1>9. CASE Len(A) > MaxIncidents
  <2> DEFINE B == Tail(A)
  <2>1. Len(A) >= 2
    BY <1>2, <1>9, CapsAssumption
  <2>2. /\ Status!Evict(A) = B /\ B \in Seq(E) /\ Len(B) = Len(A) - 1
        /\ \A i \in 1 .. Len(B) : B[i] = A[i + 1]
    BY <1>2, <1>9, <2>1 DEF Status!Evict
  <2> HIDE DEF B
  <2>3. \A i \in 1 .. Len(B) : i + 1 \in 1 .. Len(A)
    BY <1>2, <2>2
  <2>4. \A i, j \in 1 .. Len(B) : i < j => B[i].seq < B[j].seq
    <3>1. ASSUME NEW i \in 1 .. Len(B), NEW j \in 1 .. Len(B), i < j PROVE B[i].seq < B[j].seq
      <4>1. i + 1 \in 1 .. Len(A) /\ j + 1 \in 1 .. Len(A) /\ i + 1 < j + 1
        BY <2>3, <3>1
      <4> QED
        BY <1>4, <2>2, <4>1, Zenon
    <3> QED
      BY <3>1, Zenon
  <2>5. ASSUME NEW i \in 1 .. Len(B) PROVE \E f \in H : f.seq = B[i].seq /\ f.id = B[i].id
    <3>1. i + 1 \in 1 .. Len(A) /\ B[i] = A[i + 1]
      BY <2>2, <2>3, Zenon
    <3> HIDE DEF H
    <3> QED
      BY <1>5, <3>1, Zenon
  <2>6. B # <<>> /\ B[Len(B)].seq = s
    <3>1. Len(B) \in 1 .. Len(B) /\ Len(B) + 1 = Len(A)
      BY <1>2, <2>1, <2>2
    <3> QED
      BY <1>7, <2>2, <3>1
  <2> QED
    BY <1>6, <2>2, <2>4, <2>5, <2>6, Zenon DEF Status!Tabled, A, E
<1> QED
  BY <1>8, <1>9, Zenon


\* An incident that is known keeps its place and its id.
LEMMA TableKeeps ==
    ASSUME NEW T, NEW F, NEW c \in Nat, Status!Tabled(T, F, c),
           NEW s \in Nat, c <= s, NEW k \in 1 .. Len(T), T[k].seq = s,
           NEW g, g.seq = s, g.id = T[k].id,
           NEW U \in Seq([seq : Nat, id : Nat, gw : BOOLEAN, child : BOOLEAN]), Len(U) = Len(T),
           \A i \in 1 .. Len(T) : U[i].seq = T[i].seq /\ U[i].id = T[i].id
    PROVE  Status!Tabled(U, F \cup {g}, s)
<1> DEFINE H == F \cup {g}
<1>1. Len(T) \in Nat /\ Len(T) >= 1
  BY DEF Status!Tabled
<1>2. \A i, j \in 1 .. Len(U) : i < j => U[i].seq < U[j].seq
  BY Zenon DEF Status!Tabled
<1>3. ASSUME NEW i \in 1 .. Len(U) PROVE \E f \in H : f.seq = U[i].seq /\ f.id = U[i].id
  <2>1. PICK f \in F : f.seq = T[i].seq /\ f.id = T[i].id
    BY Zenon DEF Status!Tabled
  <2> QED
    BY <2>1, Zenon
<1>4. U # <<>> /\ U[Len(U)].seq = T[Len(T)].seq
  BY <1>1
<1>5. s <= T[Len(T)].seq
  <2>1. CASE k = Len(T)
    BY <2>1
  <2>2. CASE k # Len(T)
    <3>1. k < Len(T) /\ Len(T) \in 1 .. Len(T)
      BY <1>1, <2>2
    <3>2. T[k].seq < T[Len(T)].seq /\ T[Len(T)].seq \in Nat
      BY <3>1, Zenon DEF Status!Tabled
    <3> QED
      BY <3>2
  <2> QED
    BY <2>1, <2>2, Zenon
<1>6. ASSUME NEW f \in H
      PROVE  f.seq \in Nat /\ f.seq <= s /\ f.seq <= U[Len(U)].seq
  <2>1. CASE f \in F
    <3>1. f.seq \in Nat /\ f.seq <= c /\ f.seq <= T[Len(T)].seq
      BY <2>1, Zenon DEF Status!Tabled
    <3> QED
      BY <1>4, <3>1
  <2>2. CASE f = g
    BY <1>4, <1>5, <2>2
  <2> QED
    BY <2>1, <2>2, Zenon
<1> HIDE DEF H
<1>7. Status!Tabled(U, H, s)
  BY <1>2, <1>3, <1>4, <1>6, Zenon DEF Status!Tabled
<1> QED
  BY <1>7, Zenon DEF H

\* What the table no longer holds has no fold of this incarnation or a later one.
LEMMA NotFolded ==
    ASSUME NEW T, NEW F, NEW c \in Nat, Status!Tabled(T, F, c),
           NEW s \in Nat, c <= s, \A i \in 1 .. Len(T) : T[i].seq # s
    PROVE  \A f \in F : f.seq # s
<1> SUFFICES ASSUME NEW f \in F, f.seq = s PROVE FALSE
  BY Zenon
<1>1. T # <<>> /\ s <= T[Len(T)].seq /\ T \in Seq([seq : Nat, id : Nat, gw : BOOLEAN, child : BOOLEAN])
  BY Zenon DEF Status!Tabled
<1>2. Len(T) \in 1 .. Len(T)
  BY <1>1
<1>3. PICK h \in F : h.seq = T[Len(T)].seq
  BY <1>2, Zenon DEF Status!Tabled
<1>4. h.seq \in Nat /\ h.seq <= c
  BY Zenon DEF Status!Tabled
<1>5. T[Len(T)].seq = s
  BY <1>1, <1>3, <1>4
<1> QED
  BY <1>2, <1>5, Zenon


\* A fold of the current incarnation or a later one keeps ids and incarnations
\* one to one.
LEMMA FoldOne ==
    ASSUME s6 \in Nat, Status!Tabled(s7, s5, s6), Status!Numbered(s5), Status!OneIncidentPerIncarnation,
           NEW s \in Nat, s6 <= s, NEW gw \in BOOLEAN, NEW child \in BOOLEAN,
           NEW g, g.seq = s, g.id = Status!FoldId(s)
    PROVE  /\ Status!Tabled(Status!FoldTable(s, gw, child), s5 \cup {g}, s)
           /\ Status!Numbered(s5 \cup {g})
           /\ \A f, h \in s5 \cup {g} : f.id = h.id <=> f.seq = h.seq
<1> DEFINE E == [seq : Nat, id : Nat, gw : BOOLEAN, child : BOOLEAN]
<1>1. s7 \in Seq(E) /\ DOMAIN s7 = 1 .. Len(s7)
  BY DEF Status!Tabled
<1>2. PICK n \in Nat : {f.id : f \in s5} = 1 .. n
  BY Zenon DEF Status!Numbered
<1>3. CASE Status!IncidentsOf(s) = {}
  <2>1. \A i \in 1 .. Len(s7) : s7[i].seq # s
    BY <1>1, <1>3, Zenon DEF Status!IncidentsOf
  <2>2. \A f \in s5 : f.seq # s
    BY <2>1, NotFolded
  <2>3. Status!FreshId = n + 1
    BY <1>2, FreshIdIsNew, Zenon
  <2> DEFINE e == Status!Incident(s, Status!FreshId, gw, child)
  <2>4. e \in E /\ e.seq = s /\ e.id = n + 1
    BY <2>3 DEF Status!Incident
  <2>5. Status!FoldTable(s, gw, child) = Status!Evict(Append(s7, e))
    BY <1>3, Zenon DEF Status!FoldTable
  <2>6. g.id = n + 1
    BY <1>3, <2>3, Zenon DEF Status!FoldId
  <2> HIDE DEF e
  <2>7. Status!Tabled(Status!Evict(Append(s7, e)), s5 \cup {g}, s)
    BY <2>2, <2>4, <2>6, TableGrows, Zenon
  <2>8. {f.id : f \in s5 \cup {g}} = 1 .. (n + 1)
    BY <1>2, <2>6
  <2>9. Status!Numbered(s5 \cup {g})
    BY <2>8 DEF Status!Numbered
  <2>10. \A f \in s5 : f.id # g.id
    <3>1. \A f \in s5 : f.id \in 1 .. n
      BY <1>2, Zenon
    <3> QED
      BY <2>6, <3>1
  <2> QED
    BY <2>2, <2>5, <2>7, <2>9, <2>10, Zenon DEF Status!OneIncidentPerIncarnation
<1>4. CASE Status!IncidentsOf(s) # {}
  <2> DEFINE k == CHOOSE i \in Status!IncidentsOf(s) : TRUE
             U == Status!FoldTable(s, gw, child)
  <2>1. k \in Status!IncidentsOf(s)
    BY <1>4, Zenon
  <2>2. k \in 1 .. Len(s7) /\ s7[k].seq = s /\ g.id = s7[k].id
    BY <1>1, <1>4, <2>1, Zenon DEF Status!IncidentsOf, Status!FoldId
  <2>3. U = [i \in 1 .. Len(s7) |->
               IF i \in Status!IncidentsOf(s)
               THEN Status!Incident(s, s7[i].id, gw \/ s7[i].gw, child \/ s7[i].child)
               ELSE s7[i]]
    BY <1>1, <1>4, Zenon DEF Status!FoldTable
  <2> HIDE DEF k, U
  <2>4. ASSUME NEW i \in 1 .. Len(s7)
        PROVE  U[i] \in E /\ U[i].seq = s7[i].seq /\ U[i].id = s7[i].id
    <3>1. s7[i] \in E
      <4> HIDE DEF E
      <4> QED  BY <1>1
    <3>2. CASE i \in Status!IncidentsOf(s)
      <4>1. U[i] = Status!Incident(s, s7[i].id, gw \/ s7[i].gw, child \/ s7[i].child) /\ s7[i].seq = s
        BY <2>3, <3>2, Zenon DEF Status!IncidentsOf
      <4>2. (gw \/ s7[i].gw) \in BOOLEAN /\ (child \/ s7[i].child) \in BOOLEAN
        BY Zenon
      <4> QED
        BY <3>1, <4>1, <4>2 DEF Status!Incident
    <3>3. CASE i \notin Status!IncidentsOf(s)
      BY <2>3, <3>1, <3>3, Zenon
    <3> QED
      BY <3>2, <3>3, Zenon
  <2> HIDE DEF E
  <2>5. U \in Seq(E) /\ Len(U) = Len(s7)
    <3>1. Len(s7) \in Nat /\ U = [i \in 1 .. Len(s7) |-> U[i]]
      BY <1>1, <2>3
    <3>2. U \in [1 .. Len(s7) -> E]
      BY <2>4, <3>1, Zenon
    <3> QED
      BY <3>1, <3>2
  <2>6. Status!Tabled(U, s5 \cup {g}, s)
    BY <2>2, <2>4, <2>5, TableKeeps, Zenon DEF E
  <2>7. PICK h \in s5 : h.seq = s /\ h.id = g.id
    BY <2>2, Zenon DEF Status!Tabled
  <2>8. {f.id : f \in s5 \cup {g}} = {f.id : f \in s5}
    BY <2>7, Zenon
  <2>9. Status!Numbered(s5 \cup {g})
    BY <1>2, <2>8, Zenon DEF Status!Numbered
  <2>10. \A f \in s5 : f.id = g.id <=> f.seq = g.seq
    BY <2>7, Zenon DEF Status!OneIncidentPerIncarnation
  <2> QED
    BY <2>6, <2>9, <2>10, Zenon DEF Status!OneIncidentPerIncarnation, U
<1> QED
  BY <1>3, <1>4, Zenon


\* One step of the observer, of the crash handler or of the gateway.
LEMMA IncidentNext == Status!IncidentInv /\ Status!Next => Status!IncidentInv'
<1> SUFFICES ASSUME Status!IncidentInv, Status!Next PROVE Status!IncidentInv'
  BY Zenon
<1> DEFINE Sent == [kind : Status!Kinds, seq : Nat, fresh : BOOLEAN]
<1>1. /\ s1 \in [kind : Status!Kinds \cup {"end"}, seq : Nat, fresh : BOOLEAN]
      /\ s1.seq \in Nat /\ (s1.kind = "down" => s1.seq = 0) /\ s6 \in Nat /\ s6 <= s1.seq
      /\ s2 \in Seq(Sent) /\ s3 \subseteq 1 .. Len(s2)
      /\ \A n \in 1 .. Len(s2) : s2[n].seq <= s1.seq
  BY Zenon DEF Status!IncidentInv, Status!Ascending
<1>13. \A n \in 1 .. Len(s2) : s2[n].seq \in Nat
  <2>1. \A n \in 1 .. Len(s2) : s2[n] \in Sent
    <3> HIDE DEF Sent
    <3> QED  BY <1>1
  <2> QED
    BY <2>1, Zenon
<1>2. ASSUME NEW kind \in Status!Kinds, NEW seq \in 0 .. MaxSeq,
             Status!Reports(kind, seq), Status!Reported(kind, seq)
      PROVE  /\ s1' \in [kind : Status!Kinds \cup {"end"}, seq : Nat, fresh : BOOLEAN]
             /\ seq \in Nat /\ s1'.seq = seq /\ s1.seq <= seq /\ s1'.kind # "down"
  <2>1. s1' = Status!Frame(IF kind \in {"down", "breaker_open"} THEN "end" ELSE kind, seq, TRUE)
    BY <1>2, Zenon DEF Status!Reported
  <2>2. /\ s1' \in [kind : Status!Kinds \cup {"end"}, seq : Nat, fresh : BOOLEAN]
        /\ s1'.seq = seq /\ s1'.kind # "down" /\ seq \in Nat
    BY <2>1 DEF Status!Frame
  <2>3. s1.seq <= seq
    BY <1>1, <1>2, <2>2 DEF Status!Reports
  <2> QED
    BY <2>2, <2>3, Zenon
<1>3. ASSUME NEW f \in Sent, Status!Deliver(f), s1'.seq \in Nat, s1.seq <= s1'.seq, f.seq <= s1'.seq
      PROVE  /\ s2' \in Seq(Sent) /\ s3' \subseteq 1 .. Len(s2')
             /\ \A n \in 1 .. Len(s2') : s2'[n].seq <= s1'.seq
  <2>1. s2' = Append(s2, f) /\ s3' = s3 \cup {Len(s2) + 1}
    BY <1>3, Zenon DEF Status!Deliver
  <2> HIDE DEF Sent
  <2>2. /\ s2' \in Seq(Sent) /\ Len(s2') = Len(s2) + 1 /\ Len(s2) \in Nat
        /\ \A n \in 1 .. Len(s2) : s2'[n] = s2[n]
        /\ s2'[Len(s2) + 1] = f
    BY <1>1, <2>1
  <2>3. \A n \in 1 .. Len(s2') : s2'[n].seq <= s1'.seq
    <3>1. ASSUME NEW n \in 1 .. Len(s2') PROVE s2'[n].seq <= s1'.seq
      <4>1. CASE n \in 1 .. Len(s2)
        BY <1>1, <1>3, <1>13, <2>2, <4>1
      <4>2. CASE n = Len(s2) + 1
        BY <1>3, <2>2, <4>2, Zenon
      <4> QED
        BY <2>2, <4>1, <4>2
    <3> QED
      BY <3>1, Zenon
  <2>4. s3' \subseteq 1 .. Len(s2')
    <3>1. \A n \in s3 : n \in 1 .. Len(s2')
      BY <1>1, <2>2
    <3>2. Len(s2) + 1 \in 1 .. Len(s2')
      BY <2>2
    <3> QED
      BY <2>1, <3>1, <3>2, Zenon
  <2> QED
    BY <2>2, <2>3, <2>4, Zenon
<1>4. ASSUME NEW at, NEW source, NEW s \in Nat, s6 <= s, NEW duplicate, NEW gw \in BOOLEAN, NEW child \in BOOLEAN,
             s5' = s5 \cup {Status!Fold(at, source, s, duplicate)},
             s7' = Status!FoldTable(s, gw, child), s6' = s
      PROVE  Status!Tabled(s7, s5, s6)' /\ Status!Numbered(s5)' /\ Status!OneIncidentPerIncarnation'
  <2> DEFINE g == Status!Fold(at, source, s, duplicate)
  <2>1. g.seq = s /\ g.id = Status!FoldId(s)
    BY Zenon DEF Status!Fold
  <2>2. s5' = s5 \cup {g}
    BY <1>4, Zenon
  <2> HIDE DEF g
  <2>3. /\ Status!Tabled(s7, s5, s6) /\ Status!Numbered(s5) /\ Status!OneIncidentPerIncarnation
        /\ s6 \in Nat /\ s6 <= s
    BY <1>1, <1>4, Zenon DEF Status!IncidentInv
  <2>4. /\ Status!Tabled(Status!FoldTable(s, gw, child), s5 \cup {g}, s) /\ Status!Numbered(s5 \cup {g})
        /\ \A f, h \in s5 \cup {g} : f.id = h.id <=> f.seq = h.seq
    BY <2>1, <2>3, FoldOne
  <2>5. /\ Status!Tabled(s7', s5', s6') /\ Status!Numbered(s5')
        /\ \A f, h \in s5' : f.id = h.id <=> f.seq = h.seq
    BY <1>4, <2>2, <2>4, Zenon
  <2> QED
    BY <2>5, Zenon DEF Status!Tabled, Status!Numbered, Status!OneIncidentPerIncarnation
<1>5. ASSUME UNCHANGED <<s5, s7>>, s6' \in Nat, s6 <= s6'
      PROVE  Status!Tabled(s7, s5, s6)' /\ Status!Numbered(s5)' /\ Status!OneIncidentPerIncarnation'
  <2>1. Status!Tabled(s7, s5, s6')
    BY <1>1, <1>5 DEF Status!IncidentInv, Status!Tabled
  <2> QED
    BY <1>5, <2>1, Zenon DEF Status!IncidentInv, Status!Tabled, Status!Numbered, Status!OneIncidentPerIncarnation
<1>6. ASSUME s1' \in [kind : Status!Kinds \cup {"end"}, seq : Nat, fresh : BOOLEAN],
             s1'.kind = "down" => s1'.seq = 0, s6' \in Nat, s6' <= s1'.seq,
             s2' \in Seq(Sent), s3' \subseteq 1 .. Len(s2'), \A n \in 1 .. Len(s2') : s2'[n].seq <= s1'.seq,
             Status!Tabled(s7, s5, s6)' /\ Status!Numbered(s5)' /\ Status!OneIncidentPerIncarnation'
      PROVE  Status!IncidentInv'
  BY <1>6, Zenon DEF Status!IncidentInv, Status!Ascending
<1>7. ASSUME NEW kind \in Status!Kinds, NEW seq \in 0 .. MaxSeq, NEW fresh \in BOOLEAN,
             Status!Observe(kind, seq, fresh)
      PROVE  Status!IncidentInv'
  <2> DEFINE f == Status!Frame(kind, seq, fresh \/ kind # "up")
  <2>1. seq \in Nat /\ f \in Sent /\ f.seq = seq
    BY DEF Status!Frame
  <2>2. /\ Status!Reports(kind, seq) /\ Status!Reported(kind, seq) /\ Status!Deliver(f)
        /\ UNCHANGED <<s5, s6, s7>>
    BY <1>7, Zenon DEF Status!Observe
  <2> HIDE DEF f, Sent
  <2>3. s6' \in Nat /\ s6 <= s6' /\ s6' <= s1'.seq
    BY <1>1, <1>2, <2>1, <2>2
  <2> QED
    BY <1>2, <1>3, <1>5, <1>6, <2>1, <2>2, <2>3
<1>8. ASSUME NEW seq \in 0 .. MaxSeq, Status!ObserveCrashed(seq)
      PROVE  Status!IncidentInv'
  <2> DEFINE f == Status!Frame("crashed", seq, TRUE)
  <2>1. "crashed" \in Status!Kinds /\ seq \in Nat /\ f \in Sent /\ f.seq = seq
    BY DEF Status!Frame, Status!Kinds
  <2>2. /\ Status!Reports("crashed", seq) /\ Status!Reported("crashed", seq) /\ Status!Deliver(f)
        /\ s5' = s5 \cup {Status!Fold(Len(s2) + 1, "gateway", seq, Status!GatewayDuplicate(seq))}
        /\ s7' = Status!FoldTable(seq, TRUE, FALSE) /\ s6' = Status!Bigger(s6, seq)
    BY <1>8, Zenon DEF Status!ObserveCrashed, Status!observe_gateway_crash
  <2> HIDE DEF f, Sent
  <2>3. s1.seq <= seq /\ s1'.seq = seq
    BY <1>2, <2>1, <2>2, Zenon
  <2>4. s6 <= seq /\ s6' = seq /\ s6' \in Nat /\ s6' <= s1'.seq
    BY <1>1, <2>1, <2>2, <2>3 DEF Status!Bigger
  <2>5. Status!Tabled(s7, s5, s6)' /\ Status!Numbered(s5)' /\ Status!OneIncidentPerIncarnation'
    BY <1>4, <2>1, <2>2, <2>4, Zenon
  <2> QED
    BY <1>2, <1>3, <1>6, <2>1, <2>2, <2>4, <2>5, Zenon
<1>9. ASSUME NEW kind \in Status!Kinds, NEW seq \in 0 .. MaxSeq, Status!FrameDropped(kind, seq)
      PROVE  Status!IncidentInv'
  <2>1. /\ Status!Reports(kind, seq) /\ Status!Reported(kind, seq)
        /\ UNCHANGED <<s2, s3, s5, s6, s7>>
    BY <1>9, Zenon DEF Status!FrameDropped
  <2>2. s1.seq <= s1'.seq /\ s1'.seq \in Nat
    BY <1>2, <2>1, Zenon
  <2>3. s6' \in Nat /\ s6 <= s6' /\ s6' <= s1'.seq
    BY <1>1, <2>1, <2>2
  <2>4. \A n \in 1 .. Len(s2) : s2[n].seq <= s1'.seq
    BY <1>1, <1>13, <2>2
  <2> HIDE DEF Sent
  <2> QED
    BY <1>1, <1>2, <1>5, <1>6, <2>1, <2>3, <2>4, Zenon
<1>10. CASE Status!ObserveCrashedAgain
  <2>1. /\ s1.kind = "crashed" /\ s1' = s1 /\ Status!Deliver(s1)
        /\ s5' = s5 \cup {Status!Fold(Len(s2) + 1, "gateway", s1.seq, Status!GatewayDuplicate(s1.seq))}
        /\ s7' = Status!FoldTable(s1.seq, TRUE, FALSE) /\ s6' = Status!Bigger(s6, s1.seq)
    BY <1>10, Zenon DEF Status!ObserveCrashedAgain, Status!observe_gateway_crash
  <2>2. s1 \in Sent
    BY <1>1, <2>1, Zenon DEF Status!Kinds
  <2>3. s6' = s1.seq /\ s6' \in Nat /\ s6' <= s1'.seq /\ s1.seq <= s1'.seq /\ s1'.seq \in Nat
    BY <1>1, <2>1 DEF Status!Bigger
  <2>4. Status!Tabled(s7, s5, s6)' /\ Status!Numbered(s5)' /\ Status!OneIncidentPerIncarnation'
    BY <1>1, <1>4, <2>1, <2>3, Zenon
  <2> HIDE DEF Sent
  <2> QED
    BY <1>1, <1>3, <1>6, <2>1, <2>2, <2>3, <2>4, Zenon
<1>11. CASE Status!ChildCrash
  <2> DEFINE f == Status!Frame("child", s6, TRUE)
  <2>1. f \in Sent /\ f.seq = s6
    BY <1>1, Zenon DEF Status!Frame, Status!Kinds
  <2>2. /\ s1' = s1 /\ s6' = s6 /\ Status!Deliver(f)
        /\ s5' = s5 \cup {Status!Fold(Len(s2) + 1, "child", s6, Status!ChildDuplicate(s6))}
        /\ s7' = Status!FoldTable(s6, FALSE, TRUE)
    BY <1>11, Zenon DEF Status!ChildCrash, Status!observe_child_crash
  <2> HIDE DEF f, Sent
  <2>3. s6 <= s6 /\ s6' \in Nat /\ s6' <= s1'.seq /\ s1.seq <= s1'.seq /\ s1'.seq \in Nat
    BY <1>1, <2>2
  <2>4. Status!Tabled(s7, s5, s6)' /\ Status!Numbered(s5)' /\ Status!OneIncidentPerIncarnation'
    BY <1>1, <1>4, <2>2, <2>3, Zenon
  <2> QED
    BY <1>1, <1>3, <1>6, <2>1, <2>2, <2>3, <2>4, Zenon
<1>12. ASSUME NEW n \in s3, Status!Appended(n) \/ Status!AppendFails(n)
       PROVE  Status!IncidentInv'
  <2>1. UNCHANGED <<s1, s2, s5, s7>> /\ s3' \subseteq s3
    BY <1>12, Zenon DEF Status!Appended, Status!AppendFails
  <2>2. s6' = s6 \/ s6' = Status!Bigger(s6, s2[n].seq)
    BY <1>12, Zenon DEF Status!Appended, Status!AppendFails, Status!note_incarnation
  <2>3. s2[n].seq \in Nat /\ s2[n].seq <= s1.seq
    BY <1>1, <1>13, Zenon
  <2>4. s6' \in Nat /\ s6 <= s6' /\ s6' <= s1'.seq
    BY <1>1, <2>1, <2>2, <2>3 DEF Status!Bigger
  <2> HIDE DEF Sent
  <2> QED
    BY <1>1, <1>5, <1>6, <2>1, <2>4, Zenon
<1> QED
  BY <1>7, <1>8, <1>9, <1>10, <1>11, <1>12, Zenon DEF Status!Next

\* Whatever the order of the gateway's and the child's signals and although the
\* table forgets, a crash has one incident id and an id one crash
\* (crash_incident_reconciler.py, _fold).
THEOREM CrashesCountedOnce == Spec => []OneIncidentPerIncarnation
<1> DEFINE I == machine = "status" => Status!IncidentInv
<1>1. Init => I
  <2> SUFFICES ASSUME Init, machine = "status" PROVE Status!IncidentInv
    BY Zenon
  <2>1. Status!Init
    BY Zenon DEF Init
  <2>2. Status!Ascending
    BY <2>1 DEF Status!Init, Status!Ascending, Status!Frame, Status!Kinds
  <2>3. Status!Tabled(s7, s5, s6) /\ Status!OneIncidentPerIncarnation
    BY <2>1 DEF Status!Init, Status!Tabled, Status!OneIncidentPerIncarnation
  <2>4. Status!Numbered(s5)
    <3>1. {f.id : f \in s5} = 1 .. 0
      BY <2>1 DEF Status!Init
    <3> QED
      BY <3>1, Zenon DEF Status!Numbered
  <2> QED
    BY <2>2, <2>3, <2>4, Zenon DEF Status!IncidentInv
<1>2. I /\ [Next]_vars => I'
  <2> SUFFICES ASSUME I, [Next]_vars, machine' = "status" PROVE Status!IncidentInv'
    BY Zenon
  <2>1. CASE Next
    BY <2>1, IncidentNext, Zenon DEF Next, RunnerStep, SupervisorStep, StatusStep, CredentialStep
  <2>2. CASE UNCHANGED vars
    BY <2>2, Zenon DEF vars, Status!IncidentInv, Status!Ascending, Status!Tabled, Status!Numbered,
       Status!OneIncidentPerIncarnation
  <2> QED
    BY <2>1, <2>2, Zenon
<1>3. I => OneIncidentPerIncarnation
  BY Zenon DEF OneIncidentPerIncarnation, Status!IncidentInv
<1> QED
  BY <1>1, <1>2, <1>3, SafetyPart, PTL
-----------------------------------------------------------------------------
(* The delivery of credentials.                                           *)

\* Before the first spawn nothing is granted and no pipe is open.
LEMMA InitHolds == Creds!Init => Creds!CredentialInv
  BY DEF Creds!Init, Creds!CredentialInv, Creds!Typed, Creds!Attempt, Creds!Message,
       Creds!Handling, Creds!RowFirst, Creds!PipeHeld, Creds!Idle, Creds!Stages, Creds!Places,
       Creds!Ended

\* A step that ends a spawn whose pipe is open and withdraws its request.
LEMMA EndKeeps ==
  ASSUME Creds!CredentialInv, NEW s \in Spawns, NEW outcome \in Creds!Ended,
         s2[s].pc \in {"send", "noLeg", "waiting", "got"},
         outcome = "delivered" => Creds!Recorded(s),
         Creds!_close_fd(s, outcome), s3' = s3 \ {s}, UNCHANGED <<s5, s7>>,
         s4' = s4
  PROVE  Creds!CredentialInv'
  <1>1. Creds!Closed(s2[s].fd) = "closed" BY Zenon DEF Creds!CredentialInv, Creds!PipeHeld, Creds!Closed
  <1>2. s2' = [s2 EXCEPT ![s] = [@ EXCEPT !.pc = outcome, !.fd = "closed"]]
    BY <1>1, Zenon DEF Creds!_close_fd, Creds!CredentialInv, Creds!Typed
  <1>3. Creds!Typed'
    BY <1>2, Zenon DEF Creds!Attempt, Creds!CredentialInv, Creds!Typed, Creds!Stages, Creds!Ended
  <1>4. Creds!RowFirst'
    BY <1>2 DEF Creds!CredentialInv, Creds!Typed, Creds!RowFirst, Creds!Recorded, Creds!Row,
         Creds!Ended
  <1>5. Creds!PipeHeld' BY <1>2 DEF Creds!CredentialInv, Creds!Typed, Creds!PipeHeld, Creds!Ended
  <1> QED BY <1>3, <1>4, <1>5, Zenon DEF Creds!CredentialInv

\* The steps of acquire_and_deliver, its ways out included.
LEMMA GatewayKeeps ==
  ASSUME Creds!CredentialInv, NEW s \in Spawns, Creds!Spawning(s)
  PROVE  Creds!CredentialInv'
  <1>1. CASE Creds!acquire_and_deliver(s)
    <2>1. Creds!Typed'
      <3>1. PICK stage \in {"send", "noLeg"} :
              s2' = [s2 EXCEPT ![s] = [@ EXCEPT !.pc = stage, !.fd = "open"]]
        BY <1>1, Zenon DEF Creds!acquire_and_deliver, Creds!CredentialInv, Creds!Typed
      <3>2. s2' \in [Spawns -> Creds!Attempt]
        BY <3>1, Zenon DEF Creds!Attempt, Creds!CredentialInv, Creds!Typed, Creds!Stages
      <3>3. s3' \in SUBSET Spawns /\ UNCHANGED <<s4, s5>>
        BY <1>1, Zenon DEF Creds!acquire_and_deliver, Creds!Core, Creds!CredentialInv, Creds!Typed
      <3> QED BY <3>2, <3>3, Zenon DEF Creds!CredentialInv, Creds!Typed
    <2>2. Creds!RowFirst'
      BY <1>1 DEF Creds!acquire_and_deliver, Creds!Core, Creds!CredentialInv, Creds!Typed,
           Creds!RowFirst, Creds!Recorded, Creds!Row
    <2>3. Creds!PipeHeld'
      BY <1>1 DEF Creds!acquire_and_deliver, Creds!Core, Creds!CredentialInv, Creds!Typed,
           Creds!PipeHeld, Creds!Ended
    <2> QED BY <2>1, <2>2, <2>3, Zenon DEF Creds!CredentialInv
  <1>2. CASE Creds!LegDown(s)
    <2>1. s3' = s3 \ {s} BY <1>2, Zenon DEF Creds!LegDown, Creds!CredentialInv, Creds!PipeHeld
    <2> QED BY <1>2, <2>1, EndKeeps, Zenon DEF Creds!LegDown, Creds!Core, Creds!Ended
  <1>3. CASE Creds!request_spawn_grant(s)
    <2>1. Creds!Request(s) \in Creds!Message
          /\ Creds!Request(s).to = "core"
      BY Zenon DEF Creds!Message, Creds!Attempt, Creds!Request, Creds!CredentialInv, Creds!Typed
    <2>2. CASE s2' = [s2 EXCEPT ![s].pc = "waiting"] /\ s3' = s3
               /\ s4' = s4 \cup {Creds!Request(s)}
      <3>1. Creds!Typed'
        BY <1>3, <2>1, <2>2, Zenon DEF Creds!Attempt, Creds!request_spawn_grant, Creds!Core,
             Creds!CredentialInv, Creds!Typed, Creds!Stages
      <3>2. Creds!RowFirst'
        BY <1>3, <2>1, <2>2 DEF Creds!request_spawn_grant, Creds!Core, Creds!CredentialInv,
             Creds!Typed, Creds!RowFirst, Creds!Recorded, Creds!Row
      <3>3. Creds!PipeHeld'
        BY <1>3, <2>2 DEF Creds!request_spawn_grant, Creds!CredentialInv, Creds!Typed,
             Creds!PipeHeld, Creds!Ended
      <3> QED BY <3>1, <3>2, <3>3, Zenon DEF Creds!CredentialInv
    <2>3. CASE Creds!_close_fd(s, "legDown") /\ s3' = s3 \ {s}
               /\ s4' \in {s4, s4 \cup {Creds!Request(s)}}
      <3>1. Creds!Closed(s2[s].fd) = "closed"
        BY <1>3, Zenon DEF Creds!request_spawn_grant, Creds!CredentialInv, Creds!PipeHeld, Creds!Closed
      <3>2. s2' = [s2 EXCEPT ![s] = [@ EXCEPT !.pc = "legDown", !.fd = "closed"]]
        BY <2>3, <3>1, Zenon DEF Creds!_close_fd, Creds!CredentialInv, Creds!Typed
      <3>3. UNCHANGED <<s5, s7>> BY <1>3, Zenon DEF Creds!request_spawn_grant, Creds!Core
      <3>4. Creds!Typed'
        BY <2>1, <2>3, <3>2, <3>3, Zenon DEF Creds!Attempt, Creds!CredentialInv, Creds!Typed,
             Creds!Stages, Creds!Ended
      <3>5. Creds!RowFirst'
        BY <2>1, <2>3, <3>2, <3>3 DEF Creds!CredentialInv, Creds!Typed, Creds!RowFirst,
             Creds!Recorded, Creds!Row
      <3>6. Creds!PipeHeld'
        BY <2>3, <3>2 DEF Creds!CredentialInv, Creds!Typed, Creds!PipeHeld, Creds!Ended
      <3> QED BY <3>4, <3>5, <3>6, Zenon DEF Creds!CredentialInv
    <2> QED BY <1>3, <2>2, <2>3, Zenon DEF Creds!request_spawn_grant
  <1>4. CASE Creds!Timeout(s) BY <1>4, EndKeeps, Zenon DEF Creds!Timeout, Creds!Core, Creds!Ended
  <1>5. CASE Creds!Cancelled(s) BY <1>5, EndKeeps, Zenon DEF Creds!Cancelled, Creds!Core, Creds!Ended
  <1>6. CASE Creds!_verify_grant(s)
    <2>1. Creds!Recorded(s) BY <1>6, Zenon DEF Creds!_verify_grant, Creds!CredentialInv, Creds!RowFirst
    <2> QED BY <1>6, <2>1, EndKeeps, Zenon DEF Creds!_verify_grant, Creds!Core, Creds!Ended
  <1> QED BY <1>1, <1>2, <1>3, <1>4, <1>5, <1>6, Zenon DEF Creds!Spawning

\* A message taken off the link, on either side.
LEMMA RoutingKeeps ==
  ASSUME Creds!CredentialInv, NEW m \in s4,
       Creds!_route_spawn_grant(m) \/ Creds!_route_spawn_request(m)
  PROVE  Creds!CredentialInv'
  <1> m \in Creds!Message BY Zenon DEF Creds!CredentialInv, Creds!Typed
  <1>1. CASE Creds!_route_spawn_grant(m)
    <2>1. Creds!Recorded(m.id)
      BY <1>1, Zenon DEF Creds!_route_spawn_grant, Creds!CredentialInv, Creds!RowFirst
    <2>2. Creds!Typed'
      BY <1>1 DEF Creds!Message, Creds!Attempt, Creds!_route_spawn_grant, Creds!Core,
           Creds!CredentialInv, Creds!Typed, Creds!Stages
    <2>3. Creds!RowFirst'
      BY <1>1, <2>1, Zenon DEF Creds!_route_spawn_grant, Creds!Core, Creds!CredentialInv, Creds!Typed,
           Creds!RowFirst, Creds!Recorded, Creds!Row
    <2>4. Creds!PipeHeld'
      BY <1>1 DEF Creds!Attempt, Creds!Message, Creds!_route_spawn_grant, Creds!CredentialInv,
           Creds!Typed, Creds!PipeHeld, Creds!Ended
    <2> QED BY <2>2, <2>3, <2>4, Zenon DEF Creds!CredentialInv
  <1>2. CASE Creds!_route_spawn_request(m)
    <2>1. PICK stage \in {"duplicate", "grant", "refuse"} : Creds!Handles(m, stage)
      BY <1>2, Zenon DEF Creds!_route_spawn_request
    <2>2. UNCHANGED <<s2, s3, s7>> BY <1>2, Zenon DEF Creds!_route_spawn_request
    <2>3. Creds!Typed'
      BY <2>1, <2>2, Zenon DEF Creds!Message, Creds!Handling, Creds!Handles, Creds!CredentialInv,
           Creds!Typed, Creds!Places
    <2>4. Creds!RowFirst'
      BY <2>1, <2>2, Zenon DEF Creds!Handles, Creds!CredentialInv, Creds!Typed, Creds!RowFirst,
           Creds!Recorded, Creds!Row
    <2>5. Creds!PipeHeld' BY <2>2, Zenon DEF Creds!CredentialInv, Creds!PipeHeld
    <2> QED BY <2>3, <2>4, <2>5, Zenon DEF Creds!CredentialInv
  <1> QED BY <1>1, <1>2, Zenon

\* The core's handling of a request: the row, then the answer.
LEMMA CoreKeeps ==
  ASSUME Creds!CredentialInv, NEW s \in Spawns,
       Creds!resolve(s) \/ Creds!_refuse(s) \/ Creds!_send_notification(s)
  PROVE  Creds!CredentialInv'
  <1>1. CASE Creds!resolve(s)
    <2>1. UNCHANGED <<s2, s3, s4>> /\ s7 \subseteq s7'
      BY <1>1, Zenon DEF Creds!resolve
    <2>2. \/ s5' = [s5 EXCEPT ![s].at = "answer"] /\ Creds!Recorded(s)'
          \/ s5' = [s5 EXCEPT ![s] = Creds!Idle]
      BY <1>1, Zenon DEF Creds!resolve, Creds!Recorded
    <2>3. Creds!Typed'
      <3>1. CASE s5' = [s5 EXCEPT ![s].at = "answer"]
        BY <1>1, <2>1, <3>1, Zenon DEF Creds!Handling, Creds!resolve, Creds!CredentialInv, Creds!Typed,
             Creds!Places
      <3>2. CASE s5' = [s5 EXCEPT ![s] = Creds!Idle]
        BY <2>1, <3>2, Zenon DEF Creds!Handling, Creds!CredentialInv, Creds!Typed, Creds!Places, Creds!Idle
      <3> QED BY <2>2, <3>1, <3>2, Zenon
    <2>4. Creds!RowFirst'
      BY <2>1, <2>2 DEF Creds!CredentialInv, Creds!Typed, Creds!RowFirst, Creds!Recorded,
           Creds!Row, Creds!Idle
    <2>5. Creds!PipeHeld' BY <2>1, Zenon DEF Creds!CredentialInv, Creds!PipeHeld
    <2> QED BY <2>3, <2>4, <2>5, Zenon DEF Creds!CredentialInv
  <1>2. CASE Creds!_refuse(s)
    <2>1. UNCHANGED <<s2, s3, s4>> /\ s7 \subseteq s7'
          /\ s5' = [s5 EXCEPT ![s] = Creds!Idle]
      BY <1>2, Zenon DEF Creds!_refuse
    <2>2. Creds!Typed'
      BY <2>1, Zenon DEF Creds!Handling, Creds!CredentialInv, Creds!Typed, Creds!Places, Creds!Idle
    <2>3. Creds!RowFirst'
      BY <2>1, Zenon DEF Creds!CredentialInv, Creds!Typed, Creds!RowFirst, Creds!Recorded, Creds!Row,
           Creds!Idle
    <2>4. Creds!PipeHeld' BY <2>1, Zenon DEF Creds!CredentialInv, Creds!PipeHeld
    <2> QED BY <2>2, <2>3, <2>4, Zenon DEF Creds!CredentialInv
  <1>3. CASE Creds!_send_notification(s)
    <2> DEFINE grant == [to |-> "gateway", id |-> s, inc |-> s5[s].inc]
    <2>1. /\ UNCHANGED <<s2, s3, s7>> /\ s5' = [s5 EXCEPT ![s] = Creds!Idle]
          /\ s4' \in {s4, s4 \cup {grant}}
      BY <1>3, Zenon DEF Creds!_send_notification
    <2>2. /\ grant \in Creds!Message
          /\ grant.id = s /\ Creds!Recorded(s)
      BY <1>3, Zenon DEF Creds!Message, Creds!_send_notification, Creds!CredentialInv, Creds!Typed,
           Creds!RowFirst
    <2> HIDE DEF grant
    <2>3. Creds!Typed'
      BY <2>1, <2>2, Zenon DEF Creds!Handling, Creds!CredentialInv, Creds!Typed, Creds!Places, Creds!Idle
    <2>4. Creds!RowFirst'
      BY <2>1, <2>2, Zenon DEF Creds!CredentialInv, Creds!Typed, Creds!RowFirst, Creds!Recorded,
           Creds!Row, Creds!Idle
    <2>5. Creds!PipeHeld' BY <2>1, Zenon DEF Creds!CredentialInv, Creds!PipeHeld
    <2> QED BY <2>3, <2>4, <2>5, Zenon DEF Creds!CredentialInv
  <1> QED BY <1>1, <1>2, <1>3, Zenon

\* The link drops, with or without the core, and comes back.
LEMMA LinkKeeps ==
  ASSUME Creds!CredentialInv, Creds!LinkDrops \/ Creds!LinkReturns
  PROVE  Creds!CredentialInv'
  <1>1. UNCHANGED <<s2, s3, s7>> /\ s4' \subseteq s4
    BY Zenon DEF Creds!LinkDrops, Creds!LinkReturns
  <1>2. \/ s5' = s5 \/ s5' = [s \in Spawns |-> Creds!Idle]
        \/ s5' = [s \in Spawns |-> IF s5[s] = Creds!Idle THEN Creds!Idle
                                                         ELSE [s5[s] EXCEPT !.lost = TRUE]]
    BY Zenon DEF Creds!LinkDrops, Creds!LinkReturns
  <1> DEFINE Kept(s) == s5'[s].at # "idle" =>
                          s5'[s].at = s5[s].at /\ s5'[s].inc = s5[s].inc
  <1>3. s5' \in [Spawns -> Creds!Handling] /\ \A s \in Spawns : Kept(s)
    <2>1. CASE s5' = s5 BY <2>1, Zenon DEF Creds!CredentialInv, Creds!Typed
    <2>2. CASE s5' = [s \in Spawns |-> Creds!Idle]
      BY <2>2, Zenon DEF Creds!Idle, Creds!Handling, Creds!Places
    <2>3. CASE s5' = [s \in Spawns |-> IF s5[s] = Creds!Idle THEN Creds!Idle
                                         ELSE [s5[s] EXCEPT !.lost = TRUE]]
      BY <2>3, Zenon DEF Creds!CredentialInv, Creds!Typed, Creds!Idle, Creds!Handling, Creds!Places
    <2> QED BY <1>2, <2>1, <2>2, <2>3, Zenon
  <1>4. Creds!Typed' BY <1>1, <1>3, Zenon DEF Creds!CredentialInv, Creds!Typed
  <1>5. Creds!RowFirst'
    BY <1>1, <1>3, Zenon DEF Creds!CredentialInv, Creds!Typed, Creds!RowFirst, Creds!Recorded, Creds!Row
  <1>6. Creds!PipeHeld' BY <1>1, Zenon DEF Creds!CredentialInv, Creds!PipeHeld
  <1> QED BY <1>4, <1>5, <1>6, Zenon DEF Creds!CredentialInv

\* One step of the delivery of credentials.
LEMMA CredentialNext == Creds!CredentialInv /\ Creds!Next => Creds!CredentialInv'
  BY GatewayKeeps, RoutingKeeps, CoreKeeps, LinkKeeps, Zenon DEF Creds!Next

\* CredentialInv is an invariant of the behaviours that are of this machine.
LEMMA CredentialsHold == Spec => [](machine = "credentials" => Creds!CredentialInv)
  <1> DEFINE I == machine = "credentials" => Creds!CredentialInv
  <1>1. Init => I
    BY InitHolds, Zenon DEF Init
  <1>2. I /\ [Next]_vars => I'
    <2> SUFFICES ASSUME I, [Next]_vars, machine' = "credentials" PROVE Creds!CredentialInv'
      BY Zenon
    <2>1. CASE Next
      BY <2>1, CredentialNext, Zenon DEF Next, RunnerStep, SupervisorStep, StatusStep, CredentialStep
    <2>2. CASE UNCHANGED vars
      BY <2>2, Zenon DEF vars, Creds!CredentialInv, Creds!Typed, Creds!RowFirst, Creds!Recorded, Creds!Row,
                  Creds!PipeHeld
    <2> QED BY <2>1, <2>2, Zenon
  <1> QED BY <1>1, <1>2, SafetyPart, PTL

\* A child that got its credential has the core's row of this grant: a replayed answer, an
\* answer across a reconnect and a core that restarted included (resolve appends the row
\* before it returns a grant, _route_spawn_grant hands on only what was sent).
THEOREM DeliveriesAudited == Spec => []DeliveredIsAudited
  <1>1. (machine = "credentials" => Creds!CredentialInv) => DeliveredIsAudited
    BY Zenon DEF Creds!CredentialInv, Creds!RowFirst, Creds!Recorded, Creds!DeliveredIsAudited,
           DeliveredIsAudited
  <1> QED BY CredentialsHold, <1>1, PTL

\* acquire_and_deliver closes the write end of the child's pipe exactly once on every way
\* out, and leaves no future behind.
THEOREM PipesClosedOnce == Spec => [](machine = "credentials" => Creds!EndsClean)
  <1>1. Creds!CredentialInv => Creds!EndsClean
    BY Zenon DEF Creds!CredentialInv, Creds!Typed, Creds!Attempt, Creds!PipeHeld, Creds!EndsClean,
         Creds!Ended
  <1> QED BY CredentialsHold, <1>1, PTL
=============================================================================
