------------------------- MODULE TurnServicesProofs -------------------------
(***************************************************************************)
(* Proofs about what surrounds a turn, for every set of subscribers, users *)
(* and commands: the hook chains that clear a write of the episodic store, *)
(* the cache its sender's identity is served from, and the session file.   *)
(***************************************************************************)
EXTENDS HookDispatch, Identity, FiniteSetTheorems, WellFoundedInduction, TLAPS

USE SMTT(30)
-----------------------------------------------------------------------------
(* The hook dispatcher: what is flushed was cleared by the fail-closed stage. *)

\* A non-empty set of naturals has a least element.
LEMMA LeastNatural ==
    ASSUME NEW T, T \subseteq Nat, T # {}
    PROVE  \E d \in T : \A y \in T : d <= y
<1> DEFINE R == OpToRel(<, Nat)
<1>1. IsWellFoundedOn(R, Nat)
  BY NatLessThanWellFounded, Zenon
<1>2. R = {p \in Nat \X Nat : p[1] < p[2]}
  BY Zenon DEF OpToRel
<1> HIDE DEF R
<1>3. PICK d \in T : \A y \in T : ~(<<y, d>> \in R)
  BY <1>1, WFMin, Zenon
<1>4. ASSUME NEW y \in T, y < d PROVE FALSE
  <2> DEFINE p == <<y, d>>
  <2>1. p \in Nat \X Nat /\ p[1] < p[2]
    BY <1>4, Zenon
  <2> HIDE DEF p
  <2>2. p \in R
    BY <2>1, <1>2, Zenon
  <2> QED
    BY <1>3, <2>2, Zenon DEF p
<1>5. \A y \in T : d <= y
  BY <1>4
<1> QED
  BY <1>5, Zenon

\* Every subscriber has one of the three tiers.
LEMMA Ranks == \A s \in Hooks : Rank(s) \in 0 .. 2
  BY HookAssumption DEF Rank, TierRank, OPEN_TIERS

\* The place of a new subscriber: after those of its tier and of the more trusted ones.
LEMMA Place ==
    ASSUME NEW h \in Points, NEW b \in Seq(Hooks), Sorted(b, h), NEW s \in Hooks
    PROVE  LET at == Cardinality({i \in DOMAIN b : ~ BeforeInChain(s, b[i])}) IN
           /\ at \in 0 .. Len(b)
           /\ \A i \in 1 .. Len(b) : (i <= at) <=> Rank(b[i]) <= Rank(s)
<1> DEFINE J == {i \in DOMAIN b : ~ BeforeInChain(s, b[i])}
           T == {i \in 1 .. Len(b) + 1 : i \notin J}
<1>1. DOMAIN b = 1 .. Len(b) /\ Len(b) \in Nat
  OBVIOUS
<1>2. \A i \in 1 .. Len(b) : b[i] \in Hooks /\ Rank(b[i]) \in 0 .. 2 /\ Rank(s) \in 0 .. 2
  BY <1>1, Ranks
<1>3. \A i \in 1 .. Len(b) : i \in J <=> Rank(b[i]) <= Rank(s)
  BY <1>1, <1>2 DEF BeforeInChain, Rank
<1>4. T \subseteq Nat /\ T # {}
  <2>1. Len(b) + 1 \in T
    BY <1>1
  <2> QED BY <2>1
<1>5. PICK d \in T : \A y \in T : d <= y
  BY <1>4, LeastNatural, Zenon
<1>6. d \in 1 .. Len(b) + 1 /\ \A i \in 1 .. Len(b) : i < d => i \in J
  BY <1>1, <1>5
<1>7. \A i \in 1 .. Len(b) : i >= d => i \notin J
  <2> SUFFICES ASSUME NEW i \in 1 .. Len(b), i >= d, i \in J PROVE FALSE
    BY Zenon
  <2>1. d \in 1 .. Len(b) /\ d \notin J
    BY <1>5, <1>6
  <2>2. d < i /\ Rank(b[d]) <= Rank(b[i])
    BY <1>1, <2>1, <1>6 DEF Sorted
  <2>3. Rank(b[i]) <= Rank(s) /\ ~(Rank(b[d]) <= Rank(s))
    BY <1>3, <2>1, Zenon
  <2> QED BY <1>2, <2>1, <2>2, <2>3
<1>8. J = 1 .. d - 1
  <2>1. J \subseteq 1 .. Len(b)
    BY <1>1, Zenon
  <2>2. d - 1 \in Int /\ \A i \in 1 .. d - 1 : i \in 1 .. Len(b) /\ i < d
    BY <1>1, <1>6
  <2>3. \A i \in 1 .. Len(b) : i < d => i \in 1 .. d - 1
    BY <1>1, <1>6
  <2>4. \A i \in J : i \in 1 .. Len(b) /\ i < d
    <3> SUFFICES ASSUME NEW i \in J PROVE i < d
      BY <2>1, Zenon
    <3>1. i \in 1 .. Len(b) /\ ~(i >= d)
      BY <1>7, <2>1, Zenon
    <3> QED BY <1>1, <1>6, <3>1
  <2> HIDE DEF J, T
  <2> QED BY <1>6, <2>2, <2>3, <2>4, Zenon
<1>9. Cardinality(J) = d - 1
  <2>1. 1 \in Int /\ d - 1 \in Int /\ d - 1 >= 0
    BY <1>1, <1>6
  <2>2. Cardinality(1 .. d - 1) = IF 1 > d - 1 THEN 0 ELSE d - 1 - 1 + 1
    BY <2>1, FS_Interval, Zenon
  <2> HIDE DEF J, T
  <2> QED BY <1>8, <2>1, <2>2
<1> HIDE DEF J
<1>10. /\ Cardinality(J) \in 0 .. Len(b)
       /\ \A i \in 1 .. Len(b) : (i <= Cardinality(J)) <=> Rank(b[i]) <= Rank(s)
  BY <1>1, <1>3, <1>6, <1>8, <1>9
<1> QED BY <1>10, Zenon DEF J

\* register inserts a subscriber where the tier order wants it.
LEMMA Inserted ==
    ASSUME NEW h \in Points, NEW b \in Seq(Hooks), Sorted(b, h), NEW s \in Hooks,
           s.point = h,
           \A i \in DOMAIN b : b[i] # s
    PROVE  /\ Insert(b, s) \in Seq(Hooks) /\ Sorted(Insert(b, s), h)
           /\ \A i \in DOMAIN Insert(b, s) :
                 Insert(b, s)[i] = s \/ \E j \in DOMAIN b : Insert(b, s)[i] = b[j]
<1> DEFINE at == Cardinality({i \in DOMAIN b : ~ BeforeInChain(s, b[i])})
           l == SubSeq(b, 1, at)
           r == SubSeq(b, at + 1, Len(b))
           n == Len(b)
           w == Insert(b, s)
<1>1. at \in 0 .. n /\ (\A i \in 1 .. n : (i <= at) <=> Rank(b[i]) <= Rank(s))
      /\ n \in Nat
      /\ DOMAIN b = 1 .. n
  <2>1. n \in Nat /\ DOMAIN b = 1 .. n
    OBVIOUS
  <2> HIDE DEF n
  <2> QED BY <2>1, Place, Zenon DEF n
<1>2. w = l \o <<s>> \o r
  BY Zenon DEF Insert
<1> HIDE DEF at, w
<1>a. at \in 0 .. Len(b)
  BY <1>1, Zenon
<1>3. l \in Seq(Hooks) /\ Len(l) = at /\ \A i \in 1 .. at : l[i] = b[i]
  BY <1>1
<1>4. r \in Seq(Hooks) /\ Len(r) = n - at /\ \A i \in 1 .. n - at : r[i] = b[at + i]
  BY <1>a
<1> HIDE DEF l, r, n
<1>5. /\ w \in Seq(Hooks) /\ Len(w) = n + 1
      /\ \A i \in 1 .. n + 1 : w[i] = IF i <= at THEN b[i] ELSE IF i = at + 1 THEN s ELSE b[i - 1]
  <2> DEFINE m == l \o <<s>>
  <2>1. m \in Seq(Hooks) /\ Len(m) = at + 1 /\ (\A i \in 1 .. at : m[i] = b[i]) /\ m[at + 1] = s
    BY <1>1, <1>3
  <2>2. w = m \o r
    BY <1>2, Zenon
  <2> HIDE DEF m
  <2>3. w \in Seq(Hooks) /\ Len(w) = n + 1
    BY <1>1, <1>4, <2>1, <2>2
  <2>4. \A i \in 1 .. n + 1 : w[i] = IF i <= at + 1 THEN m[i] ELSE r[i - (at + 1)]
    BY <1>1, <1>4, <2>1, <2>2
  <2>5. \A i \in 1 .. n + 1 : i > at + 1 => r[i - (at + 1)] = b[i - 1]
    <3> SUFFICES ASSUME NEW i \in 1 .. n + 1, i > at + 1 PROVE r[i - (at + 1)] = b[i - 1]
      BY Zenon
    <3>1. i - (at + 1) \in 1 .. n - at /\ at + (i - (at + 1)) = i - 1
      BY <1>1
    <3> QED BY <1>4, <3>1, Zenon
  <2>6. \A i \in 1 .. n + 1 : i <= at + 1 => m[i] = IF i <= at THEN b[i] ELSE s
    BY <1>1, <2>1
  <2>7. ASSUME NEW i \in 1 .. n + 1
        PROVE  w[i] = IF i <= at THEN b[i] ELSE IF i = at + 1 THEN s ELSE b[i - 1]
    BY <1>1, <2>4, <2>5, <2>6
  <2> QED BY <2>3, <2>7, Zenon
<1>6. DOMAIN w = 1 .. n + 1
  BY <1>5
<1>7. \A i \in 1 .. n + 1 : w[i] = s \/ \E j \in DOMAIN b : w[i] = b[j]
  <2> SUFFICES ASSUME NEW i \in 1 .. n + 1, w[i] # s PROVE \E j \in DOMAIN b : w[i] = b[j]
    BY Zenon
  <2>1. CASE i <= at
    <3>1. i \in 1 .. n /\ w[i] = b[i]
      BY <1>1, <1>5, <2>1
    <3> QED BY <1>1, <3>1, Zenon
  <2>2. CASE ~(i <= at)
    <3>1. i - 1 \in 1 .. n /\ w[i] = b[i - 1]
      BY <1>1, <1>5, <2>2
    <3> QED BY <1>1, <3>1, Zenon
  <2> QED BY <2>1, <2>2, Zenon
<1>8. \A i \in 1 .. n : b[i] \in Hooks /\ b[i].point = h /\ Rank(b[i]) \in 0 .. 2
  BY <1>1, Ranks, Zenon DEF Sorted
<1>9. \A i, j \in 1 .. n : i < j => b[i] # b[j] /\ Rank(b[i]) <= Rank(b[j])
  BY <1>1, Zenon DEF Sorted
<1>10. \A i, j \in 1 .. n + 1 : i < j => w[i] # w[j] /\ Rank(w[i]) <= Rank(w[j])
  <2> SUFFICES ASSUME NEW i \in 1 .. n + 1, NEW j \in 1 .. n + 1, i < j
               PROVE  w[i] # w[j] /\ Rank(w[i]) <= Rank(w[j])
    BY Zenon
  <2>0. Rank(s) \in 0 .. 2
    BY Ranks, Zenon
  <2>1. CASE j <= at
    <3>1. i \in 1 .. n /\ j \in 1 .. n /\ w[i] = b[i] /\ w[j] = b[j]
      BY <1>1, <1>5, <2>1
    <3> QED BY <1>9, <3>1, Zenon
  <2>2. CASE j = at + 1
    <3>1. i \in 1 .. n /\ i <= at /\ w[i] = b[i] /\ w[j] = s
      BY <1>1, <1>5, <2>2
    <3> QED BY <1>1, <3>1, Zenon
  <2>3. CASE i = at + 1
    <3>1. j - 1 \in 1 .. n /\ ~(j - 1 <= at) /\ w[i] = s /\ w[j] = b[j - 1]
      BY <1>1, <1>5, <2>3
    <3>2. ~(Rank(b[j - 1]) <= Rank(s))
      BY <1>1, <3>1, Zenon
    <3> QED BY <1>1, <1>8, <2>0, <3>1, <3>2
  <2>4. CASE i <= at /\ j > at + 1
    <3>1. i \in 1 .. n /\ j - 1 \in 1 .. n /\ i < j - 1 /\ w[i] = b[i] /\ w[j] = b[j - 1]
      BY <1>1, <1>5, <2>4
    <3> QED BY <1>9, <3>1, Zenon
  <2>5. CASE i > at + 1
    <3>1. i - 1 \in 1 .. n /\ j - 1 \in 1 .. n /\ i - 1 < j - 1 /\ w[i] = b[i - 1]
          /\ w[j] = b[j - 1]
      BY <1>1, <1>5, <2>5
    <3> QED BY <1>9, <3>1, Zenon
  <2> QED BY <1>1, <2>1, <2>2, <2>3, <2>4, <2>5
<1>11. \A i \in 1 .. n + 1 : w[i] \in Hooks /\ w[i].point = h
  BY <1>1, <1>7, <1>8, Zenon
<1>12. Sorted(w, h)
  BY <1>6, <1>10, <1>11, Zenon DEF Sorted
<1> QED BY <1>5, <1>6, <1>7, <1>12, Zenon DEF w

\* The buckets start empty.
LEMMA RegInit == HookInit => RegInv
  BY DEF HookInit, RegInv, Sorted

\* Registration, and nothing else, changes the buckets, and keeps them in tier order.
LEMMA RegNext == RegInv /\ [HookNext]_hookVars => RegInv'
<1> SUFFICES ASSUME RegInv, [HookNext]_hookVars PROVE RegInv'
  BY Zenon
<1>1. ASSUME NEW s \in Hooks, register(s) PROVE RegInv'
  <2>1. untried' = untried \ {s} /\ s \in untried
    BY <1>1, Zenon DEF register
  <2>2. CASE buckets' = buckets
    BY <2>1, <2>2, Zenon DEF RegInv
  <2>3. CASE buckets' = [buckets EXCEPT ![s.point] = Insert(@, s)]
    <3> DEFINE b == buckets[s.point]
               w == Insert(b, s)
    <3>1. s.point \in Points /\ b \in Seq(Hooks) /\ Sorted(b, s.point)
          /\ \A i \in DOMAIN b : b[i] # s /\ b[i] \notin untried
      <4>1. s.point \in Points
        BY HookAssumption, Zenon
      <4>2. b \in Seq(Hooks)
        BY <4>1, Zenon DEF RegInv
      <4>3. Sorted(b, s.point) /\ \A i \in DOMAIN b : b[i] \notin untried
        BY <4>1, Zenon DEF RegInv
      <4> HIDE DEF b
      <4> QED BY <2>1, <4>1, <4>2, <4>3, Zenon
    <3>2. /\ w \in Seq(Hooks) /\ Sorted(w, s.point)
          /\ \A i \in DOMAIN w : w[i] = s \/ \E j \in DOMAIN b : w[i] = b[j]
      <4> HIDE DEF b
      <4> QED BY <3>1, Inserted, Zenon
    <3>3. buckets' = [buckets EXCEPT ![s.point] = w]
      BY <2>3, Zenon
    <3> HIDE DEF w, b
    <3>4. \A i \in DOMAIN w : w[i] \notin untried'
      BY <2>1, <3>1, <3>2, Zenon
    <3>5. buckets' \in [Points -> Seq(Hooks)] /\ buckets'[s.point] = w
          /\ \A h \in Points : h # s.point => buckets'[h] = buckets[h]
      BY <3>1, <3>2, <3>3, Zenon DEF RegInv
    <3> QED BY <2>1, <3>2, <3>4, <3>5, Zenon DEF RegInv
  <2> QED BY <1>1, <2>2, <2>3, Zenon DEF register
<1>2. CASE reset
  BY <1>2 DEF reset, RegInv, Sorted
<1>3. CASE UNCHANGED <<untried, buckets>>
  BY <1>3, Zenon DEF RegInv
<1>4. CASE UNCHANGED registryVars
  BY <1>3, <1>4, Zenon DEF registryVars
<1>5. CASE \/ declare_hookpoints \/ _drive \/ _driveClaims \/ Joined
              \/ Fallback \/ RegisterRaises
           \/ UNCHANGED hookVars
  BY <1>3, <1>5, Zenon DEF declare_hookpoints, _drive, _driveClaims, Joined,
       Fallback, RegisterRaises, hookVars
<1>6. CASE \/ SubscriberReturns \/ SubscriberRefuses \/ SubscriberRaises
              \/ SubscriberReenters
           \/ SinkWrites \/ SinkFails \/ ChainTimeout \/ ChainCancelled
           \/ record \/ Validate \/ EnterBody \/ _persist \/ Finish
  <2>1. UNCHANGED registryVars
    BY <1>6, Zenon DEF SubscriberReturns, SubscriberRefuses, SubscriberRaises,
         SubscriberReenters,
       SinkWrites, SinkFails, ChainTimeout, ChainCancelled, record,
       Validate, EnterBody, _persist,
       Finish
  <2> QED BY <1>4, <2>1, Zenon
<1> QED BY <1>1, <1>2, <1>5, <1>6, Zenon DEF HookNext

\* A fault of the running subscriber leaves what others built without one.
LEMMA Faulted ==
    ASSUME InChain, Running, faults' = faults \/ (chain.pc = "pending" /\ \E x : Fault(x)),
           flow'.point = flow.point
    PROVE  /\ FaultInv'
           /\ \A c \in flushed : Unfaulted(c, faults') /\ Cleared(faults')
           /\ Early => /\ Unfaulted(flow.ctx, faults') /\ Unfaulted(chain.ctx, faults')
                       /\ \A k \in DOMAIN chain.subs : k > 1 =>
                             \A f \in faults' : f[2] # chain.subs[k].fn
<1>1. CASE faults' = faults
  <2>1. FaultInv'
    BY <1>1, Zenon DEF InChain, FaultInv, Early, Reached
  <2>2. \A c \in flushed : Unfaulted(c, faults') /\ Cleared(faults')
    BY <1>1, Zenon DEF InChain, FlowInv
  <2> QED BY <1>1, <2>1, <2>2, Zenon DEF InChain, FlowInv, Running
<1>2. ASSUME chain.pc = "pending", NEW x, Fault(x)
      PROVE  /\ FaultInv'
             /\ \A c \in flushed : Unfaulted(c, faults') /\ Cleared(faults')
             /\ Early => /\ Unfaulted(flow.ctx, faults') /\ Unfaulted(chain.ctx, faults')
                         /\ \A k \in DOMAIN chain.subs : k > 1 =>
                               \A f \in faults' : f[2] # chain.subs[k].fn
  <2> DEFINE new == <<flow.point, Cur.fn, x>>
  <2>1. faults' = faults \cup {new} /\ new[1] = flow.point /\ new[2] = Cur.fn
    BY <1>2, Zenon DEF Fault
  <2> HIDE DEF new
  <2>2. /\ chain.subs \in Seq(Hooks) /\ 1 \in DOMAIN chain.subs /\ Cur = chain.subs[1]
        /\ Cur \in Hooks /\ Cur.point = flow.point
    BY DEF InChain, ChainInv, Running, Sorted, Cur
  <2>3. flow.point # "none" /\ flow.point \in Points
    BY <2>2, HookAssumption, Zenon DEF Points
  <2>4. FaultInv'
    <3>1. Early' = Early /\ Reached' = Reached
      BY Zenon DEF Early, Reached
    <3>2. Early => flow.point \in Reached
      BY <2>3, Zenon DEF Early, Reached, PrePoints
    <3>3. \A f \in faults' : \E s \in Hooks : s.point = f[1] /\ s.fn = f[2]
      BY <2>1, <2>2, Zenon DEF InChain, FaultInv
    <3>4. \A f \in faults' : Early => f[1] \in Reached
      BY <2>1, <3>2, Zenon DEF InChain, FaultInv
    <3> QED BY <3>1, <3>3, <3>4, Zenon DEF FaultInv
  <2>5. ASSUME NEW c \in flushed PROVE Unfaulted(c, faults') /\ Cleared(faults')
    <3>1. ~Early /\ Built(c, PrePoints) /\ Unfaulted(c, faults) /\ Cleared(faults)
      BY Zenon DEF InChain, FlowInv
    <3>2. flow.point \notin PrePoints
      BY <3>1, Zenon DEF Early
    <3>3. \A i \in DOMAIN c : c[i] # Cur.fn
      BY <2>2, <3>1, <3>2, HookAssumption DEF Built
    <3>4. flow.point # "before_db_write"
      BY <3>2, Zenon DEF PrePoints
    <3> QED BY <2>1, <3>1, <3>3, <3>4, Zenon DEF Unfaulted, Cleared
  <2>6. ASSUME Early
        PROVE  /\ Unfaulted(flow.ctx, faults') /\ Unfaulted(chain.ctx, faults')
               /\ \A k \in DOMAIN chain.subs : k > 1 => \A f \in faults' : f[2] # chain.subs[k].fn
    <3>1. Unfaulted(flow.ctx, faults) /\ Unfaulted(chain.ctx, faults)
          /\ (\A i \in DOMAIN flow.ctx : flow.ctx[i] # Cur.fn)
          /\ (\A i \in DOMAIN chain.ctx : chain.ctx[i] # Cur.fn)
      BY <2>2, <2>6, Zenon DEF InChain, FlowInv, Running
    <3>2. \A k \in DOMAIN chain.subs : k > 1 => chain.subs[k].fn # Cur.fn
      <4> SUFFICES ASSUME NEW k \in DOMAIN chain.subs, k > 1 PROVE chain.subs[k].fn # Cur.fn
        BY Zenon
      <4>1. chain.subs[1] # chain.subs[k] /\ chain.subs[k] \in Hooks
        BY <2>2, Zenon DEF Running, Sorted
      <4> QED BY <2>2, <4>1, HookAssumption, Zenon
    <3>3. \A k \in DOMAIN chain.subs : \A f \in faults : f[2] # chain.subs[k].fn
      BY <1>2, <2>6, Zenon DEF Running
    <3> QED BY <2>1, <3>1, <3>2, <3>3, Zenon DEF Unfaulted
  <2> QED BY <2>4, <2>5, <2>6, Zenon
<1> QED BY <1>1, <1>2, Zenon

\* The record of a chain that is not running.
LEMMA NoChainType ==
    /\ NoChain \in [pc : {"none", "pending", "emit"}, subs : Seq(Hooks), ctx : Seq(Fns),
                    good : Seq(Fns), then : Thens]
    /\ NoChain.pc = "none"
<1> DEFINE e == <<>>
<1>1. e \in Seq(Hooks) /\ e \in Seq(Fns)
  OBVIOUS
<1>2. NoChain = [pc |-> "none", subs |-> e, ctx |-> e, good |-> e, then |-> "none"]
  BY Zenon DEF NoChain
<1> HIDE DEF e
<1>3. [pc |-> "none", subs |-> e, ctx |-> e, good |-> e, then |-> "none"] \in
         [pc : {"none", "pending", "emit"}, subs : Seq(Hooks), ctx : Seq(Fns),
          good : Seq(Fns), then : Thens]
  BY <1>1, Zenon DEF Thens
<1>4. NoChain.pc = "none"
  BY <1>2, Zenon
<1> QED BY <1>2, <1>3, <1>4, Zenon

\* A chain that settles hands its result on.
LEMMA SettleKeeps ==
    ASSUME InChain, FaultInv', UNCHANGED flushed, NEW res \in Results,
           NEW ctx \in Seq(Fns),
           SettleChain(res, ctx),
           \A c \in flushed : Unfaulted(c, faults') /\ Cleared(faults'),
           Early => Built(ctx, Reached) /\ Unfaulted(ctx, faults')
           /\ Tiered(ctx),
           flow.point = "before_db_write" /\ res = "returned" => Cleared(faults')
    PROVE  FlowInv' /\ ChainInv'
<1>1. /\ flow' = [flow EXCEPT !.pc = "settled", !.result = res, !.ctx = ctx]
      /\ chain' = NoChain
  BY Zenon DEF SettleChain
<1>2. flow \in [pc : {"idle", "chain", "settled", "body", "done"}, point : Points \cup {"none"},
                ctx : Seq(Fns), result : Results]
  BY Zenon DEF InChain, FlowInv
<1>3. /\ flow' \in [pc : {"idle", "chain", "settled", "body", "done"},
         point : Points \cup {"none"},
                    ctx : Seq(Fns), result : Results]
      /\ flow'.pc = "settled" /\ flow'.point = flow.point /\ flow'.ctx = ctx /\ flow'.result = res
  BY <1>1, <1>2, Zenon
<1>4. flow.point # "none"
  BY Zenon DEF InChain, FlowInv, ChainInv
<1>5. Early' = Early /\ Reached' = Reached
  BY <1>3, Zenon DEF Early, Reached
<1>6. FlowInv'
  <2>1. \A c \in flushed' : Built(c, PrePoints) /\ Unfaulted(c, faults') /\ Tiered(c)
                            /\ Cleared(faults')
    BY Zenon DEF InChain, FlowInv
  <2>2. Early' => flushed' = {} /\ Built(flow'.ctx, Reached')
        /\ Unfaulted(flow'.ctx, faults')
                  /\ Tiered(flow'.ctx)
    BY <1>3, <1>5, Zenon DEF InChain, FlowInv
  <2> QED BY <1>3, <1>4, <2>1, <2>2, Zenon DEF FlowInv
<1>7. ChainInv'
  BY <1>1, <1>3, NoChainType, Zenon DEF ChainInv
<1> QED BY <1>6, <1>7, Zenon

\* A chain that goes on leaves the flow as it is.
LEMMA StayKeeps ==
    ASSUME InChain, FaultInv', UNCHANGED <<flow, flushed>>, Running', chain'.pc # "none",
           chain' \in [pc : {"none", "pending", "emit"}, subs : Seq(Hooks), ctx : Seq(Fns),
                       good : Seq(Fns), then : Thens],
           \A c \in flushed : Unfaulted(c, faults') /\ Cleared(faults'),
           Early => Unfaulted(flow.ctx, faults')
    PROVE  FlowInv' /\ ChainInv'
<1>1. flow.pc = "chain"
  BY Zenon DEF InChain, ChainInv
<1>2. Early' = Early /\ Reached' = Reached
  BY Zenon DEF Early, Reached
<1>3. FlowInv'
  BY <1>1, <1>2, Zenon DEF InChain, FlowInv
<1> QED BY <1>1, <1>3, Zenon DEF ChainInv

\* A chain that has an audit row to write first remembers what to do then.
LEMMA EmitKeeps ==
    ASSUME InChain, Running, UNCHANGED flushed, NEW then \in Thens, Emit(then),
           faults' = faults \/ (chain.pc = "pending" /\ \E x : Fault(x)),
           Early => then \in {"refusal", "unauthorized_refusal", "subscriber_error",
           "chain_timeout"},
           flow.point = "before_db_write" =>
              Cleared(faults') \/ then \in {"refusal", "subscriber_error", "chain_timeout"}
    PROVE  FaultInv' /\ FlowInv' /\ ChainInv'
<1>1. chain' = [chain EXCEPT !.pc = "emit", !.then = then] /\ flow' = flow
  BY Zenon DEF Emit
<1>2. /\ FaultInv'
      /\ \A c \in flushed : Unfaulted(c, faults') /\ Cleared(faults')
      /\ Early => /\ Unfaulted(flow.ctx, faults') /\ Unfaulted(chain.ctx, faults')
                  /\ \A k \in DOMAIN chain.subs : k > 1 =>
                        \A f \in faults' : f[2] # chain.subs[k].fn
  BY <1>1, Faulted, Zenon
<1>3. /\ chain' \in [pc : {"none", "pending", "emit"}, subs : Seq(Hooks), ctx : Seq(Fns),
                     good : Seq(Fns), then : Thens]
      /\ chain'.pc = "emit" /\ chain'.then = then /\ chain'.subs = chain.subs
      /\ chain'.ctx = chain.ctx /\ chain'.good = chain.good
  BY <1>1, Zenon DEF InChain, ChainInv
<1>4. Early' = Early /\ Reached' = Reached
  BY <1>1, Zenon DEF Early, Reached
<1>5. Early => Built(chain'.ctx, Reached') /\ Unfaulted(chain'.ctx, faults')
      /\ Tiered(chain'.ctx)
  BY <1>2, <1>3, <1>4, Zenon DEF Running
<1>6. Early => \A k \in DOMAIN chain'.subs :
         /\ chain'.pc = "pending" \/ k > 1 => \A f \in faults' : f[2] # chain'.subs[k].fn
         /\ \A i \in DOMAIN flow'.ctx : flow'.ctx[i] # chain'.subs[k].fn
         /\ \A i \in DOMAIN chain'.ctx :
              /\ chain'.ctx[i] # chain'.subs[k].fn
              /\ \A s \in Hooks : s.fn = chain'.ctx[i] /\ s.point = flow'.point
                                    => Rank(s) <= Rank(chain'.subs[k])
  BY <1>1, <1>2, <1>3 DEF Running
<1>7. Running'
  <2>1. chain'.subs # <<>> /\ Sorted(chain'.subs, flow'.point) /\ chain'.good = chain'.ctx
    BY <1>1, <1>3, Zenon DEF Running
  <2>2. flow'.point = "before_db_write" =>
         \/ Cleared(faults')
         \/ chain'.pc = "emit" /\ chain'.then \in {"refusal", "subscriber_error", "chain_timeout"}
    BY <1>1, <1>3, Zenon
  <2> QED BY <1>3, <1>4, <1>5, <1>6, <2>1, <2>2, Zenon DEF Running
<1> QED BY <1>1, <1>2, <1>3, <1>7, StayKeeps, Zenon

\* A chain that goes on with the context given goes on with the next subscriber, or settles.
LEMMA NextSubKeeps ==
    ASSUME InChain, Running, UNCHANGED <<flushed, faults>>, NEW ctx \in Seq(Fns),
           NextSub(ctx, ctx),
           Early => /\ Built(ctx, Reached) /\ Unfaulted(ctx, faults)
           /\ Tiered(ctx)
                    /\ \A k \in DOMAIN chain.subs : k > 1 => \A i \in DOMAIN ctx :
                         /\ ctx[i] # chain.subs[k].fn
                         /\ \A s \in Hooks : s.fn = ctx[i] /\ s.point = flow.point
                                               => Rank(s) <= Rank(chain.subs[k]),
           flow.point = "before_db_write" => Cleared(faults)
    PROVE  FaultInv' /\ FlowInv' /\ ChainInv'
<1>0. /\ chain.subs \in Seq(Hooks) /\ chain.subs # <<>>
      /\ chain \in [pc : {"none", "pending", "emit"}, subs : Seq(Hooks), ctx : Seq(Fns),
                    good : Seq(Fns), then : Thens]
      /\ flow.ctx \in Seq(Fns)
         /\ (Early => Built(flow.ctx, Reached) /\ Unfaulted(flow.ctx, faults)
                                            /\ Tiered(flow.ctx))
      /\ \A c \in flushed : Unfaulted(c, faults') /\ Cleared(faults')
  BY Zenon DEF InChain, ChainInv, FlowInv, Running
<1>9. flushed' = flushed /\ faults' = faults
  BY Zenon
<1>1. CASE Len(chain.subs) = 1
  <2>1. SettleChain("returned", ctx)
        \/ \E res \in {"reraised", "cancelled"} : SettleChain(res, flow.ctx)
    BY <1>1, Zenon DEF NextSub, EndOfChain
  <2>2. flow'.point = flow.point
    BY <2>1, Zenon DEF SettleChain, InChain, FlowInv
  <2>3. FaultInv'
    BY <2>2, Faulted, Zenon
  <2>4. CASE SettleChain("returned", ctx)
    <3>1. /\ flushed' = flushed /\ "returned" \in Results
          /\ Early => Built(ctx, Reached) /\ Unfaulted(ctx, faults')
             /\ Tiered(ctx)
          /\ flow.point = "before_db_write" => Cleared(faults')
      BY <1>9, Zenon DEF Results
    <3> QED BY <1>0, <2>3, <2>4, <3>1, SettleKeeps, Zenon
  <2>5. ASSUME NEW res \in {"reraised", "cancelled"}, SettleChain(res, flow.ctx)
        PROVE  FlowInv' /\ ChainInv'
    <3>1. /\ flushed' = flushed /\ res \in Results /\ res # "returned"
          /\ Early => Built(flow.ctx, Reached) /\ Unfaulted(flow.ctx, faults')
             /\ Tiered(flow.ctx)
      BY <1>0, <1>9, <2>5, Zenon DEF Results
    <3> QED BY <1>0, <2>3, <2>5, <3>1, SettleKeeps, Zenon
  <2> QED BY <2>1, <2>3, <2>4, <2>5, Zenon
<1>2. CASE Len(chain.subs) # 1
  <2>1. /\ chain' = [chain EXCEPT !.pc = "pending", !.subs = Tail(@), !.ctx = ctx, !.good = ctx]
        /\ flow' = flow
    BY <1>2, Zenon DEF NextSub
  <2> DEFINE b == chain.subs
             w == Tail(b)
  <2>2. /\ w \in Seq(Hooks) /\ w # <<>> /\ DOMAIN w = 1 .. Len(b) - 1 /\ DOMAIN b = 1 .. Len(b)
        /\ \A k \in DOMAIN w : w[k] = b[k + 1] /\ k + 1 \in DOMAIN b /\ k + 1 > 1
        /\ Len(b) \in Nat
    <3>0. b \in Seq(Hooks) /\ b # <<>> /\ Len(b) # 1
      BY <1>0, <1>2, Zenon
    <3>1. b \in Seq(Hooks) /\ Len(b) \in Nat /\ Len(b) >= 2 /\ DOMAIN b = 1 .. Len(b)
      <4> HIDE DEF b
      <4>1. Len(b) \in Nat /\ DOMAIN b = 1 .. Len(b)
        BY <3>0
      <4>2. Len(b) # 0
        BY <3>0
      <4> QED BY <3>0, <4>1, <4>2
    <3>2. w \in Seq(Hooks) /\ Len(w) = Len(b) - 1 /\ \A k \in 1 .. Len(b) - 1 : w[k] = b[k + 1]
      BY <3>1
    <3> HIDE DEF b, w
    <3>3. DOMAIN w = 1 .. Len(b) - 1 /\ w # <<>>
      BY <3>1, <3>2
    <3> QED BY <3>1, <3>2, <3>3
  <2>3. /\ chain' \in [pc : {"none", "pending", "emit"}, subs : Seq(Hooks), ctx : Seq(Fns),
                       good : Seq(Fns), then : Thens]
        /\ chain'.pc = "pending" /\ chain'.subs = w /\ chain'.ctx = ctx /\ chain'.good = ctx
    BY <1>0, <2>1, <2>2, Zenon
  <2> HIDE DEF w
  <2>4. Sorted(w, flow.point)
    <3>1. \A i, j \in DOMAIN w : i < j => i + 1 < j + 1
      BY <2>2
    <3>2. /\ \A i \in DOMAIN b : b[i] \in Hooks /\ b[i].point = flow.point
          /\ \A i, j \in DOMAIN b : i < j => b[i] # b[j] /\ Rank(b[i]) <= Rank(b[j])
      BY Zenon DEF Running, Sorted
    <3> HIDE DEF b
    <3>3. \A i \in DOMAIN w : w[i] \in Hooks /\ w[i].point = flow.point
      BY <2>2, <3>2, Zenon
    <3>4. ASSUME NEW i \in DOMAIN w, NEW j \in DOMAIN w, i < j
          PROVE  w[i] # w[j] /\ Rank(w[i]) <= Rank(w[j])
      <4>1. b[i + 1] # b[j + 1] /\ Rank(b[i + 1]) <= Rank(b[j + 1])
        BY <2>2, <3>1, <3>2, <3>4, Zenon
      <4> QED BY <2>2, <4>1, Zenon
    <3> QED BY <3>3, <3>4, Zenon DEF Sorted
  <2>5. Early' = Early /\ Reached' = Reached
    BY <2>1, Zenon DEF Early, Reached
  <2>6. Early => \A k \in DOMAIN w :
           /\ \A f \in faults' : f[2] # w[k].fn
           /\ \A i \in DOMAIN flow'.ctx : flow'.ctx[i] # w[k].fn
           /\ \A i \in DOMAIN ctx :
                /\ ctx[i] # w[k].fn
                /\ \A s \in Hooks : s.fn = ctx[i] /\ s.point = flow'.point
                   => Rank(s) <= Rank(w[k])
    BY <2>1, <2>2 DEF Running
  <2>7. Running'
    <3>1. Early' => Built(chain'.ctx, Reached') /\ Unfaulted(chain'.ctx, faults')
                    /\ Tiered(chain'.ctx)
      BY <2>3, <2>5, Zenon
    <3>2. flow'.point = "before_db_write" => Cleared(faults')
      BY <2>1, Zenon
    <3>3. chain'.subs # <<>> /\ Sorted(chain'.subs, flow'.point) /\ chain'.good = chain'.ctx
      BY <2>1, <2>2, <2>3, <2>4, Zenon
    <3>4. Early' => \A k \in DOMAIN chain'.subs :
             /\ \A f \in faults' : f[2] # chain'.subs[k].fn
             /\ \A i \in DOMAIN flow'.ctx : flow'.ctx[i] # chain'.subs[k].fn
             /\ \A i \in DOMAIN chain'.ctx :
                  /\ chain'.ctx[i] # chain'.subs[k].fn
                  /\ \A s \in Hooks : s.fn = chain'.ctx[i] /\ s.point = flow'.point
                                        => Rank(s) <= Rank(chain'.subs[k])
      <4> HIDE DEF b
      <4> QED BY <2>3, <2>5, <2>6, Zenon
    <3>5. chain'.pc # "emit"
      BY <2>3, Zenon
    <3> QED BY <3>1, <3>2, <3>3, <3>4, <3>5, Zenon DEF Running
  <2>8. FaultInv'
    BY <2>1, Faulted, Zenon
  <2> QED BY <1>0, <2>1, <2>3, <2>7, <2>8, StayKeeps, Zenon
<1> QED BY <1>1, <1>2, Zenon

\* A context a subscriber built is one the chain may go on with.
LEMMA BuiltByCur ==
    ASSUME InChain, Running, Early, chain.pc = "pending", NEW ctx,
           ctx = Append(chain.ctx, Cur.fn)
    PROVE  /\ Built(ctx, Reached) /\ Unfaulted(ctx, faults) /\ Tiered(ctx)
           /\ \A k \in DOMAIN chain.subs : k > 1 => \A i \in DOMAIN ctx :
                /\ ctx[i] # chain.subs[k].fn
                /\ \A s \in Hooks : s.fn = ctx[i] /\ s.point = flow.point
                                      => Rank(s) <= Rank(chain.subs[k])
<1> DEFINE n == Len(chain.ctx)
           q == flow.point
<1>1. /\ chain.subs \in Seq(Hooks) /\ 1 \in DOMAIN chain.subs /\ Cur = chain.subs[1]
      /\ Cur \in Hooks /\ Cur.point = q
  BY DEF InChain, ChainInv, Running, Sorted, Cur
<1>2. q \in Reached
  BY <1>1, HookAssumption, Zenon DEF Early, Reached, PrePoints, Points
<1>3. chain.ctx \in Seq(Fns) /\ n \in Nat /\ DOMAIN chain.ctx = 1 .. n
  BY DEF InChain, ChainInv
<1>4. /\ ctx \in Seq(Fns) /\ DOMAIN ctx = 1 .. n + 1 /\ ctx[n + 1] = Cur.fn
      /\ \A i \in 1 .. n : ctx[i] = chain.ctx[i]
  <2>1. Cur.fn \in Fns
    BY <1>1, Zenon DEF Fns
  <2> QED BY <1>3, <2>1
<1>5. \A i \in 1 .. n + 1 : i \in 1 .. n \/ i = n + 1
  BY <1>3
<1> HIDE DEF n
<1>6. Built(ctx, Reached)
  BY <1>1, <1>2, <1>3, <1>4, <1>5 DEF Running, Built
<1>7. Unfaulted(ctx, faults)
  BY <1>1, <1>3, <1>4, <1>5 DEF Running, Unfaulted
<1>8. Tiered(ctx)
  <2> SUFFICES ASSUME NEW s \in Hooks, NEW t \in Hooks, NEW i \in DOMAIN ctx, NEW j \in DOMAIN ctx,
                      i < j, ctx[i] = s.fn, ctx[j] = t.fn, s.point = t.point
               PROVE  Rank(s) <= Rank(t)
    BY Zenon DEF Tiered
  <2>1. CASE j \in 1 .. n
    <3>1. i \in 1 .. n
      BY <1>3, <1>4, <2>1
    <3> QED BY <1>3, <1>4, <2>1, <3>1, Zenon DEF Running, Tiered
  <2>2. CASE j = n + 1
    <3>1. i \in 1 .. n
      BY <1>3, <1>4, <2>2
    <3>2. t = Cur
      BY <1>1, <1>4, <2>2, HookAssumption, Zenon
    <3> QED BY <1>1, <1>3, <1>4, <3>1, <3>2 DEF Running
  <2> QED BY <1>4, <1>5, <2>1, <2>2, Zenon
<1>9. ASSUME NEW k \in DOMAIN chain.subs, k > 1, NEW i \in DOMAIN ctx
      PROVE  /\ ctx[i] # chain.subs[k].fn
             /\ \A s \in Hooks : s.fn = ctx[i] /\ s.point = flow.point
                                   => Rank(s) <= Rank(chain.subs[k])
  <2>1. CASE i \in 1 .. n
    BY <1>3, <1>4, <2>1 DEF Running
  <2>2. CASE i = n + 1
    <3>1. /\ chain.subs[1] # chain.subs[k] /\ chain.subs[k] \in Hooks
          /\ Rank(chain.subs[1]) <= Rank(chain.subs[k])
      BY <1>1, <1>9, Zenon DEF Running, Sorted
    <3>2. \A s \in Hooks : s.fn = ctx[i] => s = chain.subs[1]
      BY <1>1, <1>4, <2>2, HookAssumption, Zenon
    <3> QED BY <1>1, <1>4, <2>2, <3>1, <3>2, Zenon
  <2> QED BY <1>4, <1>5, <2>1, <2>2, Zenon
<1> QED BY <1>6, <1>7, <1>8, <1>9, Zenon

\* A chain starts with the whole bucket of its hookpoint, or settles at once when it is empty.
LEMMA InvokeKeeps ==
    ASSUME HookInv, NEW h \in Points, invoke(h), faults' = faults, chain.pc = "none",
           Early,
           h = "before_validate" => flow.point = "none",
           h = "before_db_write" => flow.point = "before_validate",
           h \in PrePoints => flushed' = flushed,
           h \notin PrePoints => \A c \in flushed' : Built(c, PrePoints)
           /\ Unfaulted(c, faults)
                                                    /\ Tiered(c) /\ Cleared(faults)
    PROVE  FaultInv' /\ FlowInv' /\ ChainInv'
<1> DEFINE b == buckets[h]
<1>1. /\ flow \in [pc : {"idle", "chain", "settled", "body", "done"},
         point : Points \cup {"none"},
                   ctx : Seq(Fns), result : Results]
      /\ flushed = {} /\ Built(flow.ctx, Reached) /\ Unfaulted(flow.ctx, faults)
      /\ Tiered(flow.ctx)
  BY Zenon DEF HookInv, FlowInv
<1>2. b \in Seq(Hooks) /\ Sorted(b, h)
  BY Zenon DEF HookInv, RegInv
<1>3. /\ flow'.point = h /\ flow'.ctx = flow.ctx
      /\ flow' \in [pc : {"idle", "chain", "settled", "body", "done"},
         point : Points \cup {"none"},
                    ctx : Seq(Fns), result : Results]
      /\ \/ /\ flow'.pc = "chain"
            /\ \/ chain' = [NoChain EXCEPT !.pc = "emit", !.then = "drift"]
               \/ /\ b # <<>>
                  /\ chain' = [pc |-> "pending", subs |-> b, ctx |-> flow.ctx,
                               good |-> flow.ctx, then |-> "none"]
         \/ flow'.pc = "settled" /\ chain' = NoChain
  BY <1>1, Zenon DEF invoke, subscribers_for, Results
<1> HIDE DEF b
<1>4. h # "none"
  BY Zenon DEF Points
<1>5. Early' = (h \in PrePoints)
  BY <1>3, <1>4 DEF Early
<1>6. h \in PrePoints => Reached \subseteq Reached' /\ h \notin Reached
  BY <1>3, Zenon DEF Reached, PrePoints
<1>7. \A f \in faults : \E s \in Hooks : s.point = f[1] /\ s.fn = f[2] /\ f[1] \in Reached
  BY Zenon DEF HookInv, FaultInv
<1>8. FaultInv'
  BY <1>5, <1>6, <1>7, Zenon DEF FaultInv
<1>9. h = "before_db_write" => Cleared(faults)
  <2>1. h = "before_db_write" => Reached = {"before_validate"}
    BY Zenon DEF Reached
  <2> QED BY <1>7, <2>1, Zenon DEF Cleared
<1>10. h \in PrePoints => Built(flow.ctx, Reached')
  BY <1>1, <1>6, Zenon DEF Built
<1>11. FlowInv'
  <2>1. Early' => flushed' = {} /\ Built(flow'.ctx, Reached')
        /\ Unfaulted(flow'.ctx, faults')
                  /\ Tiered(flow'.ctx)
    BY <1>1, <1>3, <1>5, <1>10, Zenon
  <2>2. \A c \in flushed' : Built(c, PrePoints) /\ Unfaulted(c, faults') /\ Tiered(c)
                            /\ Cleared(faults')
    BY <1>1, Zenon
  <2>3. flow'.pc # "body" /\ flow'.pc # "idle" /\ flow'.point # "none"
    BY <1>3, <1>4, Zenon
  <2>4. flow'.point = "before_db_write" => Cleared(faults')
    BY <1>3, <1>9, Zenon
  <2> QED BY <1>3, <2>1, <2>2, <2>3, <2>4, Zenon DEF FlowInv
<1>12. ChainInv'
  <2>1. CASE chain' = NoChain /\ flow'.pc = "settled"
    BY <2>1, NoChainType, Zenon DEF ChainInv
  <2>2. CASE chain' = [NoChain EXCEPT !.pc = "emit", !.then = "drift"] /\ flow'.pc = "chain"
    <3>1. /\ chain' \in [pc : {"none", "pending", "emit"}, subs : Seq(Hooks), ctx : Seq(Fns),
                         good : Seq(Fns), then : Thens]
          /\ chain'.pc = "emit" /\ chain'.then = "drift"
      BY <2>2, NoChainType, Zenon DEF Thens
    <3> QED BY <2>2, <3>1, Zenon DEF ChainInv
  <2>3. CASE b # <<>> /\ flow'.pc = "chain" /\
             chain' = [pc |-> "pending", subs |-> b, ctx |-> flow.ctx, good |-> flow.ctx,
                       then |-> "none"]
    <3>1. /\ chain' \in [pc : {"none", "pending", "emit"}, subs : Seq(Hooks), ctx : Seq(Fns),
                         good : Seq(Fns), then : Thens]
          /\ chain'.pc = "pending" /\ chain'.subs = b /\ chain'.ctx = flow.ctx
          /\ chain'.good = flow.ctx
      BY <1>1, <1>2, <2>3, Zenon DEF Thens
    <3>2. ASSUME h \in PrePoints, NEW k \in DOMAIN b
          PROVE  /\ \A f \in faults : f[2] # b[k].fn
                 /\ \A i \in DOMAIN flow.ctx :
                      /\ flow.ctx[i] # b[k].fn
                      /\ \A s \in Hooks : s.fn = flow.ctx[i] => s.point # h
      <4>1. b[k] \in Hooks /\ b[k].point = h /\ h \notin Reached
        BY <1>2, <1>6, <3>2, Zenon DEF Sorted
      <4>2. \A f \in faults : f[2] # b[k].fn
        BY <1>7, <4>1, HookAssumption, Zenon
      <4>3. \A i \in DOMAIN flow.ctx : \A s \in Hooks : s.fn = flow.ctx[i] => s.point # h
        BY <1>1, <4>1, HookAssumption DEF Built
      <4> QED BY <4>1, <4>2, <4>3, Zenon
    <3>3. Early' => \A k \in DOMAIN chain'.subs :
             /\ \A f \in faults' : f[2] # chain'.subs[k].fn
             /\ \A i \in DOMAIN flow'.ctx : flow'.ctx[i] # chain'.subs[k].fn
             /\ \A i \in DOMAIN chain'.ctx :
                  /\ chain'.ctx[i] # chain'.subs[k].fn
                  /\ \A s \in Hooks : s.fn = chain'.ctx[i] /\ s.point = flow'.point
                                        => Rank(s) <= Rank(chain'.subs[k])
      <4>1. /\ flow'.ctx = flow.ctx /\ flow'.point = h /\ faults' = faults
            /\ chain'.subs = b /\ chain'.ctx = flow.ctx
        BY <1>3, <3>1, Zenon
      <4>2. ASSUME h \in PrePoints, NEW k \in DOMAIN b
            PROVE  /\ \A f \in faults : f[2] # b[k].fn
                   /\ \A i \in DOMAIN flow.ctx : flow.ctx[i] # b[k].fn
                   /\ \A i \in DOMAIN flow.ctx :
                        /\ flow.ctx[i] # b[k].fn
                        /\ \A s \in Hooks : s.fn = flow.ctx[i] /\ s.point = h
                                              => Rank(s) <= Rank(b[k])
        BY <3>2, <4>2, Zenon
      <4>3. Early' => h \in PrePoints
        BY <1>5, Zenon
      <4> SUFFICES ASSUME Early', NEW k \in DOMAIN chain'.subs
                   PROVE  /\ \A f \in faults' : f[2] # chain'.subs[k].fn
                          /\ \A i \in DOMAIN flow'.ctx : flow'.ctx[i] # chain'.subs[k].fn
                          /\ \A i \in DOMAIN chain'.ctx :
                               /\ chain'.ctx[i] # chain'.subs[k].fn
                               /\ \A s \in Hooks :
                                    s.fn = chain'.ctx[i] /\ s.point = flow'.point
                                    => Rank(s) <= Rank(chain'.subs[k])
        BY Zenon
      <4>4. h \in PrePoints /\ k \in DOMAIN b
        BY <4>1, <4>3, Zenon
      <4>5. \A f \in faults' : f[2] # chain'.subs[k].fn
        BY <4>1, <4>2, <4>4, Zenon
      <4>6. \A i \in DOMAIN flow'.ctx : flow'.ctx[i] # chain'.subs[k].fn
        BY <4>1, <4>2, <4>4, Zenon
      <4>7. ASSUME NEW i \in DOMAIN chain'.ctx
            PROVE  /\ chain'.ctx[i] # chain'.subs[k].fn
                   /\ \A s \in Hooks : s.fn = chain'.ctx[i] /\ s.point = flow'.point
                                         => Rank(s) <= Rank(chain'.subs[k])
        <5>1. i \in DOMAIN flow.ctx
          BY <4>1, Zenon
        <5>2. /\ flow.ctx[i] # b[k].fn
              /\ \A s \in Hooks : s.fn = flow.ctx[i] /\ s.point = h => Rank(s) <= Rank(b[k])
          BY <4>2, <4>4, <5>1, Zenon
        <5> QED BY <4>1, <5>2, Zenon
      <4> QED BY <4>5, <4>6, <4>7, Zenon
    <3>4. Early' => Built(chain'.ctx, Reached') /\ Unfaulted(chain'.ctx, faults')
                    /\ Tiered(chain'.ctx)
      BY <1>1, <1>5, <1>10, <3>1, Zenon
    <3>5. /\ chain'.subs # <<>> /\ Sorted(chain'.subs, flow'.point) /\ chain'.good = chain'.ctx
          /\ chain'.pc # "emit" /\ chain'.pc # "none"
          /\ flow'.point = "before_db_write" => Cleared(faults')
      BY <1>2, <1>3, <1>9, <2>3, <3>1, Zenon
    <3>6. Running'
      BY <3>3, <3>4, <3>5, Zenon DEF Running
    <3> QED BY <2>3, <3>1, <3>5, <3>6, Zenon DEF ChainInv
  <2> QED BY <1>3, <2>1, <2>2, <2>3, Zenon
<1> QED BY <1>8, <1>11, <1>12, Zenon

\* HookInv holds at first.
LEMMA HookStarts == HookInit => HookInv
<1> SUFFICES ASSUME HookInit PROVE HookInv
  BY Zenon
<1>1. /\ flow = [pc |-> "idle", point |-> "none", ctx |-> <<>>, result |-> "none"]
      /\ chain = NoChain /\ faults = {} /\ flushed = {}
  BY Zenon DEF HookInit
<1>2. flow.ctx \in Seq(Fns) /\ flow.ctx = <<>> /\ flow.pc = "idle" /\ flow.point = "none"
  BY <1>1
<1>3. FlowInv
  <2>1. /\ flow \in [pc : {"idle", "chain", "settled", "body", "done"},
                     point : Points \cup {"none"}, ctx : Seq(Fns), result : Results]
    BY <1>1, <1>2, Zenon DEF Results
  <2>2. Built(flow.ctx, Reached) /\ Unfaulted(flow.ctx, faults) /\ Tiered(flow.ctx)
    BY <1>2 DEF Built, Unfaulted, Tiered
  <2> QED BY <1>1, <1>2, <2>1, <2>2, Zenon DEF FlowInv
<1>4. ChainInv /\ FaultInv
  BY <1>1, <1>2, NoChainType, Zenon DEF ChainInv, FaultInv
<1> QED BY <1>3, <1>4, RegInit, Zenon DEF HookInv

\* Steps that touch neither the flow, the chain, the faults nor what is flushed.
LEMMA Apart ==
    ASSUME FaultInv, FlowInv, ChainInv, UNCHANGED <<flow, chain, faults, flushed>>
    PROVE  FaultInv' /\ FlowInv' /\ ChainInv'
<1>1. Early' = Early /\ Reached' = Reached
  BY Zenon DEF Early, Reached
<1>2. FaultInv' /\ FlowInv'
  BY <1>1, Zenon DEF FaultInv, FlowInv
<1>3. Running' = Running
  BY <1>1, Zenon DEF Running
<1> QED BY <1>2, <1>3, Zenon DEF ChainInv

\* A chain that ends with an error clears nothing.
LEMMA SettleRaises ==
    ASSUME InChain, UNCHANGED flushed, NEW res \in Results \ {"returned"},
           SettleChain(res, flow.ctx),
           faults' = faults \/ (Running /\ chain.pc = "pending" /\ \E x : Fault(x))
    PROVE  FaultInv' /\ FlowInv' /\ ChainInv'
<1>1. flow.ctx \in Seq(Fns)
      /\ (Early => Built(flow.ctx, Reached) /\ Tiered(flow.ctx))
  BY Zenon DEF InChain, FlowInv
<1>2. flow'.point = flow.point
  BY Zenon DEF SettleChain, InChain, FlowInv
<1>3. /\ FaultInv'
      /\ \A c \in flushed : Unfaulted(c, faults') /\ Cleared(faults')
      /\ Early => Unfaulted(flow.ctx, faults')
  <2>1. CASE faults' = faults
    BY <1>2, <2>1, Zenon DEF InChain, FlowInv, FaultInv, Early, Reached
  <2>2. CASE Running /\ chain.pc = "pending" /\ \E x : Fault(x)
    BY <1>2, <2>2, Faulted, Zenon
  <2> QED BY <2>1, <2>2, Zenon
<1> QED BY <1>1, <1>3, SettleKeeps, Zenon

\* A chain that awaits a subscriber is running, and nothing refusable was refused before it.
LEMMA PendingRuns ==
    ASSUME FaultInv, FlowInv, ChainInv, chain.pc = "pending"
    PROVE  InChain /\ Running /\ Cur \in Hooks /\ Cur.point = flow.point
           /\ (flow.point = "before_db_write" => Cleared(faults))
           /\ chain.ctx \in Seq(Fns) /\ chain.good = chain.ctx
              /\ Append(chain.ctx, Cur.fn) \in Seq(Fns)
<1>1. InChain /\ Running
  BY Zenon DEF InChain, ChainInv
<1>2. Cur \in Hooks /\ Cur.point = flow.point
  <2>1. chain.subs \in Seq(Hooks) /\ chain.subs # <<>> /\ Sorted(chain.subs, flow.point)
    BY <1>1, Zenon DEF ChainInv, Running
  <2>2. 1 \in DOMAIN chain.subs /\ Cur = chain.subs[1]
    BY <2>1 DEF Cur
  <2> QED BY <2>1, <2>2, Zenon DEF Sorted
<1>3. chain.ctx \in Seq(Fns) /\ Append(chain.ctx, Cur.fn) \in Seq(Fns)
  <2>1. Cur.fn \in Fns
    BY <1>2, Zenon DEF Fns
  <2> QED BY <2>1 DEF ChainInv
<1> QED BY <1>1, <1>2, <1>3, Zenon DEF Running

\* A subscriber that returns, with a context of its own or without one.
LEMMA ReturnsNext ==
    ASSUME FaultInv, FlowInv, ChainInv, SubscriberReturns PROVE FaultInv'
           /\ FlowInv' /\ ChainInv'
<1> DEFINE built == Append(chain.ctx, Cur.fn)
<1>1. chain.pc = "pending" /\ flushed' = flushed /\ faults' = faults
  BY Zenon DEF SubscriberReturns
<1>2. InChain /\ Running /\ Cur \in Hooks /\ Cur.point = flow.point
      /\ (flow.point = "before_db_write" => Cleared(faults))
      /\ chain.ctx \in Seq(Fns) /\ chain.good = chain.ctx /\ built \in Seq(Fns)
  BY <1>1, PendingRuns, Zenon
<1> HIDE DEF built
<1>3. CASE NextSub(chain.ctx, chain.ctx)
  <2>1. Early => /\ Built(chain.ctx, Reached) /\ Unfaulted(chain.ctx, faults)
        /\ Tiered(chain.ctx)
                 /\ \A k \in DOMAIN chain.subs : k > 1 => \A i \in DOMAIN chain.ctx :
                      /\ chain.ctx[i] # chain.subs[k].fn
                      /\ \A s \in Hooks : s.fn = chain.ctx[i] /\ s.point = flow.point
                                            => Rank(s) <= Rank(chain.subs[k])
    BY <1>2, Zenon DEF Running
  <2> QED BY <1>1, <1>2, <1>3, <2>1, NextSubKeeps, Zenon
<1>4. CASE NextSub(built, built)
  <2>1. Early => /\ Built(built, Reached) /\ Unfaulted(built, faults)
        /\ Tiered(built)
                 /\ \A k \in DOMAIN chain.subs : k > 1 => \A i \in DOMAIN built :
                      /\ built[i] # chain.subs[k].fn
                      /\ \A s \in Hooks : s.fn = built[i] /\ s.point = flow.point
                                            => Rank(s) <= Rank(chain.subs[k])
    BY <1>1, <1>2, BuiltByCur, Zenon DEF built
  <2> QED BY <1>1, <1>2, <1>4, <2>1, NextSubKeeps, Zenon
<1>5. CASE Kind \notin {"pre", "post", "cancel"}
           /\ Emit(_wrap_legacy_substitute_as_outcome)
  <2>1. PICK then \in {"substituted", "refusedSubstitute"} : Emit(then)
    BY <1>5, Zenon DEF _wrap_legacy_substitute_as_outcome
  <2>2. ~Early /\ flow.point # "before_db_write"
    <3>1. flow.point \in Points
      BY <1>2, HookAssumption, Zenon
    <3> QED BY <1>5, <3>1, Zenon DEF Kind, KindOf, Early, PrePoints, Points
  <2>3. then \in Thens
    BY Zenon DEF Thens
  <2> QED BY <1>1, <1>2, <2>1, <2>2, <2>3, EmitKeeps, Zenon
<1> QED BY <1>2, <1>3, <1>4, <1>5, Zenon DEF SubscriberReturns, built

\* A subscriber that refuses: where the hookpoint lets it, or not.
LEMMA RefusesNext ==
    ASSUME FaultInv, FlowInv, ChainInv, SubscriberRefuses PROVE FaultInv'
           /\ FlowInv' /\ ChainInv'
<1>1. chain.pc = "pending" /\ flushed' = flushed /\ Fault("refused")
  BY Zenon DEF SubscriberRefuses
<1>2. InChain /\ Running /\ Cur \in Hooks /\ Cur.point = flow.point
      /\ (flow.point = "before_db_write" => Cleared(faults))
  BY <1>1, PendingRuns, Zenon
<1>3. CASE Kind = "pre"
  <2> DEFINE then == IF Cur.tier \in Declared(flow.point).refusable
                     THEN "refusal" ELSE "unauthorized_refusal"
  <2>1. Emit(then)
    BY <1>3, Zenon DEF SubscriberRefuses
  <2>2. then \in Thens /\ then \in {"refusal", "unauthorized_refusal"}
    BY Zenon DEF Thens
  <2>3. flow.point = "before_db_write" =>
           Cleared(faults') \/ then \in {"refusal", "subscriber_error", "chain_timeout"}
    <3> SUFFICES ASSUME flow.point = "before_db_write", then # "refusal" PROVE Cleared(faults')
      BY Zenon
    <3>1. Cur.tier \notin Declared(flow.point).refusable
      BY Zenon
    <3>2. ~Refusable(flow.point, Cur.fn)
      <4>1. \A s \in Hooks : s.fn = Cur.fn => s = Cur
        BY <1>2, HookAssumption, Zenon
      <4> QED BY <3>1, <4>1, Zenon DEF Refusable
    <3> DEFINE new == <<flow.point, Cur.fn, "refused">>
    <3>3. faults' = faults \cup {new} /\ new[1] = flow.point /\ new[2] = Cur.fn /\ new[3] = "refused"
      BY <1>1, Zenon DEF Fault
    <3> HIDE DEF new, then
    <3> QED BY <1>2, <3>2, <3>3, Zenon DEF Cleared
  <2> HIDE DEF then
  <2>4. Early => then \in {"refusal", "unauthorized_refusal", "subscriber_error",
        "chain_timeout"}
    BY <2>2, Zenon
  <2> QED BY <1>1, <1>2, <2>1, <2>2, <2>3, <2>4, EmitKeeps, Zenon
<1>4. CASE Emit("subscriber_error")
  <2>1. "subscriber_error" \in Thens
    BY Zenon DEF Thens
  <2> QED BY <1>1, <1>2, <1>4, <2>1, EmitKeeps, Zenon
<1>5. CASE SettleChain("refused", flow.ctx)
  <2>1. "refused" \in Results \ {"returned"}
    BY Zenon DEF Results
  <2> QED BY <1>1, <1>2, <1>5, <2>1, SettleRaises, Zenon
<1> QED BY <1>3, <1>4, <1>5, Zenon DEF SubscriberRefuses

\* The audit row is written, and the chain does what it was to do then.
LEMMA SinkNext ==
    ASSUME FaultInv, FlowInv, ChainInv, SinkWrites PROVE FaultInv'
           /\ FlowInv' /\ ChainInv'
<1>1. chain.pc = "emit" /\ flushed' = flushed /\ faults' = faults /\ AfterRow
  BY Zenon DEF SinkWrites
<1>2. InChain /\ (chain.then = "drift" \/ Running)
  BY <1>1, Zenon DEF InChain, ChainInv
<1>3. ASSUME NEW res \in {"hook_error", "refused", "subscriber_error"}, SettleChain(res, flow.ctx)
      PROVE  FaultInv' /\ FlowInv' /\ ChainInv'
  <2>1. res \in Results \ {"returned"}
    BY Zenon DEF Results
  <2> QED BY <1>1, <1>2, <1>3, <2>1, SettleRaises, Zenon
<1>4. CASE chain.then = "drift"
  BY <1>1, <1>3, <1>4, Zenon DEF AfterRow
<1>5. CASE chain.then # "drift"
  <2>0. Running
    BY <1>2, <1>5, Zenon
  <2>1. /\ chain.subs \in Seq(Hooks) /\ Cur \in Hooks /\ flow.point \in Points
        /\ chain.ctx \in Seq(Fns) /\ chain.good = chain.ctx
    BY <2>0, HookAssumption DEF ChainInv, Running, Sorted, Cur
  <2>2. flow.point = "before_db_write" => Closed /\ Kind # "cancel" /\ Early
    BY Zenon DEF Closed, Declared, Meta, Kind, KindOf, Early, PrePoints
  <2>3. FaultInv' \/ flow'.point # flow.point
    BY <1>1, <1>2, <2>0, Faulted, Zenon
  <2>4. /\ \A c \in flushed : Unfaulted(c, faults') /\ Cleared(faults')
    BY <1>1, Zenon DEF FlowInv
  <2>5. ASSUME NEW ctx \in Seq(Fns), SettleChain("returned", ctx),
               flow.point # "before_db_write",
               Early => Built(ctx, Reached) /\ Unfaulted(ctx, faults)
               /\ Tiered(ctx)
        PROVE  FaultInv' /\ FlowInv' /\ ChainInv'
    <3>1. flow'.point = flow.point
      BY <2>5, Zenon DEF SettleChain, FlowInv
    <3>2. "returned" \in Results
      BY Zenon DEF Results
    <3>3. FaultInv' /\ (Early => Built(ctx, Reached)
          /\ Unfaulted(ctx, faults') /\ Tiered(ctx))
      BY <1>1, <2>3, <2>5, <3>1, Zenon
    <3> QED BY <1>1, <1>2, <2>4, <2>5, <3>2, <3>3, SettleKeeps, Zenon
  <2>6. CASE chain.then = "refusal"
    BY <1>1, <1>3, <2>6, Zenon DEF AfterRow
  <2>7. CASE chain.then = "substituted"
    <3>1. ~Early
      BY <1>1, <2>0, <2>7, Zenon DEF Running
    <3>2. Append(chain.ctx, Cur.fn) \in Seq(Fns)
      <4>1. Cur.fn \in Fns
        BY <2>1, Zenon DEF Fns
      <4> QED BY <2>1, <4>1
    <3>3. SettleChain("returned", Append(chain.ctx, Cur.fn))
      BY <1>1, <2>7, Zenon DEF AfterRow
    <3> QED BY <2>2, <2>5, <3>1, <3>2, <3>3, Zenon
  <2>8. CASE chain.then = "chain_timeout"
    <3>1. CASE Closed
      BY <1>1, <1>3, <2>8, <3>1, Zenon DEF AfterRow
    <3>2. CASE ~Closed
      <4>1. SettleChain("returned", chain.ctx)
        BY <1>1, <2>8, <3>2, Zenon DEF AfterRow
      <4>2. Early => Built(chain.ctx, Reached) /\ Unfaulted(chain.ctx, faults)
            /\ Tiered(chain.ctx)
        BY <2>0, Zenon DEF Running
      <4> QED BY <2>1, <2>2, <2>5, <3>2, <4>1, <4>2, Zenon
    <3> QED BY <3>1, <3>2, Zenon
  <2>9. CASE chain.then = "subscriber_error" /\ Closed /\ Kind # "cancel"
    BY <1>1, <1>3, <2>9, Zenon DEF AfterRow
  <2>10. CASE /\ chain.then \notin {"refusal", "substituted", "chain_timeout"}
              /\ ~(chain.then = "subscriber_error" /\ Closed /\ Kind # "cancel")
    <3>1. NextSub(chain.ctx, chain.ctx)
      BY <1>1, <1>5, <2>1, <2>10, Zenon DEF AfterRow
    <3>2. Early => /\ Built(chain.ctx, Reached) /\ Unfaulted(chain.ctx, faults)
          /\ Tiered(chain.ctx)
                   /\ \A k \in DOMAIN chain.subs : k > 1 => \A i \in DOMAIN chain.ctx :
                        /\ chain.ctx[i] # chain.subs[k].fn
                        /\ \A s \in Hooks : s.fn = chain.ctx[i] /\ s.point = flow.point
                                              => Rank(s) <= Rank(chain.subs[k])
      BY <2>0, Zenon DEF Running
    <3>3. flow.point = "before_db_write" => Cleared(faults)
      BY <2>0, <2>2, <2>10, Zenon DEF Running
    <3> QED BY <1>1, <1>2, <2>0, <2>1, <3>1, <3>2, <3>3, NextSubKeeps, Zenon
  <2> QED BY <2>6, <2>7, <2>8, <2>9, <2>10, Zenon
<1> QED BY <1>4, <1>5, Zenon

\* A subscriber that raises, a sink that fails, a chain that times out or is cancelled.
LEMMA ChainNext ==
    ASSUME FaultInv, FlowInv, ChainInv,
           SubscriberRaises \/ SinkFails \/ ChainTimeout \/ ChainCancelled
    PROVE  FaultInv' /\ FlowInv' /\ ChainInv'
<1>0. flushed' = flushed
  BY Zenon DEF SubscriberRaises, SinkFails, ChainTimeout, ChainCancelled
<1>1. "subscriber_error" \in Thens /\ "chain_timeout" \in Thens
      /\ "sink_error" \in Results \ {"returned"} /\ "cancelled" \in Results \ {"returned"}
  BY Zenon DEF Thens, Results
<1>2. chain.pc = "emit" => InChain
  BY Zenon DEF InChain
<1>3. CASE SubscriberRaises
  <2>1. chain.pc = "pending" /\ Fault("raised") /\ Emit("subscriber_error")
    BY <1>3, Zenon DEF SubscriberRaises
  <2>2. InChain /\ Running
    BY <2>1, PendingRuns, Zenon
  <2> QED BY <1>0, <1>1, <2>1, <2>2, EmitKeeps, Zenon
<1>4. CASE SinkFails
  <2>1. chain.pc = "emit" /\ faults' = faults /\ SettleChain("sink_error", flow.ctx)
    BY <1>4, Zenon DEF SinkFails
  <2> QED BY <1>0, <1>1, <1>2, <2>1, SettleRaises, Zenon
<1>5. CASE ChainTimeout
  <2>1. /\ Emit("chain_timeout")
        /\ \/ chain.pc = "pending" /\ Fault("timeout")
           \/ chain.pc = "emit" /\ chain.then # "drift" /\ faults' = faults
    BY <1>5, Zenon DEF ChainTimeout
  <2>2. InChain /\ Running
    BY <2>1, Zenon DEF InChain, ChainInv
  <2> QED BY <1>0, <1>1, <2>1, <2>2, EmitKeeps, Zenon
<1>6. CASE ChainCancelled
  <2>1. /\ SettleChain("cancelled", flow.ctx)
        /\ \/ chain.pc = "pending" /\ Fault("cancelled")
           \/ chain.pc = "emit" /\ faults' = faults
    BY <1>6, Zenon DEF ChainCancelled
  <2>2. InChain /\ (chain.pc = "pending" => Running)
    BY <2>1, Zenon DEF InChain, ChainInv
  <2> QED BY <1>0, <1>1, <2>1, <2>2, SettleRaises, Zenon
<1> QED BY <1>3, <1>4, <1>5, <1>6, Zenon

\* The steps of EpisodicMemory.record between two chains.
LEMMA RecordNext ==
    ASSUME HookInv, record \/ Validate \/ EnterBody \/ _persist
           \/ Finish
    PROVE  FaultInv' /\ FlowInv' /\ ChainInv'
<1>0. FaultInv /\ FlowInv /\ ChainInv /\ faults' = faults
  BY Zenon DEF HookInv, record, Validate, EnterBody, _persist, Finish
<1>1. flow \in [pc : {"idle", "chain", "settled", "body", "done"}, point : Points \cup {"none"},
                ctx : Seq(Fns), result : Results]
  BY <1>0, Zenon DEF FlowInv
<1>2. flow.pc # "chain" => chain.pc = "none"
  BY <1>0, Zenon DEF ChainInv
<1>3. /\ "before_validate" \in PrePoints /\ "before_db_write" \in PrePoints
      /\ "after_flush" \notin PrePoints /\ "write_failed" \notin PrePoints
      /\ "cancelled" \notin PrePoints /\ PrePoints \subseteq Points
      /\ "after_flush" \in Points /\ "write_failed" \in Points
         /\ "cancelled" \in Points
  BY Zenon DEF PrePoints, Points
\* only where record() stands changes
<1>4. ASSUME NEW pc \in {"body", "done"}, NEW res \in Results, flow.pc = "settled", flushed' = flushed,
             flow' = [flow EXCEPT !.pc = pc, !.result = res], chain' = chain,
             pc = "body" => flow.point = "before_db_write" /\ Cleared(faults)
      PROVE  FaultInv' /\ FlowInv' /\ ChainInv'
  <2>1. /\ flow' \in [pc : {"idle", "chain", "settled", "body", "done"},
                      point : Points \cup {"none"}, ctx : Seq(Fns), result : Results]
        /\ flow'.pc = pc /\ flow'.point = flow.point /\ flow'.ctx = flow.ctx
    BY <1>1, <1>4, Zenon
  <2>2. Early' = Early /\ Reached' = Reached
    BY <2>1, Zenon DEF Early, Reached
  <2>3. FaultInv'
    BY <1>0, <2>2, Zenon DEF FaultInv
  <2>4. FlowInv'
    <3>1. flow.point # "none"
      BY <1>0, <1>4, Zenon DEF FlowInv
    <3> QED BY <1>0, <1>4, <2>1, <2>2, <3>1, Zenon DEF FlowInv
  <2>5. ChainInv'
    BY <1>0, <1>2, <1>4, <2>1, Zenon DEF ChainInv
  <2> QED BY <2>3, <2>4, <2>5, Zenon
<1>5. CASE record
  <2>1. flow.point = "none" /\ chain.pc = "none" /\ invoke("before_validate") /\ flushed' = flushed
    BY <1>0, <1>2, <1>5, Zenon DEF record, FlowInv
  <2>2. Early
    BY <2>1, Zenon DEF Early
  <2> QED BY <1>0, <1>3, <2>1, <2>2, InvokeKeeps, Zenon
<1>6. CASE Validate
  <2>1. flow.pc = "settled" /\ flow.point = "before_validate" /\ flushed' = flushed
    BY <1>6, Zenon DEF Validate
  <2>2. Early /\ chain.pc = "none"
    BY <1>2, <2>1, Zenon DEF Early, PrePoints
  <2>3. CASE invoke("before_db_write")
    BY <1>0, <1>3, <2>1, <2>2, <2>3, InvokeKeeps, Zenon
  <2>4. CASE flow' = [flow EXCEPT !.pc = "done", !.result = "invalid"] /\ chain' = chain
    <3>1. "invalid" \in Results
      BY Zenon DEF Results
    <3> QED BY <1>4, <2>1, <2>4, <3>1, Zenon
  <2> QED BY <1>6, <2>3, <2>4, Zenon DEF Validate
<1>7. CASE EnterBody
  <2>1. /\ flow.pc = "settled" /\ flow.point = "before_db_write" /\ flow.result = "returned"
        /\ flow' = [flow EXCEPT !.pc = "body"] /\ chain' = chain /\ flushed' = flushed
    BY <1>7, Zenon DEF EnterBody
  <2>2. Cleared(faults)
    BY <1>0, <2>1, Zenon DEF FlowInv
  <2>3. flow' = [flow EXCEPT !.pc = "body", !.result = flow.result] /\ flow.result \in Results
    BY <1>1, <2>1, Zenon
  <2> QED BY <1>4, <2>1, <2>2, <2>3, Zenon
<1>8. CASE _persist
  <2>1. /\ flow.pc = "body" /\ chain.pc = "none" /\ flow.point = "before_db_write"
        /\ Cleared(faults)
    BY <1>0, <1>2, <1>8, Zenon DEF _persist, FlowInv
  <2>2. Early /\ Reached = PrePoints
    BY <2>1, Zenon DEF Early, Reached, PrePoints
  <2>3. /\ flushed = {} /\ Built(flow.ctx, PrePoints) /\ Unfaulted(flow.ctx, faults)
        /\ Tiered(flow.ctx)
    BY <1>0, <2>2, Zenon DEF FlowInv
  <2>4. CASE flushed' = flushed \cup {flow.ctx} /\ invoke("after_flush")
    <3>1. \A c \in flushed' : Built(c, PrePoints) /\ Unfaulted(c, faults) /\ Tiered(c)
                              /\ Cleared(faults)
      BY <2>1, <2>3, <2>4, Zenon
    <3> QED BY <1>0, <1>3, <2>1, <2>2, <2>4, <3>1, InvokeKeeps, Zenon
  <2>5. ASSUME NEW h \in {"write_failed", "cancelled"}, flushed' = flushed, invoke(h)
        PROVE  FaultInv' /\ FlowInv' /\ ChainInv'
    <3>1. h \in Points /\ h \notin PrePoints /\ h # "before_validate"
          /\ h # "before_db_write"
      BY <1>3, Zenon
    <3> QED BY <1>0, <2>1, <2>2, <2>3, <2>5, <3>1, InvokeKeeps, Zenon
  <2> QED BY <1>8, <2>4, <2>5, Zenon DEF _persist
<1>9. CASE Finish
  <2> DEFINE res == IF flow.point = "cancelled" /\ flow.result = "returned" THEN "cancelled"
                    ELSE flow.result
  <2>1. /\ flow.pc = "settled" /\ chain' = chain /\ flushed' = flushed
        /\ flow' = [flow EXCEPT !.pc = "done", !.result = res]
    BY <1>9, Zenon DEF Finish
  <2>2. res \in Results
    BY <1>1, Zenon DEF Results
  <2> QED BY <1>4, <2>1, <2>2, Zenon
<1> QED BY <1>5, <1>6, <1>7, <1>8, <1>9, Zenon

\* Every step keeps HookInv.
LEMMA HookKept == HookInv /\ [HookNext]_hookVars => HookInv'
<1> SUFFICES ASSUME HookInv, [HookNext]_hookVars PROVE FaultInv' /\ FlowInv'
                    /\ ChainInv'
  BY RegNext, Zenon DEF HookInv
<1>0. FaultInv /\ FlowInv /\ ChainInv
  BY Zenon DEF HookInv
<1>1. CASE UNCHANGED <<flow, chain, faults, flushed>>
  BY <1>0, <1>1, Apart, Zenon
<1>2. CASE \/ declare_hookpoints \/ (\E s \in Hooks : register(s))
           \/ _drive \/ _driveClaims \/ Joined \/ Fallback
              \/ RegisterRaises \/ reset
           \/ SubscriberReenters \/ UNCHANGED hookVars
  BY <1>1, <1>2, Zenon DEF declare_hookpoints, register, _drive, _driveClaims,
       Joined, Fallback,
       RegisterRaises, reset, SubscriberReenters, hookVars
<1> QED BY <1>0, <1>2, ReturnsNext, RefusesNext, SinkNext, ChainNext, RecordNext, Zenon
     DEF HookNext

\* Every behaviour of the dispatcher has HookInv.
LEMMA HooksHold == HookSpec => []HookInv
<1>1. HookInit => HookInv
  BY HookStarts, Zenon
<1>2. HookInv /\ [HookNext]_hookVars => HookInv'
  BY HookKept, Zenon
<1> QED BY <1>1, <1>2, PTL DEF HookSpec

\* A row the episodic store flushed was built by subscribers none of which failed, in tier
\* order, and no subscriber of the fail-closed before_db_write stage refused it, failed or
\* timed out: for every set of subscribers, of drifted hookpoints and every interleaving of
\* registrations, chains, audit-sink failures, timeouts and cancellations.
THEOREM WritesCleared == HookSpec => []WriteIsCleared
<1>1. HookInv => WriteIsCleared
  BY Zenon DEF HookInv, FlowInv, WriteIsCleared, Unfaulted, Cleared,
       Tiered, Rank
<1> QED BY <1>1, HooksHold, PTL
-----------------------------------------------------------------------------
(* Identity: a stale cached user is one whose change is untold. *)

\* The cache starts empty.
LEMMA CacheInit == IdentityInit => CacheInv
  BY DEF IdentityInit, CacheInv, OfThisVersion, NoEntry

\* A step that leaves the tables, the cache and its notices alone keeps CacheInv.
LEMMA CacheSame ==
  ASSUME CacheInv, UNCHANGED <<accounts, bindings, version, cache, notices, missed>>
  PROVE  CacheInv'
  BY Zenon DEF CacheInv, OfThisVersion, Agrees, Untold,
       _fetch_user_for_binding, Live

\* Every step of the commands and of the resolver keeps CacheInv.
LEMMA CacheNext == CacheInv /\ [IdentityNext]_ivars
=> CacheInv'
<1> SUFFICES ASSUME CacheInv, [IdentityNext]_ivars
                    PROVE CacheInv'
  BY Zenon
<1>1. ASSUME NEW c \in Clis, Mutator(c), ~ Commit(c)
             PROVE CacheInv'
  <2>1. UNCHANGED <<Store, Daemon>>
    BY <1>1, Zenon DEF Mutator, add, bind, unbind,
         remove, set_, PlatformIdInUse, Starts
  <2> QED BY <2>1, CacheSame, Zenon DEF Store, Daemon
<1>2. ASSUME NEW c \in Clis, Session(c) PROVE CacheInv'
  <2>1. UNCHANGED <<Store, Daemon>>
    BY <1>2, Zenon DEF Session, login_impl, insert_session_row,
         write_session_file, logout_impl,
         revoke_session_row, Unlink, load_session_file,
         _lookup_row, Acted, Starts
  <2> QED BY <2>1, CacheSame, Zenon DEF Store, Daemon
<1>3. ASSUME NEW c \in Clis, _write_audit(c) \/ Killed(c)
             PROVE CacheInv'
  BY <1>3, CacheSame, Zenon DEF _write_audit, Killed, Store,
       Daemon
<1>4. ASSUME NEW c \in Clis, Commit(c) PROVE CacheInv'
  <2>1. UNCHANGED <<version, cache>> /\ _notify
    BY <1>4, Zenon DEF Commit
  <2>2. notices' \in Nat /\ \A i \in Ids : Untold(i)'
    BY <2>1 DEF _notify, Untold, CacheInv
  <2> QED BY <2>1, <2>2, Zenon DEF CacheInv
<1>5. ASSUME NEW i \in Ids, resolve(i) PROVE CacheInv'
  <2> DEFINE fetched == _fetch_user_for_binding(i)
  <2>1. UNCHANGED <<accounts, bindings, version, notices>> /\ missed' = missed \ {i}
    BY <1>5, Zenon DEF resolve, Store
  <2>2. /\ DOMAIN cache' = Ids
        /\ \A j \in Ids : j # i => cache'[j] = cache[j]
        /\ cache'[i] = IF fetched.user = Nobody THEN NoEntry
                       ELSE [user |-> fetched.user, auth |-> fetched.auth, seen |-> version, age |-> 0]
    BY <1>5, Zenon DEF resolve, CacheInv
  <2>3. fetched = [user |-> fetched.user, auth |-> fetched.auth]
    BY Zenon DEF _fetch_user_for_binding
  <2>4. \A j \in Ids : _fetch_user_for_binding(j)' = _fetch_user_for_binding(j)
    BY <2>1, Zenon DEF _fetch_user_for_binding, Live
  <2>5. OfThisVersion(i)' => Agrees(i)'
    BY <2>2, <2>3, <2>4 DEF OfThisVersion, Agrees, NoEntry
  <2>6. ASSUME NEW j \in Ids, OfThisVersion(j)', ~ Agrees(j)'
               PROVE Untold(j)'
    <3>1. j # i
      BY <2>5, <2>6, Zenon
    <3>2. OfThisVersion(j) /\ ~ Agrees(j)
      BY <2>1, <2>2, <2>4, <2>6, <3>1, Zenon DEF OfThisVersion, Agrees
    <3> QED BY <2>1, <3>1, <3>2, Zenon DEF CacheInv, Untold
  <2>7. \A j \in Ids : DOMAIN cache'[j] = {"user", "auth", "seen", "age"}
    BY <2>2 DEF CacheInv, NoEntry
  <2> QED BY <2>1, <2>2, <2>6, <2>7, Zenon DEF CacheInv
<1>6. CASE _on_notify
  <2>1. version' = 1 /\ notices' \in Nat /\ DOMAIN cache' = Ids
    BY <1>6 DEF _on_notify, CacheInv
  <2>2. \A i \in Ids : cache'[i] = [cache[i] EXCEPT !.seen = 0]
    BY <1>6, Zenon DEF _on_notify
  <2>3. \A i \in Ids : DOMAIN cache'[i] = {"user", "auth", "seen", "age"} /\ cache'[i].seen = 0
    BY <2>2, Zenon DEF CacheInv
  <2> QED BY <2>1, <2>3 DEF CacheInv, OfThisVersion
<1>7. CASE Connect
  BY <1>7, CacheSame, Zenon DEF Connect, Store
<1>8. CASE ConnectionLost
  <2>1. /\ UNCHANGED <<accounts, bindings, version, cache>> /\ notices' = 0
        /\ missed' = IF notices > 0 THEN Ids ELSE missed
    BY <1>8, Zenon DEF ConnectionLost, Store
  <2>2. \A i \in Ids : Untold(i) => Untold(i)'
    BY <2>1, Zenon DEF Untold, CacheInv
  <2>3. \A i \in Ids : (OfThisVersion(i)' => OfThisVersion(i))
        /\ (~ Agrees(i)' => ~ Agrees(i))
    BY <2>1, Zenon DEF OfThisVersion, Agrees, _fetch_user_for_binding,
         Live
  <2> QED BY <2>1, <2>2, <2>3, Zenon DEF CacheInv
<1>9. CASE Tick
  <2>1. UNCHANGED <<accounts, bindings, version, notices, missed>> /\ DOMAIN cache' = Ids
    BY <1>9, Zenon DEF Tick, Store, CacheInv
  <2>2. \A i \in Ids : \E a : cache'[i] = [cache[i] EXCEPT !.age = a]
    BY <1>9, Zenon DEF Tick
  <2>3. \A i \in Ids : /\ DOMAIN cache'[i] = {"user", "auth", "seen", "age"}
                       /\ cache'[i].user = cache[i].user /\ cache'[i].auth = cache[i].auth
                       /\ cache'[i].seen = cache[i].seen
    BY <2>2, Zenon DEF CacheInv
  <2>4. \A i \in Ids : _fetch_user_for_binding(i)' = _fetch_user_for_binding(i)
    BY <2>1, Zenon DEF _fetch_user_for_binding, Live
  <2> QED BY <2>1, <2>3, <2>4, Zenon DEF CacheInv, OfThisVersion, Agrees,
       Untold
<1>10. CASE UNCHANGED ivars
  BY <1>10, CacheSame, Zenon DEF ivars
<1> QED BY <1>1, <1>2, <1>3, <1>4, <1>5, <1>6, <1>7, <1>8, <1>9, <1>10, Zenon DEF IdentityNext,
     Mutator

\* Every behaviour of identity has CacheInv.
LEMMA CacheHolds == IdentitySpec => []CacheInv
<1>1. IdentityInit => CacheInv
  BY CacheInit, Zenon
<1>2. CacheInv /\ [IdentityNext]_ivars => CacheInv'
  BY CacheNext, Zenon
<1> QED BY <1>1, <1>2, PTL DEF IdentitySpec

\* resolve serves a user the tables no longer give only while the NOTIFY of that change is on
\* its way or was lost with the connection: for every set of users, bindings and commands.
THEOREM CacheStaleness == IdentitySpec => []StaleOnlyWhileUntold
<1>1. CacheInv => StaleOnlyWhileUntold
  BY Zenon DEF CacheInv, StaleOnlyWhileUntold, Hit, OfThisVersion,
       Agrees, Untold
<1> QED BY <1>1, CacheHolds, PTL
-----------------------------------------------------------------------------
(* Sessions: the session file names a row that is there. *)

\* There is no session and no session file at first.
LEMMA FileInit == IdentityInit => FileInv
  BY DEF IdentityInit, FileInv, NoCommand

\* A command that starts.
LEMMA FileStarts ==
  ASSUME FileInv, NEW c \in Clis, NEW what, Starts(c, what),
         DOMAIN what = DOMAIN NoCommand,
         \/ what.tok = Nobody /\ what.pc \notin {"insert", "write"}
         \/ tokenFile # NoCommand /\ what.tok = tokenFile.tok /\ what.pc \notin {"insert", "write"}
         \/ /\ what.pc = "insert" /\ what.tok \in Tokens /\ sessions[what.tok].state = "none"
            /\ \A d \in Clis : cmd[d].tok # what.tok
  PROVE  FileInv'
<1>1. UNCHANGED <<sessions, tokenFile>> /\ cmd' = [cmd EXCEPT ![c] = what]
  BY Zenon DEF Starts, Login
<1>2. DOMAIN cmd' = Clis /\ cmd'[c] = what /\ \A d \in Clis : d # c => cmd'[d] = cmd[d]
  BY <1>1, Zenon DEF FileInv
<1>3. \A d \in Clis : cmd[d].pc = "insert" /\ d # c => what.tok # cmd[d].tok
  BY IdentityAssumption DEF FileInv, Backed
<1>4. \A d \in Clis :
        cmd'[d].pc = "insert" => /\ cmd'[d].tok \in Tokens /\ sessions'[cmd'[d].tok].state = "none"
                                 /\ \A e \in Clis : e # d => cmd'[e].tok # cmd'[d].tok
  BY <1>1, <1>2, <1>3, Zenon DEF FileInv
<1>5. \A d \in Clis : cmd'[d].pc = "write" => Backed(cmd[d]) /\ cmd'[d] = cmd[d]
  BY <1>2, Zenon DEF FileInv
<1> QED BY <1>1, <1>2, <1>4, <1>5, Zenon DEF FileInv, Backed

\* A command that goes on or ends, without a change of the sessions.
LEMMA FileMoves ==
  ASSUME FileInv, NEW c \in Clis, UNCHANGED sessions,
         DOMAIN cmd' = Clis, \A d \in Clis : d # c => cmd'[d] = cmd[d],
         DOMAIN cmd'[c] = DOMAIN NoCommand, cmd'[c].pc \notin {"insert", "write"},
         cmd'[c].tok \in {cmd[c].tok, Nobody},
         tokenFile' \in {tokenFile, NoCommand,
         [NoCommand EXCEPT !.user = cmd[c].user, !.tok = cmd[c].tok]},
         tokenFile' \in {tokenFile, NoCommand} \/ cmd[c].pc = "write"
  PROVE  FileInv'
<1>1. \A d \in Clis :
        cmd'[d].pc = "insert" => /\ cmd'[d].tok \in Tokens /\ sessions'[cmd'[d].tok].state = "none"
                                 /\ \A e \in Clis : e # d => cmd'[e].tok # cmd'[d].tok
  BY IdentityAssumption DEF FileInv
<1>2. \A d \in Clis : cmd'[d].pc = "write" => Backed(cmd[d])'
  BY DEF FileInv, Backed
<1>3. DOMAIN tokenFile' = DOMAIN NoCommand
  BY Zenon DEF FileInv, NoCommand
<1>4. tokenFile' # NoCommand => Backed(tokenFile)'
  <2>1. CASE tokenFile' \in {tokenFile, NoCommand}
    BY <2>1, Zenon DEF FileInv, Backed
  <2>2. CASE cmd[c].pc = "write"
             /\ tokenFile' = [NoCommand EXCEPT !.user = cmd[c].user, !.tok = cmd[c].tok]
    BY <2>2, Zenon DEF FileInv, Backed, NoCommand
  <2> QED BY <2>1, <2>2, Zenon
<1> QED BY <1>1, <1>2, <1>3, <1>4 DEF FileInv

\* Every step of the commands, kills included, keeps FileInv.
LEMMA FileNext == FileInv /\ [IdentityNext]_ivars => FileInv'
<1> SUFFICES ASSUME FileInv, [IdentityNext]_ivars
                    PROVE FileInv'
  BY Zenon
<1>1. ASSUME NEW c \in Clis, add(c) \/ bind(c) \/ unbind(c)
             \/ remove(c) \/ set_(c) PROVE FileInv'
  <2> DEFINE Plain(what) == DOMAIN what = DOMAIN NoCommand /\ what.tok = Nobody
             /\ what.pc = "commit"
  <2>1. \A o, u : Plain(Mutation(o, u))
    BY Zenon DEF Mutation, NoCommand
  <2>2. \A o, u, i : Plain([Mutation(o, u) EXCEPT !.id = i])
    BY Zenon DEF Mutation, NoCommand
  <2>3. \A o, u, a, r : Plain([Mutation(o, u) EXCEPT !.auth = a, !.demote = r])
    BY Zenon DEF Mutation, NoCommand
  <2> HIDE DEF Plain
  <2>4. PICK what : Starts(c, what) /\ Plain(what)
    BY <1>1, <2>1, <2>2, <2>3, Zenon DEF add, bind, unbind,
         remove, set_
  <2> QED BY <2>4, FileStarts, Zenon DEF Plain
<1>2. ASSUME NEW c \in Clis, Commit(c) PROVE FileInv'
  <2>1. UNCHANGED <<sessions, tokenFile>> /\ cmd' = [cmd EXCEPT ![c].pc = "audit"]
    BY <1>2, Zenon DEF Commit, Login
  <2> QED BY <2>1, FileMoves, Zenon DEF FileInv, NoCommand
<1>3. ASSUME NEW c \in Clis, PlatformIdInUse(c) \/ _write_audit(c)
             \/ Killed(c) \/ Acted(c)
      PROVE  FileInv'
  <2>1. UNCHANGED <<sessions, tokenFile>> /\ cmd' = [cmd EXCEPT ![c] = NoCommand]
    BY <1>3, Zenon DEF PlatformIdInUse, _write_audit, Killed,
         Acted, Login
  <2> QED BY <2>1, FileMoves, Zenon DEF FileInv, NoCommand
<1>4. ASSUME NEW c \in Clis, login_impl(c, FALSE) \/ login_impl(c, TRUE)
             PROVE FileInv'
  <2>1. PICK u \in Users, t \in Tokens :
          /\ sessions[t].state = "none" /\ \A d \in Clis : cmd[d].tok # t
          /\ Starts(c,
             [NoCommand EXCEPT !.op = "login", !.pc = "insert", !.user = u, !.tok = t])
    BY <1>4, Zenon DEF login_impl
  <2> DEFINE what == [NoCommand EXCEPT !.op = "login", !.pc = "insert", !.user = u, !.tok = t]
  <2>2. DOMAIN what = DOMAIN NoCommand /\ what.pc = "insert" /\ what.tok = t
    BY Zenon DEF NoCommand
  <2> HIDE DEF what
  <2> QED BY <2>1, <2>2, FileStarts, Zenon DEF what
<1>5. ASSUME NEW c \in Clis, insert_session_row(c) PROVE FileInv'
  <2> DEFINE t == cmd[c].tok
  <2>1. /\ UNCHANGED tokenFile /\ cmd[c].pc = "insert" /\ cmd' = [cmd EXCEPT ![c].pc = "write"]
        /\ sessions' = [sessions EXCEPT ![t] = [state |-> "active", user |-> cmd[c].user]]
    BY <1>5, Zenon DEF insert_session_row
  <2>2. t \in Tokens /\ sessions[t].state = "none" /\ \A d \in Clis : d # c => cmd[d].tok # t
    BY <2>1, Zenon DEF FileInv
  <2>3. /\ DOMAIN sessions' = Tokens /\ sessions'[t] = [state |-> "active", user |-> cmd[c].user]
        /\ \A x \in Tokens : x # t => sessions'[x] = sessions[x]
    BY <2>1, <2>2, Zenon DEF FileInv
  <2>4. /\ DOMAIN cmd' = Clis /\ \A d \in Clis : d # c => cmd'[d] = cmd[d]
        /\ DOMAIN cmd'[c] = DOMAIN NoCommand /\ cmd'[c].pc = "write"
        /\ cmd'[c].tok = t /\ cmd'[c].user = cmd[c].user
    BY <2>1, Zenon DEF FileInv, NoCommand
  <2> HIDE DEF t
  <2>5. Backed(cmd[c])'
    BY <2>2, <2>3, <2>4 DEF Backed
  <2>6. tokenFile' # NoCommand => Backed(tokenFile)'
    BY <2>1, <2>2, <2>3, Zenon DEF Backed, FileInv
  <2>7. ASSUME NEW d \in Clis, d # c, cmd'[d].pc = "write" PROVE Backed(cmd[d])'
    BY <2>2, <2>3, <2>4, <2>7 DEF Backed, FileInv
  <2>8. ASSUME NEW d \in Clis, cmd'[d].pc = "insert"
        PROVE  /\ cmd'[d].tok \in Tokens /\ sessions'[cmd'[d].tok].state = "none"
               /\ \A e \in Clis : e # d => cmd'[e].tok # cmd'[d].tok
    BY <2>2, <2>3, <2>4, <2>8 DEF FileInv, t
  <2>9. \A x \in Tokens : DOMAIN sessions'[x] = {"state", "user"}
    BY <2>3 DEF FileInv
  <2>10. \A d \in Clis : DOMAIN cmd'[d] = DOMAIN NoCommand
    BY <2>4, Zenon DEF FileInv
  <2> QED BY <2>1, <2>3, <2>4, <2>5, <2>6, <2>7, <2>8, <2>9, <2>10, Zenon DEF FileInv
<1>6. ASSUME NEW c \in Clis, write_session_file(c) \/ Unlink(c)
             PROVE FileInv'
  <2>1. /\ UNCHANGED sessions /\ cmd' = [cmd EXCEPT ![c].pc = "audit"]
        /\ \/ tokenFile' = NoCommand
           \/ /\ tokenFile' = [NoCommand EXCEPT !.user = cmd[c].user, !.tok = cmd[c].tok]
              /\ cmd[c].pc = "write"
    BY <1>6, Zenon DEF write_session_file, Unlink
  <2>2. /\ DOMAIN cmd' = Clis /\ \A d \in Clis : d # c => cmd'[d] = cmd[d]
        /\ DOMAIN cmd'[c] = DOMAIN NoCommand /\ cmd'[c].pc = "audit" /\ cmd'[c].tok = cmd[c].tok
    BY <2>1, Zenon DEF FileInv, NoCommand
  <2> QED BY <2>1, <2>2, FileMoves, Zenon
<1>7. ASSUME NEW c \in Clis, logout_impl(c) \/ load_session_file(c)
             PROVE FileInv'
  <2> DEFINE Copy(o, p) == [tokenFile EXCEPT !.op = o, !.pc = p]
  <2>1. \A o, p : DOMAIN Copy(o, p) = DOMAIN NoCommand /\ Copy(o, p).tok = tokenFile.tok
                  /\ Copy(o, p).pc = p
    BY Zenon DEF FileInv, NoCommand
  <2>2. tokenFile # NoCommand
        /\ \E o : \E p \in {"revoke", "lookup"} : Starts(c, Copy(o, p))
    BY <1>7, Zenon DEF logout_impl, load_session_file
  <2> HIDE DEF Copy
  <2> QED BY <2>1, <2>2, FileStarts, Zenon
<1>8. ASSUME NEW c \in Clis, revoke_session_row(c) PROVE FileInv'
  <2>1. /\ UNCHANGED tokenFile /\ cmd[c].pc = "revoke" /\ cmd' = [cmd EXCEPT ![c].pc = "unlink"]
        /\ sessions' = [sessions EXCEPT ![cmd[c].tok].state = IF @ = "active" THEN "revoked" ELSE @]
    BY <1>8, Zenon DEF revoke_session_row
  <2>2. /\ DOMAIN sessions' = Tokens
        /\ \A x \in Tokens : /\ DOMAIN sessions'[x] = {"state", "user"}
                             /\ sessions'[x].user = sessions[x].user
                             /\ sessions'[x].state = "none" <=> sessions[x].state = "none"
    BY <2>1, Zenon DEF FileInv
  <2>3. /\ DOMAIN cmd' = Clis /\ \A d \in Clis : d # c => cmd'[d] = cmd[d]
        /\ DOMAIN cmd'[c] = DOMAIN NoCommand /\ cmd'[c].pc = "unlink" /\ cmd'[c].tok = cmd[c].tok
    BY <2>1, Zenon DEF FileInv, NoCommand
  <2>4. ASSUME NEW d \in Clis, cmd'[d].pc = "insert"
        PROVE  /\ cmd'[d].tok \in Tokens /\ sessions'[cmd'[d].tok].state = "none"
               /\ \A e \in Clis : e # d => cmd'[e].tok # cmd'[d].tok
    BY <2>2, <2>3, <2>4 DEF FileInv
  <2>5. ASSUME NEW d \in Clis, cmd'[d].pc = "write" PROVE Backed(cmd[d])'
    BY <2>2, <2>3, <2>5 DEF FileInv, Backed
  <2>6. tokenFile' # NoCommand => Backed(tokenFile)'
    BY <2>1, <2>2, Zenon DEF Backed, FileInv
  <2> QED BY <2>1, <2>2, <2>3, <2>4, <2>5, <2>6, Zenon DEF FileInv
<1>9. ASSUME NEW c \in Clis, _lookup_row(c) PROVE FileInv'
  <2>1. UNCHANGED <<sessions, tokenFile>>
        /\ \E p \in {"acting", "audit"} : cmd' = [cmd EXCEPT ![c].pc = p]
    BY <1>9, Zenon DEF _lookup_row, Login
  <2> QED BY <2>1, FileMoves DEF FileInv, NoCommand
<1>10. CASE (\E i \in Ids : resolve(i)) \/ _on_notify \/ Connect
            \/ ConnectionLost \/ Tick
            \/ UNCHANGED ivars
  <2>1. UNCHANGED <<sessions, tokenFile, cmd>>
    BY <1>10, Zenon DEF resolve, _on_notify, Connect,
         ConnectionLost, Tick, ivars, Login
  <2> QED BY <2>1, ZenonT(60) DEF FileInv, Backed
<1> QED BY <1>1, <1>2, <1>3, <1>4, <1>5, <1>6, <1>7, <1>8, <1>9, <1>10, Zenon DEF IdentityNext,
     Mutator, Session

\* Every behaviour of identity has FileInv.
LEMMA FileHolds == IdentitySpec => []FileInv
<1>1. IdentityInit => FileInv
  BY FileInit, Zenon
<1>2. FileInv /\ [IdentityNext]_ivars => FileInv'
  BY FileNext, Zenon
<1> QED BY <1>1, <1>2, PTL DEF IdentitySpec

\* The session file names a token whose row is in the table, for the same user, wherever a
\* login or a logout was killed and whatever ran beside it.
THEOREM SessionFiles == IdentitySpec => []SessionFileIsBacked
<1>1. FileInv => SessionFileIsBacked
  BY Zenon DEF FileInv, SessionFileIsBacked, Backed
<1> QED BY <1>1, FileHolds, PTL
=============================================================================
