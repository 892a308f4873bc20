-------------------------- MODULE GatewayLegProofs --------------------------
(***************************************************************************)
(* For every set of legs, every caps and every clock: the frames a leg     *)
(* retains are in mint order and within the hard ceiling, no append is     *)
(* ever refused for its number or its clock, and the process-wide budget   *)
(* is the sum of the bytes the legs retain.                                *)
(***************************************************************************)
EXTENDS GatewayLeg, FiniteSetTheorems, WellFoundedInduction, TLAPS

\* A non-empty set of naturals has a least element.
LEMMA LeastNatural ==
    ASSUME NEW T, T \subseteq Nat, T # {}
    PROVE  \E d \in T : \A y \in T : d <= y
<1> DEFINE R == OpToRel(<, Nat)
<1>1. IsWellFoundedOn(R, Nat)
  BY NatLessThanWellFounded, Zenon
<1>2. R = {p \in Nat \X Nat : p[1] < p[2]}
  BY DEF OpToRel
<1> HIDE DEF R
<1>3. PICK d \in T : \A y \in T : ~(<<y, d>> \in R)
  BY <1>1, WFMin, Zenon
<1>4. ASSUME NEW y \in T, y < d PROVE FALSE
  <2> DEFINE p == <<y, d>>
  <2>1. p \in Nat \X Nat /\ p[1] < p[2]
    BY <1>4
  <2> HIDE DEF p
  <2>2. p \in R
    BY <2>1, <1>2
  <2> QED
    BY <1>3, <2>2 DEF p
<1>5. \A y \in T : d <= y
  BY <1>4
<1> QED
  BY <1>5

\* The maximum of a non-empty interval subset is one of its elements: the
\* choice in Max is never arbitrary where the models use it.
LEMMA IntervalMax ==
    ASSUME NEW lo \in Int, NEW hi \in Int, NEW S \in SUBSET (lo .. hi), S # {}
    PROVE  Max(S) \in S /\ \A y \in S : Max(S) >= y
<1> DEFINE T == {hi - n : n \in S}
<1>1. T \subseteq Nat /\ T # {}
  <2>1. \A n \in S : hi - n \in Nat
    OBVIOUS
  <2> QED
    BY <2>1, Zenon
<1>2. PICK d \in T : \A y \in T : d <= y
  BY <1>1, LeastNatural, Zenon
<1>3. PICK m \in S : d = hi - m
  BY <1>2
<1>4. \A n \in S : m >= n
  <2>1. \A n \in S : hi - n \in T
    OBVIOUS
  <2> HIDE DEF T
  <2> QED  BY <1>2, <1>3, <2>1
<1> QED
  BY <1>4, Zenon DEF Max

\* The same for sets of naturals.
LEMMA BoundedMax ==
    ASSUME NEW N \in Nat, NEW S \in SUBSET (0 .. N), S # {}
    PROVE  Max(S) \in S
<1>1. 0 \in Int /\ N \in Int
  OBVIOUS
<1> QED
  BY <1>1, IntervalMax, Zenon

\* The removal loops of trim_to_ack and evict_expired remove at most the whole
\* buffer, and only entries they are to remove.
LEMMA PrefixInRange ==
    ASSUME NEW entries \in Seq(Retained), NEW gone
    PROVE  /\ RemovedPrefix(entries, gone) \in 0 .. Len(entries)
           /\ 1 .. RemovedPrefix(entries, gone) \subseteq gone
<1> DEFINE S == {n \in 0 .. Len(entries) : 1 .. n \subseteq gone}
<1>1. 0 \in S
  OBVIOUS
<1>2. Len(entries) \in Nat /\ S \in SUBSET (0 .. Len(entries)) /\ S # {}
  BY <1>1
<1>3. Max(S) \in S
  <2> HIDE DEF S
  <2> QED  BY <1>2, BoundedMax
<1> QED
  BY <1>3 DEF RemovedPrefix

\* What is left of a sequence without its first k elements.
LEMMA SuffixShape ==
    ASSUME NEW S, NEW r \in Seq(S), NEW k \in 0 .. Len(r)
    PROVE  /\ SubSeq(r, k + 1, Len(r)) \in Seq(S)
           /\ Len(SubSeq(r, k + 1, Len(r))) = Len(r) - k
           /\ \A i \in 1 .. Len(r) - k : SubSeq(r, k + 1, Len(r))[i] = r[i + k]
  OBVIOUS
-----------------------------------------------------------------------------

\* Induction along 0 .. N, for a set.
LEMMA Upward ==
    ASSUME NEW N \in Nat, NEW T, 0 \in T, \A n \in 1 .. N : n - 1 \in T => n \in T
    PROVE  0 .. N \subseteq T
<1> DEFINE U == {n \in 0 .. N : n \notin T}
<1> SUFFICES ASSUME U # {} PROVE FALSE
  OBVIOUS
<1>1. U \subseteq Nat
  OBVIOUS
<1>2. PICK d \in U : \A y \in U : d <= y
  <2> HIDE DEF U
  <2> QED  BY <1>1, LeastNatural, Zenon
<1>3. d \in 1 .. N /\ d - 1 \in 0 .. N /\ d \notin T
  BY <1>2
<1>4. d - 1 \in T
  BY <1>2, <1>3
<1> QED
  BY <1>3, <1>4

\* The running totals of BytesUpTo are what their recursion says.
LEMMA RunningTotals ==
    ASSUME NEW r \in Seq(Retained)
    PROVE  /\ BytesUpTo(r) \in [0 .. Len(r) -> Nat]
           /\ BytesUpTo(r)[0] = 0
           /\ \A n \in 1 .. Len(r) : BytesUpTo(r)[n] = BytesUpTo(r)[n - 1] + r[n].size
<1> DEFINE N == Len(r)
           Table(k) == {g \in [0 .. k -> Nat] :
                            /\ g[0] = 0
                            /\ \A n \in 1 .. k : g[n] = g[n - 1] + r[n].size}
           T == {k \in 0 .. N : Table(k) # {}}
<1>1. N \in Nat /\ \A n \in 1 .. N : r[n].size \in Nat
  <2>1. \A n \in 1 .. N : r[n] \in Retained
    OBVIOUS
  <2> QED
    BY <2>1 DEF Retained
<1>2. 0 \in T
  <2> DEFINE g == [n \in 0 .. 0 |-> 0]
  <2>1. g \in Table(0)
    OBVIOUS
  <2> QED
    BY <1>1, <2>1
<1>3. ASSUME NEW k \in 1 .. N, k - 1 \in T PROVE k \in T
  <2>1. PICK g \in [0 .. k - 1 -> Nat] :
            g[0] = 0 /\ \A n \in 1 .. k - 1 : g[n] = g[n - 1] + r[n].size
    BY <1>3
  <2> DEFINE h == [n \in 0 .. k |-> IF n = k THEN g[k - 1] + r[k].size ELSE g[n]]
  <2>2. k \in 1 .. N /\ k - 1 \in 0 .. k - 1 /\ g[k - 1] \in Nat /\ r[k].size \in Nat
    <3>1. k \in 1 .. N /\ k - 1 \in 0 .. k - 1
      BY <1>1
    <3> HIDE DEF N
    <3> QED
      BY <1>1, <2>1, <3>1
  <2>3. h \in [0 .. k -> Nat] /\ h[0] = 0 /\ h[k] = g[k - 1] + r[k].size
    <3> HIDE DEF N
    <3>1. 0 \in 0 .. k - 1 /\ 0 # k /\ k \in 0 .. k
      BY <1>1, <2>2
    <3>2. \A n \in 0 .. k : n # k => n \in 0 .. k - 1 /\ g[n] \in Nat
      BY <1>1, <2>1, <2>2
    <3>3. g[k - 1] + r[k].size \in Nat
      BY <2>2
    <3> QED
      BY <2>1, <3>1, <3>2, <3>3
  <2>4. \A n \in 0 .. k - 1 : h[n] = g[n]
    BY <1>1, <2>2
  <2>5. ASSUME NEW n \in 1 .. k PROVE h[n] = h[n - 1] + r[n].size
    <3>1. n - 1 \in 0 .. k - 1 /\ h[n - 1] = g[n - 1]
      BY <2>2, <2>4
    <3>2. CASE n = k
      BY <2>3, <3>1, <3>2
    <3>3. CASE n \in 1 .. k - 1
      BY <2>1, <2>4, <3>1, <3>3
    <3> QED
      BY <2>2, <3>2, <3>3
  <2> HIDE DEF h
  <2>6. h \in Table(k)
    BY <2>3, <2>5
  <2> HIDE DEF Table
  <2>7. k \in 0 .. N
    BY <1>1
  <2> QED
    BY <2>6, <2>7
<1>4. PICK g \in [0 .. N -> Nat] :
          g[0] = 0 /\ \A n \in 1 .. N : g[n] = g[n - 1] + r[n].size
  <2>1. 0 .. N \subseteq T
    <3> HIDE DEF T, N
    <3> QED  BY <1>1, <1>2, <1>3, Upward, Zenon
  <2>2. N \in T
    BY <1>1, <2>1
  <2> QED
    BY <2>2
<1> DEFINE Solves(f) == f = [n \in 0 .. N |-> IF n = 0 THEN 0 ELSE f[n - 1] + r[n].size]
           f == CHOOSE x : Solves(x)
<1>5. Solves(g)
  <2>1. \A n \in 0 .. N : g[n] = IF n = 0 THEN 0 ELSE g[n - 1] + r[n].size
    BY <1>1, <1>4
  <2> QED
    BY <2>1
<1>6. Solves(f)
  <2> HIDE DEF Solves
  <2> QED  BY <1>5
<1>7. f = BytesUpTo(r)
  BY DEF BytesUpTo
<1> HIDE DEF f
<1>8. /\ DOMAIN f = 0 .. N /\ f[0] = 0
      /\ \A n \in 1 .. N : f[n] = f[n - 1] + r[n].size
  <2>1. \A n \in 0 .. N : f[n] = IF n = 0 THEN 0 ELSE f[n - 1] + r[n].size
    BY <1>6, Zenon
  <2>2. DOMAIN f = 0 .. N
    BY <1>6
  <2> QED
    BY <1>1, <2>1, <2>2
<1>9. 0 .. N \subseteq {n \in 0 .. N : f[n] \in Nat}
  <2> DEFINE V == {n \in 0 .. N : f[n] \in Nat}
  <2>1. 0 \in V
    BY <1>1, <1>8
  <2>2. \A n \in 1 .. N : n - 1 \in V => n \in V
    BY <1>1, <1>8
  <2> HIDE DEF V, N
  <2>3. 0 .. N \subseteq V
    BY <1>1, <2>1, <2>2, Upward, Zenon
  <2> QED
    BY <2>3 DEF V
<1>10. f \in [0 .. N -> Nat]
  <2>1. f = [n \in 0 .. N |-> f[n]]
    BY <1>6
  <2> QED
    BY <2>1, <1>9
<1> QED
  BY <1>7, <1>8, <1>10


\* The bytes of a buffer are a number.
LEMMA BytesNat ==
    ASSUME NEW r \in Seq(Retained)
    PROVE  Bytes(r) \in Nat
<1>1. Len(r) \in 0 .. Len(r)
  OBVIOUS
<1> QED
  BY <1>1, RunningTotals DEF Bytes

\* Sequences that agree up to n have the same totals up to n.
LEMMA SamePrefix ==
    ASSUME NEW r \in Seq(Retained), NEW s \in Seq(Retained),
           NEW n \in 0 .. Len(r), n <= Len(s), \A i \in 1 .. n : r[i] = s[i]
    PROVE  BytesUpTo(r)[n] = BytesUpTo(s)[n]
<1> DEFINE f == BytesUpTo(r)
           g == BytesUpTo(s)
           T == {m \in 0 .. n : f[m] = g[m]}
<1>1. f[0] = 0 /\ g[0] = 0 /\ n \in Nat /\ Len(r) \in Nat /\ Len(s) \in Nat
  BY RunningTotals
<1>2. \A m \in 1 .. n : /\ f[m] = f[m - 1] + r[m].size
                        /\ g[m] = g[m - 1] + s[m].size
  BY <1>1, RunningTotals
<1> HIDE DEF f, g
<1>3. 0 \in T
  BY <1>1
<1>4. \A m \in 1 .. n : m - 1 \in T => m \in T
  BY <1>1, <1>2
<1>5. 0 .. n \subseteq T
  <2> HIDE DEF T
  <2> QED  BY <1>1, <1>3, <1>4, Upward, Zenon
<1> QED
  BY <1>1, <1>5 DEF f, g

\* append adds the bytes of its frame.
LEMMA BytesAppend ==
    ASSUME NEW r \in Seq(Retained), NEW e \in Retained
    PROVE  Bytes(Append(r, e)) = Bytes(r) + e.size
<1> DEFINE k == Append(r, e)
           n == Len(r)
<1>1. /\ k \in Seq(Retained) /\ Len(k) = n + 1 /\ k[n + 1] = e
      /\ \A i \in 1 .. n : r[i] = k[i]
      /\ n \in Nat /\ n \in 0 .. Len(r)
  OBVIOUS
<1> HIDE DEF k
<1>2. BytesUpTo(r)[n] = BytesUpTo(k)[n]
  <2>1. n <= Len(k)
    BY <1>1
  <2> HIDE DEF n
  <2> QED  BY <1>1, <2>1, SamePrefix
<1>3. BytesUpTo(k)[n + 1] = BytesUpTo(k)[n] + k[n + 1].size
  <2> DEFINE m == n + 1
  <2>1. m \in 1 .. Len(k) /\ m - 1 = n
    BY <1>1
  <2> HIDE DEF m, n
  <2>2. BytesUpTo(k)[m] = BytesUpTo(k)[m - 1] + k[m].size
    BY <1>1, <2>1, RunningTotals, Zenon
  <2> QED
    BY <2>1, <2>2 DEF m
<1> QED
  BY <1>1, <1>2, <1>3 DEF Bytes, k

\* The removal loops subtract what they remove: a prefix and the rest make up
\* the whole.
LEMMA BytesSplit ==
    ASSUME NEW r \in Seq(Retained), NEW n \in 0 .. Len(r)
    PROVE  Bytes(SubSeq(r, 1, n)) + Bytes(SubSeq(r, n + 1, Len(r))) = Bytes(r)
<1> DEFINE p == SubSeq(r, 1, n)
           k == SubSeq(r, n + 1, Len(r))
           L == Len(r) - n
<1>1. /\ n \in Nat /\ L \in Nat /\ Len(r) = n + L
      /\ p \in Seq(Retained) /\ Len(p) = n /\ \A i \in 1 .. n : p[i] = r[i]
  OBVIOUS
<1>2. k \in Seq(Retained) /\ Len(k) = L /\ \A i \in 1 .. L : k[i] = r[i + n]
  BY SuffixShape
<1> DEFINE f == BytesUpTo(r)
           g == BytesUpTo(k)
           T == {m \in 0 .. L : f[n] + g[m] = f[n + m]}
<1> HIDE DEF p, k
<1>3. Bytes(p) = f[n]
  <2>1. n \in 0 .. Len(p) /\ n <= Len(r)
    BY <1>1
  <2> QED
    BY <1>1, <2>1, SamePrefix DEF Bytes
<1>4. f \in [0 .. Len(r) -> Nat] /\ g[0] = 0
  BY <1>2, RunningTotals
<1>5. \A m \in 1 .. L : g[m] = g[m - 1] + r[n + m].size
  <2>1. \A m \in 1 .. L : g[m] = g[m - 1] + k[m].size
    BY <1>2, RunningTotals, Zenon
  <2> QED
    BY <1>1, <1>2, <2>1
<1>6. \A m \in 1 .. L : f[n + m] = f[n + (m - 1)] + r[n + m].size
  <2>1. \A m \in 1 .. Len(r) : f[m] = f[m - 1] + r[m].size
    BY RunningTotals
  <2> HIDE DEF f, L
  <2>2. ASSUME NEW m \in 1 .. L PROVE n + m \in 1 .. Len(r) /\ (n + m) - 1 = n + (m - 1)
    BY <1>1
  <2> QED
    BY <2>1, <2>2
<1>7. \A m \in 1 .. Len(r) : r[m].size \in Nat
  <2>1. \A m \in 1 .. Len(r) : r[m] \in Retained
    OBVIOUS
  <2> QED
    BY <2>1 DEF Retained
<1>8. g \in [0 .. L -> Nat]
  BY <1>2, RunningTotals
<1> HIDE DEF f, g, L
<1>9. 0 \in T
  BY <1>1, <1>4
<1>10. ASSUME NEW m \in 1 .. L, m - 1 \in T PROVE m \in T
  <2>1. f[n] + g[m - 1] = f[n + (m - 1)]
    BY <1>10
  <2>2. f[n] \in Nat /\ g[m - 1] \in Nat /\ r[n + m].size \in Nat
    BY <1>1, <1>4, <1>7, <1>8
  <2>3. f[n] + g[m] = f[n + m]
    BY <1>5, <1>6, <2>1, <2>2
  <2> QED
    BY <1>1, <2>3
<1>11. 0 .. L \subseteq T
  <2> HIDE DEF T
  <2> QED  BY <1>1, <1>9, <1>10, Upward, Zenon
<1>12. f[n] + g[L] = f[n + L]
  BY <1>1, <1>11
<1> QED
  BY <1>1, <1>2, <1>3, <1>12 DEF Bytes, f, g, p, k
-----------------------------------------------------------------------------
\* What is known of one leg's buffer between any two calls.
Sound(b, nextSeq, t) ==
    /\ b.retained \in Seq(Retained)
    /\ b.lastSeq \in Int
    /\ b.lastNow \in Int
    /\ Ordered(b, nextSeq, t)

\* A frame above the seq floor and not before the clock floor extends the order.
LEMMA AppendInOrder ==
    ASSUME NEW r \in Seq(Retained), NEW q \in Int, NEW u \in Int, InOrder(r, q, u),
           NEW e \in Retained, q < e.seq, u <= e.enqueuedAt
    PROVE  InOrder(Append(r, e), e.seq, e.enqueuedAt)
<1> DEFINE k == Append(r, e)
<1>1. \A i \in 1 .. Len(r) : /\ r[i].seq \in Nat /\ r[i].enqueuedAt \in Nat
                             /\ r[i].seq < e.seq /\ r[i].enqueuedAt <= e.enqueuedAt
  <2>1. \A i \in 1 .. Len(r) : r[i] \in Retained
    OBVIOUS
  <2>2. e.seq \in Nat /\ e.enqueuedAt \in Nat
    BY DEF Retained
  <2>3. \A i \in 1 .. Len(r) : r[i].seq \in Nat /\ r[i].enqueuedAt \in Nat
    BY <2>1 DEF Retained
  <2> QED
    BY <2>2, <2>3 DEF InOrder
<1>2. /\ Len(k) = Len(r) + 1 /\ k[Len(r) + 1] = e
      /\ \A i \in 1 .. Len(r) : k[i] = r[i]
  OBVIOUS
<1>3. e.seq \in Nat /\ e.enqueuedAt \in Nat /\ Len(r) \in Nat
  BY DEF Retained
<1> HIDE DEF k
<1>4. ASSUME NEW i \in 1 .. Len(k)
      PROVE  k[i].seq <= e.seq /\ k[i].enqueuedAt <= e.enqueuedAt
  <2>1. CASE i = Len(r) + 1
    BY <1>2, <1>3, <2>1
  <2>2. CASE i \in 1 .. Len(r)
    BY <1>1, <1>2, <1>3, <2>2
  <2> QED
    BY <1>2, <1>3, <2>1, <2>2
<1>5. ASSUME NEW i \in 1 .. Len(k), NEW j \in 1 .. Len(k), i < j
      PROVE  k[i].seq < k[j].seq /\ k[i].enqueuedAt <= k[j].enqueuedAt
  <2>0. i \in 1 .. Len(r) /\ k[i] = r[i]
    BY <1>2, <1>3, <1>5
  <2>1. CASE j = Len(r) + 1
    BY <1>1, <1>2, <2>0, <2>1
  <2>2. CASE j \in 1 .. Len(r)
    BY <1>2, <1>5, <2>0, <2>2 DEF InOrder
  <2> QED
    BY <1>2, <1>3, <2>1, <2>2
<1> QED
  BY <1>4, <1>5 DEF InOrder, k

\* Dropping a prefix and raising the clock floor keeps the order.
LEMMA SuffixInOrder ==
    ASSUME NEW r \in Seq(Retained), NEW q \in Int, NEW u \in Int, InOrder(r, q, u),
           NEW w \in Int, u <= w, NEW n \in 0 .. Len(r)
    PROVE  InOrder(SubSeq(r, n + 1, Len(r)), q, w)
<1> DEFINE k == SubSeq(r, n + 1, Len(r))
<1>1. /\ Len(r) \in Nat
      /\ Len(k) = Len(r) - n
      /\ \A i \in 1 .. Len(k) : k[i] = r[i + n]
  OBVIOUS
<1>2. \A i \in 1 .. Len(r) : r[i].enqueuedAt \in Nat
  <2>1. \A i \in 1 .. Len(r) : r[i] \in Retained
    OBVIOUS
  <2> QED
    BY <2>1 DEF Retained
<1> HIDE DEF k
<1>3. \A i \in 1 .. Len(k) : i + n \in 1 .. Len(r)
  BY <1>1
<1>4. ASSUME NEW i \in 1 .. Len(k)
      PROVE  k[i].seq <= q /\ k[i].enqueuedAt <= w
  <2>1. i + n \in 1 .. Len(r) /\ k[i] = r[i + n]
    BY <1>1, <1>3
  <2> QED
    BY <1>2, <2>1 DEF InOrder
<1>5. ASSUME NEW i \in 1 .. Len(k), NEW j \in 1 .. Len(k), i < j
      PROVE  k[i].seq < k[j].seq /\ k[i].enqueuedAt <= k[j].enqueuedAt
  <2>1. /\ i + n \in 1 .. Len(r) /\ k[i] = r[i + n]
        /\ j + n \in 1 .. Len(r) /\ k[j] = r[j + n]
        /\ i + n < j + n
    BY <1>1, <1>3, <1>5
  <2> QED
    BY <2>1 DEF InOrder
<1> QED
  BY <1>4, <1>5, Zenon DEF InOrder, k

\* append keeps the buffer sound below the next number.
LEMMA AppendedSound ==
    ASSUME NEW b, NEW s \in Nat, NEW size \in Nat, NEW t \in Nat,
           Sound(b, s, t), AppendOutcome(b, s, size, t) = "none"
    PROVE  Sound(Appended(b, s, size, t), s + 1, t)
<1> DEFINE e == [seq |-> s, size |-> size, enqueuedAt |-> t]
           a == Appended(b, s, size, t)
<1>1. e \in Retained /\ e.seq = s /\ e.enqueuedAt = t /\ b.retained \in Seq(Retained)
  BY DEF Retained, Sound
<1>2. a.retained = Append(b.retained, e) /\ a.lastSeq = s /\ a.lastNow = t
  BY DEF Appended
<1>3. Len(b.retained) + 1 <= HardMaxFrames
  BY <1>1, CapsPositive DEF AppendOutcome, DepthFrames, HardMaxFrames, HardCapMultiplier
<1>4. /\ Append(b.retained, e) \in Seq(Retained)
      /\ Len(Append(b.retained, e)) = Len(b.retained) + 1
  BY <1>1
<1> HIDE DEF e, a
<1>5. InOrder(Append(b.retained, e), s, t)
  BY <1>1, AppendInOrder DEF Sound, Ordered
<1> QED
  BY <1>2, <1>3, <1>4, <1>5 DEF Sound, Ordered, a

\* Dropping a prefix keeps the buffer sound, at a clock no older than its own.
LEMMA WithoutPrefixSound ==
    ASSUME NEW b, NEW s \in Nat, NEW t \in Nat, NEW u \in Int, Sound(b, s, t),
           b.lastNow <= u, u <= t, NEW n \in 0 .. Len(b.retained)
    PROVE  Sound(WithoutPrefix(b, n, u), s, t)
<1> DEFINE k == SubSeq(b.retained, n + 1, Len(b.retained))
           w == WithoutPrefix(b, n, u)
<1>1. b.retained \in Seq(Retained) /\ Len(b.retained) \in Nat /\ HardMaxFrames \in Nat
  BY CapsPositive DEF Sound, HardMaxFrames, HardCapMultiplier
<1>2. k \in Seq(Retained) /\ Len(k) = Len(b.retained) - n
  BY <1>1
<1>3. w.retained = k /\ w.lastSeq = b.lastSeq /\ w.lastNow = u
  BY DEF WithoutPrefix
<1>4. InOrder(k, b.lastSeq, u)
  BY SuffixInOrder DEF Sound, Ordered
<1> HIDE DEF k, w
<1>5. Len(k) <= HardMaxFrames
  BY <1>1, <1>2 DEF Sound, Ordered
<1> QED
  BY <1>2, <1>3, <1>4, <1>5 DEF Sound, Ordered, w

\* An empty buffer is sound at any floor below the next number.
LEMMA PurgeSound ==
    ASSUME NEW b, NEW s \in Nat, NEW t \in Nat, NEW q \in Int, NEW u \in Int, q < s, u <= t
    PROVE  Sound(Purge(b, q, u), s, t)
<1>1. HardMaxFrames \in Nat
  BY CapsPositive DEF HardMaxFrames, HardCapMultiplier
<1> QED
  BY <1>1 DEF Sound, Ordered, InOrder, Purge

\* The inductive invariant: BufferOrdered with the types it needs.
IInv ==
    /\ buffer = [l \in Legs |-> buffer[l]]
    /\ sendSeq \in [Legs -> Nat]
    /\ now \in Nat
    /\ \A l \in Legs : Sound(buffer[l], sendSeq[l], now)

\* The buffers are empty at the start.
LEMMA InitIInv == Init => IInv
<1> SUFFICES ASSUME Init PROVE IInv
  OBVIOUS
<1>1. HardMaxFrames \in Nat
  BY CapsPositive DEF HardMaxFrames, HardCapMultiplier
<1>2. Sound(EmptyBuffer, 0, 0)
  BY <1>1 DEF Sound, Ordered, InOrder, EmptyBuffer, NeverNow
<1> QED
  BY <1>2 DEF Init, IInv

\* A call that replaces one leg's buffer by a sound one, keeps the other legs
\* and does not move the clock back preserves the invariant.
LEMMA OneLeg ==
    ASSUME IInv, NEW l \in Legs, NEW a, NEW s \in Nat,
           buffer' = [buffer EXCEPT ![l] = a], sendSeq' = [sendSeq EXCEPT ![l] = s],
           now' = now, Sound(a, s, now)
    PROVE  IInv'
<1>1. \A k \in Legs : buffer'[k] = IF k = l THEN a ELSE buffer[k]
  BY DEF IInv
<1>2. \A k \in Legs : sendSeq'[k] = IF k = l THEN s ELSE sendSeq[k]
  BY DEF IInv
<1>3. buffer' = [k \in Legs |-> buffer'[k]] /\ sendSeq' \in [Legs -> Nat] /\ now' \in Nat
  BY DEF IInv
<1>4. \A k \in Legs : Sound(buffer'[k], sendSeq'[k], now')
  BY <1>1, <1>2 DEF IInv
<1> QED
  BY <1>3, <1>4 DEF IInv

\* Every step of a leg keeps IInv.
LEMMA NextIInv == IInv /\ [Next]_vars => IInv'
<1> SUFFICES ASSUME IInv, [Next]_vars PROVE IInv'
  OBVIOUS
<1> USE DEF IInv
<1>1. ASSUME NEW l \in Legs, NEW size \in Sizes, RecordForSend(l, size) PROVE IInv'
  <2>1. size \in Nat
    BY LegAssumption
  <2>2. CASE buffer' = buffer /\ sendSeq' = sendSeq
    BY <1>1, <2>2 DEF RecordForSend
  <2>3. CASE buffer' = buffer /\ sendSeq' = [sendSeq EXCEPT ![l] = @ + 1]
    <3>1. Sound(buffer[l], sendSeq[l] + 1, now)
      BY DEF Sound, Ordered
    <3>2. buffer' = [buffer EXCEPT ![l] = buffer[l]]
      BY <2>3
    <3> QED
      BY <1>1, <2>3, <3>1, <3>2, OneLeg DEF RecordForSend
  <2>4. CASE /\ AppendOutcome(buffer[l], sendSeq[l], size, now) = "none"
             /\ buffer' = [buffer EXCEPT ![l] = Appended(@, sendSeq[l], size, now)]
             /\ sendSeq' = [sendSeq EXCEPT ![l] = @ + 1]
    <3>1. Sound(Appended(buffer[l], sendSeq[l], size, now), sendSeq[l] + 1, now)
      BY <2>1, <2>4, AppendedSound
    <3> QED
      BY <1>1, <2>4, <3>1, OneLeg DEF RecordForSend
  <2> QED
    BY <1>1, <2>2, <2>3, <2>4 DEF RecordForSend, legVars
<1>2. ASSUME NEW l \in Legs, NEW ack \in 0 .. MaxSeq, TrimLeg(l, ack) PROVE IInv'
  <2> DEFINE n == RemovedPrefix(buffer[l].retained, Acked(buffer[l].retained, ack))
  <2>1. n \in 0 .. Len(buffer[l].retained)
    BY PrefixInRange DEF Sound
  <2>2. Sound(TrimToAck(buffer[l], ack), sendSeq[l], now)
    <3> HIDE DEF n
    <3>1. Sound(WithoutPrefix(buffer[l], n, buffer[l].lastNow), sendSeq[l], now)
      <4>1. /\ sendSeq[l] \in Nat /\ now \in Nat /\ buffer[l].lastNow \in Int
            /\ buffer[l].lastNow <= buffer[l].lastNow /\ buffer[l].lastNow <= now
        BY DEF Sound, Ordered
      <4> QED
        BY <2>1, <4>1, WithoutPrefixSound
    <3> QED
      BY <3>1 DEF TrimToAck, n
  <2>3. buffer' = [buffer EXCEPT ![l] = TrimToAck(buffer[l], ack)]
    BY <1>2 DEF TrimLeg, Reclaim
  <2>4. sendSeq' = [sendSeq EXCEPT ![l] = sendSeq[l]] /\ now' = now
    BY <1>2 DEF TrimLeg
  <2> QED
    BY <2>2, <2>3, <2>4, OneLeg
<1>3. ASSUME NEW l \in Legs, EvictLeg(l) PROVE IInv'
  <2>1. CASE now < buffer[l].lastNow
    BY <1>3, <2>1 DEF EvictLeg
  <2>2. CASE ~(now < buffer[l].lastNow)
    <3> DEFINE n == RemovedPrefix(buffer[l].retained, Expired(buffer[l].retained, now))
    <3>1. n \in 0 .. Len(buffer[l].retained)
      BY PrefixInRange DEF Sound
    <3>2. Sound(EvictExpired(buffer[l], now), sendSeq[l], now)
      <4> HIDE DEF n
      <4>1. Sound(WithoutPrefix(buffer[l], n, now), sendSeq[l], now)
        <5>1. /\ sendSeq[l] \in Nat /\ now \in Int /\ buffer[l].lastNow \in Int
              /\ buffer[l].lastNow <= now /\ now <= now
          BY <2>2 DEF Sound
        <5> QED
          BY <3>1, <5>1, WithoutPrefixSound
      <4> QED
        BY <4>1 DEF EvictExpired, n
    <3>3. buffer' = [buffer EXCEPT ![l] = EvictExpired(buffer[l], now)]
      BY <1>3, <2>2 DEF EvictLeg, Reclaim
    <3>4. sendSeq' = [sendSeq EXCEPT ![l] = sendSeq[l]] /\ now' = now
      BY <1>3 DEF EvictLeg
    <3> QED
      BY <3>2, <3>3, <3>4, OneLeg
  <2> QED
    BY <2>1, <2>2
<1>4. ASSUME NEW l \in Legs, DiscardLeg(l) \/ TeardownLeg(l) PROVE IInv'
  <2>1. Sound(Discard(buffer[l]), sendSeq[l], now)
    <3>1. /\ sendSeq[l] \in Nat /\ buffer[l].lastSeq \in Int /\ buffer[l].lastNow \in Int
          /\ buffer[l].lastSeq < sendSeq[l] /\ buffer[l].lastNow <= now
      BY DEF Sound, Ordered
    <3> QED
      BY <3>1, PurgeSound DEF Discard
  <2>2. buffer' = [buffer EXCEPT ![l] = Discard(buffer[l])]
    BY <1>4 DEF DiscardLeg, TeardownLeg, Reclaim
  <2>3. sendSeq' = [sendSeq EXCEPT ![l] = sendSeq[l]] /\ now' = now
    BY <1>4 DEF DiscardLeg, TeardownLeg
  <2> QED
    BY <2>1, <2>2, <2>3, OneLeg
<1>5. ASSUME NEW l \in Legs, ResetLeg(l) PROVE IInv'
  <2>1. Sound(ResetForNewEpoch(buffer[l]), 0, now)
    BY PurgeSound DEF ResetForNewEpoch, NeverNow
  <2> QED
    BY <1>5, <2>1, OneLeg DEF ResetLeg, Reclaim
<1>6. ASSUME Tick PROVE IInv'
  <2>1. \A l \in Legs : Sound(buffer[l], sendSeq[l], now + 1)
    BY DEF Sound, Ordered
  <2> QED
    BY <1>6, <2>1 DEF Tick, legVars
<1>7. CASE UNCHANGED vars
  BY <1>7 DEF vars, legVars
<1> QED
  BY <1>1, <1>2, <1>3, <1>4, <1>5, <1>6, <1>7 DEF Next

\* The buffer of a sound leg refuses the leg's next number only at the ceiling.
LEMMA AppendOutcomeSound ==
    ASSUME NEW b, NEW s \in Nat, NEW size, NEW t \in Nat, Sound(b, s, t)
    PROVE  AppendOutcome(b, s, size, t) \in {"ceiling", "none"}
BY DEF Sound, Ordered, AppendOutcome

\* Every step keeps NumbersAccepted.
LEMMA NextAccepted == IInv /\ NumbersAccepted /\ [Next]_vars => NumbersAccepted'
<1> SUFFICES ASSUME IInv, NumbersAccepted, [Next]_vars PROVE NumbersAccepted'
  OBVIOUS
<1> USE DEF NumbersAccepted
<1>1. ASSUME NEW l \in Legs, NEW after, Reclaim(l, after) PROVE NumbersAccepted'
  BY <1>1 DEF Reclaim, Release, ReleaseOutcome
<1>2. ASSUME NEW l \in Legs, NEW size \in Sizes, RecordForSend(l, size) PROVE NumbersAccepted'
  <2>1. AppendOutcome(buffer[l], sendSeq[l], size, now) \in {"ceiling", "none"}
    BY AppendOutcomeSound DEF IInv
  <2> QED
    BY <1>2, <2>1 DEF RecordForSend
<1>3. ASSUME NEW l \in Legs, NEW ack \in 0 .. MaxSeq, TrimLeg(l, ack) PROVE NumbersAccepted'
  BY <1>1, <1>3 DEF TrimLeg
<1>4. ASSUME NEW l \in Legs, EvictLeg(l) PROVE NumbersAccepted'
  <2>1. ~(now < buffer[l].lastNow)
    BY DEF IInv, Sound, Ordered
  <2> QED
    BY <1>1, <1>4, <2>1 DEF EvictLeg
<1>5. ASSUME NEW l \in Legs, DiscardLeg(l) \/ ResetLeg(l) PROVE NumbersAccepted'
  BY <1>1, <1>5 DEF DiscardLeg, ResetLeg
<1>6. ASSUME NEW l \in Legs, TeardownLeg(l) PROVE NumbersAccepted'
  BY <1>6 DEF TeardownLeg
<1>7. CASE Tick \/ UNCHANGED vars
  BY <1>7 DEF Tick, vars
<1> QED
  BY <1>2, <1>3, <1>4, <1>5, <1>6, <1>7 DEF Next

\* The retained frames of every leg stay in mint and clock order and under the
\* hard ceiling, whatever the interleaving of the leg's callers.
THEOREM RetentionOrdered == Spec => []BufferOrdered
<1>1. IInv => BufferOrdered
  BY DEF IInv, Sound, BufferOrdered
<1> QED
  BY <1>1, InitIInv, NextIInv, PTL DEF Spec

\* record_for_send and evict_expired never fail on the number or the clock.
THEOREM NumbersNeverRefused == Spec => []NumbersAccepted
<1>1. Init => NumbersAccepted
  BY DEF Init, NumbersAccepted
<1> QED
  BY <1>1, InitIInv, NextIInv, NextAccepted, PTL DEF Spec
-----------------------------------------------------------------------------
\* The books of one leg: its cap's entry and its cap's total are the bytes its
\* buffer counts, which are the bytes of its frames and within the budget.
Booked(l) ==
    /\ buffer[l].depthBytes = Bytes(buffer[l].retained)
    /\ Reserved(CapOf(l), l) = buffer[l].depthBytes
    /\ total[CapOf(l)] = buffer[l].depthBytes
    /\ buffer[l].depthBytes <= MaxTotalBytes

\* The inductive invariant behind BudgetExact, beside IInv.
BookInv ==
    /\ total \in [Caps -> Nat]
    /\ perLeg \in [Caps -> [Legs -> Nat \cup {Absent}]]
    /\ \A l \in Legs : Booked(l)

\* A leg's cap exists, and no other leg has it.
LEMMA OwnCap ==
    ASSUME NEW l \in Legs
    PROVE  CapOf(l) \in Caps /\ \A k \in Legs : CapOf(k) = CapOf(l) => k = l
BY DEF Caps, CapOf

\* An empty buffer has no bytes.
LEMMA NoBytes == Bytes(<<>>) = 0
<1>1. <<>> \in Seq(Retained) /\ Len(<<>>) = 0
  OBVIOUS
<1> QED
  BY <1>1, RunningTotals, Zenon DEF Bytes

\* The budget is unused at the start.
LEMMA InitBooks == Init => BookInv
<1> SUFFICES ASSUME Init PROVE BookInv
  OBVIOUS
<1>1. ASSUME NEW l \in Legs PROVE Booked(l)
  BY NoBytes, OwnCap, LegAssumption DEF Init, Booked, EmptyBuffer, Reserved
<1> QED
  BY <1>1 DEF Init, BookInv

\* A call that changes the books of one leg keeps those of the others.
LEMMA OneBook ==
    ASSUME IInv, BookInv, NEW l \in Legs, NEW after, NEW t \in Nat, NEW p \in Nat \cup {Absent},
           buffer' = [buffer EXCEPT ![l] = after],
           total' = [total EXCEPT ![CapOf(l)] = t],
           perLeg' = [perLeg EXCEPT ![CapOf(l)][l] = p],
           after.depthBytes = Bytes(after.retained), t = after.depthBytes,
           p = t \/ (p = Absent /\ t = 0), t <= MaxTotalBytes
    PROVE  BookInv'
<1>1. CapOf(l) \in Caps
  BY OwnCap
<1>2. total' \in [Caps -> Nat] /\ perLeg' \in [Caps -> [Legs -> Nat \cup {Absent}]]
  BY <1>1 DEF BookInv
<1>3. /\ total'[CapOf(l)] = t /\ perLeg'[CapOf(l)][l] = p /\ buffer'[l] = after
  BY <1>1 DEF BookInv, IInv
<1>4. Booked(l)'
  BY <1>3 DEF Booked, Reserved, Absent
<1>5. ASSUME NEW k \in Legs, k # l PROVE Booked(k)'
  <2>1. CapOf(k) \in Caps /\ CapOf(k) # CapOf(l)
    BY <1>5, OwnCap
  <2>2. /\ total'[CapOf(k)] = total[CapOf(k)]
        /\ perLeg'[CapOf(k)][k] = perLeg[CapOf(k)][k]
        /\ buffer'[k] = buffer[k]
    BY <1>1, <1>5, <2>1 DEF BookInv, IInv
  <2> QED
    BY <2>2 DEF BookInv, Booked, Reserved
<1> QED
  BY <1>2, <1>4, <1>5 DEF BookInv

\* _reclaim releases what the buffer gave up.
LEMMA BookReclaim ==
    ASSUME IInv, BookInv, NEW l \in Legs, NEW after, Reclaim(l, after),
           after.retained \in Seq(Retained), after.depthBytes = Bytes(after.retained),
           after.depthBytes <= buffer[l].depthBytes
    PROVE  BookInv'
<1> DEFINE d == buffer[l].depthBytes
           t == after.depthBytes
           p == perLeg[CapOf(l)][l]
           freed == d - t
<1>1. d \in Nat /\ t \in Nat /\ d <= MaxTotalBytes /\ t <= d
  BY BytesNat, Zenon DEF IInv, Sound, BookInv, Booked
<1>2. /\ CapOf(l) \in Caps /\ p \in Nat \cup {Absent} /\ total[CapOf(l)] = d
      /\ d = IF p = Absent THEN 0 ELSE p
  BY OwnCap DEF BookInv, Booked, Reserved
<1>3. buffer' = [buffer EXCEPT ![l] = after]
  BY DEF Reclaim
<1>4. CASE freed = 0
  <2>1. total' = total /\ perLeg' = perLeg /\ t = d
    BY <1>1, <1>4 DEF Reclaim, capVars
  <2>2. total' = [total EXCEPT ![CapOf(l)] = t] /\ perLeg' = [perLeg EXCEPT ![CapOf(l)][l] = p]
    BY <1>2, <2>1 DEF BookInv
  <2>3. (p = t \/ (p = Absent /\ t = 0)) /\ t <= MaxTotalBytes
    BY <1>1, <1>2, <2>1, LegAssumption
  <2> HIDE DEF d, t, p, freed
  <2> QED
    BY <1>1, <1>2, <1>3, <2>2, <2>3, OneBook, Zenon DEF t
<1>5. CASE freed # 0
  <2>1. p = d /\ p # Absent /\ p \in Nat /\ freed <= p /\ p - freed = t /\ d - freed = t
    BY <1>1, <1>2, <1>5 DEF Absent
  <2>2. ReleaseOutcome(CapOf(l), l, freed) = "none"
    <3> HIDE DEF freed, d, t
    <3>1. ~(freed > p)
      BY <1>1, <2>1 DEF freed
    <3> QED
      BY <2>1, <3>1 DEF ReleaseOutcome
  <2>3. Release(CapOf(l), l, freed)
    BY <1>5 DEF Reclaim
  <2>4. /\ total' = [total EXCEPT ![CapOf(l)] = @ - freed]
        /\ perLeg' = [perLeg EXCEPT ![CapOf(l)][l] = @ - freed]
    BY <2>2, <2>3 DEF Release
  <2>5. total' = [total EXCEPT ![CapOf(l)] = t] /\ perLeg' = [perLeg EXCEPT ![CapOf(l)][l] = t]
    BY <1>2, <2>1, <2>4, Zenon
  <2>6. t \in Nat \cup {Absent} /\ t <= MaxTotalBytes
    BY <1>1, LegAssumption
  <2> HIDE DEF d, t, p, freed
  <2> QED
    BY <1>1, <1>3, <2>5, <2>6, OneBook, Zenon DEF t
<1> QED
  BY <1>4, <1>5

\* Dropping a prefix leaves a buffer whose count is right and no higher.
LEMMA BookPrefix ==
    ASSUME NEW b, NEW u, NEW n \in 0 .. Len(b.retained),
           b.retained \in Seq(Retained), b.depthBytes = Bytes(b.retained)
    PROVE  /\ WithoutPrefix(b, n, u).retained \in Seq(Retained)
           /\ WithoutPrefix(b, n, u).depthBytes = Bytes(WithoutPrefix(b, n, u).retained)
           /\ WithoutPrefix(b, n, u).depthBytes <= b.depthBytes
<1> DEFINE p == SubSeq(b.retained, 1, n)
           k == SubSeq(b.retained, n + 1, Len(b.retained))
<1>1. p \in Seq(Retained) /\ k \in Seq(Retained)
  OBVIOUS
<1>2. Bytes(p) + Bytes(k) = Bytes(b.retained)
  BY BytesSplit
<1>3. Bytes(p) \in Nat /\ Bytes(k) \in Nat
  BY <1>1, BytesNat, Zenon
<1>4. /\ WithoutPrefix(b, n, u).retained = k
      /\ WithoutPrefix(b, n, u).depthBytes = b.depthBytes - Bytes(p)
  BY DEF WithoutPrefix
<1> HIDE DEF p, k
<1> QED
  BY <1>1, <1>2, <1>3, <1>4


\* So does dropping every frame.
LEMMA BookPurge ==
    ASSUME NEW b, NEW q, NEW u
    PROVE  /\ Purge(b, q, u).retained \in Seq(Retained)
           /\ Purge(b, q, u).depthBytes = 0
           /\ Purge(b, q, u).depthBytes = Bytes(Purge(b, q, u).retained)
BY NoBytes DEF Purge

\* append books its frame, and a refused append leaves the books as they were.
LEMMA BookRecord ==
    ASSUME IInv, BookInv, NEW l \in Legs, NEW size \in Sizes, RecordForSend(l, size)
    PROVE  BookInv'
<1> DEFINE c == CapOf(l)
           d == buffer[l].depthBytes
           p == perLeg[c][l]
           b == Appended(buffer[l], sendSeq[l], size, now)
           e == [seq |-> sendSeq[l], size |-> size, enqueuedAt |-> now]
<1>1. /\ c \in Caps /\ p \in Nat \cup {Absent} /\ total[c] = d /\ Reserved(c, l) = d
      /\ d = IF p = Absent THEN 0 ELSE p
  BY OwnCap DEF BookInv, Booked, Reserved
<1>2. d \in Nat /\ d = Bytes(buffer[l].retained) /\ d <= MaxTotalBytes /\ size \in Nat
  BY BytesNat, LegAssumption DEF IInv, Sound, BookInv, Booked
<1>3. CASE UNCHANGED <<legVars, capVars>>
  BY <1>3 DEF legVars, capVars, BookInv, Booked, Reserved
<1>4. CASE /\ buffer' = buffer /\ total' = total
           /\ perLeg' = [perLeg EXCEPT ![c][l] = Reserved(c, l)]
  <2>1. /\ buffer' = [buffer EXCEPT ![l] = buffer[l]] /\ total' = [total EXCEPT ![c] = d]
        /\ perLeg' = [perLeg EXCEPT ![c][l] = d]
    BY <1>1, <1>4 DEF IInv, BookInv
  <2>2. d \in Nat \cup {Absent}
    BY <1>2
  <2> HIDE DEF d
  <2> QED
    BY <1>2, <2>1, <2>2, OneBook, Zenon DEF d
<1>5. CASE /\ buffer' = [buffer EXCEPT ![l] = Appended(@, sendSeq[l], size, now)]
           /\ Reserve(c, l, size) /\ CanReserve(c, size)
  <2>1. e \in Retained /\ e.size = size /\ buffer[l].retained \in Seq(Retained)
    BY <1>2 DEF Retained, IInv, Sound
  <2>2. b.retained = Append(buffer[l].retained, e) /\ b.depthBytes = d + size
    BY DEF Appended
  <2>3. Bytes(Append(buffer[l].retained, e)) = Bytes(buffer[l].retained) + e.size
    <3> HIDE DEF e
    <3> QED  BY <2>1, BytesAppend
  <2>4. buffer' = [buffer EXCEPT ![l] = b]
    BY <1>5
  <2> HIDE DEF b, e
  <2> DEFINE t == d + size
  <2>5. b.depthBytes = Bytes(b.retained) /\ t = b.depthBytes
    BY <1>2, <2>1, <2>2, <2>3
  <2>6. total' = [total EXCEPT ![c] = t] /\ perLeg' = [perLeg EXCEPT ![c][l] = t]
    BY <1>1, <1>5, Zenon DEF Reserve
  <2>7. t \in Nat /\ t \in Nat \cup {Absent} /\ t <= MaxTotalBytes
    BY <1>1, <1>2, <1>5 DEF CanReserve
  <2> HIDE DEF t, d
  <2> QED
    BY <2>4, <2>5, <2>6, <2>7, OneBook, Zenon
<1> QED
  BY <1>3, <1>4, <1>5 DEF RecordForSend

\* Every step of a leg keeps BookInv.
LEMMA NextBooks == IInv /\ BookInv /\ [Next]_vars => BookInv'
<1> SUFFICES ASSUME IInv, BookInv, [Next]_vars PROVE BookInv'
  OBVIOUS
<1>1. \A l \in Legs : /\ buffer[l].retained \in Seq(Retained)
                      /\ buffer[l].depthBytes = Bytes(buffer[l].retained)
                      /\ buffer[l].depthBytes \in Nat
  BY BytesNat DEF IInv, Sound, BookInv, Booked
<1>2. ASSUME NEW l \in Legs, NEW size \in Sizes, RecordForSend(l, size) PROVE BookInv'
  BY <1>2, BookRecord
<1>3. ASSUME NEW l \in Legs, NEW ack \in 0 .. MaxSeq, TrimLeg(l, ack) PROVE BookInv'
  <2> DEFINE n == RemovedPrefix(buffer[l].retained, Acked(buffer[l].retained, ack))
             after == TrimToAck(buffer[l], ack)
  <2>1. n \in 0 .. Len(buffer[l].retained)
    BY <1>1, PrefixInRange
  <2>2. after = WithoutPrefix(buffer[l], n, buffer[l].lastNow)
    BY DEF TrimToAck
  <2>3. Reclaim(l, after)
    BY <1>3 DEF TrimLeg
  <2> HIDE DEF n, after
  <2> QED
    BY <1>1, <2>1, <2>2, <2>3, BookPrefix, BookReclaim
<1>4. ASSUME NEW l \in Legs, EvictLeg(l) PROVE BookInv'
  <2>1. CASE now < buffer[l].lastNow
    BY <1>4, <2>1 DEF EvictLeg, capVars, BookInv, Booked, Reserved
  <2>2. CASE ~(now < buffer[l].lastNow)
    <3> DEFINE n == RemovedPrefix(buffer[l].retained, Expired(buffer[l].retained, now))
               after == EvictExpired(buffer[l], now)
    <3>1. n \in 0 .. Len(buffer[l].retained)
      BY <1>1, PrefixInRange
    <3>2. after = WithoutPrefix(buffer[l], n, now)
      BY DEF EvictExpired
    <3>3. Reclaim(l, after)
      BY <1>4, <2>2 DEF EvictLeg
    <3> HIDE DEF n, after
    <3> QED
      BY <1>1, <3>1, <3>2, <3>3, BookPrefix, BookReclaim
  <2> QED
    BY <2>1, <2>2
<1>5. ASSUME NEW l \in Legs, NEW q, NEW u, Reclaim(l, Purge(buffer[l], q, u)) PROVE BookInv'
  <2> DEFINE after == Purge(buffer[l], q, u)
  <2>1. /\ after.retained \in Seq(Retained) /\ after.depthBytes = Bytes(after.retained)
        /\ after.depthBytes = 0
    BY BookPurge
  <2> HIDE DEF after
  <2>2. after.depthBytes <= buffer[l].depthBytes /\ Reclaim(l, after)
    BY <1>1, <1>5, <2>1 DEF after
  <2> QED
    BY <2>1, <2>2, BookReclaim, Zenon
<1>6. ASSUME NEW l \in Legs, DiscardLeg(l) PROVE BookInv'
  BY <1>5, <1>6 DEF DiscardLeg, Discard
<1>7. ASSUME NEW l \in Legs, ResetLeg(l) PROVE BookInv'
  BY <1>5, <1>7 DEF ResetLeg, ResetForNewEpoch
<1>8. ASSUME NEW l \in Legs, TeardownLeg(l) PROVE BookInv'
  <2> DEFINE after == Discard(buffer[l])
  <2>1. after.depthBytes = Bytes(after.retained) /\ after.depthBytes = 0
    BY BookPurge DEF Discard
  <2>2. CapOf(l) \in Caps /\ total[CapOf(l)] - Reserved(CapOf(l), l) = 0
    BY <1>1, OwnCap DEF BookInv, Booked
  <2>3. /\ total' = [total EXCEPT ![CapOf(l)] = 0]
        /\ perLeg' = [perLeg EXCEPT ![CapOf(l)][l] = Absent]
        /\ buffer' = [buffer EXCEPT ![l] = after]
    BY <1>8, <2>2, Zenon DEF TeardownLeg
  <2> HIDE DEF after
  <2>4. 0 \in Nat /\ Absent \in Nat \cup {Absent} /\ 0 <= MaxTotalBytes
    BY LegAssumption
  <2>5. 0 = after.depthBytes /\ (Absent = 0 \/ (Absent = Absent /\ 0 = 0))
    BY <2>1
  <2> QED
    BY <2>1, <2>3, <2>4, <2>5, OneBook, Zenon
<1>9. CASE Tick \/ UNCHANGED vars
  BY <1>9 DEF Tick, vars, legVars, capVars, BookInv, Booked, Reserved
<1> QED
  BY <1>2, <1>3, <1>4, <1>6, <1>7, <1>8, <1>9 DEF Next

\* The cap's entry for a leg is what the leg's buffer retains, to the byte,
\* after every reclaim path, the rollback and the teardown included.
THEOREM BudgetIsExact == Spec => []BudgetExact
<1>1. BookInv => BudgetExact
  BY DEF BookInv, Booked, BudgetExact
<1> QED
  BY <1>1, InitIInv, NextIInv, InitBooks, NextBooks, PTL DEF Spec

\* What one GlobalReplayCap really bounds: the bytes of the one leg it was
\* built for (the sum over the legs is not bounded, see AggregateWithinCap).
LegWithinCap == \A l \in Legs : buffer[l].depthBytes <= MaxTotalBytes

\* No leg ever retains more than the budget of its own cap.
THEOREM EachLegWithinCap == Spec => []LegWithinCap
<1>1. BookInv => LegWithinCap
  BY DEF BookInv, Booked, LegWithinCap
<1> QED
  BY <1>1, InitIInv, NextIInv, InitBooks, NextBooks, PTL DEF Spec
=============================================================================
