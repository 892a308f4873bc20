------------------------ MODULE TurnExecutionProofs ------------------------
(***************************************************************************)
(* For any messages, calls, ceilings and interruptions: an unrepeatable    *)
(* call is fired at most once, the egress ledger agrees with the journal,  *)
(* a resumed turn has an iteration left, and no row is written twice.      *)
(***************************************************************************)
EXTENDS TurnExecution, SequenceTheorems, TLAPS

Item == [idx : Nat, call : Calls]
Row == [iter : Nat, call : Calls]
Calling == {"call", "intent", "fire", "record"}

\* The calls left to dispatch are journalled under their indexes.
Journalled(left, j) ==
    \A k \in 1 .. Len(left) :
        left[k].idx < Len(j) /\ j[left[k].idx + 1].call = left[k].call

\* A turn about to fire has opened the row, and has not fired yet unless the
\* call may be repeated.
AboutToFire(item, g, f) ==
    item.idx \in Indexes => g[item.idx] = item.call /\ (item.call \notin Idempotent => f[item.idx] = 0)

TurnInv(t, j, g, f) ==
    /\ t.left \in Seq(Item) /\ t.iter \in Nat
    /\ t.pc \in Calling => t.left # <<>> /\ Journalled(t.left, j)
    /\ t.pc = "fire" => AboutToFire(Head(t.left), g, f)

JournalInv(j) == j \in Seq(Row) /\ \A k \in 1 .. Len(j) : j[k].iter < MaxIterations - 1

LedgerInv(j, g, f) ==
    /\ g \in [Indexes -> Calls \cup {NoCall}] /\ f \in [Indexes -> Nat]
    /\ \A n \in Indexes :
          /\ g[n] # NoCall => n < Len(j) /\ j[n + 1].call = g[n]
          /\ g[n] = NoCall => f[n] = 0
          /\ g[n] \notin Idempotent => f[n] <= 1

MessageInv(t, j, g, f) == TurnInv(t, j, g, f) /\ JournalInv(j) /\ LedgerInv(j, g, f)

EgressInv ==
    /\ turn = [i \in Inbounds |-> turn[i]]
    /\ journal = [i \in Inbounds |-> journal[i]]
    /\ intent = [i \in Inbounds |-> intent[i]]
    /\ fired = [i \in Inbounds |-> fired[i]]
    /\ \A i \in Inbounds : MessageInv(turn[i], journal[i], intent[i], fired[i])

\* The indexes of calls are numbers.
LEMMA IndexesNat == \A n \in Indexes : n \in Nat
  BY TurnAssumption DEF Indexes

\* No turn runs and no call is recorded at the start.
LEMMA EgressInit == Init => EgressInv
<1> SUFFICES ASSUME Init PROVE EgressInv
  OBVIOUS
<1>1. ASSUME NEW i \in Inbounds
      PROVE  MessageInv(turn[i], journal[i], intent[i], fired[i])
  <2>1. turn[i] = Idle /\ journal[i] = <<>>
    BY DEF Init
  <2>2. /\ intent[i] = [n \in Indexes |-> NoCall]
        /\ fired[i] = [n \in Indexes |-> 0]
    BY DEF Init
  <2>3. TurnInv(turn[i], journal[i], intent[i], fired[i])
    BY <2>1 DEF TurnInv, Idle, Turn, Calling
  <2>4. JournalInv(journal[i])
    BY <2>1 DEF JournalInv
  <2>5. LedgerInv(journal[i], intent[i], fired[i])
    BY <2>2 DEF LedgerInv
  <2> QED
    BY <2>3, <2>4, <2>5 DEF MessageInv
<1> QED
  BY <1>1 DEF Init, EgressInv
-----------------------------------------------------------------------------
\* Outside the dispatch of calls a turn carries no obligation.
LEMMA QuietTurn ==
    ASSUME NEW j, NEW g, NEW f, NEW pc, pc \notin Calling, NEW fresh, NEW tail,
           NEW iter \in Nat, NEW left \in Seq(Item)
    PROVE  TurnInv(Turn(pc, fresh, tail, iter, left), j, g, f)
  BY DEF TurnInv, Turn, Calling

\* A turn that does not run owes nothing.
LEMMA IdleTurn ==
    ASSUME NEW j, NEW g, NEW f
    PROVE  TurnInv(Idle, j, g, f)
  BY DEF TurnInv, Idle, Turn, Calling

\* A turn that dispatches calls may move on short of firing.
LEMMA MovedTurn ==
    ASSUME NEW t, NEW j, NEW g, NEW f, NEW g2, NEW f2, TurnInv(t, j, g, f), t.pc \in Calling,
           NEW pc, pc # "fire"
    PROVE  TurnInv(Turn(pc, t.fresh, t.tail, t.iter, t.left), j, g2, f2)
  BY DEF TurnInv, Turn

\* A turn whose call is settled goes on with the calls that are left.
LEMMA SettledTurn ==
    ASSUME NEW t, NEW j, NEW g, NEW f, NEW g2, NEW f2, TurnInv(t, j, g, f), t.pc \in Calling
    PROVE  TurnInv(Turn(IF Len(t.left) = 1 THEN "plan" ELSE "call",
                        t.fresh, t.tail, t.iter, Tail(t.left)), j, g2, f2)
<1> DEFINE rest == Tail(t.left)
<1>1. t.left \in Seq(Item) /\ t.left # <<>> /\ t.iter \in Nat /\ Journalled(t.left, j)
  BY DEF TurnInv
<1>2. /\ rest \in Seq(Item) /\ Len(t.left) \in Nat /\ Len(rest) = Len(t.left) - 1
      /\ \A k \in 1 .. Len(rest) : rest[k] = t.left[k + 1]
  BY <1>1
<1>3. Len(t.left) # 1 => rest # <<>>
  <2>1. Len(t.left) # 0 /\ Len(<<>>) = 0
    BY <1>1
  <2>2. ASSUME NEW r, r = <<>>, Len(r) = Len(t.left) - 1
        PROVE  Len(t.left) = 1
    BY <2>2, <2>1, <1>2
  <2> QED
    BY <1>2, <2>2
<1>4. Journalled(rest, j)
  BY <1>1, <1>2 DEF Journalled
<1> HIDE DEF rest
<1>5. CASE Len(t.left) = 1
  <2>1. TurnInv(Turn("plan", t.fresh, t.tail, t.iter, rest), j, g2, f2)
    BY <1>1, <1>2, QuietTurn DEF Calling
  <2> QED
    BY <1>5, <2>1 DEF rest
<1>6. CASE Len(t.left) # 1
  <2>1. TurnInv(Turn("call", t.fresh, t.tail, t.iter, rest), j, g2, f2)
    BY <1>1, <1>2, <1>3, <1>4, <1>6 DEF TurnInv, Turn, Calling
  <2> QED
    BY <1>6, <2>1 DEF rest
<1> QED
  BY <1>5, <1>6

\* Settling or dropping a call moves its own turn only.
LEMMA SettleSteps ==
    ASSUME NEW i \in Inbounds, EgressInv, At(i, "call") \/ At(i, "intent") \/ At(i, "fire") \/ At(i, "record"),
           Settle(i) \/ Drop(i), NEW g, NEW f
    PROVE  /\ turn' = [turn EXCEPT ![i] = turn'[i]]
           /\ TurnInv(turn'[i], journal[i], g, f)
<1>1. TurnInv(turn[i], journal[i], intent[i], fired[i]) /\ turn[i].pc \in Calling
  BY DEF EgressInv, MessageInv, At, Calling
<1>2. CASE Drop(i)
  BY <1>2, IdleTurn DEF Drop, Become, EgressInv
<1>3. CASE Settle(i)
  BY <1>1, <1>3, IdleTurn, SettledTurn DEF Settle, Drop, Become, EgressInv
<1> QED
  BY <1>2, <1>3

\* A step of one message that keeps its own part keeps the whole.
LEMMA OneMessage ==
    ASSUME NEW i \in Inbounds, EgressInv,
           turn' = [turn EXCEPT ![i] = turn'[i]],
           journal' = [journal EXCEPT ![i] = journal'[i]],
           intent' = [intent EXCEPT ![i] = intent'[i]],
           fired' = [fired EXCEPT ![i] = fired'[i]],
           MessageInv(turn'[i], journal'[i], intent'[i], fired'[i])
    PROVE  EgressInv'
<1>1. /\ turn' = [j \in Inbounds |-> turn'[j]] /\ journal' = [j \in Inbounds |-> journal'[j]]
      /\ intent' = [j \in Inbounds |-> intent'[j]] /\ fired' = [j \in Inbounds |-> fired'[j]]
  BY DEF EgressInv
<1>2. ASSUME NEW j \in Inbounds
      PROVE  MessageInv(turn'[j], journal'[j], intent'[j], fired'[j])
  <2>1. CASE j = i
    BY <2>1
  <2>2. CASE j # i
    <3>1. turn'[j] = turn[j] /\ journal'[j] = journal[j] /\ intent'[j] = intent[j] /\ fired'[j] = fired[j]
      BY <2>2 DEF EgressInv
    <3> QED
      BY <3>1 DEF EgressInv
  <2> QED
    BY <2>1, <2>2
<1> QED
  BY <1>1, <1>2 DEF EgressInv

\* A step that changes only the turn.
LEMMA TurnOnly ==
    ASSUME NEW i \in Inbounds, EgressInv, turn' = [turn EXCEPT ![i] = turn'[i]],
           TurnInv(turn'[i], journal[i], intent[i], fired[i]),
           UNCHANGED <<journal, intent, fired>>
    PROVE  EgressInv'
<1>1. MessageInv(turn'[i], journal'[i], intent'[i], fired'[i])
  BY DEF EgressInv, MessageInv
<1>2. /\ journal' = [journal EXCEPT ![i] = journal'[i]]
      /\ intent' = [intent EXCEPT ![i] = intent'[i]]
      /\ fired' = [fired EXCEPT ![i] = fired'[i]]
  BY Zenon DEF EgressInv
<1> QED
  BY <1>1, <1>2, OneMessage
-----------------------------------------------------------------------------
\* A batch appended to a sequence, element by element.
LEMMA Adds ==
    ASSUME NEW S, NEW s \in Seq(S), NEW n \in Nat, NEW b \in [1 .. n -> S]
    PROVE  /\ b \in Seq(S) /\ Len(b) = n /\ s \o b \in Seq(S) /\ Len(s \o b) = Len(s) + n
           /\ \A k \in 1 .. Len(s) : (s \o b)[k] = s[k]
           /\ \A k \in 1 .. n : (s \o b)[Len(s) + k] = b[k]
  OBVIOUS

\* Numbering the rows of a journal from n on gives items, in the same places.
LEMMA NumberedItems ==
    ASSUME NEW rows \in Seq(Row), NEW n \in Nat
    PROVE  /\ Numbered(n, rows) \in Seq(Item) /\ Len(Numbered(n, rows)) = Len(rows)
           /\ \A k \in 1 .. Len(rows) : /\ Numbered(n, rows)[k].idx = n + k - 1
                                        /\ Numbered(n, rows)[k].call = rows[k].call
<1>1. DOMAIN rows = 1 .. Len(rows) /\ Len(rows) \in Nat /\ \A k \in 1 .. Len(rows) : rows[k] \in Row
  OBVIOUS
<1>2. \A k \in 1 .. Len(rows) : [idx |-> n + k - 1, call |-> rows[k].call] \in Item
  BY <1>1 DEF Item, Row
<1>3. Numbered(n, rows) = [k \in 1 .. Len(rows) |-> [idx |-> n + k - 1, call |-> rows[k].call]]
  BY <1>1 DEF Numbered
<1>4. Numbered(n, rows) \in [1 .. Len(rows) -> Item]
  BY <1>2, <1>3
<1> QED
  BY <1>1, <1>3, <1>4

\* Reading the prompt keeps EgressInv.
LEMMA OrientSteps ==
    ASSUME NEW i \in Inbounds, EgressInv, Orient(i)
    PROVE  EgressInv'
<1> DEFINE done == journal[i]
           resume == IF done = <<>> THEN 0 ELSE done[Len(done)].iter + 1
           pc == IF done = <<>> THEN "plan" ELSE "call"
           tail == IF turn[i].fresh THEN memory[Len(memory)] ELSE <<"user", i>>
           left == Numbered(0, done)
<1>1. done \in Seq(Row) /\ Len(done) \in Nat
  BY DEF EgressInv, MessageInv, JournalInv
<1>2. resume \in Nat
  <2>1. done # <<>> => Len(done) \in 1 .. Len(done) /\ done[Len(done)] \in Row
    BY <1>1
  <2> QED
    BY <2>1 DEF Row
<1>3. /\ left \in Seq(Item) /\ Len(left) = Len(done)
      /\ \A k \in 1 .. Len(done) : left[k].idx = k - 1 /\ left[k].call = done[k].call
  <2>1. 0 \in Nat /\ \A k \in 1 .. Len(done) : 0 + k - 1 = k - 1
    BY <1>1
  <2> HIDE DEF done
  <2> QED
    BY <1>1, <2>1, NumberedItems
<1>4. turn' = [turn EXCEPT ![i] = Turn(pc, turn[i].fresh, tail, resume, left)]
  BY DEF Orient, Become
<1> HIDE DEF left, resume, tail
<1>5. Journalled(left, done)
  <2> HIDE DEF done
  <2> QED  BY <1>1, <1>3 DEF Journalled
<1>6. TurnInv(Turn(pc, turn[i].fresh, tail, resume, left), journal[i], intent[i], fired[i])
  <2>1. CASE done = <<>>
    BY <2>1, <1>2, <1>3, QuietTurn, Zenon DEF Calling
  <2>2. CASE done # <<>>
    <3>1. left # <<>>
      BY <2>2, <1>1, <1>3
    <3> QED
      BY <2>2, <3>1, <1>2, <1>3, <1>5 DEF TurnInv, Turn
  <2> QED
    BY <2>1, <2>2
<1>7. /\ turn'[i] = Turn(pc, turn[i].fresh, tail, resume, left)
      /\ turn' = [turn EXCEPT ![i] = turn'[i]]
  BY <1>4 DEF EgressInv
<1>8. UNCHANGED <<journal, intent, fired>>
  BY DEF Orient, durable
<1> QED
  BY <1>6, <1>7, <1>8, TurnOnly

\* Planning the calls of a round keeps EgressInv.
LEMMA PlanCallsSteps ==
    ASSUME NEW i \in Inbounds, EgressInv, PlanCalls(i)
    PROVE  EgressInv'
<1>1. PICK n \in 1 .. MaxCalls : \E batch \in [1 .. n -> Calls] :
          /\ journal' = [journal EXCEPT ![i] = @ \o Decision(turn[i].iter, batch)]
          /\ Become(i, Turn("call", turn[i].fresh, turn[i].tail, turn[i].iter + 1,
                            Numbered(Len(journal[i]), Decision(turn[i].iter, batch))))
  BY Zenon DEF PlanCalls
<1>2. PICK batch \in [1 .. n -> Calls] :
          /\ journal' = [journal EXCEPT ![i] = @ \o Decision(turn[i].iter, batch)]
          /\ Become(i, Turn("call", turn[i].fresh, turn[i].tail, turn[i].iter + 1,
                            Numbered(Len(journal[i]), Decision(turn[i].iter, batch))))
  BY <1>1, Zenon
<1> DEFINE j == journal[i]
           it == turn[i].iter
           new == Decision(it, batch)
           left == Numbered(Len(j), new)
           t2 == Turn("call", turn[i].fresh, turn[i].tail, it + 1, left)
<1>3. /\ j \in Seq(Row) /\ Len(j) \in Nat /\ it \in Nat /\ n \in Nat /\ n >= 1
      /\ it < MaxIterations - 1
      /\ \A k \in 1 .. Len(j) : j[k].iter < MaxIterations - 1
  BY TurnAssumption DEF EgressInv, MessageInv, JournalInv, TurnInv, PlanCalls
<1>4. /\ new \in [1 .. n -> Row]
      /\ \A k \in 1 .. n : new[k].iter = it
  BY <1>3 DEF Decision, Row
<1>5. /\ turn' = [turn EXCEPT ![i] = t2] /\ turn'[i] = t2
      /\ journal' = [journal EXCEPT ![i] = j \o new] /\ journal'[i] = j \o new
  BY <1>2 DEF Become, EgressInv
<1> HIDE DEF new
<1>6. /\ new \in Seq(Row) /\ Len(new) = n /\ j \o new \in Seq(Row) /\ Len(j \o new) = Len(j) + n
      /\ \A k \in 1 .. Len(j) : (j \o new)[k] = j[k]
      /\ \A k \in 1 .. n : (j \o new)[Len(j) + k] = new[k]
  <2> HIDE DEF j
  <2> QED  BY <1>3, <1>4, Adds
<1>7. /\ left \in Seq(Item) /\ Len(left) = n
      /\ \A k \in 1 .. n : left[k].idx = Len(j) + k - 1 /\ left[k].call = new[k].call
  <2> HIDE DEF j
  <2> QED  BY <1>3, <1>6, NumberedItems
<1> HIDE DEF left
<1>8. JournalInv(j \o new)
  <2>1. ASSUME NEW k \in 1 .. Len(j) + n
        PROVE  (j \o new)[k].iter < MaxIterations - 1
    <3>1. CASE k <= Len(j)
      <4> HIDE DEF j
      <4> QED  BY <3>1, <1>3, <1>6
    <3>2. CASE k > Len(j)
      <4> HIDE DEF j, it
      <4>1. k - Len(j) \in 1 .. n /\ Len(j) + (k - Len(j)) = k
        BY <3>2, <1>3
      <4> QED  BY <4>1, <1>3, <1>4, <1>6
    <3>3. k <= Len(j) \/ k > Len(j)
      <4> HIDE DEF j
      <4> QED  BY <1>3
    <3> QED
      BY <3>1, <3>2, <3>3, Zenon
  <2> QED
    BY <2>1, <1>6 DEF JournalInv
<1>9. Journalled(left, j \o new)
  <2> HIDE DEF j
  <2>1. ASSUME NEW k \in 1 .. n
        PROVE  left[k].idx < Len(j \o new) /\ (j \o new)[left[k].idx + 1].call = left[k].call
    <3>1. left[k].idx = Len(j) + k - 1 /\ left[k].idx + 1 = Len(j) + k /\ left[k].call = new[k].call
      BY <1>3, <1>7
    <3> QED  BY <3>1, <1>3, <1>6
  <2> QED
    BY <2>1, <1>7 DEF Journalled
<1>10. TurnInv(t2, j \o new, intent[i], fired[i])
  <2>1. left # <<>>
    BY <1>3, <1>7
  <2>2. it + 1 \in Nat
    BY <1>3
  <2> HIDE DEF it
  <2> QED
    BY <2>1, <2>2, <1>7, <1>9 DEF TurnInv, Turn
<1>11. LedgerInv(j \o new, intent[i], fired[i])
  <2>1. LedgerInv(j, intent[i], fired[i])
    BY DEF EgressInv, MessageInv
  <2> HIDE DEF j
  <2>2. ASSUME NEW n2 \in Indexes, intent[i][n2] # NoCall
        PROVE  n2 < Len(j \o new) /\ (j \o new)[n2 + 1].call = intent[i][n2]
    <3>1. n2 \in Nat /\ n2 < Len(j) /\ j[n2 + 1].call = intent[i][n2]
      BY <2>1, <2>2, IndexesNat DEF LedgerInv
    <3>2. n2 + 1 \in 1 .. Len(j)
      BY <3>1, <1>3
    <3> QED  BY <3>1, <3>2, <1>3, <1>6
  <2> QED
    BY <2>1, <2>2, Zenon DEF LedgerInv
<1>12. /\ turn' = [turn EXCEPT ![i] = turn'[i]] /\ journal' = [journal EXCEPT ![i] = journal'[i]]
       /\ intent' = [intent EXCEPT ![i] = intent'[i]] /\ fired' = [fired EXCEPT ![i] = fired'[i]]
       /\ intent'[i] = intent[i] /\ fired'[i] = fired[i]
  BY <1>5, Zenon DEF PlanCalls, EgressInv
<1>13. MessageInv(turn'[i], journal'[i], intent'[i], fired'[i])
  BY <1>5, <1>8, <1>10, <1>11, <1>12, Zenon DEF MessageInv
<1> QED
  BY <1>12, <1>13, OneMessage

\* What a turn that dispatches calls knows of the call at its head.
LEMMA HeadFacts ==
    ASSUME NEW i \in Inbounds, EgressInv, turn[i].pc \in Calling
    PROVE  /\ Current(i).idx \in Nat /\ Current(i).call \in Calls /\ Current(i).call # NoCall
           /\ Current(i).idx < Len(journal[i])
           /\ journal[i][Current(i).idx + 1].call = Current(i).call
           /\ Head(turn[i].left) = Current(i)
<1>1. /\ turn[i].left \in Seq(Item) /\ turn[i].left # <<>> /\ Journalled(turn[i].left, journal[i])
  BY DEF EgressInv, MessageInv, TurnInv
<1>2. Current(i) = turn[i].left[1] /\ 1 \in 1 .. Len(turn[i].left) /\ Current(i) \in Item
  BY <1>1 DEF Current
<1> QED
  BY <1>1, <1>2, TurnAssumption DEF Journalled, Item, Current

\* Committing the intent of a call keeps EgressInv.
LEMMA CommitIntentSteps ==
    ASSUME NEW i \in Inbounds, EgressInv, CommitIntent(i)
    PROVE  EgressInv'
<1> DEFINE n == Current(i).idx
           c == Current(i).call
           t == turn[i]
           moved == Turn("fire", t.fresh, t.tail, t.iter, t.left)
<1>1. /\ t.pc = "intent" /\ t.pc \in Calling
      /\ MessageInv(t, journal[i], intent[i], fired[i])
  BY DEF CommitIntent, At, Calling, EgressInv
<1>2. /\ n \in Nat /\ c \in Calls /\ c # NoCall /\ n < Len(journal[i])
      /\ journal[i][n + 1].call = c /\ Head(t.left) = Current(i)
  BY <1>1, HeadFacts
<1>3. UNCHANGED <<journal, fired>>
  BY DEF CommitIntent
<1> HIDE DEF n, c
<1>4. ASSUME NEW g, AboutToFire(Head(t.left), g, fired[i])
      PROVE  TurnInv(moved, journal[i], g, fired[i])
  BY <1>1, <1>4 DEF MessageInv, TurnInv, Turn
<1>5. CASE intent[i][n] = NoCall /\ intent' = [intent EXCEPT ![i][n] = c] /\ Goto(i, "fire")
  <2>1. /\ turn'[i] = moved /\ turn' = [turn EXCEPT ![i] = turn'[i]]
        /\ intent'[i] = [intent[i] EXCEPT ![n] = c] /\ intent' = [intent EXCEPT ![i] = intent'[i]]
    BY <1>5 DEF Goto, Become, EgressInv
  <2>2. LedgerInv(journal[i], intent'[i], fired[i])
    <3>1. LedgerInv(journal[i], intent[i], fired[i])
      BY <1>1 DEF MessageInv
    <3>2. intent'[i] \in [Indexes -> Calls \cup {NoCall}]
      BY <2>1, <3>1, <1>2, Zenon DEF LedgerInv
    <3>3. ASSUME NEW m \in Indexes
          PROVE  /\ intent'[i][m] # NoCall => m < Len(journal[i]) /\ journal[i][m + 1].call = intent'[i][m]
                 /\ intent'[i][m] = NoCall => fired[i][m] = 0
                 /\ intent'[i][m] \notin Idempotent => fired[i][m] <= 1
      <4>1. CASE m = n
        <5>1. intent'[i][m] = c /\ fired[i][m] = 0
          BY <4>1, <2>1, <3>1, <1>5 DEF LedgerInv
        <5> QED  BY <5>1, <4>1, <1>2
      <4>2. CASE m # n
        <5>1. intent'[i][m] = intent[i][m]
          BY <4>2, <2>1, <3>1 DEF LedgerInv
        <5> QED  BY <5>1, <3>1 DEF LedgerInv
      <4> QED  BY <4>1, <4>2
    <3> QED
      BY <3>1, <3>2, <3>3 DEF LedgerInv
  <2>3. AboutToFire(Head(t.left), intent'[i], fired[i])
    <3>1. n \in Indexes => intent'[i][n] = c /\ fired[i][n] = 0
      BY <2>1, <1>1, <1>5 DEF MessageInv, LedgerInv
    <3> QED
      BY <3>1, <1>2 DEF AboutToFire, n, c
  <2>4. MessageInv(turn'[i], journal'[i], intent'[i], fired'[i])
    BY <2>1, <2>2, <2>3, <1>1, <1>3, <1>4 DEF MessageInv
  <2>5. journal' = [journal EXCEPT ![i] = journal'[i]] /\ fired' = [fired EXCEPT ![i] = fired'[i]]
    BY <1>3, Zenon DEF EgressInv
  <2> QED
    BY <2>1, <2>4, <2>5, OneMessage
<1>6. CASE UNCHANGED intent /\ intent[i][n] = c /\ c \in Idempotent /\ Goto(i, "fire")
  <2>1. turn'[i] = moved /\ turn' = [turn EXCEPT ![i] = turn'[i]]
    BY <1>6 DEF Goto, Become, EgressInv
  <2>2. AboutToFire(Head(t.left), intent[i], fired[i])
    BY <1>2, <1>6 DEF AboutToFire, n, c
  <2> QED
    BY <2>1, <2>2, <1>3, <1>4, <1>6, TurnOnly
<1>7. CASE UNCHANGED intent /\ (Settle(i) \/ Drop(i))
  <2>1. At(i, "intent")
    BY DEF CommitIntent
  <2> QED
    BY <2>1, <1>3, <1>7, SettleSteps, TurnOnly, Zenon
<1> QED
  BY <1>5, <1>6, <1>7 DEF CommitIntent, n, c

\* Firing a call keeps EgressInv.
LEMMA FireSteps ==
    ASSUME NEW i \in Inbounds, EgressInv, Fire(i)
    PROVE  EgressInv'
<1> DEFINE n == Current(i).idx
           c == Current(i).call
           t == turn[i]
<1>1. /\ t.pc = "fire" /\ t.pc \in Calling
      /\ TurnInv(t, journal[i], intent[i], fired[i]) /\ JournalInv(journal[i])
      /\ LedgerInv(journal[i], intent[i], fired[i])
  BY DEF Fire, At, Calling, EgressInv, MessageInv
<1>2. c # NoCall /\ Head(t.left) = Current(i)
  BY <1>1, HeadFacts
<1>3. n \in Indexes => intent[i][n] = c /\ (c \notin Idempotent => fired[i][n] = 0)
  BY <1>1, <1>2 DEF TurnInv, AboutToFire
<1>4. UNCHANGED <<journal, intent>>
  BY DEF Fire
<1>5. /\ fired'[i] = [fired[i] EXCEPT ![n] = fired[i][n] + 1]
      /\ fired' = [fired EXCEPT ![i] = fired'[i]]
  BY DEF Fire, EgressInv
<1>6. TurnInv(turn'[i], journal[i], intent[i], fired'[i]) /\ turn' = [turn EXCEPT ![i] = turn'[i]]
  <2>1. CASE Drop(i)
    BY <2>1, IdleTurn DEF Drop, Become, EgressInv
  <2>2. CASE Goto(i, "record")
    <3>1. turn'[i] = Turn("record", t.fresh, t.tail, t.iter, t.left) /\ turn' = [turn EXCEPT ![i] = turn'[i]]
      BY <2>2 DEF Goto, Become, EgressInv
    <3> QED  BY <3>1, <1>1 DEF TurnInv, Turn
  <2> QED
    BY <2>1, <2>2 DEF Fire
<1> HIDE DEF n, c
<1>7. LedgerInv(journal[i], intent[i], fired'[i])
  <2>1. fired'[i] \in [Indexes -> Nat]
    <3>1. CASE n \in Indexes
      BY <3>1, <1>1, <1>5 DEF LedgerInv
    <3>2. CASE n \notin Indexes
      BY <3>2, <1>1, <1>5, Zenon DEF LedgerInv
    <3> QED  BY <3>1, <3>2
  <2>2. ASSUME NEW m \in Indexes
        PROVE  /\ intent[i][m] = NoCall => fired'[i][m] = 0
               /\ intent[i][m] \notin Idempotent => fired'[i][m] <= 1
    <3>1. CASE m = n
      <4>1. fired'[i][m] = fired[i][m] + 1
        BY <3>1, <1>1, <1>5 DEF LedgerInv
      <4> QED  BY <4>1, <3>1, <1>2, <1>3 DEF n, c
    <3>2. CASE m # n
      <4>1. fired'[i][m] = fired[i][m]
        BY <3>2, <1>1, <1>5 DEF LedgerInv
      <4> QED  BY <4>1, <1>1 DEF LedgerInv
    <3> QED  BY <3>1, <3>2
  <2> QED
    BY <2>1, <2>2, <1>1 DEF LedgerInv
<1>8. MessageInv(turn'[i], journal'[i], intent'[i], fired'[i])
  BY <1>1, <1>4, <1>6, <1>7 DEF MessageInv
<1>9. journal' = [journal EXCEPT ![i] = journal'[i]] /\ intent' = [intent EXCEPT ![i] = intent'[i]]
  BY <1>4, Zenon DEF EgressInv
<1> QED
  BY <1>5, <1>6, <1>8, <1>9, OneMessage

\* The steps that leave the ledgers alone and end outside the calls.
LEMMA QuietSteps ==
    ASSUME NEW i \in Inbounds, EgressInv,
           Begin(i) \/ Observe(i) \/ PlanAnswers(i) \/ Persist(i) \/ Send(i) \/ Abandon(i)
    PROVE  EgressInv'
<1>1. UNCHANGED <<journal, intent, fired>>
  BY Zenon DEF Begin, Observe, PlanAnswers, Persist, Send, Abandon, durable
<1>2. turn[i].iter \in Nat /\ turn[i].left \in Seq(Item)
  BY DEF EgressInv, MessageInv, TurnInv
<1>3. \/ Drop(i) \/ Become(i, Turn("observe", FALSE, <<>>, 0, <<>>))
      \/ \E fresh \in BOOLEAN : Become(i, Turn("orient", fresh, <<>>, 0, <<>>))
      \/ Goto(i, "persist") \/ Goto(i, "send")
  BY Zenon DEF Begin, Observe, PlanAnswers, Persist, Send, Abandon
<1>4. TurnInv(turn'[i], journal[i], intent[i], fired[i]) /\ turn' = [turn EXCEPT ![i] = turn'[i]]
  <2>1. CASE Drop(i)
    BY <2>1, IdleTurn DEF Drop, Become, EgressInv
  <2>2. CASE Goto(i, "persist") \/ Goto(i, "send")
    <3>1. PICK pc \in {"persist", "send"} : Goto(i, pc)
      BY <2>2
    <3>2. /\ turn'[i] = Turn(pc, turn[i].fresh, turn[i].tail, turn[i].iter, turn[i].left)
          /\ turn' = [turn EXCEPT ![i] = turn'[i]]
      BY <3>1 DEF Goto, Become, EgressInv
    <3>3. pc \notin Calling
      BY DEF Calling
    <3> QED
      BY <3>2, <3>3, <1>2, QuietTurn
  <2>3. ASSUME NEW pc \in {"observe", "orient"}, NEW fresh, Become(i, Turn(pc, fresh, <<>>, 0, <<>>))
        PROVE  TurnInv(turn'[i], journal[i], intent[i], fired[i]) /\ turn' = [turn EXCEPT ![i] = turn'[i]]
    <3>1. turn'[i] = Turn(pc, fresh, <<>>, 0, <<>>) /\ turn' = [turn EXCEPT ![i] = turn'[i]]
      BY <2>3 DEF Become, EgressInv
    <3>2. pc \notin Calling /\ 0 \in Nat /\ <<>> \in Seq(Item)
      BY DEF Calling
    <3> QED
      BY <3>1, <3>2 DEF TurnInv, Turn, Calling
  <2> QED
    BY <1>3, <2>1, <2>2, <2>3, Zenon
<1> QED
  BY <1>1, <1>4, TurnOnly

\* The steps that settle the call at the head, or pass it to the relay.
LEMMA CallSteps ==
    ASSUME NEW i \in Inbounds, EgressInv, DispatchTool(i) \/ RecordResponse(i) \/ ActionTimeout(i)
    PROVE  EgressInv'
<1>1. UNCHANGED <<journal, intent, fired>>
  BY DEF DispatchTool, RecordResponse, ActionTimeout, durable
<1>2. At(i, "call") \/ At(i, "intent") \/ At(i, "fire") \/ At(i, "record")
  BY DEF DispatchTool, RecordResponse, ActionTimeout, At
<1>3. CASE Settle(i) \/ Drop(i)
  BY <1>1, <1>2, <1>3, SettleSteps, TurnOnly, Zenon
<1>4. CASE Goto(i, "intent")
  <2>1. turn[i].pc \in Calling /\ TurnInv(turn[i], journal[i], intent[i], fired[i])
    BY <1>2 DEF At, Calling, EgressInv, MessageInv
  <2>2. /\ turn'[i] = Turn("intent", turn[i].fresh, turn[i].tail, turn[i].iter, turn[i].left)
        /\ turn' = [turn EXCEPT ![i] = turn'[i]]
    BY <1>4 DEF Goto, Become, EgressInv
  <2>3. TurnInv(turn'[i], journal[i], intent[i], fired[i])
    BY <2>1, <2>2 DEF TurnInv, Turn
  <2> QED
    BY <1>1, <2>2, <2>3, TurnOnly
<1> QED
  BY <1>3, <1>4 DEF DispatchTool, RecordResponse, ActionTimeout

\* Every step keeps EgressInv.
LEMMA EgressStep == EgressInv /\ [Next]_vars => EgressInv'
<1> SUFFICES ASSUME EgressInv, [Next]_vars PROVE EgressInv'
  OBVIOUS
<1>1. ASSUME NEW i \in Inbounds, Step(i) PROVE EgressInv'
  BY <1>1, QuietSteps, OrientSteps, CallSteps, CommitIntentSteps, FireSteps, PlanCallsSteps DEF Step
<1>2. CASE EvictToCap \/ UNCHANGED vars
  BY <1>2 DEF EvictToCap, vars, durable, EgressInv
<1>3. CASE Crash
  <2>1. /\ turn' = [i \in Inbounds |-> Idle] /\ UNCHANGED <<journal, intent, fired>>
    BY <1>3 DEF Crash, durable
  <2>2. \A i \in Inbounds : turn'[i] = Idle /\ TurnInv(Idle, journal[i], intent[i], fired[i])
    BY <2>1, IdleTurn
  <2>3. \A i \in Inbounds : MessageInv(turn'[i], journal'[i], intent'[i], fired'[i])
    BY <2>1, <2>2 DEF EgressInv, MessageInv
  <2>4. turn' = [i \in Inbounds |-> turn'[i]]
    BY <2>1
  <2> QED
    BY <2>1, <2>3, <2>4 DEF EgressInv
<1> QED
  BY <1>1, <1>2, <1>3 DEF Next

\* EgressInv is an invariant.
LEMMA EgressAlways == Spec => []EgressInv
<1> QED
  BY EgressInit, EgressStep, PTL DEF Spec

\* For any calls, ceilings and interruptions, an external call that is not
\* marked repeatable reaches the outside at most once (GatewayRelayClient.fire
\* over the egress ledger).
THEOREM CallsFireOnce == Spec => []FiresOnce
<1>1. EgressInv => FiresOnce
  BY DEF EgressInv, MessageInv, LedgerInv, FiresOnce
<1> QED
  BY <1>1, EgressAlways, PTL

\* A row of the egress ledger is for the call the journal holds at its index,
\* so a resumed turn cannot meet EgressIdIntegrityError through its own replay.
THEOREM LedgerAgreesWithJournal == Spec => []LedgerFollowsJournal
<1>1. EgressInv => LedgerFollowsJournal
  BY DEF EgressInv, MessageInv, LedgerInv, LedgerFollowsJournal
<1> QED
  BY <1>1, EgressAlways, PTL

\* The journal never holds the last iteration, so a resumed turn always has one
\* left and ReplayIterationCeilingError is out of reach.
THEOREM ResumedTurnsHaveRoom == Spec => []ResumeHasRoom
<1>1. EgressInv => ResumeHasRoom
  <2> SUFFICES ASSUME EgressInv, NEW i \in Inbounds, NEW k \in DOMAIN journal[i]
               PROVE  journal[i][k].iter < MaxIterations - 1
    BY DEF ResumeHasRoom
  <2>1. JournalInv(journal[i])
    BY DEF EgressInv, MessageInv
  <2> QED
    BY <2>1 DEF JournalInv
<1> QED
  BY <1>1, EgressAlways, PTL
-----------------------------------------------------------------------------
Early == {"idle", "observe"}

\* A turn past its first phase has its user row.
Rooted == \A i \in Inbounds : turn[i].pc \notin Early => <<"user", i>> \in Range(episodes)

RowInv ==
    /\ turn = [i \in Inbounds |-> turn[i]]
    /\ episodes \in Seq(Roles \X Inbounds)
    /\ RowsOnce
    /\ Rooted

\* The elements of a sequence that grew by one.
LEMMA RangeAppend ==
    ASSUME NEW S, NEW s \in Seq(S), NEW e \in S
    PROVE  Range(Append(s, e)) = Range(s) \cup {e}
<1>1. /\ DOMAIN s = 1 .. Len(s) /\ Len(s) \in Nat /\ DOMAIN Append(s, e) = 1 .. Len(s) + 1
      /\ \A k \in 1 .. Len(s) : Append(s, e)[k] = s[k]
      /\ Append(s, e)[Len(s) + 1] = e
  OBVIOUS
<1>2. ASSUME NEW x \in Range(s) PROVE x \in Range(Append(s, e))
  BY <1>1, <1>2 DEF Range
<1>3. ASSUME NEW x \in Range(Append(s, e)) PROVE x \in Range(s) \cup {e}
  BY <1>1, <1>3 DEF Range
<1>4. e \in Range(Append(s, e))
  BY <1>1 DEF Range
<1> QED
  BY <1>2, <1>3, <1>4

\* A row that is not there yet, and whose user row is, may be added.
LEMMA AddRow ==
    ASSUME RowInv, NEW e \in Roles \X Inbounds, e \notin Range(episodes),
           e[1] = "assistant" => <<"user", e[2]>> \in Range(episodes),
           episodes' = Append(episodes, e)
    PROVE  /\ episodes' \in Seq(Roles \X Inbounds) /\ RowsOnce'
           /\ Range(episodes') = Range(episodes) \cup {e}
<1>1. /\ DOMAIN episodes = 1 .. Len(episodes) /\ Len(episodes) \in Nat
      /\ episodes \in Seq(Roles \X Inbounds)
      /\ DOMAIN episodes' = 1 .. Len(episodes) + 1
      /\ \A k \in 1 .. Len(episodes) : episodes'[k] = episodes[k]
      /\ episodes'[Len(episodes) + 1] = e
  BY DEF RowInv
<1>2. \A k \in 1 .. Len(episodes) : episodes[k] # e
  BY <1>1 DEF Range
<1>3. RowsOnce
  BY DEF RowInv
<1>4. ASSUME NEW p \in DOMAIN episodes', NEW q \in DOMAIN episodes', episodes'[p] = episodes'[q]
      PROVE  p = q
  BY <1>1, <1>2, <1>3, <1>4 DEF RowsOnce
<1>5. ASSUME NEW q \in DOMAIN episodes', episodes'[q][1] = "assistant"
      PROVE  \E p \in 1 .. q : episodes'[p] = <<"user", episodes'[q][2]>>
  <2>1. CASE q \in DOMAIN episodes
    <3>1. PICK p \in 1 .. q : episodes[p] = <<"user", episodes[q][2]>>
      BY <2>1, <1>1, <1>3, <1>5, Zenon DEF RowsOnce
    <3>2. p \in DOMAIN episodes
      BY <3>1, <2>1, <1>1
    <3>3. episodes'[p] = episodes[p] /\ episodes'[q] = episodes[q]
      BY <3>2, <2>1, <1>1
    <3> QED
      BY <3>1, <3>3, Zenon
  <2>2. CASE q = Len(episodes) + 1
    <3>1. PICK p \in DOMAIN episodes : episodes[p] = <<"user", e[2]>>
      BY <2>2, <1>1, <1>5 DEF Range
    <3>2. p \in 1 .. q /\ episodes'[p] = episodes[p]
      BY <3>1, <2>2, <1>1
    <3>3. episodes'[q][2] = e[2]
      BY <2>2, <1>1
    <3> QED
      BY <3>1, <3>2, <3>3
  <2>3. q \in 1 .. Len(episodes) \/ q = Len(episodes) + 1
    <3>1. q \in 1 .. Len(episodes) + 1
      BY <1>1
    <3> DEFINE n == Len(episodes)
    <3>2. n \in Nat /\ q \in 1 .. n + 1
      BY <1>1, <3>1
    <3> HIDE DEF n
    <3>3. q \in 1 .. n \/ q = n + 1
      BY <3>2
    <3> QED
      BY <3>3 DEF n
  <2> QED
    BY <2>1, <2>2, <2>3, <1>1, Zenon
<1>6. RowsOnce'
  BY <1>4, <1>5, Zenon DEF RowsOnce
<1>7. Range(episodes') = Range(episodes) \cup {e}
  BY <1>1, RangeAppend
<1> QED
  BY <1>1, <1>6, <1>7

\* A step that writes no row and takes no turn past its first phase.
LEMMA NoRow ==
    ASSUME RowInv, UNCHANGED episodes, turn' = [i \in Inbounds |-> turn'[i]],
           \A i \in Inbounds : turn'[i].pc \in Early \/ turn[i].pc \notin Early
    PROVE  RowInv'
<1>1. RowsOnce'
  BY DEF RowInv, RowsOnce
<1> QED
  BY <1>1 DEF RowInv, Rooted

\* How Become moves the turns.
LEMMA Moves ==
    ASSUME NEW i \in Inbounds, turn = [j \in Inbounds |-> turn[j]], NEW t, Become(i, t)
    PROVE  /\ turn' = [j \in Inbounds |-> turn'[j]] /\ turn'[i] = t
           /\ \A j \in Inbounds : j # i => turn'[j] = turn[j]
  BY DEF Become

\* The row of an incoming message keeps RowInv.
LEMMA ObserveRows ==
    ASSUME NEW i \in Inbounds, RowInv, Observe(i)
    PROVE  RowInv'
<1> DEFINE e == <<"user", i>>
<1>1. PICK outcome \in {"done", "failed", "cut"} :
        /\ episodes' = IF e \notin Range(episodes) /\ outcome # "failed"
                       THEN Append(episodes, e) ELSE episodes
        /\ IF outcome = "done"
           THEN Become(i, Turn("orient", e \notin Range(episodes), <<>>, 0, <<>>)) ELSE Drop(i)
  BY DEF Observe
<1>2. /\ turn' = [j \in Inbounds |-> turn'[j]]
      /\ outcome # "done" => turn'[i].pc = "idle"
      /\ \A j \in Inbounds : j # i => turn'[j] = turn[j]
  BY <1>1, Moves DEF Drop, Idle, Turn, RowInv
<1>3. CASE e \notin Range(episodes) /\ outcome # "failed"
  <2>1. e \in Roles \X Inbounds /\ e[1] # "assistant"
    BY DEF Roles
  <2>2. /\ episodes' \in Seq(Roles \X Inbounds) /\ RowsOnce'
        /\ Range(episodes') = Range(episodes) \cup {e}
    BY <1>1, <1>3, <2>1, AddRow, Zenon
  <2> QED
    BY <1>2, <2>2 DEF RowInv, Rooted
<1>4. CASE ~(e \notin Range(episodes) /\ outcome # "failed")
  <2>1. episodes' = episodes /\ RowsOnce'
    BY <1>1, <1>4, Zenon DEF RowInv, RowsOnce
  <2>2. turn'[i].pc \notin Early => e \in Range(episodes)
    BY <1>2, <1>4 DEF Early
  <2> QED
    BY <1>2, <2>1, <2>2 DEF RowInv, Rooted
<1> QED
  BY <1>3, <1>4

\* The row of a reply keeps RowInv.
LEMMA PersistRows ==
    ASSUME NEW i \in Inbounds, RowInv, Persist(i)
    PROVE  RowInv'
<1> DEFINE e == <<"assistant", i>>
<1>1. PICK outcome \in {"done", "unlogged", "failed", "cut"} :
        /\ episodes' = IF e \notin Range(episodes) /\ outcome # "failed"
                       THEN Append(episodes, e) ELSE episodes
        /\ IF outcome = "done" THEN Goto(i, "send") ELSE Drop(i)
  BY DEF Persist
<1>2. turn[i].pc \notin Early /\ <<"user", i>> \in Range(episodes)
  BY DEF Persist, At, Early, RowInv, Rooted
<1>3. /\ turn' = [j \in Inbounds |-> turn'[j]]
      /\ \A j \in Inbounds : j # i => turn'[j] = turn[j]
  BY <1>1, Moves DEF Drop, Goto, RowInv
<1>4. CASE e \notin Range(episodes) /\ outcome # "failed"
  <2>1. e \in Roles \X Inbounds /\ e[2] = i
    BY DEF Roles
  <2>2. /\ episodes' \in Seq(Roles \X Inbounds) /\ RowsOnce'
        /\ Range(episodes') = Range(episodes) \cup {e}
    BY <1>1, <1>2, <1>4, <2>1, AddRow, Zenon
  <2> QED
    BY <1>2, <1>3, <2>2, Zenon DEF RowInv, Rooted
<1>5. CASE ~(e \notin Range(episodes) /\ outcome # "failed")
  <2>1. episodes' = episodes
    BY <1>1, <1>5
  <2> QED
    BY <1>2, <1>3, <2>1, NoRow
<1> QED
  BY <1>4, <1>5

\* Every other step of a turn keeps RowInv.
LEMMA OtherRows ==
    ASSUME NEW i \in Inbounds, RowInv, Step(i), ~Observe(i), ~Persist(i)
    PROVE  RowInv'
<1>1. UNCHANGED episodes
  BY Zenon DEF Step, Begin, Orient, DispatchTool, CommitIntent, Fire, RecordResponse, ActionTimeout,
         PlanAnswers, PlanCalls, Send, Abandon, durable
<1>2. \E t : Become(i, t) /\ (t.pc \in Early \/ turn[i].pc \notin Early)
  <2>1. CASE Begin(i)
    BY <2>1 DEF Begin, Turn, Early
  <2>2. ASSUME Drop(i)
        PROVE  \E t : Become(i, t) /\ (t.pc \in Early \/ turn[i].pc \notin Early)
    BY <2>2 DEF Drop, Idle, Turn, Early
  <2>3. CASE Orient(i)
    BY <2>3 DEF Orient, At, Early
  <2>4. CASE DispatchTool(i) \/ CommitIntent(i) \/ Fire(i) \/ RecordResponse(i) \/ ActionTimeout(i)
    <3>1. turn[i].pc \notin Early
      BY <2>4 DEF DispatchTool, CommitIntent, Fire, RecordResponse, ActionTimeout, At, Early
    <3>2. Settle(i) \/ Drop(i) \/ Goto(i, "intent") \/ Goto(i, "fire") \/ Goto(i, "record")
      BY <2>4 DEF DispatchTool, CommitIntent, Fire, RecordResponse, ActionTimeout
    <3> QED
      BY <3>1, <3>2 DEF Settle, Drop, Goto
  <2>5. CASE PlanAnswers(i)
    BY <2>5 DEF PlanAnswers, At, Goto, Early
  <2>6. CASE PlanCalls(i)
    BY <2>6 DEF PlanCalls, At, Early
  <2>7. CASE Send(i) \/ Abandon(i)
    BY <2>2, <2>7 DEF Send, Abandon
  <2> QED
    BY <2>1, <2>3, <2>4, <2>5, <2>6, <2>7, Zenon DEF Step
<1>3. PICK t : Become(i, t) /\ (t.pc \in Early \/ turn[i].pc \notin Early)
  BY <1>2
<1>4. /\ turn' = [j \in Inbounds |-> turn'[j]] /\ turn'[i] = t
      /\ \A j \in Inbounds : j # i => turn'[j] = turn[j]
  BY <1>3, Moves DEF RowInv
<1>5. \A j \in Inbounds : turn'[j].pc \in Early \/ turn[j].pc \notin Early
  BY <1>3, <1>4
<1> QED
  BY <1>1, <1>4, <1>5, NoRow

\* There is no row at the start.
LEMMA RowInit == Init => RowInv
<1> SUFFICES ASSUME Init PROVE RowInv
  OBVIOUS
<1>1. episodes = <<>> /\ turn = [i \in Inbounds |-> Idle]
  BY DEF Init
<1>2. RowsOnce
  BY <1>1 DEF RowsOnce
<1> QED
  BY <1>1, <1>2 DEF RowInv, Rooted, Early, Idle, Turn

\* Every step keeps RowInv.
LEMMA RowStep == RowInv /\ [Next]_vars => RowInv'
<1> SUFFICES ASSUME RowInv, [Next]_vars PROVE RowInv'
  OBVIOUS
<1>1. ASSUME NEW i \in Inbounds, Step(i) PROVE RowInv'
  BY <1>1, ObserveRows, PersistRows, OtherRows
<1>2. CASE EvictToCap \/ UNCHANGED vars
  <2>1. UNCHANGED <<turn, episodes>>
    BY <1>2 DEF EvictToCap, vars, durable
  <2> QED
    BY <2>1, NoRow DEF RowInv
<1>3. CASE Crash
  <2>1. turn' = [i \in Inbounds |-> Idle] /\ UNCHANGED episodes
    BY <1>3 DEF Crash, durable
  <2>2. \A i \in Inbounds : turn'[i].pc \in Early
    BY <2>1 DEF Idle, Turn, Early
  <2> QED
    BY <2>1, <2>2, NoRow
<1> QED
  BY <1>1, <1>2, <1>3 DEF Next

\* However often a message is dispatched, cut short or delivered again, it has
\* at most one user row and one assistant row, in that order (the gates of
\* turn_side_effects committed together with the rows).
THEOREM RowsWrittenOnce == Spec => []RowsOnce
<1>1. RowInv => RowsOnce
  BY DEF RowInv
<1> QED
  BY <1>1, RowInit, RowStep, PTL DEF Spec
-----------------------------------------------------------------------------
(* The working memory: a subsequence of the rows, in their order. *)

Turns == Roles \X Inbounds

Follow(mem, rows) ==
    /\ \A p \in 1 .. Len(mem) : \E a \in 1 .. Len(rows) : mem[p] = rows[a]
    /\ \A p, q \in 1 .. Len(mem), a, b \in 1 .. Len(rows) :
          p < q /\ mem[p] = rows[a] /\ mem[q] = rows[b] => a < b

FollowInv == RowInv /\ memory \in Seq(Turns) /\ Follow(memory, episodes)

\* LastOf drops a prefix, and keeps the last element of what it is given.
LEMMA LastOfSuffix ==
    ASSUME NEW S, NEW s \in Seq(S), NEW n \in Nat \ {0}
    PROVE  /\ LastOf(s, n) \in Seq(S)
           /\ \E off \in 0 .. Len(s) :
                 /\ Len(LastOf(s, n)) = Len(s) - off
                 /\ \A k \in 1 .. Len(LastOf(s, n)) :
                       k + off \in 1 .. Len(s) /\ LastOf(s, n)[k] = s[k + off]
                 /\ s # <<>> => off < Len(s)
<1> DEFINE off == IF Len(s) > n THEN Len(s) - n ELSE 0
<1>1. Len(s) \in Nat /\ off \in 0 .. Len(s) /\ (s # <<>> => off < Len(s))
  BY EmptySeq
<1>2. LastOf(s, n) = SubSeq(s, off + 1, Len(s))
  BY DEF LastOf
<1> HIDE DEF off
<1>3. off + 1 \in 1 .. Len(s) + 1 /\ Len(s) \in (off + 1) - 1 .. Len(s)
  BY <1>1
<1>4. /\ LastOf(s, n) \in Seq(S)
      /\ Len(LastOf(s, n)) = Len(s) - off
      /\ \A k \in 1 .. Len(s) - off : LastOf(s, n)[k] = s[k + off]
  BY <1>1, <1>2, <1>3, SubSeqProperties
<1> QED
  BY <1>1, <1>4

\* The newest turns of a memory that follows the rows follow them too.
LEMMA FollowSuffix ==
    ASSUME NEW mem \in Seq(Turns), NEW rows, Follow(mem, rows), NEW n \in Nat \ {0}
    PROVE  LastOf(mem, n) \in Seq(Turns) /\ Follow(LastOf(mem, n), rows)
<1> DEFINE new == LastOf(mem, n)
<1>1. new \in Seq(Turns) /\ Len(mem) \in Nat
  BY LastOfSuffix
<1>2. PICK off \in 0 .. Len(mem) :
        /\ Len(new) = Len(mem) - off
        /\ \A k \in 1 .. Len(new) : k + off \in 1 .. Len(mem) /\ new[k] = mem[k + off]
  BY LastOfSuffix
<1> HIDE DEF new
<1>3. \A p \in 1 .. Len(new) : \E a \in 1 .. Len(rows) : new[p] = rows[a]
  BY <1>2 DEF Follow
<1>4. ASSUME NEW p \in 1 .. Len(new), NEW q \in 1 .. Len(new), p < q,
             NEW a \in 1 .. Len(rows), NEW b \in 1 .. Len(rows),
             new[p] = rows[a], new[q] = rows[b]
      PROVE  a < b
  <2>1. /\ p + off \in 1 .. Len(mem) /\ q + off \in 1 .. Len(mem) /\ p + off < q + off
        /\ mem[p + off] = rows[a] /\ mem[q + off] = rows[b]
    BY <1>1, <1>2, <1>4
  <2> QED
    BY <2>1 DEF Follow
<1>5. Follow(new, rows)
  BY <1>3, <1>4 DEF Follow
<1> QED
  BY <1>1, <1>5 DEF new

\* A row added at the end moves no other row; the memory may take it too.
LEMMA FollowGrown ==
    ASSUME NEW mem \in Seq(Turns), NEW rows \in Seq(Turns), Follow(mem, rows),
           NEW e \in Turns, e \notin Range(rows)
    PROVE  /\ Follow(mem, Append(rows, e))
           /\ Append(mem, e) \in Seq(Turns) /\ Follow(Append(mem, e), Append(rows, e))
<1> DEFINE more == Append(rows, e)
           all == Append(mem, e)
           n == Len(rows)
           k == Len(mem)
<1>1. /\ n \in Nat /\ Len(more) = n + 1 /\ more[n + 1] = e
      /\ \A a \in 1 .. n : more[a] = rows[a] /\ rows[a] # e
  BY DEF Range
<1>2. /\ k \in Nat /\ all \in Seq(Turns) /\ Len(all) = k + 1 /\ all[k + 1] = e
      /\ \A p \in 1 .. k : all[p] = mem[p]
  OBVIOUS
<1>3. \A p \in 1 .. k : \E a \in 1 .. n : mem[p] = rows[a]
  BY DEF Follow
<1>4. \A p, q \in 1 .. k, a, b \in 1 .. n :
          p < q /\ mem[p] = rows[a] /\ mem[q] = rows[b] => a < b
  BY DEF Follow
<1> HIDE DEF more, all, n, k
<1>5. \A p \in 1 .. k : mem[p] # e
  BY <1>1, <1>3
<1>6. \A p \in 1 .. k, a \in 1 .. n + 1 : mem[p] = more[a] => a \in 1 .. n /\ mem[p] = rows[a]
  BY <1>1, <1>5
<1>7. Follow(mem, more)
  <2>1. \A p \in 1 .. k : \E a \in 1 .. n + 1 : mem[p] = more[a]
    BY <1>1, <1>3
  <2>2. \A p, q \in 1 .. k, a, b \in 1 .. n + 1 :
            p < q /\ mem[p] = more[a] /\ mem[q] = more[b] => a < b
    BY <1>4, <1>6
  <2> QED
    BY <1>1, <2>1, <2>2 DEF Follow, k
<1>8. Follow(all, more)
  <2>1. \A p \in 1 .. k + 1 : \E a \in 1 .. n + 1 : all[p] = more[a]
    <3>1. \A p \in 1 .. k + 1 : p \in 1 .. k \/ p = k + 1
      BY <1>2
    <3>2. n + 1 \in 1 .. n + 1 /\ \A a \in 1 .. n : a \in 1 .. n + 1
      BY <1>1
    <3> QED
      BY <1>1, <1>2, <1>3, <3>1, <3>2
  <2>2. ASSUME NEW p \in 1 .. k + 1, NEW q \in 1 .. k + 1, NEW a \in 1 .. n + 1, NEW b \in 1 .. n + 1,
               p < q, all[p] = more[a], all[q] = more[b]
        PROVE  a < b
    <3>1. p \in 1 .. k /\ a \in 1 .. n /\ mem[p] = rows[a]
      BY <1>2, <1>6, <2>2
    <3>2. CASE q \in 1 .. k
      BY <1>2, <1>4, <1>6, <2>2, <3>1, <3>2
    <3>3. CASE q = k + 1
      <4>1. b = n + 1
        BY <1>1, <1>2, <2>2, <3>3
      <4> QED
        BY <1>1, <3>1, <4>1
    <3> QED
      BY <1>2, <3>2, <3>3
  <2> QED
    BY <1>1, <1>2, <2>1, <2>2 DEF Follow
<1> QED
  BY <1>2, <1>7, <1>8 DEF more, all

\* The rows follow themselves, since none is there twice.
LEMMA FollowRows ==
    ASSUME RowInv
    PROVE  episodes \in Seq(Turns) /\ Follow(episodes, episodes)
<1>1. episodes \in Seq(Turns) /\ DOMAIN episodes = 1 .. Len(episodes)
  BY DEF RowInv, Turns
<1> QED
  BY <1>1 DEF RowInv, RowsOnce, Follow

\* A turn remembered with its row keeps the memory in the order of the rows.
LEMMA Remembers ==
    ASSUME FollowInv, NEW role \in Roles, NEW i \in Inbounds, <<role, i>> \notin Range(episodes),
           episodes' = Append(episodes, <<role, i>>),
           memory' = Remember(role, i) \/ memory' = memory
    PROVE  memory' \in Seq(Turns) /\ Follow(memory', episodes')
<1> DEFINE e == <<role, i>>
<1>1. e \in Turns /\ episodes \in Seq(Turns) /\ memory \in Seq(Turns) /\ Follow(memory, episodes)
  BY DEF FollowInv, RowInv, Turns
<1>2. MemoryTurns \in Nat \ {0}
  BY TurnAssumption
<1>3. Remember(role, i) = LastOf(Append(memory, e), MemoryTurns)
  BY DEF Remember
<1> HIDE DEF e
<1>4. /\ Follow(memory, Append(episodes, e))
      /\ Append(memory, e) \in Seq(Turns) /\ Follow(Append(memory, e), Append(episodes, e))
  BY <1>1, FollowGrown DEF e
<1>5. /\ LastOf(Append(memory, e), MemoryTurns) \in Seq(Turns)
      /\ Follow(LastOf(Append(memory, e), MemoryTurns), Append(episodes, e))
  BY <1>2, <1>4, FollowSuffix, Zenon
<1> QED
  BY <1>1, <1>3, <1>4, <1>5 DEF e
\* Every step keeps FollowInv.
LEMMA FollowStep == FollowInv /\ [Next]_vars => FollowInv'
<1> SUFFICES ASSUME FollowInv, [Next]_vars PROVE memory' \in Seq(Turns) /\ Follow(memory', episodes')
  BY RowStep DEF FollowInv
<1> USE DEF durable
<1>1. ASSUME UNCHANGED <<memory, episodes>>
      PROVE  memory' \in Seq(Turns) /\ Follow(memory', episodes')
  BY <1>1 DEF FollowInv
<1>2. ASSUME memory' = <<>> PROVE memory' \in Seq(Turns) /\ Follow(memory', episodes')
  BY <1>2 DEF Follow
<1>3. ASSUME NEW i \in Inbounds, Step(i)
      PROVE  memory' \in Seq(Turns) /\ Follow(memory', episodes')
  <2>1. CASE Begin(i)
    <3>1. episodes' = episodes /\ memory' \in {memory, LastOf(episodes, RecallLimit)}
      BY <2>1 DEF Begin
    <3>2. RecallLimit \in Nat \ {0} /\ RowInv
      BY TurnAssumption DEF FollowInv
    <3>3. /\ LastOf(episodes, RecallLimit) \in Seq(Turns)
          /\ Follow(LastOf(episodes, RecallLimit), episodes)
      BY <3>2, FollowRows, FollowSuffix
    <3> QED
      BY <3>1, <3>3 DEF FollowInv
  <2>2. CASE Observe(i)
    <3>1. \/ UNCHANGED <<memory, episodes>>
          \/ /\ <<"user", i>> \notin Range(episodes) /\ episodes' = Append(episodes, <<"user", i>>)
             /\ memory' = Remember("user", i) \/ memory' = memory
      BY <2>2 DEF Observe
    <3> QED
      BY <1>1, <3>1, Remembers DEF Roles
  <2>3. CASE Persist(i)
    <3>1. \/ UNCHANGED <<memory, episodes>>
          \/ /\ <<"assistant", i>> \notin Range(episodes)
             /\ episodes' = Append(episodes, <<"assistant", i>>)
             /\ memory' = Remember("assistant", i) \/ memory' = memory
      BY <2>3 DEF Persist
    <3> QED
      BY <1>1, <3>1, Remembers DEF Roles
  <2>4. CASE Orient(i) \/ DispatchTool(i) \/ CommitIntent(i) \/ Fire(i) \/ RecordResponse(i)
    BY <1>1, <2>4 DEF Orient, DispatchTool, CommitIntent, Fire, RecordResponse
  <2>5. CASE ActionTimeout(i) \/ PlanAnswers(i) \/ PlanCalls(i) \/ Send(i) \/ Abandon(i)
    BY <1>1, <2>5, Zenon DEF ActionTimeout, PlanAnswers, PlanCalls, Send, Abandon
  <2> QED
    BY <1>3, <2>1, <2>2, <2>3, <2>4, <2>5 DEF Step
<1>4. CASE EvictToCap \/ Crash
  BY <1>2, <1>4 DEF EvictToCap, Crash
<1>5. CASE UNCHANGED vars
  BY <1>1, <1>5 DEF vars
<1> QED
  BY <1>3, <1>4, <1>5 DEF Next

\* The working memory holds only turns that are durable, in the order of their
\* rows: for every recall and memory limit, eviction, cut and crash between a
\* commit and the append that follows it.
THEOREM MemoryIsDurable == Spec => []MemoryFollowsRows
<1>1. Init => FollowInv
  <2>1. Init => memory = <<>> /\ episodes = <<>>
    BY DEF Init
  <2> QED
    BY <2>1, RowInit DEF FollowInv, Follow
<1>2. FollowInv => MemoryFollowsRows
  <2> SUFFICES ASSUME FollowInv PROVE MemoryFollowsRows
    OBVIOUS
  <2>1. /\ DOMAIN memory = 1 .. Len(memory) /\ DOMAIN episodes = 1 .. Len(episodes)
        /\ Follow(memory, episodes)
    BY DEF FollowInv, RowInv
  <2>2. \A p \in DOMAIN memory : /\ IndexOf(episodes, memory[p]) \in 1 .. Len(episodes)
                                 /\ episodes[IndexOf(episodes, memory[p])] = memory[p]
    BY <2>1 DEF Follow, IndexOf
  <2>3. Range(memory) \subseteq Range(episodes)
    BY <2>1, <2>2 DEF Range
  <2>4. \A p, q \in DOMAIN memory : p < q =>
            IndexOf(episodes, memory[p]) < IndexOf(episodes, memory[q])
    BY <2>1, <2>2 DEF Follow
  <2> QED
    BY <2>3, <2>4 DEF MemoryFollowsRows
<1> QED
  BY <1>1, <1>2, FollowStep, PTL DEF Spec
-----------------------------------------------------------------------------
(* The prompt: the lock of the user keeps the memory still between the      *)
(* append of a turn's message and the read of the memory's last entry.      *)

OneHolds == \A i, j \in Inbounds : turn[i].pc \in Holding /\ turn[j].pc \in Holding => i = j

Newest(s) == s[Len(s)]

Asks(i) ==
    /\ turn[i].pc = "orient" /\ turn[i].fresh => Newest(memory) = <<"user", i>>
    /\ turn[i].pc \in Holding \ {"observe", "orient"} => turn[i].tail = <<"user", i>>

PromptInv ==
    /\ turn = [i \in Inbounds |-> turn[i]]
    /\ memory \in Seq(Turns)
    /\ OneHolds
    /\ \A i \in Inbounds : Asks(i)
\* A move of one turn that changes no other prompt keeps PromptInv.
LEMMA PromptMove ==
    ASSUME PromptInv, NEW i \in Inbounds, NEW t, Become(i, t), memory' \in Seq(Turns),
           \/ \A j \in Inbounds : j # i => turn[j].pc \notin Holding
           \/ UNCHANGED memory /\ t.pc \notin Holding,
           t.pc = "orient" /\ t.fresh => Newest(memory') = <<"user", i>>,
           t.pc \in Holding \ {"observe", "orient"} => t.tail = <<"user", i>>
    PROVE  PromptInv'
<1>1. /\ turn' = [j \in Inbounds |-> turn'[j]] /\ turn'[i] = t
      /\ \A j \in Inbounds : j # i => turn'[j] = turn[j]
  BY Moves DEF PromptInv
<1>2. OneHolds'
  BY <1>1 DEF PromptInv, OneHolds
<1>3. ASSUME NEW j \in Inbounds PROVE Asks(j)'
  <2>1. CASE j = i
    BY <1>1, <2>1 DEF Asks
  <2>2. CASE j # i /\ UNCHANGED memory
    BY <1>1, <2>2 DEF PromptInv, Asks
  <2>3. CASE j # i /\ turn[j].pc \notin Holding
    BY <1>1, <2>3 DEF Asks, Holding
  <2> QED
    BY <2>1, <2>2, <2>3
<1> QED
  BY <1>1, <1>2, <1>3 DEF PromptInv

\* A turn that holds the lock moves on with its prompt, or ends.
LEMMA PromptKept ==
    ASSUME PromptInv, NEW i \in Inbounds, turn[i].pc \in Holding \ {"observe", "orient"},
           UNCHANGED memory, NEW t, Become(i, t),
           t.tail = turn[i].tail \/ t.pc \notin Holding, t.pc # "orient"
    PROVE  PromptInv'
<1>1. \A j \in Inbounds : j # i => turn[j].pc \notin Holding
  BY DEF PromptInv, OneHolds
<1>2. t.pc \in Holding => t.tail = <<"user", i>>
  BY DEF PromptInv, Asks
<1>3. memory' \in Seq(Turns)
  BY DEF PromptInv
<1> QED
  BY <1>1, <1>2, <1>3, PromptMove

\* What was remembered last is the newest turn of the trimmed memory.
LEMMA RememberLast ==
    ASSUME memory \in Seq(Turns), NEW e \in Turns
    PROVE  /\ LastOf(Append(memory, e), MemoryTurns) \in Seq(Turns)
           /\ Newest(LastOf(Append(memory, e), MemoryTurns)) = e
<1> DEFINE all == Append(memory, e)
           new == LastOf(all, MemoryTurns)
<1>1. /\ all \in Seq(Turns) /\ all # <<>> /\ Len(all) \in Nat /\ all[Len(all)] = e
      /\ MemoryTurns \in Nat \ {0}
  BY TurnAssumption
<1> HIDE DEF all
<1>2. new \in Seq(Turns)
  BY <1>1, LastOfSuffix
<1>3. PICK off \in 0 .. Len(all) :
        /\ Len(new) = Len(all) - off
        /\ \A k \in 1 .. Len(new) : k + off \in 1 .. Len(all) /\ new[k] = all[k + off]
        /\ off < Len(all)
  BY <1>1, LastOfSuffix
<1> HIDE DEF new
<1>4. Len(new) \in 1 .. Len(new) /\ Len(new) + off = Len(all)
  BY <1>1, <1>3
<1>5. Newest(new) = e
  BY <1>1, <1>3, <1>4 DEF Newest
<1> QED
  BY <1>2, <1>5 DEF new, all

\* Observing a message keeps PromptInv.
LEMMA PromptObserve ==
    ASSUME PromptInv, NEW i \in Inbounds, Observe(i)
    PROVE  PromptInv'
<1> DEFINE e == <<"user", i>>
           fresh == e \notin Range(episodes)
<1>1. PICK outcome \in {"done", "failed", "cut"} :
        /\ memory' = IF fresh /\ outcome = "done" THEN Remember("user", i) ELSE memory
        /\ IF outcome = "done" THEN Become(i, Turn("orient", fresh, <<>>, 0, <<>>)) ELSE Drop(i)
  BY DEF Observe
<1>2. \A j \in Inbounds : j # i => turn[j].pc \notin Holding
  BY DEF Observe, At, Holding, PromptInv, OneHolds
<1>3. Remember("user", i) \in Seq(Turns) /\ Newest(Remember("user", i)) = e
  <2>1. e \in Turns /\ memory \in Seq(Turns)
    BY DEF Turns, Roles, PromptInv
  <2> QED
    BY <2>1, RememberLast DEF Remember
<1>4. memory' \in Seq(Turns)
  BY <1>1, <1>3 DEF PromptInv
<1>5. CASE outcome = "done"
  <2> DEFINE t == Turn("orient", fresh, <<>>, 0, <<>>)
  <2>1. t.pc = "orient" /\ t.fresh = fresh
    BY DEF Turn
  <2>2. Become(i, t)
    BY <1>1, <1>5
  <2>3. fresh => Newest(memory') = e
    BY <1>1, <1>3, <1>5
  <2> HIDE DEF t
  <2> QED
    BY <1>2, <1>4, <2>1, <2>2, <2>3, PromptMove, Zenon
<1>6. CASE outcome # "done"
  <2>1. Become(i, Idle) /\ Idle.pc \notin Holding /\ Idle.pc # "orient"
    BY <1>1, <1>6 DEF Drop, Idle, Turn, Holding
  <2> QED
    BY <1>2, <1>4, <2>1, PromptMove
<1> QED
  BY <1>5, <1>6
\* Every step keeps PromptInv.
LEMMA PromptStep == FollowInv' /\ PromptInv /\ [Next]_vars => PromptInv'
<1> SUFFICES ASSUME FollowInv', PromptInv, [Next]_vars PROVE PromptInv'
  OBVIOUS
<1>0. memory' \in Seq(Turns)
  BY DEF FollowInv
<1>1. ASSUME NEW i \in Inbounds, Step(i) PROVE PromptInv'
  <2>1. CASE Begin(i)
    <3> DEFINE t == Turn("observe", FALSE, <<>>, 0, <<>>)
    <3>1. Become(i, t) /\ t.pc = "observe" /\ \A j \in Inbounds : turn[j].pc \notin Holding
      BY <2>1 DEF Begin, Turn, LockFree
    <3> HIDE DEF t
    <3> QED
      BY <1>0, <3>1, PromptMove
  <2>2. CASE Observe(i)
    BY <2>2, PromptObserve
  <2>3. CASE Orient(i)
    <3>1. turn[i].pc = "orient" /\ UNCHANGED memory
      BY <2>3 DEF Orient, At
    <3>2. PICK t : /\ Become(i, t) /\ t.pc \in {"plan", "call"}
                   /\ t.tail = IF turn[i].fresh THEN memory[Len(memory)] ELSE <<"user", i>>
      BY <2>3 DEF Orient, Turn
    <3>3. t.tail = <<"user", i>>
      BY <3>1, <3>2 DEF PromptInv, Asks, Newest
    <3>4. \A j \in Inbounds : j # i => turn[j].pc \notin Holding
      BY <3>1 DEF PromptInv, OneHolds, Holding
    <3> QED
      BY <1>0, <3>2, <3>3, <3>4, PromptMove
  <2>4. CASE DispatchTool(i) \/ CommitIntent(i) \/ Fire(i) \/ RecordResponse(i) \/ ActionTimeout(i)
    <3>1. turn[i].pc \in Holding \ {"observe", "orient"} /\ UNCHANGED memory
      BY <2>4 DEF DispatchTool, CommitIntent, Fire, RecordResponse, ActionTimeout, At, Holding
    <3>2. Settle(i) \/ Drop(i) \/ Goto(i, "intent") \/ Goto(i, "fire") \/ Goto(i, "record")
      BY <2>4 DEF DispatchTool, CommitIntent, Fire, RecordResponse, ActionTimeout
    <3>3. \E t : Become(i, t) /\ (t.tail = turn[i].tail \/ t.pc \notin Holding) /\ t.pc # "orient"
      BY <3>2 DEF Settle, Drop, Goto, Turn, Idle, Holding
    <3> QED
      BY <3>1, <3>3, PromptKept
  <2>5. CASE PlanAnswers(i) \/ PlanCalls(i)
    <3>1. turn[i].pc \in Holding \ {"observe", "orient"} /\ UNCHANGED memory
      BY <2>5, Zenon DEF PlanAnswers, PlanCalls, At, Holding
    <3>2. \E pc \in {"persist", "call"} : \E iter, left :
              Become(i, Turn(pc, turn[i].fresh, turn[i].tail, iter, left))
      BY <2>5, Zenon DEF PlanAnswers, PlanCalls, Goto
    <3>3. \E t : Become(i, t) /\ t.tail = turn[i].tail /\ t.pc # "orient"
      BY <3>2 DEF Turn
    <3> QED
      BY <3>1, <3>3, PromptKept
  <2>6. CASE Persist(i)
    <3>1. turn[i].pc = "persist" /\ (Goto(i, "send") \/ Drop(i))
      BY <2>6 DEF Persist, At
    <3>2. \A j \in Inbounds : j # i => turn[j].pc \notin Holding
      BY <3>1 DEF PromptInv, OneHolds, Holding
    <3>3. \E t : Become(i, t) /\ t.pc \notin Holding /\ t.pc # "orient"
      BY <3>1 DEF Drop, Goto, Turn, Idle, Holding
    <3> QED
      BY <1>0, <3>2, <3>3, PromptMove
  <2>7. CASE Send(i) \/ Abandon(i)
    <3>1. Become(i, Idle) /\ UNCHANGED memory /\ Idle.pc \notin Holding /\ Idle.pc # "orient"
      BY <2>7 DEF Send, Abandon, Drop, Idle, Turn, Holding
    <3> QED
      BY <1>0, <3>1, PromptMove
  <2> QED
    BY <1>1, <2>1, <2>2, <2>3, <2>4, <2>5, <2>6, <2>7 DEF Step
<1>2. CASE EvictToCap
  BY <1>0, <1>2 DEF EvictToCap, LockFree, PromptInv, OneHolds, Asks, Holding
<1>3. CASE Crash
  <2>1. turn' = [i \in Inbounds |-> Idle] /\ Idle.pc \notin Holding
    BY <1>3 DEF Crash, Idle, Turn, Holding
  <2> QED
    BY <1>0, <2>1 DEF PromptInv, OneHolds, Asks, Holding
<1>4. CASE UNCHANGED vars
  BY <1>4 DEF vars, PromptInv, OneHolds, Asks
<1> QED
  BY <1>1, <1>2, <1>3, <1>4 DEF Next

\* The planner is asked about the message at hand: whatever other messages of
\* the user are dispatched, cut or evicted meanwhile, the last entry of the
\* memory a fresh turn reads is the one it appended.
THEOREM PromptsEndOnMessage == Spec => []PromptEndsOnMessage
<1>1. Init => FollowInv /\ PromptInv
  <2> SUFFICES ASSUME Init PROVE FollowInv /\ PromptInv
    OBVIOUS
  <2>1. memory = <<>> /\ episodes = <<>> /\ turn = [i \in Inbounds |-> Idle]
    BY DEF Init
  <2>2. \A i \in Inbounds : turn[i].pc \notin Holding
    BY <2>1 DEF Idle, Turn, Holding
  <2>3. FollowInv
    BY <2>1, RowInit DEF FollowInv, Follow
  <2>4. PromptInv
    BY <2>1, <2>2 DEF PromptInv, OneHolds, Asks, Holding
  <2> QED
    BY <2>3, <2>4
<1>2. FollowInv /\ PromptInv /\ [Next]_vars => FollowInv' /\ PromptInv'
  BY FollowStep, PromptStep
<1>3. PromptInv => PromptEndsOnMessage
  BY DEF PromptInv, Asks, PromptEndsOnMessage
<1> QED
  BY <1>1, <1>2, <1>3, PTL DEF Spec
=============================================================================
