----------------------------- MODULE GatewayLeg -----------------------------
(***************************************************************************)
(* The gateway's legs (alfred/gateway/gateway_leg.py): each owns a replay  *)
(* buffer, the counter that mints its wire sequence numbers and a          *)
(* generation, and books the bytes it retains with a GlobalReplayCap       *)
(* (alfred/gateway/global_replay_cap.py).                                  *)
(***************************************************************************)
EXTENDS ReplayBuffer

CONSTANTS
    Legs,
    MaxTotalBytes,   \* the budget of one GlobalReplayCap
    Sizes,           \* payload lengths
    MaxSeq,          \* bound on the frames one generation records
    MaxNow,          \* bound on the clock
    MaxGeneration    \* bound on the resets of one leg

ASSUME LegAssumption == /\ MaxTotalBytes \in Nat \ {0}
                        /\ Sizes \subseteq Nat
                        /\ MaxSeq \in Nat /\ MaxNow \in Nat /\ MaxGeneration \in Nat

VARIABLES
    buffer,      \* leg -> its ReplayBuffer
    sendSeq,     \* leg -> next sequence number to mint
    generation,  \* leg -> number of reset_for_new_epoch calls
    total,       \* cap -> _total_bytes
    perLeg,      \* cap -> leg -> bytes reserved, Absent when it has no entry
    now,         \* the injected monotonic clock
    outcome      \* what the last call raised, "none" when it returned

legVars == <<buffer, sendSeq, generation>>
capVars == <<total, perLeg>>
vars == <<legVars, capVars, now, outcome>>

Absent == -1

\* The process factories build a fresh GlobalReplayCap for every leg.
CapOf(l) == l
Caps == {CapOf(l) : l \in Legs}

Init ==
    /\ buffer = [l \in Legs |-> EmptyBuffer]
    /\ sendSeq = [l \in Legs |-> 0]
    /\ generation = [l \in Legs |-> 0]
    /\ total = [c \in Caps |-> 0]
    /\ perLeg = [c \in Caps |-> [l \in Legs |-> Absent]]
    /\ now = 0
    /\ outcome = "none"

Reserved(c, l) == IF perLeg[c][l] = Absent THEN 0 ELSE perLeg[c][l]

CanReserve(c, n) == total[c] + n <= MaxTotalBytes

Reserve(c, l, n) ==
    /\ total' = [total EXCEPT ![c] = @ + n]
    /\ perLeg' = [perLeg EXCEPT ![c][l] = Reserved(c, l) + n]

\* release raises on a leg without an entry and on more than it holds.
ReleaseOutcome(c, l, n) ==
    CASE perLeg[c][l] = Absent -> "unknown_leg"
      [] perLeg[c][l] # Absent /\ n > perLeg[c][l] -> "over_release"
      [] OTHER -> "none"

Release(c, l, n) ==
    /\ outcome' = ReleaseOutcome(c, l, n)
    /\ IF ReleaseOutcome(c, l, n) = "none"
       THEN /\ total' = [total EXCEPT ![c] = @ - n]
            /\ perLeg' = [perLeg EXCEPT ![c][l] = @ - n]
       ELSE UNCHANGED capVars

\* Variant: a refused append keeps its reservation.
RecordForSendLeaks(l, size) ==
    /\ sendSeq[l] < MaxSeq
    /\ CanReserve(CapOf(l), size)
    /\ Reserve(CapOf(l), l, size)
    /\ sendSeq' = [sendSeq EXCEPT ![l] = @ + 1]
    /\ outcome' = AppendOutcome(buffer[l], sendSeq[l], size, now)
    /\ buffer' = IF AppendOutcome(buffer[l], sendSeq[l], size, now) = "none"
                 THEN [buffer EXCEPT ![l] = Appended(@, sendSeq[l], size, now)]
                 ELSE buffer
    /\ UNCHANGED <<generation, now>>

\* record_for_send: reserve, mint, append.  A refused append gives the bytes
\* back and raises, but the minted number is spent; a refused reservation
\* spends nothing.
RecordForSend(l, size) ==
    LET c == CapOf(l)
        appended == AppendOutcome(buffer[l], sendSeq[l], size, now)
    IN  /\ sendSeq[l] < MaxSeq
        /\ IF ~CanReserve(c, size)
           THEN /\ outcome' = "cap_full"
                /\ UNCHANGED <<legVars, capVars>>
           ELSE /\ sendSeq' = [sendSeq EXCEPT ![l] = @ + 1]
                /\ outcome' = appended
                /\ UNCHANGED generation
                /\ IF appended = "none"
                   THEN /\ buffer' = [buffer EXCEPT
                                        ![l] = Appended(@, sendSeq[l], size, now)]
                        /\ Reserve(c, l, size)
                   ELSE /\ perLeg' = [perLeg EXCEPT ![c][l] = Reserved(c, l)]
                        /\ UNCHANGED <<buffer, total>>
        /\ UNCHANGED now

\* _reclaim: run the buffer operation and release the bytes it freed, if any.
Reclaim(l, after) ==
    LET freed == buffer[l].depthBytes - after.depthBytes
    IN  /\ buffer' = [buffer EXCEPT ![l] = after]
        /\ IF freed # 0
           THEN Release(CapOf(l), l, freed)
           ELSE outcome' = "none" /\ UNCHANGED capVars

TrimLeg(l, cumulativeAck) ==
    /\ Reclaim(l, TrimToAck(buffer[l], cumulativeAck))
    /\ UNCHANGED <<sendSeq, generation, now>>

\* evict_expired raises before it touches anything when the clock ran back.
EvictLeg(l) ==
    /\ IF now < buffer[l].lastNow
       THEN outcome' = "clock" /\ UNCHANGED <<buffer, capVars>>
       ELSE Reclaim(l, EvictExpired(buffer[l], now))
    /\ UNCHANGED <<sendSeq, generation, now>>

DiscardLeg(l) ==
    /\ Reclaim(l, Discard(buffer[l]))
    /\ UNCHANGED <<sendSeq, generation, now>>

ResetLeg(l) ==
    /\ generation[l] < MaxGeneration
    /\ Reclaim(l, ResetForNewEpoch(buffer[l]))
    /\ sendSeq' = [sendSeq EXCEPT ![l] = 0]
    /\ generation' = [generation EXCEPT ![l] = @ + 1]
    /\ UNCHANGED now

\* teardown drops the frames and the leg's whole entry in its cap.
TeardownLeg(l) ==
    LET c == CapOf(l)
    IN  /\ buffer' = [buffer EXCEPT ![l] = Discard(@)]
        /\ total' = [total EXCEPT ![c] = @ - Reserved(c, l)]
        /\ perLeg' = [perLeg EXCEPT ![c][l] = Absent]
        /\ outcome' = "none"
        /\ UNCHANGED <<sendSeq, generation, now>>

\* The gateway's monotonic clock.
Tick == now < MaxNow /\ now' = now + 1 /\ UNCHANGED <<legVars, capVars, outcome>>

Next ==
    \/ \E l \in Legs : \/ \E size \in Sizes : RecordForSend(l, size)
                       \/ \E ack \in 0 .. MaxSeq : TrimLeg(l, ack)
                       \/ EvictLeg(l)
                       \/ DiscardLeg(l)
                       \/ ResetLeg(l)
                       \/ TeardownLeg(l)
    \/ Tick

Spec == Init /\ [][Next]_vars
-----------------------------------------------------------------------------
Outcomes == {"none", "cap_full", "negative", "order", "clock", "ceiling",
             "unknown_leg", "over_release"}

\* Types of the legs' and the caps' state.
TypeOK ==
    /\ buffer \in [Legs -> BufferType]
    /\ sendSeq \in [Legs -> Nat]
    /\ generation \in [Legs -> Nat]
    /\ total \in [Caps -> Int]
    /\ perLeg \in [Caps -> [Legs -> Int]]
    /\ now \in Nat
    /\ outcome \in Outcomes

\* What a cap holds for a leg is what the leg's buffer retains, and the bytes
\* the buffer counts are the bytes of its frames: no reclaim path leaks or
\* frees twice, the rollback of a refused append included.
BudgetExact ==
    \A l \in Legs :
        /\ Reserved(CapOf(l), l) = buffer[l].depthBytes
        /\ buffer[l].depthBytes = Bytes(buffer[l].retained)

\* No sequence of calls makes a leg mint a number its own buffer refuses or
\* hand the buffer an older clock: a fresh epoch that restarts the numbers at
\* 0 has restarted the buffer's floors with them.
NumbersAccepted == outcome \notin {"negative", "order", "clock"}

\* The retained frames are in mint order below the leg's counter, were
\* enqueued in clock order, and are within the hard ceiling.
BufferOrdered == \A l \in Legs : Ordered(buffer[l], sendSeq[l], now)

\* global_replay_cap.py bounds "the SUM of every leg's resident un-acked bytes
\* ... regardless of N legs".
AggregateWithinCap ==
    MapThenSumSet(LAMBDA l : buffer[l].depthBytes, Legs) <= MaxTotalBytes
=============================================================================
