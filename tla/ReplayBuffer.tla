---------------------------- MODULE ReplayBuffer ----------------------------
(***************************************************************************)
(* The un-acked frame store of one gateway leg                             *)
(* (alfred/gateway/replay_buffer.py).  A pure value: every operator takes  *)
(* the buffer and returns the buffer after the call.  The payload is its   *)
(* size; zeroing of the removed bodies is not represented.                 *)
(***************************************************************************)
EXTENDS Integers, Sequences, FiniteSetsExt

CONSTANTS
    MaxFrames,   \* soft cap on the number of frames
    MaxBytes,    \* soft cap on the bytes
    TTL          \* seconds a frame is kept before evict_expired drops it

ASSUME CapsPositive == /\ MaxFrames \in Nat \ {0}
                       /\ MaxBytes \in Nat \ {0}
                       /\ TTL \in Nat \ {0}

HardCapMultiplier == 2
HardMaxFrames == MaxFrames * HardCapMultiplier
HardMaxBytes == MaxBytes * HardCapMultiplier

\* A time before every reading of the clock (float("-inf") in the code).
NeverNow == -1

EmptyBuffer == [retained |-> <<>>, depthBytes |-> 0, lastSeq |-> -1,
                lastNow |-> NeverNow, breakerTripped |-> FALSE]

Retained == [seq : Nat, size : Nat, enqueuedAt : Nat]

BufferType == [retained : Seq(Retained), depthBytes : Int, lastSeq : Int,
               lastNow : Int, breakerTripped : BOOLEAN]

DepthFrames(b) == Len(b.retained)

\* The bytes of the first n entries, and of all of them.
BytesUpTo(entries) ==
    LET total[n \in 0 .. Len(entries)] ==
            IF n = 0 THEN 0 ELSE total[n - 1] + entries[n].size
    IN  total

Bytes(entries) == BytesUpTo(entries)[Len(entries)]

\* What append raises, "none" when it admits the frame.
AppendOutcome(b, seq, size, now) ==
    IF seq < 0 THEN "negative"
    ELSE IF seq <= b.lastSeq THEN "order"
    ELSE IF now < b.lastNow THEN "clock"
    ELSE IF \/ DepthFrames(b) + 1 > HardMaxFrames
            \/ b.depthBytes + size > HardMaxBytes THEN "ceiling"
    ELSE "none"

\* append past its checks: the frame over the soft cap is kept and trips the
\* breaker, which only _purge resets.
Appended(b, seq, size, now) ==
    LET kept  == Append(b.retained, [seq |-> seq, size |-> size, enqueuedAt |-> now])
        depth == b.depthBytes + size
    IN  [retained |-> kept, depthBytes |-> depth, lastSeq |-> seq, lastNow |-> now,
         breakerTripped |-> \/ b.breakerTripped
                            \/ Len(kept) > MaxFrames
                            \/ depth > MaxBytes]

\* Both removal loops stop at the first entry that is not among the gone.
RemovedPrefix(entries, gone) == Max({n \in 0 .. Len(entries) : 1 .. n \subseteq gone})

Acked(entries, cumulativeAck) == {i \in 1 .. Len(entries) : entries[i].seq <= cumulativeAck}
Expired(entries, now) == {i \in 1 .. Len(entries) : now - entries[i].enqueuedAt > TTL}

WithoutPrefix(b, n, lastNow) ==
    [retained |-> SubSeq(b.retained, n + 1, Len(b.retained)),
     depthBytes |-> b.depthBytes - Bytes(SubSeq(b.retained, 1, n)),
     lastSeq |-> b.lastSeq, lastNow |-> lastNow,
     breakerTripped |-> b.breakerTripped]

TrimToAck(b, cumulativeAck) ==
    WithoutPrefix(b, RemovedPrefix(b.retained, Acked(b.retained, cumulativeAck)), b.lastNow)

EvictExpired(b, now) ==
    WithoutPrefix(b, RemovedPrefix(b.retained, Expired(b.retained, now)), now)

Purge(b, lastSeq, lastNow) ==
    [retained |-> <<>>, depthBytes |-> 0, lastSeq |-> lastSeq, lastNow |-> lastNow,
     breakerTripped |-> FALSE]

\* discard keeps the seq and clock floors, reset_for_new_epoch lowers them.
Discard(b) == Purge(b, b.lastSeq, b.lastNow)
ResetForNewEpoch(b) == Purge(b, -1, NeverNow)

\* Frames in mint order and in clock order, at or below both floors.
InOrder(entries, lastSeq, lastNow) ==
    /\ \A i, j \in 1 .. Len(entries) :
          i < j => /\ entries[i].seq < entries[j].seq
                   /\ entries[i].enqueuedAt <= entries[j].enqueuedAt
    /\ \A i \in 1 .. Len(entries) : /\ entries[i].seq <= lastSeq
                                    /\ entries[i].enqueuedAt <= lastNow

\* ... with the seq floor below the next number, the clock floor no later than
\* now, and the hard ceiling kept.
Ordered(b, nextSeq, now) ==
    /\ InOrder(b.retained, b.lastSeq, b.lastNow)
    /\ b.lastSeq < nextSeq
    /\ b.lastNow <= now
    /\ Len(b.retained) <= HardMaxFrames
=============================================================================
