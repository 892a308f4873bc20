---------------------------- MODULE BurstLimiter ----------------------------
(* The per-(user, persona) inbound limiter (orchestrator/burst_limiter.py):  *)
(* token buckets kept in a bounded LRU, one asyncio lock per key, callers    *)
(* that sleep for a token while they hold it, and eviction of idle keys.     *)
(* Token levels count refill units: Refill units are one token.              *)
EXTENDS Naturals, Sequences, FiniteSets

CONSTANTS Keys, Callers,   \* (user, persona) pairs; concurrent acquire() calls
          Capacity,        \* tokens of a full bucket
          Refill,          \* time units that bring one token
          DropAfter,       \* longest wait for a token before a drop
          MaxTracked,      \* buckets kept before eviction
          MaxTime          \* bound on the clock

VARIABLES buckets,   \* key -> bucket object, or Absent
          order,     \* keys with a bucket, least recently used first
          locks,     \* key -> identity of its lock object, 0 when absent
          call,      \* caller -> its acquire() in progress
          clock,
          granted,   \* key -> tokens given out while its history was kept
          span       \* key -> time over which they were given out

vars == <<buckets, order, locks, call, clock, granted, span>>

Absent == [of |-> 0, level |-> 0, lag |-> 0]
Idle == [at |-> "idle", key |-> "none", lock |-> 0, left |-> 0]
LockIds == 1..(Cardinality(Callers) + Cardinality(Keys) + 1)

TypeOK ==
    /\ buckets \in [Keys -> [of : LockIds \cup {0}, level : 0..(Capacity * Refill),
                             lag : 0..(Capacity * Refill)]]
    /\ locks \in [Keys -> LockIds \cup {0}]
    /\ \A c \in Callers : call[c].at \in {"idle", "lock", "sleep", "drop", "row"}
    /\ clock \in 0..MaxTime

Lesser(a, b) == IF a < b THEN a ELSE b

\* _active: the calls of a key that have entered and not returned
Active(k, cl) == Cardinality({c \in Callers : cl[c].key = k})

Owner(l, cl) == {c \in Callers : cl[c].lock = l /\ cl[c].at \in {"sleep", "drop", "row"}}

\* a lock object nobody refers to yet
NewLock ==
    CHOOSE l \in LockIds : /\ \A k \in Keys : locks[k] # l /\ buckets[k].of # l
                           /\ \A c \in Callers : call[c].lock # l

_lock_for(k) == IF locks[k] # 0 THEN locks[k] ELSE NewLock

_refill(b) == [b EXCEPT !.level = Lesser(Capacity * Refill, b.level + b.lag), !.lag = 0]

\* Variant: the least recently used key goes, whether or not it is in use.
AnyOldKeys(kept, cl) == SubSeq(kept, 1, Len(kept) - MaxTracked)

\* the while loop of _evict_if_needed: oldest idle keys until the bound holds
_oldest_idle_key(kept, cl) ==
    LET idle == SelectSeq(kept, LAMBDA k : Active(k, cl) = 0)
    IN  SubSeq(idle, 1, Lesser(Len(idle), Len(kept) - MaxTracked))

Without(s, gone) == SelectSeq(s, LAMBDA k : \A i \in DOMAIN gone : gone[i] # k)

\* _bucket_for: a hit is kept, a miss inserts a full bucket
Found(k, l) ==
    IF buckets[k] # Absent THEN buckets[k]
    ELSE [of |-> l, level |-> Capacity * Refill, lag |-> 0]

\* the keys with a bucket after _bucket_for: a hit moves to the end, a miss evicts
_bucket_for(k, cl) ==
    LET kept == Append(Without(order, <<k>>), k)
    IN  IF buckets[k] = Absent /\ Len(kept) > MaxTracked
        THEN Without(kept, _oldest_idle_key(kept, cl)) ELSE kept

\* the body of acquire() once the key's lock is held, up to its first await;
\* a token history starts anew when an idle key, evicted before, comes back
Served(c, k, l) ==
    LET cl == [call EXCEPT ![c] = [at |-> "lock", key |-> k, lock |-> l, left |-> 0]]
        b == _refill(Found(k, l))
        wait == Refill - b.level
        fast == b.level >= Refill
        fresh == buckets[k] = Absent /\ Active(k, cl) = 1
        Kept(x) == \E i \in DOMAIN order' : order'[i] = x
    IN  /\ order' = _bucket_for(k, cl)
        /\ locks' = [x \in Keys |-> IF x = k THEN (IF locks[k] = 0 THEN l ELSE locks[k])
                                    ELSE IF buckets[x] # Absent /\ ~Kept(x) THEN 0 ELSE locks[x]]
        /\ buckets' = [x \in Keys |-> IF ~Kept(x) THEN Absent ELSE IF x # k THEN buckets[x]
                                      ELSE IF fast THEN [b EXCEPT !.level = @ - Refill] ELSE b]
        /\ call' = IF fast THEN [call EXCEPT ![c] = Idle]
                   ELSE IF wait > DropAfter THEN [cl EXCEPT ![c].at = "drop"]
                   ELSE [cl EXCEPT ![c].at = "sleep", ![c].left = wait]
        /\ granted' = [granted EXCEPT ![k] = (IF fresh THEN 0 ELSE @) + (IF fast THEN 1 ELSE 0)]
        /\ span' = IF fresh THEN [span EXCEPT ![k] = 0] ELSE span

acquire(c, k) ==
    /\ call[c] = Idle
    /\ LET l == _lock_for(k)
       IN  IF Owner(l, call) = {}
           THEN Served(c, k, l)
           ELSE /\ call' = [call EXCEPT ![c] = [at |-> "lock", key |-> k, lock |-> l, left |-> 0]]
                /\ UNCHANGED <<buckets, order, locks, granted, span>>
    /\ UNCHANGED clock

LockAcquired(c) ==
    /\ call[c].at = "lock" /\ Owner(call[c].lock, call) = {}
    /\ Served(c, call[c].key, call[c].lock)
    /\ UNCHANGED clock

\* _backpressure after its sleep takes the token; its row is still to be written
_backpressure(c) ==
    /\ call[c].at = "sleep" /\ call[c].left = 0
    /\ LET k == call[c].key
           b == _refill(buckets[k])
       IN  /\ buckets' = IF buckets[k].of = call[c].lock
                         THEN [buckets EXCEPT ![k] = [b EXCEPT !.level = @ - Refill]]
                         ELSE buckets
           /\ granted' = [granted EXCEPT ![k] = @ + 1]
    /\ call' = [call EXCEPT ![c].at = "row"]
    /\ UNCHANGED <<order, locks, clock, span>>

\* the rows of _drop and _emit_capped are written or raise, or the caller is
\* cancelled at one of the awaits: the finally clause leaves _active either way
Leaves(c) ==
    /\ call[c].at \in {"lock", "sleep", "drop", "row"}
    /\ call' = [call EXCEPT ![c] = Idle]
    /\ UNCHANGED <<buckets, order, locks, clock, granted, span>>

Tick ==
    /\ clock < MaxTime
    /\ clock' = clock + 1
    /\ buckets' = [k \in Keys |-> IF buckets[k] = Absent THEN Absent ELSE
                      [buckets[k] EXCEPT !.lag = Lesser(Capacity * Refill, @ + 1)]]
    /\ call' = [c \in Callers |-> IF call[c].at = "sleep" /\ call[c].left > 0
                                  THEN [call[c] EXCEPT !.left = @ - 1] ELSE call[c]]
    /\ span' = [k \in Keys |-> span[k] + 1]
    /\ UNCHANGED <<order, locks, granted>>

Init ==
    /\ buckets = [k \in Keys |-> Absent] /\ order = <<>> /\ locks = [k \in Keys |-> 0]
    /\ call = [c \in Callers |-> Idle] /\ clock = 0
    /\ granted = [k \in Keys |-> 0] /\ span = [k \in Keys |-> 0]

Next ==
    \/ \E c \in Callers : \/ \E k \in Keys : acquire(c, k)
                          \/ LockAcquired(c) \/ _backpressure(c) \/ Leaves(c)
    \/ Tick

Spec == Init /\ [][Next]_vars

\* A key in use keeps one bucket and one lock (the reference count of acquire,
\* "In-flight safety"): whatever is evicted while callers sleep or queue, the
\* tokens handed out for a key never exceed a full bucket plus the refill of
\* the time passed since the key was last forgotten while idle.
RateHolds == \A k \in Keys : granted[k] * Refill <= Capacity * Refill + span[k]
=============================================================================
