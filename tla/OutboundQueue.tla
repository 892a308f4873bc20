---------------------------- MODULE OutboundQueue ----------------------------
(***************************************************************************)
(* The per-adapter queue of outbound messages that pauses on a platform's  *)
(* rate limit: comms_mcp/outbound_queue.py. One adapter, several           *)
(* producers, several consumers, and pauses that overlap.                  *)
(*                                                                         *)
(* Times are what is left of them. A message that was waiting when a pause *)
(* ended may hold a secret registered since, so it is scanned once more.   *)
(***************************************************************************)
EXTENDS Naturals, Sequences

CONSTANTS Messages,      \* requests to send
          Consumers,
          MaxInFlight,   \* max_in_flight_per_adapter
          MaxRetry,      \* the longest retry_after_seconds
          MaxPauses,     \* pauses asked for in a behaviour
          Never          \* no deadline, no timer

VARIABLES open,       \* resume_event
          deadline,   \* what is left until resume_deadline, or Never
          timers,     \* what is left of every armed timer
          gen,        \* generation
          through,    \* rescan_through_generation, plus one
          queue,      \* the queue: a message and the generation it was put in
          free,       \* permits left of cap
          producer,   \* every message: "new", "in" or "out"
          consumer,   \* every consumer: "idle", "gated" or "getting"
          waited,     \* messages that were in the queue when a pause ended
          scanned,    \* messages scanned again
          pauses,
          rescanner,  \* a dlp_rescanner is wired
          byHand      \* the last reopening was an explicit resume

oqvars == <<open, deadline, timers, gen, through, queue, free, producer,
            consumer, waited, scanned, pauses, rescanner, byHand>>

Init ==
  /\ open = TRUE /\ deadline = Never /\ timers = {}
  /\ gen = 0 /\ through = 0
  /\ queue = <<>> /\ free = MaxInFlight
  /\ producer = [m \in Messages |-> "new"]
  /\ consumer = [c \in Consumers |-> "idle"]
  /\ waited = {} /\ scanned = {}
  /\ rescanner \in BOOLEAN
  /\ pauses = 0 /\ byHand = FALSE

Gate == <<open, deadline, timers, gen, through, waited, pauses, rescanner, byHand>>

submit(m) ==
  /\ producer[m] = "new" /\ free > 0
  /\ free' = free - 1
  /\ queue' = Append(queue, [msg |-> m, gen |-> gen])
  /\ producer' = [producer EXCEPT ![m] = "in"]
  /\ UNCHANGED <<consumer, scanned, Gate>>

consume(c) ==
  /\ consumer[c] = "idle"
  /\ consumer' = [consumer EXCEPT ![c] = "gated"]
  /\ UNCHANGED <<queue, free, producer, scanned, Gate>>

\* The gate is looked at once: a consumer past it waits for a message with the gate behind it.
PassGate(c) ==
  /\ consumer[c] = "gated" /\ open
  /\ consumer' = [consumer EXCEPT ![c] = "getting"]
  /\ UNCHANGED <<queue, free, producer, scanned, Gate>>

\* Variant: only messages of the generation just closed are scanned.
RescanLastOnly(e) == rescanner /\ e.gen + 1 = through

\* Put before the last pause ended, with a rescanner wired: the scan may refuse the message,
\* which is then lost to the consumer's caller as an exception.
_rescan_or_refuse(e) == rescanner /\ e.gen < through

Get(c) ==
  /\ consumer[c] = "getting" /\ queue # <<>>
  /\ LET e == Head(queue)
     IN  /\ queue' = Tail(queue)
         /\ free' = free + 1
         /\ producer' = [producer EXCEPT ![e.msg] = "out"]
         /\ scanned' = IF _rescan_or_refuse(e) THEN scanned \cup {e.msg} ELSE scanned
  /\ consumer' = [consumer EXCEPT ![c] = "idle"]
  /\ UNCHANGED Gate

\* A pause is only ever extended.
pause(after) ==
  /\ pauses < MaxPauses
  /\ pauses' = pauses + 1
  /\ IF deadline # Never /\ after <= deadline
     THEN UNCHANGED <<open, deadline, timers>>
     ELSE open' = FALSE /\ deadline' = after /\ timers' = {after}
  /\ UNCHANGED <<gen, through, queue, free, producer, consumer, waited, scanned, rescanner,
                 byHand>>

_clear_pause ==
  /\ open' = TRUE /\ deadline' = Never /\ timers' = {}
  /\ IF open THEN UNCHANGED <<gen, through, waited>>
     ELSE /\ gen' = gen + 1 /\ through' = gen + 1
          /\ waited' = waited \cup {queue[i].msg : i \in 1..Len(queue)}
  /\ UNCHANGED <<queue, free, producer, consumer, scanned, pauses, rescanner>>

resume == ~open /\ byHand' = TRUE /\ _clear_pause

_auto_resume == 0 \in timers /\ byHand' = FALSE /\ _clear_pause

\* A second passes; a timer that is due runs first.
Tick ==
  /\ timers # {} /\ 0 \notin timers
  /\ timers' = {t - 1 : t \in timers}
  /\ deadline' = IF deadline = Never THEN Never ELSE deadline - 1
  /\ UNCHANGED <<open, gen, through, queue, free, producer, consumer, waited,
                 scanned, pauses, rescanner, byHand>>

Next ==
  \/ \E m \in Messages : submit(m)
  \/ \E c \in Consumers : consume(c) \/ PassGate(c) \/ Get(c)
  \/ \E after \in 1..MaxRetry : pause(after)
  \/ resume \/ _auto_resume \/ Tick

Spec == Init /\ [][Next]_oqvars

-------------------------------------------------------------------------------
\* Where a rescanner is wired, a message that was still queued when some pause ended is
\* scanned again before it leaves, however many pauses came after it.
WaitedIsRescanned == rescanner => \A m \in waited : producer[m] = "out" => m \in scanned

\* The gate reopens by itself only when the latest deadline asked for has passed; an earlier
\* pause's timer never cuts a longer pause short.
OpensInTime == (~open /\ open') => (byHand' \/ deadline = 0)

\* What the proofs of the two need: the entries of the queue.
Entry == [msg : Messages, gen : Nat]

\* A message is in the queue once, under a generation that has begun; one that
\* was there when a pause ended is of a generation the scan still covers.
QueueInv ==
  /\ gen \in Nat /\ through \in Nat /\ rescanner \in BOOLEAN
  /\ queue \in Seq(Entry)
  /\ producer \in [Messages -> {"new", "in", "out"}]
  /\ waited \subseteq Messages /\ scanned \subseteq Messages
  /\ \A i \in 1..Len(queue) : /\ producer[queue[i].msg] = "in" /\ queue[i].gen <= gen
                              /\ queue[i].msg \in waited => queue[i].gen < through
  /\ \A i, j \in 1..Len(queue) : queue[i].msg = queue[j].msg => i = j
  /\ \A m \in waited : producer[m] # "new"
  /\ WaitedIsRescanned

\* While the gate is shut one timer is armed, that of the latest deadline.
GateInv ==
  \/ open /\ timers = {}
  \/ ~open /\ deadline \in Nat /\ timers = {deadline}
===============================================================================
