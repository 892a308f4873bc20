--------------------------- MODULE SpawnCredentials ---------------------------
(***************************************************************************)
(* How a child the gateway hosts gets its credential: the gateway asks the *)
(* core over the link, the core reads the secret, records the grant and    *)
(* answers, and the gateway writes the credential to the child's fd 3.     *)
(* The link may drop and come back, the answer may come late or never, and *)
(* the spawn may be cancelled while it waits.                              *)
(*                                                                         *)
(* Sources: gateway/adapter_credential_client.py, gateway/core_link.py,    *)
(* plugins/inbound_disposition.py, comms_mcp/adapter_credential_resolver.py,*)
(* comms_mcp/adapter_credential_protocol.py.                               *)
(*                                                                         *)
(* A spawn is one call of acquire_and_deliver; its request id is its own,  *)
(* its incarnation (adapter, host_restart_seq, epoch) may be another's,    *)
(* as when a spawn is tried again.                                         *)
(***************************************************************************)
EXTENDS Naturals, Sequences, FiniteSets

CONSTANTS Spawns,         \* calls of acquire_and_deliver
          Incarnations,   \* triples (adapter, host_restart_seq, epoch)
          Known,          \* those whose adapter has an allowlisted secret
          MaxGranted,     \* _MAX_GRANTED_CREDENTIALS
          Nobody

VARIABLES leg,        \* the core link: "up" or "down"
          spawn,      \* every spawn: where it is, its incarnation, its write end
          pending,    \* _pending_grants
          wire,       \* requests and grants under way
          core,       \* how far the core is with every request
          granted,    \* _granted, oldest first
          rows,       \* audit rows: the request and its result
          restart     \* the core has asked for its own restart

crvars == <<leg, spawn, pending, wire, core, granted, rows, restart>>

Idle == [at |-> "idle", inc |-> Nobody, lost |-> FALSE]
Ended == {"delivered", "failed", "legDown", "cancelled"}

Init ==
  /\ leg = "up"
  /\ spawn \in [Spawns -> [pc : {"new"}, inc : Incarnations, fd : {"none"}]]
  /\ pending = {} /\ wire = {}
  /\ core = [s \in Spawns |-> Idle]
  /\ granted = <<>>
  /\ rows = {}
  /\ restart = FALSE

Core == <<core, granted, rows, restart>>

(***************************************************************************)
(* The gateway.                                                            *)
(***************************************************************************)
Closed(fd) == IF fd = "open" THEN "closed" ELSE "closed twice"

_close_fd(s, outcome) ==
  spawn' = [spawn EXCEPT ![s].pc = outcome, ![s].fd = Closed(@)]

\* The pipe is there; without a leg the request is never made.
acquire_and_deliver(s) ==
  /\ spawn[s].pc = "new"
  /\ spawn' = [spawn EXCEPT ![s].pc = IF leg = "up" THEN "send" ELSE "noLeg", ![s].fd = "open"]
  /\ pending' = IF leg = "up" THEN pending \cup {s} ELSE pending
  /\ UNCHANGED <<leg, wire, Core>>

LegDown(s) ==
  /\ spawn[s].pc = "noLeg"
  /\ _close_fd(s, "legDown")
  /\ UNCHANGED <<leg, pending, wire, Core>>

Request(s) == [to |-> "core", id |-> s, inc |-> spawn[s].inc]

\* The future is registered before the request is sent; a failed send, which may have
\* reached the core, withdraws it.
request_spawn_grant(s) ==
  /\ spawn[s].pc = "send"
  /\ \/ /\ leg = "up"
        /\ wire' = wire \cup {Request(s)}
        /\ spawn' = [spawn EXCEPT ![s].pc = "waiting"]
        /\ UNCHANGED pending
     \/ /\ _close_fd(s, "legDown")
        /\ pending' = pending \ {s}
        /\ wire' \in {wire, IF leg = "up" THEN wire \cup {Request(s)} ELSE wire}
  /\ UNCHANGED <<leg, Core>>

\* A grant nobody waits for, any more or at all, is dropped.
_route_spawn_grant(m) ==
  /\ m.to = "gateway"
  /\ wire' = wire \ {m}
  /\ IF m.id \in pending /\ spawn[m.id].pc = "waiting"
     THEN spawn' = [spawn EXCEPT ![m.id].pc = "got"]
     ELSE UNCHANGED spawn
  /\ UNCHANGED <<leg, pending, Core>>

Timeout(s) ==
  /\ spawn[s].pc = "waiting"
  /\ _close_fd(s, "failed")
  /\ pending' = pending \ {s}
  /\ UNCHANGED <<leg, wire, Core>>

\* Cancelled while it waits, or with the answer there but not yet read.
Cancelled(s) ==
  /\ spawn[s].pc \in {"send", "waiting", "got"}
  /\ _close_fd(s, "cancelled")
  /\ pending' = pending \ {s}
  /\ UNCHANGED <<leg, wire, Core>>

\* The grant is held against the request and written; the library closes the pipe.
_verify_grant(s) ==
  /\ spawn[s].pc = "got"
  /\ \E outcome \in {"delivered", "failed"} : _close_fd(s, outcome)
  /\ pending' = pending \ {s}
  /\ UNCHANGED <<leg, wire, Core>>

(***************************************************************************)
(* The core. Every request is handled in a task of its own.                *)
(***************************************************************************)
Cached(inc) == \E i \in 1..Len(granted) : granted[i] = inc

Handles(m, stage) ==
  /\ core' = [core EXCEPT ![m.id] = [at |-> stage, inc |-> m.inc, lost |-> FALSE]]
  /\ wire' = wire \ {m}

\* A replay of a granted incarnation, a secret the adapter may have, or a refusal.
_route_spawn_request(m) ==
  /\ m.to = "core"
  /\ \/ Cached(m.inc) /\ Handles(m, "duplicate")
     \/ ~Cached(m.inc) /\ m.inc \in Known /\ Handles(m, "grant")
     \/ ~Cached(m.inc) /\ Handles(m, "refuse")
  /\ UNCHANGED <<leg, spawn, pending, granted, rows, restart>>

\* Oldest first out.
Remember(inc) ==
  LET all == IF Cached(inc) THEN granted ELSE Append(granted, inc)
  IN  IF Len(all) > MaxGranted THEN Tail(all) ELSE all

Row(s, result) == [id |-> s, result |-> result]

\* Variant: the answer to a replay was recorded when it was first given.
AuditFirstOnly(s) ==
  /\ core[s].at \in {"grant", "duplicate"}
  /\ \/ /\ rows' = IF core[s].at = "grant" THEN rows \cup {Row(s, "granted")} ELSE rows
        /\ granted' = IF core[s].at = "grant" THEN Remember(core[s].inc) ELSE granted
        /\ core' = [core EXCEPT ![s].at = "answer"]
        /\ UNCHANGED restart
     \/ restart' = TRUE /\ core' = [core EXCEPT ![s] = Idle] /\ UNCHANGED <<rows, granted>>
  /\ UNCHANGED <<leg, spawn, pending, wire>>

\* The row first; a row that cannot be written asks for a restart and answers nothing.
resolve(s) ==
  /\ core[s].at \in {"grant", "duplicate"}
  /\ \/ /\ rows' = rows \cup {Row(s, "granted")}
        /\ granted' = IF core[s].at = "grant" THEN Remember(core[s].inc) ELSE granted
        /\ core' = [core EXCEPT ![s].at = "answer"]
        /\ UNCHANGED restart
     \/ restart' = TRUE /\ core' = [core EXCEPT ![s] = Idle] /\ UNCHANGED <<rows, granted>>
  /\ UNCHANGED <<leg, spawn, pending, wire>>

\* The gateway is told nothing of a refusal: its request times out.
_refuse(s) ==
  /\ core[s].at = "refuse"
  /\ core' = [core EXCEPT ![s] = Idle]
  /\ \/ rows' = rows \cup {Row(s, "refused")} /\ UNCHANGED restart
     \/ restart' = TRUE /\ UNCHANGED rows
  /\ UNCHANGED <<leg, spawn, pending, wire, granted>>

\* The answer goes out on the connection the request came by, or not at all.
_send_notification(s) ==
  /\ core[s].at = "answer"
  /\ core' = [core EXCEPT ![s] = Idle]
  /\ \/ ~core[s].lost /\ wire' = wire \cup {[to |-> "gateway", id |-> s, inc |-> core[s].inc]}
     \/ UNCHANGED wire
  /\ UNCHANGED <<leg, spawn, pending, granted, rows, restart>>

(***************************************************************************)
(* The link.                                                               *)
(***************************************************************************)
\* What is under way goes with the connection; what the core was handling is cancelled, or
\* runs on and answers nobody.
LinkDrops ==
  /\ leg = "up"
  /\ leg' = "down" /\ wire' = {}
  /\ \/ core' = [s \in Spawns |-> Idle]
     \/ core' = [s \in Spawns |-> IF core[s] = Idle THEN Idle ELSE [core[s] EXCEPT !.lost = TRUE]]
  /\ UNCHANGED <<spawn, pending, granted, rows, restart>>

\* Another connection, to the same core or to one that started anew.
LinkReturns ==
  /\ leg = "down"
  /\ leg' = "up"
  /\ \/ UNCHANGED <<core, granted, restart>>
     \/ core' = [s \in Spawns |-> Idle] /\ granted' = <<>> /\ restart' = FALSE
  /\ UNCHANGED <<spawn, pending, wire, rows>>

Spawning(s) ==
  \/ acquire_and_deliver(s) \/ LegDown(s) \/ request_spawn_grant(s)
  \/ Timeout(s) \/ Cancelled(s) \/ _verify_grant(s)

Next ==
  \/ \E s \in Spawns : Spawning(s)
  \/ \E m \in wire : _route_spawn_grant(m) \/ _route_spawn_request(m)
  \/ \E s \in Spawns : resolve(s) \/ _refuse(s) \/ _send_notification(s)
  \/ LinkDrops \/ LinkReturns

Spec == Init /\ [][Next]_crvars

-------------------------------------------------------------------------------
\* A credential reaches a child only when the core has recorded this grant to it, a replayed
\* answer and an answer across a reconnect included.
DeliveredIsAudited ==
  \A s \in Spawns : spawn[s].pc = "delivered" => Row(s, "granted") \in rows

\* The write end of the child's pipe is closed exactly once however the spawn ends, and a
\* spawn that has ended waits for no grant.
EndsClean ==
  \A s \in Spawns :
    /\ spawn[s].fd # "closed twice"
    /\ spawn[s].pc \in Ended => spawn[s].fd = "closed" /\ s \notin pending

\* What makes both inductive.
Stages == {"new", "send", "noLeg", "waiting", "got"} \cup Ended
Places == {"idle", "duplicate", "grant", "refuse", "answer"}

Attempt == [pc : Stages, inc : Incarnations, fd : {"none", "open", "closed"}]
Message == [to : {"core", "gateway"}, id : Spawns, inc : Incarnations]
Handling == [at : Places, inc : Incarnations \cup {Nobody}, lost : BOOLEAN]

Typed ==
  /\ spawn \in [Spawns -> Attempt]
  /\ pending \in SUBSET Spawns
  /\ wire \in SUBSET Message
  /\ core \in [Spawns -> Handling]
  /\ \A s \in Spawns : core[s].at # "idle" => core[s].inc \in Incarnations

Recorded(s) == Row(s, "granted") \in rows

\* The row precedes the answer at every place an answer can be: with the core, on the wire,
\* in the gateway's future, with the child.
RowFirst ==
  /\ \A s \in Spawns : core[s].at = "answer" => Recorded(s)
  /\ \A m \in wire : m.to = "gateway" => Recorded(m.id)
  /\ \A s \in Spawns : spawn[s].pc \in {"got", "delivered"} => Recorded(s)

\* The write end is open from the start of a spawn to its end, and a spawn is waited for
\* only in between.
PipeHeld ==
  \A s \in Spawns :
    /\ spawn[s].pc = "new" => spawn[s].fd = "none"
    /\ spawn[s].pc \in {"send", "noLeg", "waiting", "got"} => spawn[s].fd = "open"
    /\ spawn[s].pc \in Ended => spawn[s].fd = "closed"
    /\ s \in pending => spawn[s].pc \in {"send", "waiting", "got"}

CredentialInv == Typed /\ RowFirst /\ PipeHeld
===============================================================================
