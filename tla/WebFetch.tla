------------------------------ MODULE WebFetch ------------------------------
(***************************************************************************)
(* A tool call that fetches a page: orchestrator/tool_dispatch.py calls    *)
(* plugins/web_fetch/fetch_dispatcher.py, which screens the request, takes *)
(* a place in the rate limits and in the user's concurrency cap (two Redis *)
(* scripts), and hands the request to egress/relay_client.py.  That commits *)
(* the intent in the egress ledger and sends the request to the relay of   *)
(* the gateway (gateway/egress_relay.py), the only process that reaches    *)
(* the upstream.                                                           *)
(*                                                                         *)
(* One user makes all the fetches.  An action is what runs between two     *)
(* awaits of the core, or of the relay's connection task.  Time passes in  *)
(* units of thirty seconds, the deadline of one fetch; the model keeps     *)
(* ages and remaining times, not the clock.                                *)
(***************************************************************************)
EXTENDS Integers, Sequences, FiniteSets, SequencesExt

CONSTANTS Fetches,      \* tool calls of one user
          Urls,         \* [domain, path], the path a sequence of segments
          Manifest, Operator, Session,   \* the three allowlists: sets of such entries
          Cap,          \* HandleCapConfig.per_user
          PerMinute,    \* per_user_per_minute and per_domain_per_minute
          Daily,        \* per_user_daily
          Concurrency,  \* the relay client's semaphore
          MaxAttempts   \* bound: times a call is made, its replays included

Deadline == 1           \* _DEFAULT_ACTION_DEADLINE_SECONDS
CloseWait == 1          \* the relay client's per_call_timeout, as it closes its connection
ReservationFloor == 4   \* _DEFAULT_HANDLE_RESERVATION_TTL_SECONDS
Window == 2             \* _WINDOW_SECONDS
UpstreamDeadline == 2   \* _DEFAULT_UPSTREAM_DEADLINE_S
AuditWait == 1          \* the longest an audit row takes (assumed)

VARIABLES fetch,     \* the tool calls
          slots,     \* the user's ZSET: the time left to the reservation of an attempt
          hits,      \* the sliding windows: the ages of what a key holds
          daily,     \* the daily counter
          intents,   \* the egress ledger
          hop,       \* the relay's connection task for a fetch
          upstream,  \* requests the relay has sent upstream
          verdicts   \* the tool.dispatch rows of a call

wvars == <<fetch, slots, hits, daily, intents, hop, upstream, verdicts>>

Handles == Fetches \X (1 .. MaxAttempts)
Keys == {u.domain : u \in Urls} \cup {"user"}

\* exc: the exception in flight; age: how long the present stage has lasted,
\* within handle the time since the deadline was armed.
Idle(n) == [at |-> "idle", exc |-> "none", outcome |-> "none", doubt |-> FALSE,
            age |-> 0, attempt |-> n, url |-> CHOOSE u \in Urls : TRUE]

Init ==
    /\ slots = [h \in Handles |-> 0] /\ hits = [k \in Keys |-> <<>>]
    /\ daily = 0 /\ upstream = {}
    /\ fetch = [f \in Fetches |-> Idle(1)]
    /\ intents = [f \in Fetches |-> "absent"]
    /\ hop = [f \in Fetches |-> [at |-> "none", age |-> 0]]
    /\ verdicts = [f \in Fetches |-> <<>>]

\* A call moves to another stage, with the exception it carries.
Goes(f, stage, e) ==
    fetch' = [fetch EXCEPT ![f].at = stage, ![f].exc = e, ![f].age = 0]
At(f, stage) == fetch[f].at = stage
-----------------------------------------------------------------------------
(* The allowlist: AllowlistIntersection pairs the entries of the manifest  *)
(* with the operator's and the session's, and keeps the narrower prefix.   *)

_prefix_chain_compatible(a, b) == IsPrefix(a, b) \/ IsPrefix(b, a)
_narrower(a, b) == IF Len(a) >= Len(b) THEN a ELSE b

Pairs(A, B) ==
    UNION {{[domain |-> a.domain, path |-> _narrower(a.path, b.path)] :
              b \in {x \in B : /\ x.domain = a.domain
                               /\ _prefix_chain_compatible(a.path, x.path)}} : a \in A}

AllowlistIntersection == Pairs(Pairs(Manifest, Operator), Session)

Covers(e, u) == e.domain = u.domain /\ IsPrefix(e.path, u.path)

\* check: a path that climbs ("..") is refused before the entries are tried.
check(u) ==
    /\ \A i \in 1 .. Len(u.path) : u.path[i] # ".."
    /\ \E e \in AllowlistIntersection : Covers(e, u)
-----------------------------------------------------------------------------
(* dispatch_tool up to the tool, and the screening of dispatch_web_fetch.  *)

\* A tool.dispatch row and what becomes of the call: its string goes back to
\* the model, or the exception leaves the turn.
Ends(f, end) ==
    fetch' = [fetch EXCEPT ![f] = [Idle(@.attempt) EXCEPT
                 !.at = end, !.url = IF end = "raised" THEN fetch[f].url ELSE @]]
Verdict(f, row, end) ==
    /\ verdicts' = [verdicts EXCEPT ![f] = Append(@, row)]
    /\ Ends(f, end)
Unwritten(f, end) == verdicts' = verdicts /\ Ends(f, end)

\* Unknown tool, arguments that do not conform, or the gate's denial: a row.
RefusedTool(f) ==
    /\ At(f, "idle")
    /\ Verdict(f, "refused", "returned") \/ Unwritten(f, "raised")
    /\ UNCHANGED <<slots, hits, daily, intents, hop, upstream>>

Carries(f, stage, e, u) ==
    fetch' = [fetch EXCEPT ![f].at = stage, ![f].exc = e, ![f].url = u]

\* A refusal is recorded (tool.web.fetch) and raised; an unwritten row replaces it.
_refuse(f, e, u) == Carries(f, "verdict", e, u) \/ Carries(f, "verdict", "fault", u)

\* The secrets of the headers are substituted and the page is on the allowlist.
Screened(f, u) == check(u) /\ Carries(f, "limit", "none", u)

\* The DLP scan of the URL and headers, the substitution, the allowlist.
dispatch_web_fetch(f) ==
    /\ At(f, "idle")
    /\ \E u \in Urls :
          /\ fetch[f].attempt > 1 => u = fetch[f].url      \* a replay makes the same call
          /\ \/ _refuse(f, "error", u)
             \/ ~ check(u) /\ _refuse(f, "domain", u)
             \/ Screened(f, u)
    /\ UNCHANGED <<slots, hits, daily, intents, hop, upstream, verdicts>>

\* The Lua script of the rate limiter, atomic: three checks, then three
\* increments.
InWindow(k) == SelectSeq(hits[k], LAMBDA a : a < Window)
Buckets(f) == {fetch[f].url.domain, "user"}
Full(f) == daily >= Daily \/ \E k \in Buckets(f) : Len(InWindow(k)) >= PerMinute

\* The row of a full bucket or cap, then WebFetchRateLimited.
Limited(f) == \E e \in {"rate_limited", "fault"} : Goes(f, "verdict", e)

check_and_increment(f) ==
    /\ At(f, "limit")
    /\ \/ /\ ~Full(f)
          /\ hits' = [k \in Keys |-> IF k \in Buckets(f) THEN Append(InWindow(k), 0)
                                    ELSE hits[k]]
          /\ daily' = daily + 1
          /\ Goes(f, "reserve", "none")
       \/ /\ Full(f)
          /\ Limited(f)
          /\ UNCHANGED <<hits, daily>>
       \/ Goes(f, "verdict", "fault") /\ UNCHANGED <<hits, daily>>
    /\ UNCHANGED <<slots, intents, hop, upstream, verdicts>>
-----------------------------------------------------------------------------
(* The concurrency cap.                                                    *)

ReservationTtl ==
    IF 2 * Deadline > ReservationFloor THEN 2 * Deadline ELSE ReservationFloor

\* The Lua script: evict what has expired, count, add.
Unexpired == {h \in Handles : slots[h] > 0}
Mine(f) == <<f, fetch[f].attempt>>
try_reserve(f) ==
    /\ At(f, "reserve")
    /\ \/ /\ Cardinality(Unexpired) < Cap
          /\ slots' = [slots EXCEPT ![Mine(f)] = ReservationTtl]
          /\ \/ Goes(f, "intent", "none")
             \/ Goes(f, "verdict", "fault")   \* the script ran, its answer was lost
       \/ /\ Cardinality(Unexpired) >= Cap
          /\ UNCHANGED slots
          /\ Limited(f)
       \/ slots' = slots /\ Goes(f, "verdict", "fault")
    /\ UNCHANGED <<hits, daily, intents, hop, upstream, verdicts>>

\* The finally of dispatch_web_fetch; a failed ZREM leaves the slot to expire.
release(f) ==
    /\ At(f, "release")
    /\ slots' \in {slots, [slots EXCEPT ![Mine(f)] = 0]}
    /\ Goes(f, "verdict", fetch[f].exc)
    /\ UNCHANGED <<hits, daily, intents, hop, upstream, verdicts>>
-----------------------------------------------------------------------------
(* EgressResponseExtractor.handle and RelayEgressClient.fire, under the    *)
(* action's deadline, which runs from the reservation.                     *)

InHandle == {"intent", "connect", "wire", "inspect", "extract"}
Moves(f, stage) == fetch' = [fetch EXCEPT ![f].at = stage]

\* A replay is answered from the ledger; a row without an answer is in doubt
\* and, a fetch being idempotent, is fired again.
commit_intent(f) ==
    /\ At(f, "intent")
    /\ IF intents[f] = "with_response"
       THEN /\ fetch' = [fetch EXCEPT ![f].at = "row", ![f].outcome = "extracted",
                                      ![f].age = 0]
            /\ UNCHANGED intents
       ELSE /\ intents' = [intents EXCEPT ![f] = "no_response"]
            /\ Moves(f, "connect")
    /\ UNCHANGED <<slots, hits, daily, hop, upstream, verdicts>>

\* A place in the semaphore, then the connection and the request's frame.
_do_fire(f) ==
    /\ At(f, "connect")
    /\ Cardinality({g \in Fetches : At(g, "wire")}) < Concurrency
    /\ hop' = [hop EXCEPT ![f] = [at |-> "read", age |-> 0]]
    /\ Moves(f, "wire")
    /\ UNCHANGED <<slots, hits, daily, intents, upstream, verdicts>>

\* No connection, a closed or silent one, or a frame that does not parse:
\* the I/O plane is unavailable; a refusal: EgressDeniedError.  Either is
\* recorded, and leaves the intent without a response.
FireFails(f) ==
    /\ \/ At(f, "connect")
       \/ At(f, "wire") /\ (hop[f].at \in {"denied", "closed"} \/ fetch[f].age > 0)
    /\ Goes(f, "release", "fault")
    /\ UNCHANGED <<slots, hits, daily, intents, hop, upstream, verdicts>>

Fired(f) ==
    /\ At(f, "wire") /\ hop[f].at = "replied"
    /\ Moves(f, "inspect")
    /\ UNCHANGED <<slots, hits, daily, intents, hop, upstream, verdicts>>

\* inspect_response: the canary, the content type, the size.  A refusal is
\* what the ledger keeps; a canary is raised once it is kept.
inspect_response(f) ==
    /\ At(f, "inspect")
    /\ \/ Moves(f, "extract") /\ UNCHANGED intents
       \/ /\ intents' = [intents EXCEPT ![f] = "with_response"]
          /\ \/ fetch' = [fetch EXCEPT ![f].at = "row", ![f].outcome = "refusal",
                                       ![f].age = 0]
             \/ Goes(f, "row", "canary")
       \/ Goes(f, "release", "fault") /\ UNCHANGED intents
    /\ UNCHANGED <<slots, hits, daily, hop, upstream, verdicts>>

\* The quarantined extraction, and record_response.
quarantined_to_structured(f) ==
    /\ At(f, "extract")
    /\ \/ /\ intents' = [intents EXCEPT ![f] = "with_response"]
          /\ \E o \in {"extracted", "refusal"} :
                fetch' = [fetch EXCEPT ![f].at = "row", ![f].outcome = o, ![f].age = 0]
       \/ Goes(f, "release", "fault") /\ UNCHANGED intents
    /\ UNCHANGED <<slots, hits, daily, hop, upstream, verdicts>>

\* The deadline: asyncio.timeout cancels handle wherever it waits.  A commit or
\* a recording that was on its way may or may not have been done.
ActionTimeout(f) ==
    /\ fetch[f].at \in InHandle /\ fetch[f].age >= Deadline
    /\ \/ UNCHANGED intents
       \/ At(f, "intent") /\ intents[f] = "absent"
          /\ intents' = [intents EXCEPT ![f] = "no_response"]
       \/ At(f, "extract") /\ intents' = [intents EXCEPT ![f] = "with_response"]
    /\ fetch' = [fetch EXCEPT ![f].at = IF At(f, "wire") THEN "closing" ELSE "classify",
                              ![f].age = 0]
    /\ UNCHANGED <<slots, hits, daily, hop, upstream, verdicts>>

\* The relay client's finally waits for its connection to close.
Closed(f) ==
    /\ At(f, "closing")
    /\ Goes(f, "classify", "none")
    /\ UNCHANGED <<slots, hits, daily, intents, hop, upstream, verdicts>>

\* Variant: a ledger that cannot be read is taken for one without a row.
ClassifyUnreadable(f) ==
    /\ At(f, "classify")
    /\ \E d \in {FALSE, intents[f] = "no_response"} :
          fetch' = [fetch EXCEPT ![f].at = "release", ![f].exc = "timeout",
                                 ![f].doubt = d, ![f].age = 0]
    /\ UNCHANGED <<slots, hits, daily, intents, hop, upstream, verdicts>>

\* The ledger is read, within its own bound; unreadable means in doubt.
_classify_action_timeout(f) ==
    /\ At(f, "classify")
    /\ \E d \in {TRUE, intents[f] = "no_response"} :
          fetch' = [fetch EXCEPT ![f].at = "release", ![f].exc = "timeout",
                                 ![f].doubt = d, ![f].age = 0]
    /\ UNCHANGED <<slots, hits, daily, intents, hop, upstream, verdicts>>

\* The tool.web.fetch row of the outcome, or of the canary.
OutcomeRow(f) ==
    /\ At(f, "row")
    /\ \/ Goes(f, "release", fetch[f].exc)
       \/ Goes(f, "release", "fault")
    /\ UNCHANGED <<slots, hits, daily, intents, hop, upstream, verdicts>>

\* The turn is cancelled from outside; the finally still releases the slot,
\* and no row of the chokepoint is written.
Cancelled(f) ==
    /\ fetch[f].at \in InHandle \cup {"row", "classify"}
    /\ Goes(f, "release", "cancelled")
    /\ UNCHANGED <<slots, hits, daily, intents, hop, upstream, verdicts>>
-----------------------------------------------------------------------------
(* The relay: one connection task for each request.                        *)

Hop(f, stage) == hop' = [hop EXCEPT ![f].at = stage]

\* The frame, the method, the target, the allowlist, the resolved address and
\* the scan: a refusal is recorded and replied.
Denies(f) ==
    /\ hop[f].at = "read"
    /\ Hop(f, "denied")
    /\ UNCHANGED <<fetch, slots, hits, daily, intents, upstream, verdicts>>

\* The request goes upstream whether or not the core still waits.
_forward(f) ==
    /\ hop[f].at = "read"
    /\ Hop(f, "upstream")
    /\ upstream' = upstream \cup {f}
    /\ UNCHANGED <<fetch, slots, hits, daily, intents, verdicts>>

\* The answer, a redirect or an answer too large (denied), or an I/O error or
\* the relay's own deadline (the connection is closed without a reply).
UpstreamEnds(f) ==
    /\ hop[f].at = "upstream"
    /\ \E s \in {"replied", "denied", "closed"} : Hop(f, s)
    /\ UNCHANGED <<fetch, slots, hits, daily, intents, upstream, verdicts>>

\* The relay shuts down: _drain_connections cancels its tasks.
_drain_connections ==
    /\ \E f \in Fetches : hop[f].at \in {"read", "upstream"}
    /\ hop' = [f \in Fetches |->
                 IF hop[f].at \in {"read", "upstream"} THEN [hop[f] EXCEPT !.at = "closed"]
                 ELSE hop[f]]
    /\ UNCHANGED <<fetch, slots, hits, daily, intents, upstream, verdicts>>
-----------------------------------------------------------------------------
(* The chokepoint: one tool.dispatch row for whatever the tool did.        *)

\* The exceptions the chokepoint turns into a string for the model.
Soft == {"rate_limited", "domain", "error", "timeout"}

\* An exception has its row; a soft one is then returned, any other raised.
ExceptionRow(f) ==
    /\ At(f, "verdict") /\ fetch[f].exc \notin {"none", "cancelled"}
    /\ LET e == fetch[f].exc IN
       \/ Verdict(f, IF e = "timeout" /\ fetch[f].doubt THEN "timeout_in_doubt" ELSE e,
                  IF e \in Soft THEN "returned" ELSE "raised")
       \/ Unwritten(f, "raised")
    /\ UNCHANGED <<slots, hits, daily, intents, hop, upstream>>

\* A refusal is returned; data is cleared for the orchestrator, scanned and
\* returned.  A denial or a canary escalates with its own row; any other
\* failure falls back to one row.
ResultRow(f) ==
    /\ At(f, "verdict") /\ fetch[f].exc = "none"
    /\ \/ fetch[f].outcome = "refusal"
          /\ (Verdict(f, "tool_refused", "returned") \/ Unwritten(f, "raised"))
       \/ fetch[f].outcome = "extracted"
          /\ \/ Verdict(f, "dispatched", "returned")
             \/ Verdict(f, "escalated", "raised")   \* downgrade_denied, dlp_canary, or the fallback
             \/ Unwritten(f, "raised")
    /\ UNCHANGED <<slots, hits, daily, intents, hop, upstream>>

CancelledAbove(f) ==
    /\ At(f, "verdict") /\ fetch[f].exc = "cancelled"
    /\ Ends(f, "raised")
    /\ UNCHANGED <<slots, hits, daily, intents, hop, upstream, verdicts>>

\* The turn is replayed: the same call, with the same egress id.
Replay(f) ==
    /\ At(f, "raised")
    /\ hop[f].at \notin {"read", "upstream"}
    /\ \A g \in Fetches \ {f} : fetch[g].attempt = 1         \* bound: one call is replayed
    /\ fetch[f].attempt < MaxAttempts
    /\ fetch' = [fetch EXCEPT ![f] = [Idle(fetch[f].attempt + 1) EXCEPT
                                        !.url = fetch[f].url]]
    /\ hop' = [hop EXCEPT ![f] = [at |-> "none", age |-> 0]]
    /\ verdicts' = [verdicts EXCEPT ![f] = <<>>]
    /\ UNCHANGED <<slots, hits, daily, intents, upstream>>

\* Time passes, and no stage outlives its bound: the deadline interrupts
\* handle, the closing wait and the relay's deadline end.
Overdue(f) ==
    \/ fetch[f].at \in InHandle /\ fetch[f].age >= Deadline
    \/ At(f, "closing") /\ fetch[f].age >= CloseWait
    \/ fetch[f].at \in {"row", "release"} /\ fetch[f].age >= AuditWait
    \/ fetch[f].at \in {"classify", "limit", "reserve", "verdict"}
    \/ hop[f].at \in {"read", "upstream"} /\ hop[f].age >= UpstreamDeadline
Timed == InHandle \cup {"closing", "row", "release"}
Tick ==
    /\ \A f \in Fetches : ~Overdue(f)
    /\ fetch' = [f \in Fetches |-> IF fetch[f].at \in Timed
                                    THEN [fetch[f] EXCEPT !.age = @ + 1] ELSE fetch[f]]
    /\ hop' = [f \in Fetches |-> IF hop[f].at \in {"read", "upstream"}
                                  THEN [hop[f] EXCEPT !.age = @ + 1] ELSE hop[f]]
    /\ slots' = [h \in Handles |-> IF slots[h] > 0 THEN slots[h] - 1 ELSE 0]
    /\ hits' = [k \in Keys |-> [i \in 1 .. Len(InWindow(k)) |-> InWindow(k)[i] + 1]]
    /\ UNCHANGED <<daily, intents, upstream, verdicts>>

CoreStep(f) ==
    \/ RefusedTool(f) \/ dispatch_web_fetch(f) \/ check_and_increment(f) \/ try_reserve(f)
    \/ commit_intent(f) \/ _do_fire(f) \/ FireFails(f) \/ Fired(f) \/ inspect_response(f)
    \/ quarantined_to_structured(f) \/ ActionTimeout(f) \/ Closed(f)
    \/ _classify_action_timeout(f) \/ OutcomeRow(f) \/ Cancelled(f) \/ release(f)
    \/ ExceptionRow(f) \/ ResultRow(f) \/ CancelledAbove(f) \/ Replay(f)
RelayStep(f) == Denies(f) \/ _forward(f) \/ UpstreamEnds(f)

Next ==
    \/ \E f \in Fetches : CoreStep(f) \/ RelayStep(f)
    \/ _drain_connections \/ Tick

Spec == Init /\ [][Next]_wvars
-----------------------------------------------------------------------------
(* A timed-out fetch whose row says it is not in doubt either kept an      *)
(* answer in the ledger or never reaches the upstream, even later: the     *)
(* relay may go on with a request the core has given up                    *)
(* (_classify_action_timeout, commit_intent before _do_fire).              *)
TimeoutIsHonest ==
    \A f \in Fetches :
        verdicts[f] = <<"timeout">> =>
            \/ intents[f] = "with_response"
            \/ f \notin upstream /\ hop[f].at \in {"none", "denied", "closed"}

(* The fetches that hold a place are never more than the cap, however long *)
(* the deadline, the closing of the relay's connection and the rows take:  *)
(* the reservation outlives them (try_reserve, ReservationTtl, release).   *)
HoldersWithinCap ==
    Cardinality({f \in Fetches : fetch[f].at \in InHandle \cup
                                    {"closing", "classify", "row", "release"}}) <= Cap

(* A request that reached the relay is for a page that an entry of each of *)
(* the three lists covers (AllowlistIntersection, check).                  *)
CoveredByAllLists ==
    \A f \in Fetches : At(f, "wire") =>
        \A L \in {Manifest, Operator, Session} : \E e \in L : Covers(e, fetch[f].url)

(* A call answered to the model has exactly one tool.dispatch row, and a   *)
(* dispatched one has its answer in the ledger (dispatch_tool's arms and   *)
(* _TotalityGuard).                                                        *)
AnswerHasItsRow ==
    \A f \in Fetches : At(f, "returned") =>
        /\ Len(verdicts[f]) = 1
        /\ verdicts[f][1] = "dispatched" => intents[f] = "with_response"
=============================================================================
