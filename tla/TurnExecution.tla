---------------------------- MODULE TurnExecution ----------------------------
(***************************************************************************)
(* The privileged turn of one user: RealTurnOrchestratorAdapter.dispatch   *)
(* (alfred/comms_mcp/real_turn_adapter.py), the three phases of            *)
(* Orchestrator.handle_user_message (alfred/orchestrator/core.py) with its *)
(* tool loop, the turn-side-effect ledger, the replay journal and the      *)
(* egress ledger behind an external tool call.                             *)
(*                                                                         *)
(* An inbound message may be dispatched any number of times: a failed or   *)
(* cancelled dispatch, or a crash, leaves it to be delivered again.  Rows, *)
(* journal and ledgers survive a crash; the working memory does not.       *)
(***************************************************************************)
EXTENDS Integers, Sequences, Functions

CONSTANTS Inbounds,        \* the inbound messages of the user
          External,        \* external tool calls the planner may ask for
          Idempotent,      \* those of them that may be fired again
          Internal,        \* internal tool calls: no ledger
          NoCall,          \* no row in the egress ledger
          MaxIterations,   \* MAX_TOOL_ITERATIONS
          MaxCalls,        \* MAX_TOOL_CALLS_PER_ITERATION
          RecallLimit,     \* episodes a rehydrated working memory starts with
          MemoryTurns,     \* turns a working memory holds
          MaxAttempts      \* bound: dispatches of one message

Calls == External \cup Internal
Indexes == 0 .. MaxIterations * MaxCalls - 1
Roles == {"user", "assistant"}

ASSUME TurnAssumption ==
    /\ Idempotent \subseteq External /\ External \cap Internal = {} /\ NoCall \notin Calls
    /\ MaxIterations \in Nat \ {0} /\ MaxCalls \in Nat \ {0} /\ MaxAttempts \in Nat
    /\ RecallLimit \in Nat \ {0} /\ MemoryTurns \in Nat \ {0} /\ RecallLimit <= MemoryTurns

VARIABLES turn,      \* the dispatch of each message, idle when there is none
          episodes,  \* the episodic rows of the user, in commit order
          journal,   \* tool_call_journal: the calls decided, by index
          intent,    \* egress ledger: the call a row was opened for, or NoCall
          answered,  \* egress ledger: rows with a response
          fired,     \* how often the call of a row reached the outside
          memory,    \* the pooled working memory
          loaded,    \* the pool holds an entry for the user
          attempts   \* dispatches begun, per message

durable == <<episodes, journal, intent, answered, fired>>
vars == <<turn, durable, memory, loaded, attempts>>

\* fresh: the user gate let this dispatch through; tail: the message the prompt
\* ends with; iter, left: the next iteration and the calls still to dispatch.
Turn(pc, fresh, tail, iter, left) ==
    [pc |-> pc, fresh |-> fresh, tail |-> tail, iter |-> iter, left |-> left]
Idle == Turn("idle", FALSE, <<>>, 0, <<>>)
Holding == {"observe", "orient", "call", "intent", "fire", "record", "plan", "persist"}

TypeOK ==
    /\ \A i \in Inbounds :
          /\ turn[i].pc \in Holding \cup {"idle", "send"}
          /\ turn[i].iter \in 0 .. MaxIterations
          /\ turn[i].left \in Seq([idx : Indexes, call : Calls])
    /\ episodes \in Seq(Roles \X Inbounds)
    /\ journal \in [Inbounds -> Seq([iter : 0 .. MaxIterations - 1, call : Calls])]
    /\ intent \in [Inbounds -> [Indexes -> External \cup {NoCall}]]
    /\ answered \subseteq Inbounds \X Indexes
    /\ fired \in [Inbounds -> [Indexes -> Nat]]
    /\ memory \in Seq(Roles \X Inbounds) /\ Len(memory) <= MemoryTurns
    /\ loaded \in BOOLEAN
    /\ attempts \in [Inbounds -> 0 .. MaxAttempts]

Init ==
    /\ turn = [i \in Inbounds |-> Idle]
    /\ episodes = <<>>
    /\ journal = [i \in Inbounds |-> <<>>]
    /\ intent = [i \in Inbounds |-> [n \in Indexes |-> NoCall]]
    /\ answered = {}
    /\ fired = [i \in Inbounds |-> [n \in Indexes |-> 0]]
    /\ memory = <<>> /\ loaded = FALSE
    /\ attempts = [i \in Inbounds |-> 0]
-----------------------------------------------------------------------------
LastOf(s, n) == SubSeq(s, IF Len(s) > n THEN Len(s) - n + 1 ELSE 1, Len(s))

Remember(role, i) == LastOf(Append(memory, <<role, i>>), MemoryTurns)

At(i, pc) == turn[i].pc = pc
Become(i, t) == turn' = [turn EXCEPT ![i] = t]
Goto(i, pc) == Become(i, Turn(pc, turn[i].fresh, turn[i].tail, turn[i].iter, turn[i].left))
Drop(i) == Become(i, Idle)
LockFree == \A i \in Inbounds : turn[i].pc \notin Holding

\* Variant: no lock around the turn.
BeginUnlocked(i) ==
    /\ At(i, "idle") /\ attempts[i] < MaxAttempts
    /\ attempts' = [attempts EXCEPT ![i] = @ + 1]
    /\ Become(i, Turn("observe", FALSE, <<>>, 0, <<>>))
    /\ memory' = IF loaded THEN memory ELSE LastOf(episodes, RecallLimit)
    /\ loaded' = TRUE
    /\ UNCHANGED durable

\* dispatch takes the user's turn lock and acquires the working memory, which
\* the pool rebuilds from the episodic rows when it has none.
Begin(i) ==
    /\ At(i, "idle") /\ attempts[i] < MaxAttempts /\ LockFree
    /\ attempts' = [attempts EXCEPT ![i] = @ + 1]
    /\ Become(i, Turn("observe", FALSE, <<>>, 0, <<>>))
    /\ memory' = IF loaded THEN memory ELSE LastOf(episodes, RecallLimit)
    /\ loaded' = TRUE
    /\ UNCHANGED durable

\* Variant: the working memory is appended to before the transaction.
ObserveEager(i) ==
    /\ At(i, "observe")
    /\ LET fresh == <<"user", i>> \notin Range(episodes)
       IN  \E outcome \in {"done", "failed", "cut"} :
              /\ episodes' = IF fresh /\ outcome # "failed"
                             THEN Append(episodes, <<"user", i>>) ELSE episodes
              /\ memory' = IF fresh THEN Remember("user", i) ELSE memory
              /\ IF outcome = "done" THEN Become(i, Turn("orient", fresh, <<>>, 0, <<>>)) ELSE Drop(i)
    /\ UNCHANGED <<journal, intent, answered, fired, loaded, attempts>>

\* Phase A: the user gate and the user row in one transaction, then the append
\* to the working memory.  The transaction may fail; a cancellation may hit
\* after the commit and before the append.
Observe(i) ==
    /\ At(i, "observe")
    /\ LET fresh == <<"user", i>> \notin Range(episodes)
       IN  \E outcome \in {"done", "failed", "cut"} :
              /\ episodes' = IF fresh /\ outcome # "failed"
                             THEN Append(episodes, <<"user", i>>) ELSE episodes
              /\ memory' = IF fresh /\ outcome = "done" THEN Remember("user", i) ELSE memory
              /\ IF outcome = "done" THEN Become(i, Turn("orient", fresh, <<>>, 0, <<>>)) ELSE Drop(i)
    /\ UNCHANGED <<journal, intent, answered, fired, loaded, attempts>>

\* The journal rows of one iteration, and the calls of rows from index n on.
Decision(iter, batch) == [k \in DOMAIN batch |-> [iter |-> iter, call |-> batch[k]]]
Numbered(n, rows) == [k \in DOMAIN rows |-> [idx |-> n + k - 1, call |-> rows[k].call]]

\* Orient, and the fast-forward through the journalled calls: they are
\* dispatched again under their indexes, and the loop resumes behind them.
Orient(i) ==
    /\ At(i, "orient")
    /\ LET done == journal[i]
           resume == IF done = <<>> THEN 0 ELSE done[Len(done)].iter + 1
       IN  Become(i, Turn(IF done = <<>> THEN "plan" ELSE "call",
                          turn[i].fresh,
                          IF turn[i].fresh THEN memory[Len(memory)] ELSE <<"user", i>>,
                          resume,
                          Numbered(0, done)))
    /\ UNCHANGED <<durable, memory, loaded, attempts>>

\* The call at the head is settled: the next one, or the planner again.  A
\* resume point at the ceiling raises.
Settle(i) ==
    LET last == Len(turn[i].left) = 1
    IN  IF last /\ turn[i].iter >= MaxIterations THEN Drop(i)
        ELSE Become(i, Turn(IF last THEN "plan" ELSE "call",
                            turn[i].fresh, turn[i].tail, turn[i].iter, Tail(turn[i].left)))

Current(i) == Head(turn[i].left)

\* dispatch_tool: an external call that passes the gates goes to the relay; a
\* refused call and an internal one are settled here.
DispatchTool(i) ==
    /\ At(i, "call")
    /\ \/ Current(i).call \in External /\ Goto(i, "intent")
       \/ Settle(i)
    /\ UNCHANGED <<durable, memory, loaded, attempts>>

\* Variant: a call in doubt is fired again whatever it is.
CommitIntentRefires(i) ==
    /\ At(i, "intent")
    /\ LET n == Current(i).idx
           c == Current(i).call
       IN  \/ /\ intent[i][n] = NoCall
              /\ intent' = [intent EXCEPT ![i][n] = c]
              /\ Goto(i, "fire")
           \/ /\ intent[i][n] = c
              /\ IF <<i, n>> \in answered THEN Settle(i) ELSE Goto(i, "fire")
              /\ UNCHANGED intent
    /\ UNCHANGED <<episodes, journal, answered, fired, memory, loaded, attempts>>

\* commit_intent: a fresh row, a stored response, or doubt.  Only an idempotent
\* call is fired again out of doubt; any other, and a row opened for another
\* call (the integrity error), ends the turn.
CommitIntent(i) ==
    /\ At(i, "intent")
    /\ LET n == Current(i).idx
           c == Current(i).call
       IN  \/ /\ intent[i][n] = NoCall
              /\ intent' = [intent EXCEPT ![i][n] = c]
              /\ Goto(i, "fire")
           \/ /\ intent[i][n] = c /\ <<i, n>> \in answered
              /\ Settle(i) /\ UNCHANGED intent
           \/ /\ intent[i][n] = c /\ <<i, n>> \notin answered
              /\ IF c \in Idempotent THEN Goto(i, "fire") ELSE Drop(i)
              /\ UNCHANGED intent
           \/ /\ intent[i][n] \notin {NoCall, c}
              /\ Drop(i) /\ UNCHANGED intent
    /\ UNCHANGED <<episodes, journal, answered, fired, memory, loaded, attempts>>

\* The call reaches the outside; its answer comes back, or the relay is lost
\* and the turn with it.
Fire(i) ==
    /\ At(i, "fire")
    /\ fired' = [fired EXCEPT ![i][Current(i).idx] = @ + 1]
    /\ Goto(i, "record") \/ Drop(i)
    /\ UNCHANGED <<episodes, journal, intent, answered, memory, loaded, attempts>>

\* The answer is extracted and recorded; a canary hit is recorded as a refusal
\* and ends the turn.
RecordResponse(i) ==
    /\ At(i, "record")
    /\ answered' = answered \cup {<<i, Current(i).idx>>}
    /\ Settle(i) \/ Drop(i)
    /\ UNCHANGED <<episodes, journal, intent, fired, memory, loaded, attempts>>

\* The tool's own deadline: the call is settled as timed out, its row as it is.
ActionTimeout(i) ==
    /\ turn[i].pc \in {"intent", "fire", "record"}
    /\ Settle(i)
    /\ UNCHANGED <<durable, memory, loaded, attempts>>

\* The planner ends the turn: an answer, or the notice of a bound it ran into
\* (iterations, calls, budget after a first completion).
PlanAnswers(i) ==
    /\ At(i, "plan")
    /\ Goto(i, "persist")
    /\ UNCHANGED <<durable, memory, loaded, attempts>>

\* Variant: the decision is not journalled.
PlanUnjournalled(i) ==
    /\ At(i, "plan") /\ turn[i].iter < MaxIterations - 1
    /\ \E n \in 1 .. MaxCalls : \E batch \in [1 .. n -> Calls] :
          Become(i, Turn("call", turn[i].fresh, turn[i].tail, turn[i].iter + 1,
                         Numbered(Len(journal[i]), Decision(turn[i].iter, batch))))
    /\ UNCHANGED <<durable, memory, loaded, attempts>>

\* The planner asks for tools: the whole decision of the iteration is written
\* to the journal before any of its calls is dispatched.
PlanCalls(i) ==
    /\ At(i, "plan") /\ turn[i].iter < MaxIterations - 1
    /\ \E n \in 1 .. MaxCalls : \E batch \in [1 .. n -> Calls] :
          /\ journal' = [journal EXCEPT ![i] = @ \o Decision(turn[i].iter, batch)]
          /\ Become(i, Turn("call", turn[i].fresh, turn[i].tail, turn[i].iter + 1,
                            Numbered(Len(journal[i]), Decision(turn[i].iter, batch))))
    /\ UNCHANGED <<episodes, intent, answered, fired, memory, loaded, attempts>>

\* Phase C, the mirror of phase A for the assistant row; the row that reports
\* the turn complete is written last and may fail ("unlogged").
Persist(i) ==
    /\ At(i, "persist")
    /\ LET fresh == <<"assistant", i>> \notin Range(episodes)
       IN  \E outcome \in {"done", "unlogged", "failed", "cut"} :
              /\ episodes' = IF fresh /\ outcome # "failed"
                             THEN Append(episodes, <<"assistant", i>>) ELSE episodes
              /\ memory' = IF fresh /\ outcome \in {"done", "unlogged"}
                            THEN Remember("assistant", i) ELSE memory
              /\ IF outcome = "done" THEN Goto(i, "send") ELSE Drop(i)
    /\ UNCHANGED <<journal, intent, answered, fired, loaded, attempts>>

\* The reply goes out after the lock is released, or fails to.
Send(i) ==
    /\ At(i, "send")
    /\ Drop(i)
    /\ UNCHANGED <<durable, memory, loaded, attempts>>

\* Between the phases the turn raises (provider, budget pre-check, refused or
\* unreachable relay, extraction, a failed audit row) or is cancelled.
Abandon(i) ==
    /\ turn[i].pc \in Holding \ {"observe", "persist"}
    /\ Drop(i)
    /\ UNCHANGED <<durable, memory, loaded, attempts>>

\* The pool trims an idle entry.
EvictToCap ==
    /\ loaded /\ LockFree
    /\ loaded' = FALSE /\ memory' = <<>>
    /\ UNCHANGED <<turn, durable, attempts>>

\* The core dies.
Crash ==
    /\ turn' = [i \in Inbounds |-> Idle]
    /\ loaded' = FALSE /\ memory' = <<>>
    /\ UNCHANGED <<durable, attempts>>

Step(i) ==
    \/ Begin(i) \/ Observe(i) \/ Orient(i) \/ DispatchTool(i) \/ CommitIntent(i)
    \/ Fire(i) \/ RecordResponse(i) \/ ActionTimeout(i)
    \/ PlanAnswers(i) \/ PlanCalls(i) \/ Persist(i) \/ Send(i) \/ Abandon(i)

Next == (\E i \in Inbounds : Step(i)) \/ EvictToCap \/ Crash

Spec == Init /\ [][Next]_vars
-----------------------------------------------------------------------------
IndexOf(s, e) == CHOOSE k \in DOMAIN s : s[k] = e

\* Each message has at most one user row and one assistant row, and the user
\* row first, however often it was dispatched (ADR-0062's gates travel with
\* the rows they guard).
RowsOnce ==
    /\ \A p, q \in DOMAIN episodes : episodes[p] = episodes[q] => p = q
    /\ \A q \in DOMAIN episodes : episodes[q][1] = "assistant" =>
          \E p \in 1 .. q : episodes[p] = <<"user", episodes[q][2]>>

\* The working memory never holds a turn that is not durable, and holds what
\* it holds in the order of the rows.
MemoryFollowsRows ==
    /\ Range(memory) \subseteq Range(episodes)
    /\ \A p, q \in DOMAIN memory : p < q =>
          IndexOf(episodes, memory[p]) < IndexOf(episodes, memory[q])

\* The planner is always asked about the message at hand: the prompt ends on
\* its user turn, on a first dispatch and on a replay.
PromptEndsOnMessage ==
    \A i \in Inbounds : turn[i].pc \in Holding \ {"observe", "orient"} =>
        turn[i].tail = <<"user", i>>

\* A call that may not be repeated reaches the outside at most once, across
\* any crash between intent, firing and record.
FiresOnce ==
    \A i \in Inbounds, n \in Indexes :
        intent[i][n] \notin Idempotent => fired[i][n] <= 1

\* Every row of the egress ledger is for the call the journal has at its index:
\* a resumed turn never meets a row of another call (the integrity error).
LedgerFollowsJournal ==
    \A i \in Inbounds, n \in Indexes : intent[i][n] # NoCall =>
        n < Len(journal[i]) /\ journal[i][n + 1].call = intent[i][n]

\* A resumed turn has an iteration left to answer in: the ceiling error of the
\* resume point cannot be reached through the journal.
ResumeHasRoom ==
    \A i \in Inbounds : \A k \in DOMAIN journal[i] : journal[i][k].iter < MaxIterations - 1
=============================================================================
