--------------------------- MODULE ProviderCalls ----------------------------
(* The provider calls of concurrent turns of one user: the budget check      *)
(* before a call and the charge after it (budget/guard.py, the act loop of   *)
(* orchestrator/core.py), the router's fallback (providers/router.py) and    *)
(* the message list each provider puts on the wire (providers/*.py).         *)
EXTENDS Naturals, FiniteSets, Sequences

CONSTANTS Turns,       \* turns of the user in progress
          PerCall,     \* per_call_max_usd
          Costs,       \* what an answer may cost, above PerCall included
          Caps,        \* daily_budget_usd values the operator sets
          MaxRounds,   \* MAX_TOOL_ITERATIONS
          MaxCalls,    \* MAX_TOOL_CALLS_PER_ITERATION
          MaxSets,     \* bound on the operator's changes
          MaxUnseen,   \* bound on the paid answers a day that are never charged
          MaxSeen      \* bound on the version counter and the days

ASSUME ProviderAssumption ==
    /\ PerCall \in Nat /\ Costs \subseteq Nat /\ Caps \subseteq Nat
    /\ IsFiniteSet(Turns) /\ Turns # {}

VARIABLES turn,      \* turn -> where it is, its iteration, messages, calls to run
          entry,     \* the guard's _UserBudget of the user
          row,       \* daily_budget_usd of the user's row, 0 once removed
          version,   \* the identity version counter, plus one
          sets, days,
          billed,    \* cost of the answers within PerCall that came to the charge today
          unseen,    \* answers within PerCall paid today that never came to it
          lost,      \* what those cost
          highest    \* largest cap the guard has applied today

providerVars == <<turn, entry, row, version, sets, days, billed, unseen, lost,
                  highest>>

NoEntry == [cap |-> 0, ver |-> 0, today |-> TRUE, spent |-> 0]
IdleTurn == [at |-> "idle", round |-> 0, msgs |-> <<>>, todo |-> <<>>]
Greater(a, b) == IF a > b THEN a ELSE b

ProviderTypeOK ==
    /\ \A t \in Turns : /\ turn[t].at \in {"idle", "plan", "primary", "fallback", "tools"}
                        /\ turn[t].round \in 0..MaxRounds
    /\ entry.cap \in Caps \cup {0} /\ row \in Caps \cup {0}

ProviderInit ==
    /\ turn = [t \in Turns |-> IdleTurn]
    /\ entry = NoEntry /\ row \in Caps /\ version = 1
    /\ sets = 0 /\ days = 0 /\ billed = 0 /\ unseen = 0 /\ lost = 0 /\ highest = 0

\* _load_or_get_user: the entry is current, or the row is loaded (0: unknown user)
Known == entry.ver >= version \/ row # 0
_load_or_get_user ==
    IF entry.ver >= version THEN entry ELSE [entry EXCEPT !.cap = row, !.ver = version]

_roll_day_if_needed(e) == IF e.today THEN e ELSE [e EXCEPT !.today = TRUE, !.spent = 0]

estimate_for == PerCall

\* Variant: the pre-check asks whether the cap is already exceeded.
exceeded_already(e, cost) == e.spent > e.cap

would_exceed(e, cost) == cost > PerCall \/ e.spent + cost > e.cap

\* check_and_charge: a charge that is refused leaves the entry as it was
Charged(e, cost) == cost <= PerCall /\ e.spent + cost <= e.cap
check_and_charge(e, cost) == IF Charged(e, cost) THEN [e EXCEPT !.spent = @ + cost] ELSE e

StartTurn(t) ==
    /\ turn[t].at = "idle"
    /\ turn' = [turn EXCEPT ![t] = [IdleTurn EXCEPT !.at = "plan"]]
    /\ UNCHANGED <<entry, row, version, sets, days, billed, unseen, lost, highest>>

\* the top of an iteration: estimate, pre-check, then the call goes out
PreCheck(t) ==
    /\ turn[t].at = "plan" /\ Known
    /\ LET e == _roll_day_if_needed(_load_or_get_user)
       IN  /\ entry' = e
           /\ highest' = Greater(highest, e.cap)
           /\ turn' = [turn EXCEPT ![t] = IF would_exceed(e, estimate_for) THEN IdleTurn
                                          ELSE [@ EXCEPT !.at = "primary"]]
    /\ UNCHANGED <<row, version, sets, days, billed, unseen, lost>>

\* what a call that never comes to the charge was billed: an answer the provider made, or
\* nothing when it made none
Unpaid == UNCHANGED <<unseen, lost>>
Paid(cost) ==
    IF cost > PerCall THEN Unpaid
    ELSE /\ unseen < MaxUnseen
         /\ unseen' = unseen + 1 /\ lost' = lost + cost
PaidOrNot == Unpaid \/ \E cost \in Costs : Paid(cost)

Ends(t, from) ==
    /\ turn[t].at \in from
    /\ turn' = [turn EXCEPT ![t] = IdleTurn]
    /\ UNCHANGED <<entry, row, version, sets, days, billed, highest>>

\* UnknownBudgetUserError ends the turn, before a call or with the answer in hand
UnknownUser(t) ==
    /\ ~Known
    /\ \/ Ends(t, {"plan"}) /\ Unpaid
       \/ Ends(t, {"primary", "fallback"}) /\ \E cost \in Costs : Paid(cost)

\* ProviderRouter.complete: any error but a tool-protocol one goes to the fallback, an
\* answer the provider made notwithstanding
PrimaryFails(t) ==
    /\ turn[t].at = "primary"
    /\ turn' = [turn EXCEPT ![t].at = "fallback"]
    /\ PaidOrNot
    /\ UNCHANGED <<entry, row, version, sets, days, billed, highest>>

\* the three tool-protocol errors are raised by either provider and end the turn: a model
\* without tool use and two tools with one wire name before the request, malformed
\* arguments with the answer in hand, which is not charged
ensure_tool_capability(t) == Ends(t, {"primary", "fallback"}) /\ Unpaid
build_tool_name_map(t) == Ends(t, {"primary", "fallback"}) /\ Unpaid
_parse_tool_arguments(t) ==
    Ends(t, {"primary", "fallback"}) /\ \E cost \in Costs : Paid(cost)

\* no fallback is configured or it fails as well; the deadline cancels the turn
ProviderUnavailable(t) == Ends(t, {"primary", "fallback"}) /\ PaidOrNot
Deadline(t) ==
    \/ Ends(t, {"primary", "fallback"}) /\ PaidOrNot
    \/ Ends(t, {"tools"}) /\ Unpaid

\* what a provider's finish reason means to the loop, given the calls it parsed
DeepSeekStop(finish, calls) ==
    IF finish = "tool_calls" THEN (IF calls = 0 THEN "other" ELSE "tool_use")
    ELSE IF finish = "stop" THEN "end_turn"
    ELSE IF finish = "length" THEN "max_tokens" ELSE "other"
AnthropicStop(finish, calls) ==
    IF finish = "tool_use" /\ calls = 0 THEN "other" ELSE finish

\* the iteration after complete() returned: charge, then finish or plan tools
Answered(t, cost, stop, calls) ==
    /\ Known
    /\ LET e == _roll_day_if_needed(_load_or_get_user)
           ids == [i \in 1..calls |-> <<turn[t].round, i>>]
           more == /\ stop = "tool_use" /\ calls \in 1..MaxCalls /\ Charged(e, cost)
                   /\ turn[t].round < MaxRounds - 1
       IN  /\ entry' = check_and_charge(IF cost > PerCall THEN _load_or_get_user ELSE e, cost)
           /\ highest' = Greater(highest, e.cap)
           /\ billed' = IF cost <= PerCall THEN billed + cost ELSE billed
           /\ turn' = [turn EXCEPT ![t] = IF ~more THEN IdleTurn ELSE
                 [at |-> "tools", round |-> turn[t].round, todo |-> ids,
                  msgs |-> Append(turn[t].msgs, [role |-> "assistant", ids |-> ids])]]
    /\ UNCHANGED <<row, version, sets, days, unseen, lost>>

\* _dispatch_and_wrap_tool_call: one result message per call, in order
ToolDone(t) ==
    /\ turn[t].at = "tools"
    /\ LET next == Tail(turn[t].todo)
           done == [role |-> "tool", ids |-> <<Head(turn[t].todo)>>]
       IN  turn' = [turn EXCEPT ![t] =
               [at |-> IF next = <<>> THEN "plan" ELSE "tools",
                round |-> IF next = <<>> THEN @.round + 1 ELSE @.round,
                msgs |-> Append(@.msgs, done), todo |-> next]]
    /\ UNCHANGED <<entry, row, version, sets, days, billed, unseen, lost, highest>>

\* alfred user set --daily-budget, alfred user remove (0)
SetBudget(cap) ==
    /\ sets < MaxSets /\ row # 0 /\ cap # row
    /\ row' = cap /\ sets' = sets + 1
    /\ UNCHANGED <<turn, entry, version, days, billed, unseen, lost, highest>>

\* the counter advances when the change is heard of, or for another user's change
VersionBumped ==
    /\ version < MaxSeen
    /\ version' = version + 1
    /\ UNCHANGED <<turn, entry, row, sets, days, billed, unseen, lost, highest>>

Midnight ==
    /\ days < MaxSeen
    /\ days' = days + 1 /\ billed' = 0 /\ unseen' = 0 /\ lost' = 0
    /\ entry' = [entry EXCEPT !.today = FALSE]
    /\ highest' = entry.cap
    /\ UNCHANGED <<turn, row, version, sets>>

DeepSeekAnswers(t, cost, calls) ==
    /\ turn[t].at = "primary"
    /\ \E finish \in {"stop", "tool_calls", "length"} :
           Answered(t, cost, DeepSeekStop(finish, calls), calls)

AnthropicAnswers(t, cost, calls) ==
    /\ turn[t].at = "fallback"
    /\ \E finish \in {"end_turn", "tool_use", "max_tokens"} :
           Answered(t, cost, AnthropicStop(finish, calls), calls)

TurnStep(t) ==
    \/ StartTurn(t) \/ PreCheck(t) \/ UnknownUser(t) \/ PrimaryFails(t)
    \/ ensure_tool_capability(t) \/ build_tool_name_map(t) \/ _parse_tool_arguments(t)
    \/ ProviderUnavailable(t) \/ Deadline(t) \/ ToolDone(t)
    \/ \E cost \in Costs, calls \in 0..(MaxCalls + 1) :
           DeepSeekAnswers(t, cost, calls) \/ AnthropicAnswers(t, cost, calls)

ProviderNext ==
    \/ \E t \in Turns : TurnStep(t)
    \/ \E cap \in Caps \cup {0} : SetBudget(cap)
    \/ VersionBumped \/ Midnight

ProviderSpec == ProviderInit /\ [][ProviderNext]_providerVars

\* _anthropic_messages: consecutive tool results are flushed as one user message
GroupStep(wire, m) ==
    LET n == Len(wire)
    IN  IF m.role = "tool" /\ wire # <<>> /\ wire[n].role = "tool"
        THEN [wire EXCEPT ![n].ids = @ \o m.ids]
        ELSE Append(wire, m)
_anthropic_messages(msgs) ==
    LET grouped[k \in 0..Len(msgs)] ==
            IF k = 0 THEN <<>> ELSE GroupStep(grouped[k - 1], msgs[k])
    IN  grouped[Len(msgs)]

\* _openai_message: one wire message per message of the turn
OpenaiMessages(msgs) == msgs

\* The pre-check before each call (estimate_for and would_exceed) bounds what
\* the user is billed in a day although concurrent turns check before any of
\* them is charged and a refused charge is never recorded: for answers within
\* the per-call maximum, the day's bill is at most the highest cap the guard
\* applied, plus one call for every other concurrent turn, plus one call of
\* every turn for each change of the cap, plus one call for each answer that
\* was paid and never came to the charge (malformed arguments, a user removed
\* meanwhile, a failure or deadline after the provider answered).
SpendBounded ==
    LET n == Cardinality(Turns)
    IN  billed + lost <= highest + (n - 1) * PerCall + n * PerCall * sets + unseen * PerCall

\* Whichever provider the router calls, the list put on the wire answers every
\* tool call of an assistant message in the messages right after it: for
\* Anthropic in the one user message that follows, for DeepSeek one by one.
WireAnswersEveryCall ==
    \A t \in Turns : turn[t].at \in {"primary", "fallback"} =>
        LET a == _anthropic_messages(turn[t].msgs)
            o == OpenaiMessages(turn[t].msgs)
        IN  /\ \A i \in DOMAIN a : a[i].role = "assistant" =>
                   i < Len(a) /\ a[i + 1] = [role |-> "tool", ids |-> a[i].ids]
            /\ \A i \in DOMAIN o : o[i].role = "assistant" =>
                   \A j \in DOMAIN o[i].ids :
                       i + j <= Len(o) /\ o[i + j] = [role |-> "tool", ids |-> <<o[i].ids[j]>>]

-----------------------------------------------------------------------------
\* The invariants behind SpendBounded.

\* calls that passed the pre-check and are not answered yet
Flying == {t \in Turns : turn[t].at \in {"primary", "fallback"}}
\* what the guard has recorded today, and the cap changes it may have applied
Recorded(e) == IF e.today THEN e.spent ELSE 0
Applied(e) == IF row # e.cap /\ e.ver # 0 THEN sets - 1 ELSE sets
\* n turns of which f have a call out, u billed and not recorded, k cap changes:
\* while a call fits under the cap what is lost was lost by the changes; once
\* none does, the calls still out are the last
Balance(n, f, cap, s, u, k) ==
    /\ s + PerCall <= cap => u <= (n * PerCall) * k
    /\ s + PerCall > cap => u + f * PerCall <= (n * PerCall) * k + n * PerCall - PerCall
Ledger(e, f) ==
    /\ e \in [cap : Nat, ver : Nat, today : BOOLEAN, spent : Nat] /\ e.ver <= version
    /\ e.cap <= highest /\ Recorded(e) <= highest
    /\ Applied(e) \in Nat /\ billed - Recorded(e) \in Nat
    /\ e.ver = 0 => billed = 0 /\ f = 0
    /\ f > 0 => e.cap >= PerCall \/ Applied(e) >= 1
    /\ Balance(Cardinality(Turns), f, e.cap, Recorded(e), billed - Recorded(e), Applied(e))
SpendInv ==
    /\ version \in Nat \ {0} /\ row \in Nat /\ sets \in Nat /\ highest \in Nat /\ billed \in Nat
    /\ DOMAIN turn = Turns /\ \A t \in Turns : "at" \in DOMAIN turn[t]
    /\ Ledger(entry, Cardinality(Flying))
\* what was never charged is within the price of so many calls
LostInv == unseen \in Nat /\ lost \in Nat /\ lost <= unseen * PerCall
=============================================================================
