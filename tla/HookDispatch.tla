---------------------------- MODULE HookDispatch ----------------------------
(***************************************************************************)
(* The hook system: the registry (alfred/hooks/registry.py), the           *)
(* dispatcher (alfred/hooks/invoke.py) and the action that goes through    *)
(* it, EpisodicMemory.record (alfred/memory/episodic.py): two pre chains,  *)
(* the write, then the post, the error or the cancel chain.                *)
(*                                                                         *)
(* An action is what the event loop runs between two awaits.  A context is *)
(* the sequence of the subscribers whose results it was built from.        *)
(***************************************************************************)
EXTENDS Naturals, Sequences, FiniteSets

CONSTANTS Hooks,         \* what is registered: [fn, point, tier] records
          MaxHooks,      \* bound: hooks registered in one behaviour
          CarrierRank,   \* rank of the carrier tier declared for write_failed
          Drifted        \* hookpoints another publisher may declare differently

VARIABLES meta,     \* _hookpoints: the declaration of a hookpoint, or NoMeta
          buckets,  \* _subscribers: the chain of a hookpoint
          untried,  \* hooks not registered yet
          reg,      \* the call of _emit_sync in progress: caller and thread
          flow,     \* the record() in progress
          chain,    \* the chain it is in
          rows,     \* audit rows: <<event, fn>>
          faults,   \* what happened to subscribers: <<point, fn, fault>>
          flushed   \* contexts written by _persist

hookVars == <<meta, buckets, untried, reg, flow, chain, rows, faults, flushed>>
registryVars == <<meta, buckets, untried, reg>>

TierRank == [t \in {"system", "operator", "user-plugin"} |->
                CASE t = "system" -> 0 [] t = "operator" -> 1 [] OTHER -> 2]
OPEN_TIERS == {"system", "operator", "user-plugin"}
SYSTEM_OPERATOR_TIERS == {"system", "operator"}
SYSTEM_ONLY_TIERS == {"system"}

Points == {"before_validate", "before_db_write", "after_flush", "write_failed", "cancelled"}

\* A subscriber is a function of its own, registered at a declared hookpoint
\* under one of the three tiers.
ASSUME HookAssumption ==
    /\ \A s \in Hooks : s.point \in Points /\ s.tier \in OPEN_TIERS
    /\ \A s, t \in Hooks : s.fn = t.fn => s = t

NoMeta == [subscribable |-> {}, refusable |-> {}, failClosed |-> FALSE,
           carrier |-> 0, substitution |-> FALSE]
Meta(sub, ref, closed, carrier) ==
    [subscribable |-> sub, refusable |-> ref, failClosed |-> closed,
     carrier |-> carrier, substitution |-> TRUE]

\* What declare_hookpoints declares, and what record() and Flow.body pass to invoke.
Declared(h) ==
    IF h = "before_db_write"
    THEN Meta(SYSTEM_OPERATOR_TIERS, SYSTEM_ONLY_TIERS, TRUE, 3)
    ELSE Meta(OPEN_TIERS, OPEN_TIERS, FALSE, IF h = "write_failed" THEN CarrierRank ELSE 3)

KindOf(h) == CASE h \in {"before_validate", "before_db_write"} -> "pre"
               [] h = "after_flush" -> "post"
               [] h = "write_failed" -> "error"
               [] OTHER -> "cancel"

Quiet == [pc |-> "none", hook |-> CHOOSE h \in Hooks : TRUE, sink |-> "idle", claim |-> "free"]
NoChain == [pc |-> "none", subs |-> <<>>, ctx |-> <<>>, good |-> <<>>, then |-> "none"]

HookInit ==
    /\ meta = [h \in Points |-> NoMeta]
    /\ buckets = [h \in Points |-> <<>>]
    /\ untried \in {u \in SUBSET Hooks : Cardinality(u) <= MaxHooks}
    /\ reg = Quiet
    /\ flow = [pc |-> "idle", point |-> "none", ctx |-> <<>>, result |-> "none"]
    /\ chain = NoChain
    /\ rows = {} /\ faults = {} /\ flushed = {}

\* -------------------------------------------------------------------------
\* The registry.

\* register_hookpoint: a second declaration with other values raises.
register_hookpoint(h, m) == IF meta[h] \in {NoMeta, m} THEN m ELSE meta[h]

\* declare_hookpoints, at import and for every instance; another publisher may
\* have declared a hookpoint otherwise before it.
declare_hookpoints ==
    /\ reg.pc = "none" /\ \E h \in Points : meta[h] = NoMeta
    /\ \E other \in SUBSET Drifted :
          meta' = [h \in Points |->
                     register_hookpoint(h, [Declared(h) EXCEPT !.failClosed =
                                               IF h \in other THEN ~ @ ELSE @])]
    /\ UNCHANGED <<buckets, untried, reg, flow, chain, rows, faults, flushed>>

hookpoint_meta(h) == meta[h]
subscribers_for(h) == buckets[h]

BeforeInChain(a, b) == TierRank[a.tier] < TierRank[b.tier]

\* bucket.append, then the stable sort by (tier rank, registration_seq): after
\* every subscriber of a tier at least as trusted.
Insert(bucket, s) ==
    LET at == Cardinality({i \in DOMAIN bucket : ~ BeforeInChain(s, bucket[i])})
    IN  SubSeq(bucket, 1, at) \o <<s>> \o SubSeq(bucket, at + 1, Len(bucket))

\* _emit_sync starts a thread for the row and joins it.
_emit_sync(s) == reg' = [pc |-> "joining", hook |-> s, sink |-> "running", claim |-> "free"]

\* register: strict declarations, the tier of the hookpoint, the capability gate.
register(s) ==
    /\ reg.pc = "none" /\ s \in untried
    /\ untried' = untried \ {s}
    /\ \/ \* undeclared hookpoint, or the gate refuses: HookError
          /\ meta[s.point] = NoMeta \/ s.tier \in meta[s.point].subscribable
          /\ UNCHANGED <<buckets, reg>>
       \/ \* a tier the hookpoint does not take: _emit_sync, then HookError
          /\ meta[s.point] # NoMeta /\ s.tier \notin meta[s.point].subscribable
          /\ _emit_sync(s)
          /\ UNCHANGED buckets
       \/ /\ hookpoint_meta(s.point) # NoMeta /\ s.tier \in meta[s.point].subscribable
          /\ buckets' = [buckets EXCEPT ![s.point] = Insert(@, s)]
          /\ UNCHANGED reg
    /\ UNCHANGED <<meta, flow, chain, rows, faults, flushed>>

\* _emit_sync under a running loop: the daemon thread drives the sink without
\* the claim; the row lands, or the sink raises, or it hangs.
_drive ==
    /\ reg.sink = "running"
    /\ \/ /\ reg' = [reg EXCEPT !.sink = "written"]
          /\ rows' = rows \cup {<<"tier_rejected", reg.hook.fn>>}
       \/ /\ reg' = [reg EXCEPT !.sink = "raised"]
          /\ UNCHANGED rows
    /\ UNCHANGED <<meta, buckets, untried, flow, chain, faults, flushed>>

\* The thread takes the claim after the sink returned, if it is still free.
_driveClaims ==
    /\ reg.sink = "written" /\ reg.claim = "free"
    /\ reg' = [reg EXCEPT !.claim = "thread", !.sink = "done"]
    /\ UNCHANGED <<meta, buckets, untried, flow, chain, rows, faults, flushed>>

\* The join ended: because the thread did, or by its timeout.
Joined ==
    /\ reg.pc = "joining"
    /\ \/ /\ reg.sink \in {"done", "raised"}
          /\ reg' = [reg EXCEPT !.pc = IF reg.sink = "done" THEN "recorded" ELSE "raised"]
       \/ reg' = [reg EXCEPT !.pc = "overdue"]
    /\ UNCHANGED <<meta, buckets, untried, flow, chain, rows, faults, flushed>>

\* The caller that found the thread alive falls back when it wins the claim.
Fallback ==
    /\ reg.pc = "overdue"
    /\ IF reg.claim = "free"
       THEN /\ reg' = [reg EXCEPT !.pc = "recorded", !.claim = "caller"]
            /\ rows' = rows \cup {<<"tier_rejected", reg.hook.fn>>}
       ELSE /\ reg' = [reg EXCEPT !.pc = "recorded"]
            /\ UNCHANGED rows
    /\ UNCHANGED <<meta, buckets, untried, flow, chain, faults, flushed>>

\* register raised to its caller; what the thread still does is no one's wait.
RegisterRaises ==
    /\ reg.pc \in {"recorded", "raised"}
    /\ reg' = Quiet
    /\ UNCHANGED <<meta, buckets, untried, flow, chain, rows, faults, flushed>>

\* reset clears both tables.
reset ==
    /\ reg.pc = "none" /\ flow.pc = "idle"
    /\ meta' = [h \in Points |-> NoMeta]
    /\ buckets' = [h \in Points |-> <<>>]
    /\ UNCHANGED <<untried, reg, flow, chain, rows, faults, flushed>>

\* -------------------------------------------------------------------------
\* A chain.  The loop is free only while register is not running.

LoopFree == reg.pc = "none"
Cur == Head(chain.subs)
Closed == Declared(flow.point).failClosed
Kind == KindOf(flow.point)
Fault(f) == faults' = faults \cup {<<flow.point, Cur.fn, f>>}

\* The chain is over: the dispatcher returns ctx or raises.
SettleChain(result, ctx) ==
    /\ chain' = NoChain
    /\ flow' = [flow EXCEPT !.pc = "settled", !.result = result, !.ctx = ctx]

\* What a chain that ran to its end gives its caller.
EndOfChain(ctx) ==
    CASE Kind = "error" -> SettleChain("reraised", flow.ctx)
      [] Kind = "cancel" -> SettleChain("cancelled", flow.ctx)
      [] OTHER -> SettleChain("returned", ctx)

\* Continue with the next subscriber, from ctx.
NextSub(ctx, good) ==
    IF Len(chain.subs) = 1
    THEN EndOfChain(ctx)
    ELSE /\ chain' = [chain EXCEPT !.pc = "pending", !.subs = Tail(@), !.ctx = ctx, !.good = good]
         /\ UNCHANGED flow

\* What the publisher passes must be what the registry has.
_enforce_subscribable_tiers(h) == hookpoint_meta(h) = Declared(h)

\* invoke: the declaration is checked, then the chain is taken as it stands.
invoke(h) ==
    IF ~ _enforce_subscribable_tiers(h)
    THEN /\ chain' = [NoChain EXCEPT !.pc = "emit", !.then = "drift"]
         /\ flow' = [flow EXCEPT !.pc = "chain", !.point = h]
    ELSE IF subscribers_for(h) = <<>>
    THEN /\ chain' = NoChain
         /\ flow' = [flow EXCEPT !.pc = "settled", !.point = h,
                     !.result = CASE KindOf(h) = "error" -> "reraised"
                                  [] KindOf(h) = "cancel" -> "cancelled"
                                  [] OTHER -> "returned"]
    ELSE /\ chain' = [pc |-> "pending", subs |-> subscribers_for(h), ctx |-> flow.ctx,
                      good |-> flow.ctx, then |-> "none"]
         /\ flow' = [flow EXCEPT !.pc = "chain", !.point = h]

Emit(then) == chain' = [chain EXCEPT !.pc = "emit", !.then = then] /\ UNCHANGED flow

\* A substitute of the error chain needs a source tier (T0, T1, T3 of the three
\* subscriber tiers) that is no less trusted than the carrier.
_enforce_substitute_tier(s) ==
    TierRank[s.tier] + (IF s.tier = "user-plugin" THEN 1 ELSE 0) <= meta[flow.point].carrier
_wrap_legacy_substitute_as_outcome ==
    IF meta[flow.point].substitution /\ _enforce_substitute_tier(Cur)
    THEN "substituted" ELSE "refusedSubstitute"

\* The subscriber returns None or a context it built from the one it got; the
\* error chain weighs what it got, the cancel chain only observes.
SubscriberReturns ==
    /\ LoopFree /\ chain.pc = "pending"
    /\ \/ NextSub(chain.ctx, chain.good)
       \/ LET built == Append(chain.ctx, Cur.fn) IN
          CASE Kind \in {"pre", "post"} -> NextSub(built, built)
            [] Kind = "cancel" -> NextSub(chain.ctx, chain.good)
            [] OTHER -> Emit(_wrap_legacy_substitute_as_outcome)
    /\ UNCHANGED <<registryVars, rows, faults, flushed>>

\* The subscriber raises HookRefusal: only the pre chain weighs it.
SubscriberRefuses ==
    /\ LoopFree /\ chain.pc = "pending"
    /\ Fault("refused")
    /\ CASE Kind = "pre" ->
              Emit(IF Cur.tier \in Declared(flow.point).refusable
                   THEN "refusal" ELSE "unauthorized_refusal")
         [] Kind = "cancel" -> Emit("subscriber_error")
         [] OTHER -> SettleChain("refused", flow.ctx)
    /\ UNCHANGED <<registryVars, rows, flushed>>

SubscriberRaises ==
    /\ LoopFree /\ chain.pc = "pending"
    /\ Fault("raised")
    /\ Emit("subscriber_error")
    /\ UNCHANGED <<registryVars, rows, flushed>>

\* The subscriber invokes its own hookpoint: _invoke_internal writes a row and
\* hands the context back.
SubscriberReenters ==
    /\ LoopFree /\ chain.pc = "pending"
    /\ \A r \in rows : r[1] # "reentry_bypass"     \* bound: one re-entry
    /\ rows' = rows \cup {<<"reentry_bypass", flow.point>>}
    /\ UNCHANGED <<registryVars, flow, chain, faults, flushed>>

\* Variant: a subscriber that failed or ran out of time is skipped everywhere.
AfterRowOpen ==
    CASE chain.then = "drift" -> SettleChain("hook_error", flow.ctx)
      [] chain.then = "refusal" -> SettleChain("refused", flow.ctx)
      [] chain.then = "substituted" -> SettleChain("returned", Append(chain.ctx, Cur.fn))
      [] chain.then = "chain_timeout" -> SettleChain("returned", chain.ctx)
      [] OTHER -> NextSub(chain.good, chain.good)

\* What follows the row: raise, or rewind to the last good context and go on.
AfterRow ==
    CASE chain.then = "drift" -> SettleChain("hook_error", flow.ctx)
      [] chain.then = "refusal" -> SettleChain("refused", flow.ctx)
      [] chain.then = "substituted" -> SettleChain("returned", Append(chain.ctx, Cur.fn))
      [] chain.then = "subscriber_error" /\ Closed /\ Kind # "cancel" ->
            SettleChain("subscriber_error", flow.ctx)
      [] chain.then = "chain_timeout" ->
            IF Closed THEN SettleChain("hook_error", flow.ctx) ELSE SettleChain("returned", chain.ctx)
      [] OTHER -> NextSub(chain.good, chain.good)

RowOf == <<chain.then, IF chain.then \in {"drift", "chain_timeout"} THEN flow.point ELSE Cur.fn>>

\* sink.emit: the row commits, or the append fails and its error goes up.
SinkWrites ==
    /\ LoopFree /\ chain.pc = "emit"
    /\ rows' = rows \cup {RowOf}
    /\ AfterRow
    /\ UNCHANGED <<registryVars, faults, flushed>>

SinkFails ==
    /\ LoopFree /\ chain.pc = "emit"
    /\ SettleChain("sink_error", flow.ctx)
    /\ UNCHANGED <<registryVars, rows, faults, flushed>>

\* asyncio.timeout fires at the subscriber, which is cancelled, or at the emit,
\* whose row may have committed; _handle_chain_timeout then writes its own row.
ChainTimeout ==
    /\ LoopFree
    /\ \/ chain.pc = "pending" /\ Fault("timeout") /\ UNCHANGED rows
       \/ /\ chain.pc = "emit" /\ chain.then \notin {"drift", "chain_timeout"}
          /\ rows' \in {rows, rows \cup {RowOf}}
          /\ UNCHANGED faults
    /\ Emit("chain_timeout")
    /\ UNCHANGED <<registryVars, flushed>>

\* The caller's task is cancelled inside a chain: the subscriber or the emit is
\* cancelled with it and nothing in invoke catches it.
ChainCancelled ==
    /\ LoopFree /\ chain.pc \in {"pending", "emit"}
    /\ SettleChain("cancelled", flow.ctx)
    /\ IF chain.pc = "pending"
       THEN Fault("cancelled") /\ UNCHANGED rows
       ELSE rows' \in {rows, rows \cup {RowOf}} /\ UNCHANGED faults
    /\ UNCHANGED <<registryVars, flushed>>

\* -------------------------------------------------------------------------
\* EpisodicMemory.record.

record ==
    /\ LoopFree /\ flow.pc = "idle"
    /\ invoke("before_validate")
    /\ UNCHANGED <<registryVars, rows, faults, flushed>>

\* Flow.pre returned: _validate, which may raise, then the second pre chain.
Validate ==
    /\ LoopFree
    /\ flow.pc = "settled" /\ flow.point = "before_validate" /\ flow.result = "returned"
    /\ \/ invoke("before_db_write")
       \/ flow' = [flow EXCEPT !.pc = "done", !.result = "invalid"] /\ UNCHANGED chain
    /\ UNCHANGED <<registryVars, rows, faults, flushed>>

EnterBody ==
    /\ LoopFree
    /\ flow.pc = "settled" /\ flow.point = "before_db_write" /\ flow.result = "returned"
    /\ flow' = [flow EXCEPT !.pc = "body"]
    /\ UNCHANGED <<registryVars, chain, rows, faults, flushed>>

\* _persist flushes, fails or is cancelled; Flow.body picks the chain.
_persist ==
    /\ LoopFree /\ flow.pc = "body"
    /\ \/ flushed' = flushed \cup {flow.ctx} /\ invoke("after_flush")
       \/ UNCHANGED flushed /\ (invoke("write_failed") \/ invoke("cancelled"))
    /\ UNCHANGED <<registryVars, rows, faults>>

\* The terminal chain settled, or a pre chain raised: record() ends.  The cancel
\* arm re-raises whatever its chain gave.
Finish ==
    /\ LoopFree /\ flow.pc = "settled"
    /\ KindOf(flow.point) # "pre" \/ flow.result # "returned"
    /\ flow' = [flow EXCEPT !.pc = "done",
                !.result = IF flow.point = "cancelled" /\ @ = "returned" THEN "cancelled" ELSE @]
    /\ UNCHANGED <<registryVars, chain, rows, faults, flushed>>

HookNext ==
    \/ declare_hookpoints
    \/ \E s \in Hooks : register(s)
    \/ _drive \/ _driveClaims \/ Joined \/ Fallback \/ RegisterRaises \/ reset
    \/ SubscriberReturns \/ SubscriberRefuses \/ SubscriberRaises \/ SubscriberReenters
    \/ SinkWrites \/ SinkFails \/ ChainTimeout \/ ChainCancelled
    \/ record \/ Validate \/ EnterBody \/ _persist \/ Finish

HookSpec == HookInit /\ [][HookNext]_hookVars

\* -------------------------------------------------------------------------
\* Properties.

Refusable(p, fn) == \E s \in Hooks : s.fn = fn /\ s.point = p /\ s.tier \in Declared(p).refusable

\* The fail-closed security stage: nothing is flushed when a subscriber of
\* before_db_write raised, timed out or refused with the right to refuse, and
\* what is flushed was built only by subscribers that succeeded, the more
\* trusted tiers of a hookpoint first (_run_pre, _handle_chain_timeout).
WriteIsCleared ==
    \A c \in flushed :
        /\ \A f \in faults : f[1] = "before_db_write" =>
              f[3] = "refused" /\ ~ Refusable(f[1], f[2])
        /\ \A i \in DOMAIN c : \A f \in faults : f[2] # c[i]
        /\ \A s, t \in Hooks : \A i, j \in DOMAIN c :
              i < j /\ c[i] = s.fn /\ c[j] = t.fn /\ s.point = t.point
                => TierRank[s.tier] <= TierRank[t.tier]

\* A fault that record() does not raise has a row: its own, or that of the
\* timeout that cut the writing of it short; and register that refuses a tier
\* has written its row to the sink or to the fallback before it raises.
NoSilentFault ==
    /\ flow.pc = "done" /\ flow.result = "returned" =>
          \A f \in faults :
              \/ <<"chain_timeout", f[1]>> \in rows
              \/ \E e \in {"refusal", "unauthorized_refusal", "subscriber_error"} :
                    <<e, f[2]>> \in rows
    /\ reg.pc = "recorded" => <<"tier_rejected", reg.hook.fn>> \in rows

\* What _run_pre's comment says of an authorised refusal ("re-raise so the
\* caller's action body is short-circuited").  Not so at a fail-open hookpoint
\* when the deadline cancels the emit of the refusal row.
RefusalStopsAction ==
    flushed # {} => \A f \in faults : f[3] = "refused" => ~ Refusable(f[1], f[2])

\* What _validate's docstring says of its ValueError ("Flow.body's exception arm
\* -> write_failed error chain").  The call stands before Flow.body.
InvalidReachesErrorChain == flow.result = "invalid" => flow.point = "write_failed"

\* -------------------------------------------------------------------------
\* The invariant behind WriteIsCleared.

\* A chain of hookpoint h: its subscribers, once each, the more trusted first.
Rank(s) == TierRank[s.tier]
Sorted(b, h) ==
    /\ \A i \in DOMAIN b : b[i] \in Hooks /\ b[i].point = h
    /\ \A i, j \in DOMAIN b : i < j => b[i] # b[j] /\ Rank(b[i]) <= Rank(b[j])
RegInv ==
    /\ untried \subseteq Hooks
    /\ buckets \in [Points -> Seq(Hooks)]
    /\ \A h \in Points : /\ Sorted(buckets[h], h)
                         /\ \A i \in DOMAIN buckets[h] : buckets[h][i] \notin untried

Fns == {s.fn : s \in Hooks}
PrePoints == {"before_validate", "before_db_write"}
Early == flow.point \in PrePoints \cup {"none"}
Reached == CASE flow.point = "none" -> {}
             [] flow.point = "before_validate" -> {"before_validate"}
             [] OTHER -> PrePoints

\* A context built at the hookpoints ps, by subscribers without a fault, in tier order.
Built(c, ps) ==
    /\ c \in Seq(Fns)
    /\ \A i \in DOMAIN c : \E s \in Hooks : s.fn = c[i] /\ s.point \in ps
Unfaulted(c, fs) == \A i \in DOMAIN c : \A f \in fs : f[2] # c[i]
Tiered(c) ==
    \A s, t \in Hooks : \A i, j \in DOMAIN c :
        i < j /\ c[i] = s.fn /\ c[j] = t.fn /\ s.point = t.point => Rank(s) <= Rank(t)
Cleared(fs) ==
    \A f \in fs : f[1] = "before_db_write" => f[3] = "refused" /\ ~ Refusable(f[1], f[2])

Results == {"none", "returned", "refused", "reraised", "cancelled", "subscriber_error",
            "hook_error", "sink_error", "invalid"}
Thens == {"none", "drift", "refusal", "unauthorized_refusal", "subscriber_error", "chain_timeout",
          "substituted", "refusedSubstitute"}
FaultInv ==
    \A f \in faults : /\ \E s \in Hooks : s.point = f[1] /\ s.fn = f[2]
                      /\ Early => f[1] \in Reached
FlowInv ==
    /\ flow \in [pc : {"idle", "chain", "settled", "body", "done"}, point : Points \cup {"none"},
                 ctx : Seq(Fns), result : Results]
    /\ flow.pc = "idle" <=> flow.point = "none"
    /\ Early => flushed = {} /\ Built(flow.ctx, Reached) /\ Unfaulted(flow.ctx, faults) /\ Tiered(flow.ctx)
    /\ flow.pc = "body" => flow.point = "before_db_write" /\ Cleared(faults)
    /\ flow.pc = "settled" /\ flow.point = "before_db_write" /\ flow.result = "returned" => Cleared(faults)
    /\ \A c \in flushed : Built(c, PrePoints) /\ Unfaulted(c, faults) /\ Tiered(c) /\ Cleared(faults)

\* The chain being run: the subscribers left have no fault, are not in the
\* context, and are of no more trusted tier than those that built it here.
Running ==
    /\ chain.subs # <<>> /\ Sorted(chain.subs, flow.point) /\ chain.good = chain.ctx
    /\ Early =>
         /\ Built(chain.ctx, Reached) /\ Unfaulted(chain.ctx, faults) /\ Tiered(chain.ctx)
         /\ chain.pc = "emit" =>
              chain.then \in {"refusal", "unauthorized_refusal", "subscriber_error", "chain_timeout"}
         /\ \A k \in DOMAIN chain.subs :
              /\ chain.pc = "pending" \/ k > 1 => \A f \in faults : f[2] # chain.subs[k].fn
              /\ \A i \in DOMAIN flow.ctx : flow.ctx[i] # chain.subs[k].fn
              /\ \A i \in DOMAIN chain.ctx :
                   /\ chain.ctx[i] # chain.subs[k].fn
                   /\ \A s \in Hooks : s.fn = chain.ctx[i] /\ s.point = flow.point
                                         => Rank(s) <= Rank(chain.subs[k])
    /\ flow.point = "before_db_write" =>
         \/ Cleared(faults)
         \/ chain.pc = "emit" /\ chain.then \in {"refusal", "subscriber_error", "chain_timeout"}
ChainInv ==
    /\ chain \in [pc : {"none", "pending", "emit"}, subs : Seq(Hooks), ctx : Seq(Fns),
                  good : Seq(Fns), then : Thens]
    /\ flow.pc = "chain" <=> chain.pc # "none"
    /\ chain.pc # "none" => (chain.pc = "emit" /\ chain.then = "drift") \/ Running
HookInv == RegInv /\ FaultInv /\ FlowInv /\ ChainInv
InChain == FaultInv /\ FlowInv /\ ChainInv /\ chain.pc # "none"
=============================================================================
