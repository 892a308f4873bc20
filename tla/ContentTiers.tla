------------------------------ MODULE ContentTiers ------------------------------
(***************************************************************************)
(* Content on its way into the core: the tagged values that carry its      *)
(* trust tier and the ways to make, copy and read them back, the content   *)
(* store that keeps a body until it is extracted, the canary scan of a     *)
(* stored body, and the promotion of an attachment to a handle.            *)
(*                                                                         *)
(* Sources: security/tiers.py, plugins/web_fetch/content_store.py,         *)
(* plugins/web_fetch/canary_scanner.py, comms_mcp/sub_payload_promotion.py.*)
(*                                                                         *)
(* A tagged value is its declared tier (the parameter of TaggedContent, or *)
(* "any") with the tier it carries and where its content first came from.  *)
(* A body's TTL is counted down; at 0 it is gone.  The slots of the handle *)
(* cap are not under the handles of stored bodies: WebFetch has them.      *)
(***************************************************************************)
EXTENDS Naturals

CONSTANTS Handles,      \* content handles
          BodyTtl       \* deadline + retries * budget + slack

VARIABLES nonce,        \* _AUTHORIZED_T3_NONCE has been minted
          value,        \* the tagged value in hand
          refused,      \* why the last attempt was refused
          body,         \* Redis: the body of every handle, with its remaining life
          scan          \* where the scan of every handle is

cvars == <<nonce, value, refused, body, scan>>
Store == <<body, scan>>
Tags == <<nonce, value, refused>>

Tiers == {"T0", "T1", "T2", "T3"}
Value(param, tier, origin) == [param |-> param, tier |-> tier, origin |-> origin]
NoValue == Value("any", "none", "none")
NoBody == [what |-> "none", left |-> 0]

Init ==
  /\ nonce = FALSE
  /\ value = NoValue
  /\ refused = "none"
  /\ body = [h \in Handles |-> NoBody]
  /\ scan = [h \in Handles |-> "none"]

(***************************************************************************)
(* Tagged values.                                                          *)
(***************************************************************************)
_set_authorized_t3_nonce ==
  /\ nonce' = TRUE
  /\ UNCHANGED <<value, refused, Store>>

\* An approved tier, the parameter's own where there is one, and T3 only within tag_t3.
_enforce_tier_admissible(param, tier, authorized) ==
  /\ tier \in Tiers
  /\ param = "any" \/ param = tier
  /\ tier = "T3" => authorized

Refused(why) == refused' = why /\ UNCHANGED <<nonce, value, Store>>

Made(v) == value' = v /\ refused' = "none" /\ UNCHANGED <<nonce, Store>>

\* The constructor, model_validate of a wire form and model_construct pass one guard.
Construct(param, tier) ==
  IF _enforce_tier_admissible(param, tier, FALSE) THEN Made(Value(param, tier, tier))
  ELSE Refused("tier")

\* tag() makes the parametrised class of its tier, and has no nonce to give for T3.
tag(tier) == IF tier = "T3" THEN Refused("nonce") ELSE Made(Value(tier, tier, tier))

\* The caller's nonce must be the minted one; the authorisation ends with the call.
tag_t3_with_nonce(held) ==
  IF held /\ nonce /\ _enforce_tier_admissible("T3", "T3", TRUE)
  THEN Made(Value("T3", "T3", "T3"))
  ELSE Refused("nonce")

\* Variant: the update of a copy passes the guard of the bare class.
CopyUnguarded(tier) ==
  /\ value # NoValue
  /\ IF tier = value.tier THEN Made(value)
     ELSE IF _enforce_tier_admissible("any", tier, FALSE)
          THEN Made([value EXCEPT !.tier = tier])
          ELSE Refused("tier")

\* A copy without an update is free; an update of the tier passes the guard of the class.
model_copy(tier) ==
  /\ value # NoValue
  /\ IF tier = value.tier THEN Made(value)
     ELSE IF _enforce_tier_admissible(value.param, tier, FALSE)
          THEN Made([value EXCEPT !.tier = tier])
          ELSE Refused("tier")

\* The wire form names the tier; reading it back is a construction like any other.
_resolve_tier_from_wire(param) ==
  /\ value # NoValue
  /\ IF _enforce_tier_admissible(param, value.tier, FALSE)
     THEN Made([value EXCEPT !.param = param])
     ELSE Refused("tier")

Tagging ==
  \/ _set_authorized_t3_nonce
  \/ \E param \in Tiers \cup {"any"}, tier \in Tiers : Construct(param, tier)
  \/ \E tier \in Tiers : tag(tier)
  \/ \E held \in BOOLEAN : tag_t3_with_nonce(held)
  \/ \E tier \in Tiers : model_copy(tier)
  \/ \E param \in Tiers \cup {"any"} : _resolve_tier_from_wire(param)

(***************************************************************************)
(* Stored bodies.                                                          *)
(***************************************************************************)
write(h) ==
  /\ scan[h] = "none"
  /\ \E what \in {"clean", "canary"} :
       body' = [body EXCEPT ![h] = [what |-> what, left |-> BodyTtl]]
  /\ scan' = [scan EXCEPT ![h] = "stored"]
  /\ UNCHANGED Tags

\* The body is read without being consumed; one that is gone is an error of its own.
Peek(h) ==
  /\ scan[h] = "stored"
  /\ scan' = [scan EXCEPT ![h] =
       CASE body[h] = NoBody -> "missing"
         [] body[h].what = "canary" -> "tripped"
         [] OTHER -> "passed"]
  /\ UNCHANGED <<body, Tags>>

\* A canary: the body is deleted, or cannot be; the caller gets the canary either way.
Quarantine(h) ==
  /\ scan[h] = "tripped"
  /\ body' \in {body, [body EXCEPT ![h] = NoBody]}
  /\ scan' = [scan EXCEPT ![h] = "raised"]
  /\ UNCHANGED Tags

\* GETDEL, by whom holds a handle that passed.
extract(h) ==
  /\ scan[h] = "passed"
  /\ body' = [body EXCEPT ![h] = NoBody]
  /\ scan' = [scan EXCEPT ![h] = "extracted"]
  /\ UNCHANGED Tags

\* A promoted attachment is written under a new handle, which no scan reads.
promote(h) ==
  /\ scan[h] = "none"
  /\ body' = [body EXCEPT ![h] = [what |-> "promoted", left |-> BodyTtl]]
  /\ scan' = [scan EXCEPT ![h] = "promoted"]
  /\ UNCHANGED Tags

Tick ==
  /\ \E h \in Handles : body[h].left > 0
  /\ body' = [h \in Handles |->
       IF body[h].left <= 1 THEN NoBody ELSE [body[h] EXCEPT !.left = @ - 1]]
  /\ UNCHANGED <<scan, Tags>>

Storing ==
  \/ Tick
  \/ \E h \in Handles : write(h) \/ promote(h) \/ Peek(h) \/ Quarantine(h) \/ extract(h)

Next == Tagging \/ Storing

Spec == Init /\ [][Next]_cvars

-------------------------------------------------------------------------------
\* Content that came in as T3 is T3 in every value made from it, by copies and round trips in
\* any order, and exists at all only once the nonce has been minted.
T3StaysT3 ==
  /\ value.origin = "T3" => value.tier = "T3"
  /\ value.tier = "T3" => value.origin = "T3" /\ nonce

\* A value whose tier is T3 was made under the type parameter of T3.
TagInv ==
  /\ value = Value(value.param, value.tier, value.origin)
  /\ value.tier = "T3" => value.param = "T3"
  /\ T3StaysT3
===============================================================================
