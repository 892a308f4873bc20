----------------------------- MODULE LinkState -----------------------------
(***************************************************************************)
(* The gateway's link-state machine (alfred/gateway/link_state.py): what   *)
(* it emits to the client and where it goes on each event.                 *)
(***************************************************************************)
LinkStates == {"up", "down_signalled", "down_crash", "redialing", "unavailable"}

To(state, control) == [state |-> state, control |-> control]

\* The transition table: the gap is announced when it opens and when it closes,
\* "unavailable" is announced once and absorbs everything.  A redial cannot
\* begin while the link is up: feed raises and leaves the state alone.
Feed(state, event) ==
    IF state = "unavailable" THEN To("unavailable", "none")
    ELSE IF event = "breaker_tripped" THEN To("unavailable", "unavailable")
    ELSE IF state = "up"
    THEN IF event = "core_going_down" THEN To("down_signalled", "reconnecting")
         ELSE IF event = "core_crash_eof" THEN To("down_crash", "reconnecting")
         ELSE IF event = "redial_started" THEN To("up", "raises")
         ELSE To("up", "none")
    ELSE IF event = "core_ready" THEN To("up", "restored")
    ELSE IF event = "redial_started" THEN To("redialing", "none")
    ELSE To(state, "none")
=============================================================================
