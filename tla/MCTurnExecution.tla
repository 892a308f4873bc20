-------------------------- MODULE MCTurnExecution --------------------------
\* The turns of a user, on small sets of messages and calls, the hook
\* dispatcher around the episodic store they write to, and the identity store
\* their sender is resolved from. The three share no state here: `machine`
\* names the one that moves in a behaviour, the other two stay as they began.
EXTENDS TurnExecution, HookDispatch, Identity

CONSTANT Machines      \* the machines a run starts
VARIABLE machine

\* Eight subscribers of the episodic store's hookpoints, of all three tiers.
MCHooks ==
    {[fn |-> s[1], point |-> s[2], tier |-> s[3]] : s \in
        {<<"v1", "before_validate", "user-plugin">>, <<"w1", "before_db_write", "operator">>,
         <<"w2", "before_db_write", "system">>, <<"w3", "before_db_write", "user-plugin">>,
         <<"e1", "write_failed", "user-plugin">>, <<"e2", "write_failed", "system">>,
         <<"c1", "cancelled", "operator">>, <<"a1", "after_flush", "operator">>}}

AllInit ==
    /\ Init /\ HookInit /\ IdentityInit
    /\ machine \in Machines
    /\ machine # "hooks" => untried = {}

TurnStep(A) == machine = "turn" /\ A /\ UNCHANGED <<machine, hookVars, ivars>>

AllNext ==
    \/ TurnStep(\E i \in Inbounds : Step(i)) \/ TurnStep(EvictToCap) \/ TurnStep(Crash)
    \/ machine = "hooks" /\ HookNext /\ UNCHANGED <<machine, vars, ivars>>
    \/ machine = "identity" /\ IdentityNext /\ UNCHANGED <<machine, vars, hookVars>>

AllSpec == AllInit /\ [][AllNext]_<<machine, vars, hookVars, ivars>>
=============================================================================
