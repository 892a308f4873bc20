----------------------------- MODULE MCServices -----------------------------
\* The capability gate, the daemon's lifecycle and the provider calls, for one
\* run. The services share no state here: `machine` names the one that moves in
\* a behaviour, the other two stay as they began.
EXTENDS MCCapabilityGate, DaemonLifecycle, ProviderCalls
VARIABLE machine

AllInit ==
    /\ Init /\ DaemonInit /\ ProviderInit
    /\ machine \in {"gate", "daemon", "provider"}
    /\ machine # "provider" => \A cap \in Caps : row >= cap

GateStep(A) == machine = "gate" /\ A /\ UNCHANGED <<machine, dvars, providerVars>>

AllNext ==
    \/ GateStep(Boot) \/ GateStep(Rebuild) \/ GateStep(Beat)
    \/ GateStep(Push) \/ GateStep(Outage) \/ GateStep(Recovery)
    \/ machine = "daemon" /\ DaemonNext /\ UNCHANGED <<machine, vars, providerVars>>
    \/ machine = "provider" /\ ProviderNext /\ UNCHANGED <<machine, vars, dvars>>

AllSpec == AllInit /\ [][AllNext]_<<machine, vars, dvars, providerVars>>
=============================================================================
