------------------------- MODULE MCInboundPipeline -------------------------
\* What a message meets on its way through the core, for one run: the inbound
\* pipeline, the burst limiter, the tiers of content, the secret scans and the
\* outbound queue. They share no state here: `machine` names the one a
\* behaviour is of, and s1 .. s14 are the variables of the other four. The
\* pipeline's variables stay as Init leaves them in the behaviours of another
\* machine.
EXTENDS InboundPipeline, FiniteSets
CONSTANTS
    Limited, Callers, Capacity, Refill, DropAfter, MaxTracked, MaxTime,   \* BurstLimiter
    Handles, BodyTtl,                                                     \* ContentTiers
    Names, PreferFile, Values, Unset, MaxPatterns, MaxReloads,            \* SecretScans
    Outgoing, Consumers, Permits, MaxRetry, MaxPauses, Never              \* OutboundQueue

\* SUPPORTED_SECRETS is a fixed list, shorter than MAX_REDACTOR_PATTERNS.
ASSUME SecretsAssumption ==
    IsFiniteSet(Names) /\ MaxPatterns \in Nat /\ Cardinality(Names) <= MaxPatterns
ASSUME QueueAssumption == Never \notin Nat

VARIABLES machine, s1, s2, s3, s4, s5, s6, s7, s8, s9, s10, s11, s12, s13, s14

slots == <<s1, s2, s3, s4, s5, s6, s7, s8, s9, s10, s11, s12, s13, s14>>
allVars == <<vars, machine, slots>>

Limiter == INSTANCE BurstLimiter WITH Keys <- Limited,
    buckets <- s1, order <- s2, locks <- s3, call <- s4, clock <- s5, granted <- s6, span <- s7
Tier == INSTANCE ContentTiers WITH
    nonce <- s1, value <- s2, refused <- s3, body <- s4, scan <- s5
Secret == INSTANCE SecretScans WITH
    disk <- s1, env <- s2, broker <- s3, fileSecrets <- s4, version <- s5, cache <- s6,
    subscriber <- s7, draft <- s8, left <- s9, told <- s10, matcher <- s11
Outbound == INSTANCE OutboundQueue WITH Messages <- Outgoing, MaxInFlight <- Permits,
    open <- s1, deadline <- s2, timers <- s3, gen <- s4, through <- s5, queue <- s6, free <- s7,
    producer <- s8, consumer <- s9, waited <- s10, scanned <- s11, pauses <- s12, byHand <- s13,
    rescanner <- s14

rest12 == <<s12, s13, s14>>
rest8 == <<s8, s9, s10, s11, rest12>>
rest6 == <<s6, s7, rest8>>

Unused == "unused"
Idle12 == s12 = Unused /\ s13 = Unused /\ s14 = Unused
Idle8 == s8 = Unused /\ s9 = Unused /\ s10 = Unused /\ s11 = Unused /\ Idle12
Idle6 == s6 = Unused /\ s7 = Unused /\ Idle8
Idle1 == s1 = Unused /\ s2 = Unused /\ s3 = Unused /\ s4 = Unused /\ s5 = Unused /\ Idle6

AllInit ==
    /\ Init
    /\ \/ machine = "pipeline" /\ Idle1
       \/ machine = "limiter" /\ Limiter!Init /\ Idle8
       \/ machine = "tiers" /\ Tier!Init /\ Idle6
       \/ machine = "secrets" /\ Secret!Init /\ Idle12
       \/ machine = "outbound" /\ Outbound!Init

Of(name, A) == machine = name /\ A /\ UNCHANGED <<vars, machine>>

AllNext ==
    \/ machine = "pipeline" /\ Next /\ UNCHANGED <<machine, slots>>
    \/ Of("limiter", Limiter!Next) /\ UNCHANGED rest8
    \/ Of("tiers", Tier!Next) /\ UNCHANGED rest6
    \/ Of("secrets", Secret!Next) /\ UNCHANGED rest12
    \/ Of("outbound", Outbound!Next)

AllSpec == AllInit /\ [][AllNext]_allVars
-----------------------------------------------------------------------------
\* No key gets more than its rate (BurstLimiter!RateHolds).
RateHolds == machine = "limiter" => Limiter!RateHolds

\* What came in as T3 stays T3 (ContentTiers!T3StaysT3).
T3StaysT3 == machine = "tiers" => Tier!T3StaysT3

\* A text that leaves carries no current secret (SecretScans!CurrentSecretsStay).
CurrentSecretsStay == [][(machine = "secrets") => Secret!LeavesClean]_allVars

\* What waited out a pause was scanned again (OutboundQueue!WaitedIsRescanned).
WaitedIsRescanned == machine = "outbound" => Outbound!WaitedIsRescanned
=============================================================================
