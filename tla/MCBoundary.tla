----------------------------- MODULE MCBoundary -----------------------------
\* The replay retention of the gateway and the machines at the edges of the
\* system, for one run: the quarantined child, web fetches, plugin sessions,
\* the gateway's front door and the pipes of an adapter's child. `machine`
\* names the one a behaviour is of, and s1 .. s17 are its variables. The
\* retention's variables stay as Init leaves them in the behaviours of another
\* machine.
EXTENDS GatewayLeg, TLC
CONSTANTS
    Bodies, Discarding, Nothing, Retries, SocketCount,          \* Quarantine
    Fetches, Cap, PerMinute, Daily, Concurrency, MaxAttempts,                  \* WebFetch
    Peers, Strangers, Notes, Calls, Nobody, Permits, Threshold, FailureSpan,   \* PluginSession
    Adapters, MaxBoots, MaxRestarts, MaxPreAck, Planes, Tunnels,               \* GatewayFrontDoor
    Senders, ChildBytes, PipeSize, MaxLine, ChildLines                         \* AdapterWire
VARIABLES machine, s1, s2, s3, s4, s5, s6, s7, s8, s9, s10, s11, s12, s13, s14, s15, s16, s17

slots == <<s1, s2, s3, s4, s5, s6, s7, s8, s9, s10, s11, s12, s13, s14, s15, s16, s17>>
allVars == <<vars, machine, slots>>

Page(d, p) == [domain |-> d, path |-> p]

Quarantined == INSTANCE Quarantine WITH Handles <- Bodies,
    spawn <- s1, alive <- s2, staged <- s3, hpc <- s4, holder <- s5, brokered <- s6, stdin <- s7,
    stdout <- s8, readers <- s9, fds <- s10, job <- s11, answer <- s12, used <- s13,
    auditRows <- s14
\* Two pages, of which the three lists together cover the first alone.
Web == INSTANCE WebFetch WITH
    Urls <- {Page("a", <<"x", "y">>), Page("b", <<"x">>)},
    Manifest <- {Page("a", <<>>), Page("b", <<>>)},
    Operator <- {Page("a", <<"x">>), Page("b", <<"z">>)},
    Session <- {Page("a", <<>>)},
    fetch <- s1, slots <- s2, hits <- s3, daily <- s4, intents <- s5, hop <- s6, upstream <- s7,
    verdicts <- s8
Plugin == INSTANCE PluginSession WITH
    carrier <- s1, accepted <- s2, listener <- s3, conn <- s4, session <- s5, plugin <- s6,
    note <- s7, failures <- s8, failed <- s9, asked <- s10, call <- s11, pipes <- s12
FrontDoor == INSTANCE GatewayFrontDoor WITH
    cmd <- s1, exitCode <- s2, shutdown <- s3, failure <- s4, plane <- s5, conn <- s6, door <- s7,
    drops <- s8, relay <- s9, sweep <- s10, sup <- s11, restarts <- s12, told <- s13,
    child <- s14, epoch <- s15, legs <- s16, listener <- s17
Wire == INSTANCE AdapterWire WITH MaxBytes <- ChildBytes, MaxFrames <- ChildLines,
    host <- s1, child <- s2, closing <- s3, handle <- s4, pump <- s5, pipe <- s6, lines <- s7,
    part <- s8, asm <- s9, logged <- s10, gaveUp <- s11, sender <- s12, nextSeq <- s13,
    stdin <- s14, stdout <- s15, frames <- s16, got <- s17

rest15 == <<s15, s16, s17>>
rest13 == <<s13, s14, rest15>>
rest9 == <<s9, s10, s11, s12, rest13>>

Unused == "unused"
Idle15 == s15 = Unused /\ s16 = Unused /\ s17 = Unused
Idle13 == s13 = Unused /\ s14 = Unused /\ Idle15
Idle9 == s9 = Unused /\ s10 = Unused /\ s11 = Unused /\ s12 = Unused /\ Idle13
Idle1 == s1 = Unused /\ s2 = Unused /\ s3 = Unused /\ s4 = Unused /\ s5 = Unused
         /\ s6 = Unused /\ s7 = Unused /\ s8 = Unused /\ Idle9

AllInit ==
    /\ Init
    /\ \/ machine = "legs" /\ Idle1
       \/ machine = "quarantine" /\ Quarantined!Init /\ Idle15
       \/ machine = "web" /\ Web!Init /\ Idle9
       \/ machine = "plugin" /\ Plugin!Init /\ Idle13
       \/ machine = "front door" /\ FrontDoor!Init
       \/ machine = "wire" /\ Wire!Init

Of(name, A) == machine = name /\ A /\ UNCHANGED <<vars, machine>>

AllNext ==
    \/ machine = "legs" /\ Next /\ UNCHANGED <<machine, slots>>
    \/ Of("quarantine", Quarantined!Next) /\ UNCHANGED rest15
    \/ Of("web", Web!Next) /\ UNCHANGED rest9
    \/ Of("plugin", Plugin!Next) /\ UNCHANGED rest13
    \/ Of("front door", FrontDoor!Next)
    \/ Of("wire", Wire!Next)

AllSpec == AllInit /\ [][AllNext]_allVars

Symmetry == Permutations(Legs) \cup Permutations(Fetches)
-----------------------------------------------------------------------------
\* No socket stays with the child past its extraction (Quarantine!SocketsArePending).
SocketsArePending == machine = "quarantine" => Quarantined!SocketsArePending

\* A fetch reported as timed out has its answer kept or is not sent (WebFetch!TimeoutIsHonest).
TimeoutIsHonest == machine = "web" => Web!TimeoutIsHonest

\* The listener serves one connection (PluginSession!LoneTransport).
LoneTransport == machine = "plugin" => Plugin!LoneTransport

\* A gateway that has exited leaves nothing running (GatewayFrontDoor!NothingLeftBehind).
NothingLeftBehind == machine = "front door" => FrontDoor!NothingLeftBehind

\* What the pump logs as a line is one (AdapterWire!WholeLinesAreLines).
WholeLinesAreLines == machine = "wire" => Wire!WholeLinesAreLines
=============================================================================
