------------------------- MODULE ProposalSettlement -------------------------
(***************************************************************************)
(* What the dispatch of proposals promises, whatever fails on the way: a   *)
(* proposal is decided at most once, its handler acts only while it is     *)
(* undecided, and the dispatcher passes only proposals that were decided   *)
(* or excused.  ProposalDispatch implements it.                            *)
(***************************************************************************)
CONSTANTS Proposals, Results

VARIABLES
    decision,   \* the recorded result, "none" before it
    acted,      \* what the handler's runs for a proposal have done
    passed,     \* the proposals the dispatcher will not look at again
    excused     \* the ones it may pass undecided

svars == <<decision, acted, passed, excused>>

Init ==
    /\ decision = [p \in Proposals |-> "none"]
    /\ acted = [p \in Proposals |-> {}]
    /\ passed = {} /\ excused = {}

Act(p) ==
    /\ decision[p] = "none"
    /\ acted[p] \subseteq acted'[p]
    /\ \A q \in Proposals \ {p} : acted'[q] = acted[q]
    /\ UNCHANGED <<decision, passed, excused>>

Decide(p) ==
    /\ decision[p] = "none"
    /\ \E r \in Results : decision' = [decision EXCEPT ![p] = r]
    /\ UNCHANGED <<acted, passed, excused>>

\* What was there at the start, or may not be recorded, is excused for good.
Excuse ==
    /\ excused \subseteq excused'
    /\ UNCHANGED <<decision, acted>>

Pass ==
    /\ passed' \in SUBSET Proposals
    /\ \A p \in passed' : decision[p] # "none" \/ p \in excused'
    /\ Excuse

Move == Pass \/ (Excuse /\ UNCHANGED passed)

Next == Move \/ \E p \in Proposals : Act(p) \/ Decide(p)

Spec == Init /\ [][Next]_svars
=============================================================================
