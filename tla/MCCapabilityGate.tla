-------------------------- MODULE MCCapabilityGate --------------------------
\* CapabilityGate with one first-party grant, one adapter and two identities
\* an operator can grant, one of them the adapter's.
EXTENDS CapabilityGate

DlpSubscriber == <<"dlp", "extract", "system">>
Adapter == <<"discord", "*", "operator">>
Fetcher == <<"fetcher", "fetch", "operator">>

MCFirstParty == {[key |-> DlpSubscriber, content |-> "none", branch |-> "system"]}
MCAdapterKeys == {Adapter}
MCOperatorKeys == {Adapter, Fetcher}
=============================================================================
