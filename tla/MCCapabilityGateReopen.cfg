SPECIFICATION FairSpec
CONSTANTS
    FirstParty <- MCFirstParty
    AdapterKeys <- MCAdapterKeys
    OperatorKeys <- MCOperatorKeys
    MaxHeads = 1
    MaxFaults = 2
    MaxMissed = 2
    SinkAccepts = FALSE
    CommitAckLost = FALSE
PROPERTY GateReopens
CHECK_DEADLOCK FALSE
