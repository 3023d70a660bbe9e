SPECIFICATION FairSpec
CONSTANTS
    Users <- NoPlayers
    GMs <- TwoGMs
    Txs = {t1}
    NoUser = NoUser
    MaxEvents = 3
    MaxFaults = 1
INVARIANTS
    TypeOK
    BarrierHolds
    ChoiceAgreed
PROPERTIES
    EpochAdvances
    TransitionsEnd
CHECK_DEADLOCK FALSE
