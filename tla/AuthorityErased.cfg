SPECIFICATION Spec
CONSTANTS
    Users <- NoPlayers
    GMs <- TwoGMs
    Txs = {t1, t2}
    NoUser = NoUser
    MaxEvents = 4
    MaxFaults = 0
INVARIANTS
    RecordsSurvive
CHECK_DEADLOCK FALSE
