SPECIFICATION FairSpec
CONSTANTS
    Users <- GMAndPlayer
    GMs <- OneGM
    Txs = {t1, t2}
    NoUser = NoUser
    MaxEvents = 5
    MaxFaults = 0
INVARIANTS
    AuthorityKnows
    RecordsSurvive
    AuthorityPersisted
CHECK_DEADLOCK FALSE
PROPERTIES TransitionsEnd
