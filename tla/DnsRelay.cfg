\* Four queries, one too short and two with the same ID, for two permits.
CONSTANTS
    q1 = q1
    q2 = q2
    q3 = q3
    q4 = q4
    Queries <- FourQueries
    TxId <- SharedTxId
    Short <- ShortQuery
    MaxConcurrent = 2
    MayFail = TRUE
SPECIFICATION FairSpec
INVARIANTS
    TypeOK
    CrossTalk
    PermitsConserved
    OneOpenSocket
PROPERTIES
    QueriesEnd
CHECK_DEADLOCK FALSE
