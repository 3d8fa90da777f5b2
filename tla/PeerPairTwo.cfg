SPECIFICATION FairSpec
CONSTANTS
    a = a
    b = b
    None = None
    Nodes <- MCNodes
    MaxSessions = 4
    MaxConnects = 2
INVARIANTS TypeOK AnswersDieOut UpIsRegistered EndsAgree
PROPERTIES NoHalfConnection SingleConnectWorks
CHECK_DEADLOCK FALSE
