SPECIFICATION FairSpec
CONSTANTS
    p = p
    q = q
    me = me
    s1 = s1
    s2 = s2
    s3 = s3
    c1 = c1
    c2 = c2
    m1 = m1
    m2 = m2
    NoSession = NoSession
    NoCall = NoCall
    Self = me
    Peers <- MCPeers
    Sessions <- MCSessions
    Calls = {c1, c2}
    Messages = {m1, m2}
    Starts <- MCStarts
    RequestErrors = {"requestTimeout"}
INVARIANTS TypeOK NoCircularWait LeftIsGone
PROPERTIES RegistrySteps LeaveReturns CallsReturn ClosingEmpties MessagesEnd
CHECK_DEADLOCK FALSE
