SPECIFICATION FairSpec
CONSTANTS
    v1 = v1
    v2 = v2
    x = x
    o = o
    Packets <- MCPackets
    Outgoing = {o}
    Loads <- MCLoads
    Cap = 1
    Hung = {"voice"}
INVARIANTS TypeOK PipelineInOrder EndedDrained
PROPERTIES ImplementsCallbacks EarlyHandlerServed ReceiversNeverBlock
PROPERTIES PipelinesIndependent ProcessorsEnd
CHECK_DEADLOCK FALSE
