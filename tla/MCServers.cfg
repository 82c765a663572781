SPECIFICATION MCSpec
CONSTANTS
    NoClient = NoClient
    FifoClients = {1, 2, 3}
    SeqLen <- MCSeqLen
    INT_MAX = 4
    TcpClients = {"a", "b", "bad"}
    ReqLen <- MCReqLen
    InitSeqNum = 3
    Modulus = 8
    DgClients = {"first", "second"}
    Msgs <- MCMsgs
    DgBufSize = 2
    SV_QLEN = 1
    MaxFaults = 2
    Content <- MCContent
    ScmBufSize = 2
INVARIANTS NumbersSafe LinesExact DatagramsTrue AncillaryTrue
PROPERTIES ServersAnswer
CHECK_DEADLOCK FALSE
