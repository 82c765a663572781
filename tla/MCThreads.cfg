SPECIFICATION MCSpec
CONSTANTS
    None = None
    Clients = {c1, c2}
    loops = 3
    Programs = {"thread_incr", "thread_incr_mutex", "thread_incr_rwlock",
                "thread_incr_spinlock", "thread_incr_psem"}
    Producers = {"p1", "p2", "p3"}
    Cnt <- MCCnt
    ProdMain = "main"
    ProdNobody = "nobody"
    NumJoined = 3
    NumWaiting = 3
    numBarriers = 2
    FileSizes <- MCSizes
    RESP_MSG_SIZE = 2
    QueueMax = 1
    Workers = {"main", "t2", "t3", "t4"}
    NotifyMain = "main"
    mq_maxmsg = 3
    MaxSent = 5
    Queues = {"q1", "q2"}
    Lengths = {0, 1, 2}
    MAX_MTEXT = 1
    PipeSize = 3
    MaxPerQueue = 2
    MaxLines = 1
INVARIANTS UpdatesExact ThreadsSafe FileServerSafe NotifySafe RelayExact
PROPERTIES UnitsConsumed ThreadsAndQueuesServed
CHECK_DEADLOCK FALSE
