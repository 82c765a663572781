SPECIFICATION MCSpec
CONSTANTS
    Byte <- MCByte
    Nul = "0"
    File <- MCFile
    BUF_SIZE = 3
    None = None  long = long  short = short
    Servers = {s1, s2}
    EchoClients = {long, short}
    InputLen <- MCInputLen
    EchoBuf = 1
INVARIANTS TransferSafe EchoSafe StreamsWhole TerminalSafe PtySafe InputSafe
PROPERTIES CopySpec CopiesEach TransfersEnd
CHECK_DEADLOCK FALSE
