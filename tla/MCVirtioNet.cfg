SPECIFICATION Spec
CONSTANTS
    Kinds = {"net", "blk", "console", "balloon", "fs", "vsock"}
    IdxMod = 4
    QSize = 2
    HdrLen = 1
    BufLen = 3
    FrameLens = {3}
    Workloads <- MCWorkloads
INVARIANTS
    ReturnedInOrder TxInOrder RxInOrder RxAnnounced 
PROPERTY RxLosesOnlyWithoutBuffer
