\* Prompt settling, batches of one row, fair processes: liveness and the promise.
SPECIFICATION Spec
CONSTANTS
    Jobs = 2
    Worker = {w1, w2}
    NoWorker = NoWorker
    BatchSize = 1
    LeaseTime = 2
    BaseWait = 1
    MaxWait = 2
    MaxExp = 1
    MaxFaults = 1
    Prompt = TRUE
PROPERTIES SingleDispatch EventuallyDelivered Implements
