\* Slow processes and providers: leases may run out under a live attempt.
SPECIFICATION Safe
CONSTANTS
    Jobs = 2
    Worker = {w1, w2}
    NoWorker = NoWorker
    BatchSize = 2
    LeaseTime = 2
    BaseWait = 1
    MaxWait = 3
    MaxExp = 2
    MaxFaults = 2
    Prompt = FALSE
SYMMETRY WorkerSymmetry
INVARIANTS TypeOK LeaseExclusive DeliveredWasAccepted
PROPERTIES DeliveredIsFinal
