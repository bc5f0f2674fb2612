SPECIFICATION Spec
CONSTANTS
    Ingest = {p1, p2}
    Key = {k1, k2}
    Payload = {x, y, z}
    Committing = {p2}
    Saving = {p1}
    MaxTime = 0
    MaxAttempts = 3
    MaxFaults = 0
    NoKey = NoKey
    NoPayload = NoPayload
    NoTxn = NoTxn
    Committed = Committed
    Interval = 1
    Timeout = 0
INVARIANTS TypeOK SuccessIsCommitted CommittedNotFailed OneSuccessor
PROPERTIES ImplementsLedger
SYMMETRY UpstreamSymmetry
CHECK_DEADLOCK FALSE
