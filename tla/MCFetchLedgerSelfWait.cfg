SPECIFICATION Spec
CONSTANTS
    Ingest = {p1}
    Key = {k1, k2}
    Payload = {x, y}
    Committing = {}
    Saving = {}
    MaxTime = 1
    MaxAttempts = 3
    MaxFaults = 0
    NoKey = NoKey
    NoPayload = NoPayload
    NoTxn = NoTxn
    Committed = Committed
    Interval = 1
    Timeout = 0
INVARIANT NeverWaitsOnItself
CHECK_DEADLOCK FALSE
