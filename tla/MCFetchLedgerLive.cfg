SPECIFICATION FairSpec
CONSTANTS
    Ingest = {p1}
    Key = {k1, k2}
    Payload = {x, y}
    Committing = {}
    Saving = {p1}
    MaxTime = 2
    MaxAttempts = 2
    MaxFaults = 1
    NoKey = NoKey
    NoPayload = NoPayload
    NoTxn = NoTxn
    Committed = Committed
    Interval = 1
    Timeout = 0
PROPERTIES ImplementsLedger OpenIsReported
CHECK_DEADLOCK FALSE
