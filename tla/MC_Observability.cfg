CONSTANTS
    e1 = e1
    e2 = e2
    e3 = e3
    e4 = e4
    Envelopes = {e1, e2, e3, e4}
    NoEnvelope = NoEnvelope
    Telemetry <- MCTelemetry
    AlertRules <- MCAlertRules
    QueueCapacity = 2
    HistoryLimit = 3
    MaxPublished = 4
    MaxRegistered = 2
SYMMETRY MCSymmetry
SPECIFICATION Spec
INVARIANTS
    EnvelopesAccounted
    AlertsMatchStreaks
    ViewsMatchProcessed
CHECK_DEADLOCK FALSE
