SPECIFICATION Spec
CONSTANTS
    MaxRevision = 5
    None = None
INVARIANTS TypeOK ReportIsSnapshot HistoricalFindingHolds
CHECK_DEADLOCK FALSE
