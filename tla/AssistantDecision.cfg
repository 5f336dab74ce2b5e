SPECIFICATION TablesSpec
CONSTANTS
    Providers = {"p1", "p2"}
    Covered = {"p1"}
    Rows <- AllRows
    Observed <- ObservedRows
    Expected <- Versions
    Scopes <- AskedScopes
    Campaigns = {c1}
    Linkable <- OneRow
    MaxDecisions = 2
    Unassigned = "nobody"
    Readers <- SomeReaders
CHECK_DEADLOCK FALSE
INVARIANT CurrentDecisionIsLatest
