SPECIFICATION FairSpec
CONSTANTS
  x = x  y = y  alice = alice  lead = lead  op = op  None = None
  Campaigns = {c1}
  Rows <- RowX
  Expected <- MCExpected
  Observed <- MCObserved
  Owner <- ManagerOwned
  Exposes <- MCExposes
  Providers <- MCProviders
  Scopes <- CrmOnly
  ScopeRows <- MCScopeRows
  ScopeProviders <- MCScopeProviders
  Managers = {lead, op}
  Admins = {lead}
  Domains <- TwoManagersDomains
  Reviewers = {}
  Requests = {"create", "open", "close", "decide"}
  Failures = FALSE
  MaxOpenings = 2
  DecisionIds = {1, 2}
  ActionIds = {1, 2, 3, 4}
  MaxClock = 1
INVARIANTS RemediationJustified 
PROPERTY RemediationDelivered
CHECK_DEADLOCK FALSE
