SPECIFICATION Spec
CONSTANTS
  x = x  y = y  alice = alice  lead = lead  op = op  None = None
  Campaigns = {c1}
  Rows <- MCRows
  Expected <- MCExpected
  Observed <- MCObserved
  Owner <- MCOwner
  Exposes <- MCExposes
  Providers <- MCProviders
  Scopes <- MCScopes
  ScopeRows <- MCScopeRows
  ScopeProviders <- MCScopeProviders
  Managers = {lead}
  Admins = {lead}
  Domains <- OneManagerDomains
  Reviewers = {alice}
  Requests = {"create", "update", "open", "close", "cancel", "delete", "decide", "reassign", "follow_up"}
  Failures = TRUE
  MaxOpenings = 2
  DecisionIds = {1, 2}
  ActionIds = {1, 2}
  MaxClock = 0
INVARIANTS ClosedFullyDecided EvidenceOfOpenedCampaign 
PROPERTY DecisionsAppendOnly
CHECK_DEADLOCK FALSE
