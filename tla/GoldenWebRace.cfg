SPECIFICATION Spec
CONSTANTS
  a = a  b = b  d = d  k = k  baseline = baseline  s1 = s1  s2 = s2
  Sources = {baseline}
  Assignments = {a}
  Definitions = {d}
  Controls = {k}
  Provider <- MCProvider
  Part <- MCPart
  Snapshots = {s1}
  Covers <- MCCovers
  Shows <- AllShown
  WebWriters = {w1, w2}
  CliWriters = {}
  Kinds = {"edit", "adopt", "describe", "annotate", "from_scratch", "baseline"}
  Failures = TRUE
  MaxIds = 3
INVARIANTS VersionsContiguous ActiveIsNewest CommentsFollow AuditedStored
CHECK_DEADLOCK FALSE
