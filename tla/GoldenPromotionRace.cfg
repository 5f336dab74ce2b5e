SPECIFICATION Spec
CONSTANTS
  a = a  b = b  d = d  k = k  baseline = baseline  s1 = s1  s2 = s2
  Sources = {baseline}
  Assignments = {a}
  Definitions = {d}
  Controls = {k}
  Provider <- MCProvider
  Part <- MCPart
  Snapshots = {s1, s2}
  Covers <- MCCovers
  Shows <- MCShows
  WebWriters = {w1}
  CliWriters = {c1}
  Kinds = {"confirm", "promote", "cli_import", "cli_edit", "cli_promote"}
  Failures = TRUE
  MaxIds = 3
 
PROPERTIES ConfirmedAsCompared
CHECK_DEADLOCK FALSE
