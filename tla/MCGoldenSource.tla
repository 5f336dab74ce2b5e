--------------------------- MODULE MCGoldenSource ---------------------------
(* Instances of GoldenSource for TLC.  The expected assignments a and b    *)
(* belong to two providers; snapshot s1 covers both, s2 only the first.    *)
EXTENDS GoldenSource, TLC

CONSTANTS a, b, d, k, baseline, s1, s2

MCProvider == [x \in Assignments |-> IF x = a THEN "crm" ELSE "ldap"]
MCPart == [x \in Definitions |-> "definitions"]
MCCovers == [x \in Snapshots |-> IF x = s1 THEN {"crm", "ldap"} ELSE {"crm"}]
MCShows == [x \in Snapshots |-> Facts \cap (IF x = s1 THEN {a, k} ELSE {a, d})]
AllShown == [x \in Snapshots |-> Facts]
=============================================================================
