---------------------------- MODULE MCCampaign ----------------------------
(* Instances of Campaign for TLC.  Row x is expected and observed and owned *)
(* by alice; row y is expected, missing from the snapshot, and has no       *)
(* owner.  Scope "all" covers both, "crm_only" the first.                   *)
EXTENDS Campaign, TLC

CONSTANTS x, y, alice, lead, op

MCRows == {x, y}
RowX == {x}
MCExpected == {x, y} \cap Rows
MCObserved == {x}
MCOwner == [r \in Rows |-> IF r = x THEN alice ELSE None]
ManagerOwned == [r \in Rows |-> op]
MCExposes == [r \in Rows |-> IF r = x THEN {"crm"} ELSE {"crm", "ldap"}]
MCProviders == {"crm", "ldap"}
MCScopes == {"all", "crm_only"}
MCScopeRows == [s \in Scopes |-> IF s = "all" THEN {x, y} ELSE {x}]
MCScopeProviders == [s \in Scopes |-> IF s = "all" THEN {"crm", "ldap"} ELSE {"crm"}]
OneManagerDomains == (lead :> {"crm", "ldap"})
TwoManagersDomains == (lead :> {"crm", "ldap"}) @@ (op :> {"crm"})
CrmOnly == {"crm_only"}
===========================================================================
