----------------------------- MODULE MCSurfaces -----------------------------
EXTENDS Surfaces

r11 == [access |-> "a1", access_provider |-> "p1", identity_provider |-> "p1", reviewer |-> "ana"]
r12 == [access |-> "a1", access_provider |-> "p1", identity_provider |-> "p2", reviewer |-> "bob"]
r21 == [access |-> "a2", access_provider |-> "p2", identity_provider |-> "p1", reviewer |-> "nobody"]

AllRows == {r11, r12, r21}
ObservedRows == {r11, r12}
OneRow == {r12}
Versions == <<{r11}, {r11, r21}>>

Everywhere(perimeter) == [type |-> "all", values |-> {}, perimeter |-> perimeter]
AskedScopes == {Everywhere(FALSE),
                [type |-> "providers", values |-> {"p1"}, perimeter |-> TRUE],
                [type |-> "accesses", values |-> {"a2"}, perimeter |-> FALSE]}

Reader(name, role, scopes) == [name |-> name, role |-> role, scopes |-> scopes]
SomeReaders == {Reader("op", "OPERATOR", {"p1"}), Reader("op", "OPERATOR", {"p1", "p2"}),
                Reader("op", "OPERATOR", {"*"}), Reader("adm", "ADMIN", {}), Reader("ana", "GROUP_OWNER", {}),
                Reader("rem", "REMEDIATION_MANAGER", {"p1"}),
                Reader("biz", "BUSINESS_ADMIN", {"*"})}
=============================================================================
