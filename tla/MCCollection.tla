---------------------------- MODULE MCCollection ----------------------------
(* A realm, or a Google customer, with three accounts, groups nested in    *)
(* one another, a client with a role and a service account, and a composite *)
(* realm role.                                                             *)
EXTENDS Importers

CONSTANTS u0, u1, u2, g1, g2, g3, c1, r1, k1

MCOrder == <<u0, u1, u2, g1, g2, g3, c1, r1, k1>>
MCId == {u0, u1, u2, g1, g2, g3, c1, r1, k1}
PlaceOf(x) == CHOOSE i \in DOMAIN MCOrder : MCOrder[i] = x
MCPlace == [k \in MCId \cup (MCId \X MCId) |->
              IF k \in MCId THEN PlaceOf(k) ELSE 9 * PlaceOf(k[1]) + PlaceOf(k[2])]
MCParentGroup == [g \in {g1, g2, g3} |-> CASE g = g1 -> None [] g = g2 -> g1 [] g = g3 -> g2]
MCTopGroup == [g \in {g1, g2, g3} |-> g1]
MCRoleClient == [r \in {r1, k1} |-> IF r = k1 THEN c1 ELSE None]
MCServiceUser == [c \in {c1} |-> u2]
MCAuthorization == {c1}

Source(users) ==
    [users |-> users, enabled |-> users, groups |-> {g1, g2, g3},
     member |-> {<<u1, g1>>, <<u2, g1>>, <<u2, g3>>}, clients |-> {c1}, roles |-> {r1, k1},
     grants |-> {<<u1, r1>>, <<g1, k1>>}, composite |-> {<<r1, k1>>}]
MCWorlds == {Source({u1, u2})}

(* Accounts appear, are disabled and deleted; groups and grants come and go. *)
Without(w, x) ==
    [w EXCEPT !.users = @ \ {x}, !.enabled = @ \ {x}, !.groups = @ \ {x}, !.roles = @ \ {x},
              !.member = {p \in @ : x \notin {p[1], p[2]}}, !.grants = {p \in @ : x \notin {p[1], p[2]}},
              !.composite = {p \in @ : x \notin {p[1], p[2]}}]
MCChanges(w) ==
    {Without(w, x) : x \in {u1, g3, k1} \cap (w.users \cup w.groups \cup w.roles)}
    \cup {[w EXCEPT !.enabled = @ \ {u1}]}
    \cup {[w EXCEPT !.users = @ \cup {u0}, !.enabled = @ \cup {u0}, !.member = @ \cup {<<u0, g1>>}]}
    \cup {[w EXCEPT !.grants = @ \ {<<u1, r1>>}]}

MCRequests ==
    {[kind |-> k, surfaces |-> Required(k), partial |-> FALSE] : k \in Kinds}
    \cup {[kind |-> k, surfaces |-> Required(k), partial |-> TRUE] : k \in Kinds \ {"keycloak"}}
    \cup {[kind |-> "keycloak", surfaces |-> Required("keycloak") \ missing, partial |-> TRUE] :
             missing \in {{"groups"}, {"groups", "clients"}}}
=============================================================================
