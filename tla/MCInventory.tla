---------------------------- MODULE MCInventory ----------------------------
(* Instances of Inventory for TLC.  The directory "ad" has two accounts and *)
(* one group, which also has the account of "ldap" as a member; "ldap" has  *)
(* one account and two groups, one granting the other, and is collected     *)
(* under three scopes, of which two cover a whole tree.                     *)
EXTENDS Inventory, TLC

CONSTANTS n1, n2, l1, g1, h1, h2, ann, bob, fin, ops

Object(n, s) == [native |-> n, name |-> s]

(* A complete or partial listing of the accounts I, all members of g1.     *)
AdListing(I, group, foreign, full) ==
    [identities |-> I, accesses |-> {Object(g1, group)},
     members |-> {g1} \X ({i.native : i \in I} \cup foreign),
     relations |-> {}, graph |-> FALSE, full |-> full, scope |-> "all"]

AdListings(foreign) ==
    UNION {{AdListing({Object(n1, ann)}, fin, foreign, full),
            AdListing({Object(n1, bob)}, ops, foreign, full),
            AdListing({Object(n1, bob), Object(n2, ann)}, fin, foreign, full)} :
               full \in BOOLEAN}

LdapListing(I, group, scope) ==
    [identities |-> I, accesses |-> {Object(h1, group), Object(h2, bob)}, members |-> {},
     relations |-> {<<h1, h2>>}, graph |-> TRUE, full |-> TRUE, scope |-> scope]

LdapListings ==
    {LdapListing({Object(l1, ann)}, fin, "all"), LdapListing({Object(l1, bob)}, ops, "all"),
     LdapListing({}, fin, "other"), LdapListing({}, fin, "reduced")}

MCType == [p \in Providers |-> IF p = "ad" THEN "active_directory" ELSE "openldap"]
MCRealm == [s \in Scopes |-> "realm"]
MCObservations == [p \in Providers |-> IF p = "ad" THEN AdListings({l1}) ELSE LdapListings]
MCHandles == [w \in Workers |-> IF w = "w1" THEN {"ad"} ELSE {"ldap"}]

(* Every collection above lists the accounts of its own source that its    *)
(* groups have as members.                                                 *)
ASSUME MCMembersCollected == MembersCollected

(* One worker serves each directory.                                       *)
ASSUME MCOneAtATime == OneAtATime
============================================================================
