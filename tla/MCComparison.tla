---------------------------- MODULE MCComparison ----------------------------
(* Identity u may reach the application role C through the composite role  *)
(* P, the composite Q nested in it (and in a cycle with it) and the group  *)
(* G, or hold it through one or two origins.  N and v have no native ids,  *)
(* and an older Golden Source calls N "Old".  X is not in the catalog.     *)
EXTENDS Comparison, TLC

MCAccesses == {"P", "Q", "C", "G", "N", "Old", "X"}

MCAssignments == {"p1", "g1", "c1", "c2", "n1", "x1"}

MCHolds == "p1" :> "P" @@ "g1" :> "G" @@ "c1" :> "C" @@ "c2" :> "C" @@ "n1" :> "N" @@ "x1" :> "X"

MCHolder == "p1" :> "u" @@ "g1" :> "u" @@ "c1" :> "u" @@ "c2" :> "u" @@ "n1" :> "v" @@ "x1" :> "w"

MCRelations == {"pq", "qc", "pc", "qp", "gc", "px"}

MCParent == "pq" :> "P" @@ "qc" :> "Q" @@ "pc" :> "P" @@ "qp" :> "Q" @@ "gc" :> "G" @@ "px" :> "P"

MCChild == "pq" :> "Q" @@ "qc" :> "C" @@ "pc" :> "C" @@ "qp" :> "P" @@ "gc" :> "C" @@ "px" :> "X"

Collected(A, R) ==
    [assignments : A, relations : R, catalog : {{"P", "Q", "C", "G", "N"}}]

MCSnapshots ==
    Collected({{"p1"}, {"g1", "c1"}, {"p1", "g1", "c1"}}, SUBSET MCRelations)
    \cup Collected({{"c1", "c2"}, {"n1", "x1"}, {"c1", "n1"}, {"p1", "n1"}}, {{}, {"pc", "gc"}})

MCProvider == [x \in MCAccesses |-> IF x \in {"N", "Old"} THEN "files" ELSE "keycloak"]

MCControlNative ==
    "P" :> "n-P" @@ "Q" :> "n-Q" @@ "C" :> "n-C" @@ "G" :> "n-G" @@ [x \in MCAccesses |-> None]

MCPermission == [x \in MCAccesses |-> "member"]

MCDisplayName == [x \in MCAccesses |-> IF x = "N" THEN "Old" ELSE None]

MCRawNative == [a \in MCAssignments |-> IF a \in {"c1", "c2"} THEN "n-C" ELSE None]

MCIdentityNative == "u" :> "S-1" @@ "v" :> None @@ "w" :> None

Expect(x, i, native, identityNative) ==
    [access |-> x, identity |-> i, native |-> native, permission |-> "member",
     identityNative |-> identityNative]

(* C as it is, under an older name, of another object with the same names, *)
(* and without native ids; N by its name and by its older one.             *)
MCGoldens ==
    {None, {},
     {Expect("C", "u", "n-C", "S-1"), Expect("N", "v", None, None)},
     {Expect("Old", "u", "n-C", "S-1"), Expect("Old", "v", None, None)},
     {Expect("C", "u", "n-C", "S-0"), Expect("P", "u", "n-P", "S-1")},
     {Expect("C", "u", None, None), Expect("N", "v", None, "S-2")}}

MCScopes ==
    {[complete |-> TRUE, type |-> "all", values |-> {}],
     [complete |-> FALSE, type |-> "all", values |-> {}],
     [complete |-> TRUE, type |-> "providers", values |-> {"files"}],
     [complete |-> TRUE, type |-> "accesses", values |-> {"C"}]}

(* The native ids above do their work.                                     *)
ASSUME MCKeysIdentify == KeysIdentify
=============================================================================
