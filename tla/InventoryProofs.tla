--------------------------- MODULE InventoryProofs ---------------------------
(* Theorems about Inventory, for any numbers of providers, objects, names,  *)
(* scopes, workers and imports, and whatever the collections contain.       *)
EXTENDS Inventory, SequenceTheorems, TLAPS

-----------------------------------------------------------------------------
(* What the helpers return.                                                *)

LEMMA NamedIn ==
  ASSUME NEW S, NEW x \in S
  PROVE  \E y \in S : y.native = x.native /\ NameIn(S, x.native) = y.name
BY DEF NameIn

LEMMA Observed ==
  ASSUME NEW p \in Providers, NEW o \in Observations[p]
  PROVE  /\ o \in Observation /\ WellFormed(o)
         /\ o.identities \subseteq Named(Natives) /\ o.accesses \subseteq Named(Groups)
         /\ o.members \subseteq Groups \X Natives /\ o.relations \subseteq Groups \X Groups
         /\ o.scope \in Scopes /\ o.graph \in BOOLEAN /\ o.full \in BOOLEAN
<1>1. o \in Observation /\ WellFormed(o)
  BY InventoryAssumption
<1> QED BY <1>1 DEF Observation

(* A unique row: the one the reference is made of.                         *)
LEMMA UniqueRow ==
  ASSUME NEW R, NEW n, Unique(R, n)
  PROVE  \E r \in R : r.native = n /\ RefOf(R, n) = <<r.provider, r.name>>
<1> PICK r \in R : {x \in R : x.native = n} = {r}
  BY DEF Unique
<1>1. r.native = n
  OBVIOUS
<1>2. (CHOOSE x \in R : x.native = n) \in R /\ (CHOOSE x \in R : x.native = n).native = n
  BY <1>1
<1> QED BY <1>2 DEF RefOf

(* What parsing makes of a membership.                                     *)
LEMMA ParsedRow ==
  ASSUME NEW p \in Providers, NEW o \in Observations[p], NEW known, known \subseteq IdentityRow,
         NEW a \in Parsed(p, o, known)
  PROVE  /\ a \in Assignment
         /\ a.provider = p
         /\ a.raw \in o.members
         /\ \E g \in o.accesses : a.access = g.name
         /\ \/ ~a.unresolved /\ \E i \in o.identities : i.native = a.raw[2] /\ a.holder = <<p, i.name>>
            \/ /\ \A i \in o.identities : i.native # a.raw[2]
               /\ \/ a.unresolved /\ a.holder = <<None, a.raw[2]>>
                  \/ ~a.unresolved /\ \E r \in known : r.native = a.raw[2] /\ a.holder = <<r.provider, r.name>>
<1> DEFINE local == {i.native : i \in o.identities}
           K == IF Type[p] \in {"active_directory", "google"} THEN known ELSE {}
           H(m) == IF m[2] \in local THEN <<p, NameIn(o.identities, m[2])>>
                   ELSE IF Unique(K, m[2]) THEN RefOf(K, m[2]) ELSE <<None, m[2]>>
           row(m) == [provider |-> p, access |-> NameIn(o.accesses, m[1]), raw |-> m, holder |-> H(m),
                      unresolved |-> m[2] \notin local /\ ~Unique(K, m[2])]
<1>1. PICK m \in o.members : a = row(m)
  BY DEF Parsed
<1>o. /\ o \in Observation /\ WellFormed(o)
      /\ o.identities \subseteq Named(Natives) /\ o.accesses \subseteq Named(Groups)
      /\ o.members \subseteq Groups \X Natives
  BY Observed
<1>2. PICK g \in o.accesses : NameIn(o.accesses, m[1]) = g.name
  <2>1. PICK g \in o.accesses : g.native = m[1]
    BY <1>o DEF WellFormed
  <2> QED BY <2>1, NamedIn
<1>3. g.name \in Names
  BY <1>o DEF Named
<1>4. m \in Groups \X Natives /\ m[2] \in Natives
  BY <1>o
<1>f. /\ a.provider = p /\ a.access = g.name /\ a.raw = m /\ a.holder = H(m)
      /\ a.unresolved = (m[2] \notin local /\ ~Unique(K, m[2]))
  BY <1>1, <1>2
<1>g. H(m) \in Ref \cup {<<None, n>> : n \in Natives} => a \in Assignment
  BY <1>1, <1>2, <1>3, <1>4 DEF Assignment
<1> HIDE DEF H, row, K
<1>5. CASE m[2] \in local
  <2>1. PICK x \in o.identities : x.native = m[2]
    BY <1>5
  <2>2. PICK i \in o.identities : i.native = m[2] /\ NameIn(o.identities, m[2]) = i.name
    BY <2>1, NamedIn
  <2>3. H(m) = <<p, i.name>> /\ i.name \in Names
    BY <1>5, <2>2, <1>o DEF H, Named
  <2>4. a.holder = <<p, i.name>> /\ ~a.unresolved /\ i.native = a.raw[2]
    BY <1>f, <1>5, <2>2, <2>3
  <2>5. a \in Assignment
    BY <1>g, <2>3 DEF Ref
  <2> QED BY <1>f, <2>4, <2>5
<1>6. CASE m[2] \notin local /\ Unique(K, m[2])
  <2>1. PICK r \in K : r.native = m[2] /\ RefOf(K, m[2]) = <<r.provider, r.name>>
    BY <1>6, UniqueRow
  <2>2. r \in known
    BY DEF K
  <2>3. H(m) = <<r.provider, r.name>> /\ r.provider \in Providers /\ r.name \in Names
    BY <1>6, <2>1, <2>2 DEF H, IdentityRow
  <2>4. a.holder = <<r.provider, r.name>> /\ ~a.unresolved /\ r.native = a.raw[2]
    BY <1>f, <1>6, <2>1, <2>3
  <2>5. a \in Assignment
    BY <1>g, <2>3 DEF Ref
  <2>6. \A i \in o.identities : i.native # a.raw[2]
    BY <1>f, <1>6
  <2> QED BY <1>f, <2>2, <2>4, <2>5, <2>6
<1>7. CASE m[2] \notin local /\ ~Unique(K, m[2])
  <2>1. H(m) = <<None, m[2]>>
    BY <1>7 DEF H
  <2> QED BY <1>f, <1>g, <1>7, <1>4, <2>1
<1> QED BY <1>5, <1>6, <1>7

(* A reference is renamed to the new name of an object it named, or kept.  *)
LEMMA RenamedRef ==
  ASSUME NEW R, NEW O, NEW ref
  PROVE  \/ \E r \in R, i \in O : /\ ref = <<r.provider, r.name>> /\ i.native = r.native
                                  /\ Renamed(R, O, ref) = <<r.provider, i.name>>
         \/ /\ Renamed(R, O, ref) = ref
            /\ \A r \in R, i \in O : ~(ref = <<r.provider, r.name>> /\ i.native = r.native)
<1>1. CASE \E r \in R, i \in O : ref = <<r.provider, r.name>> /\ i.native = r.native
  <2> DEFINE c == CHOOSE x \in R : ref = <<x.provider, x.name>> /\ \E i \in O : i.native = x.native
  <2>1. c \in R /\ ref = <<c.provider, c.name>> /\ \E i \in O : i.native = c.native
    BY <1>1
  <2>2. Renamed(R, O, ref) = <<c.provider, NameIn(O, c.native)>>
    BY <1>1 DEF Renamed
  <2> HIDE DEF c
  <2>3. PICK i \in O : i.native = c.native /\ NameIn(O, c.native) = i.name
    BY <2>1, NamedIn
  <2> QED BY <2>1, <2>2, <2>3
<1>2. CASE ~\E r \in R, i \in O : ref = <<r.provider, r.name>> /\ i.native = r.native
  BY <1>2 DEF Renamed
<1> QED BY <1>1, <1>2

LEMMA KeptIdOf ==
  ASSUME NEW R, NEW i, NEW uuid
  PROVE  \/ \E r \in R : r.native = i.native /\ KeptId(R, i, uuid) = r.id
         \/ (\A r \in R : r.native # i.native) /\ KeptId(R, i, uuid) = <<i.native, uuid>>
BY DEF KeptId

(* A renamed membership differs from the one it was in the names only.     *)
Moved(b, a, own, ownAccesses, o) ==
    /\ b.provider = a.provider /\ b.raw = a.raw /\ b.unresolved = a.unresolved
    /\ b.access = Renamed(ownAccesses, o.accesses, <<a.provider, a.access>>)[2]
    /\ b.holder = Renamed(Live(own), o.identities, a.holder)

LEMMA RenamedRow ==
  ASSUME NEW A, A \subseteq Assignment, NEW own, NEW ownAccesses, NEW o,
         NEW b \in RenameAssignments(A, own, ownAccesses, o)
  PROVE  \E a \in A : Moved(b, a, own, ownAccesses, o)
BY DEF RenameAssignments, Assignment, Moved

LEMMA RowRenamed ==
  ASSUME NEW A, A \subseteq Assignment, NEW own, NEW ownAccesses, NEW o, NEW a \in A
  PROVE  \E b \in RenameAssignments(A, own, ownAccesses, o) : Moved(b, a, own, ownAccesses, o)
<1> DEFINE b == [a EXCEPT !.access = Renamed(ownAccesses, o.accesses, <<a.provider, a.access>>)[2],
                          !.holder = Renamed(Live(own), o.identities, a.holder)]
<1>1. b \in RenameAssignments(A, own, ownAccesses, o)
  BY DEF RenameAssignments
<1>2. Moved(b, a, own, ownAccesses, o)
  BY DEF Assignment, Moved
<1> HIDE DEF b
<1> QED BY <1>1, <1>2

(* A resolved membership differs in its holder only.                       *)
Settled(b, a, R) ==
    /\ b.provider = a.provider /\ b.raw = a.raw /\ b.access = a.access
    /\ \/ b = a /\ ~Resolvable(R, a)
       \/ /\ Resolvable(R, a)
          /\ ~b.unresolved
          /\ \E r \in R : r.native = a.raw[2] /\ b.holder = <<r.provider, r.name>>

LEMMA ResolvedRow ==
  ASSUME NEW R, NEW A, A \subseteq Assignment, NEW b \in Resolve(R, A)
  PROVE  \E a \in A : Settled(b, a, R)
<1>1. PICK a \in A : b = IF Resolvable(R, a)
                        THEN [a EXCEPT !.holder = RefOf(R, a.raw[2]), !.unresolved = FALSE] ELSE a
  BY DEF Resolve
<1>2. CASE Resolvable(R, a)
  <2>1. PICK r \in R : r.native = a.raw[2] /\ RefOf(R, a.raw[2]) = <<r.provider, r.name>>
    BY <1>2, UniqueRow DEF Resolvable
  <2>2. /\ b.provider = a.provider /\ b.raw = a.raw /\ b.access = a.access /\ ~b.unresolved
        /\ b.holder = RefOf(R, a.raw[2])
    BY <1>1, <1>2 DEF Assignment
  <2> QED BY <1>2, <2>1, <2>2 DEF Settled
<1>3. CASE ~Resolvable(R, a)
  BY <1>1, <1>3 DEF Settled
<1> QED BY <1>2, <1>3

LEMMA RowResolved ==
  ASSUME NEW R, NEW A, A \subseteq Assignment, NEW a \in A
  PROVE  \E b \in Resolve(R, A) : Settled(b, a, R)
<1> DEFINE b == IF Resolvable(R, a)
                THEN [a EXCEPT !.holder = RefOf(R, a.raw[2]), !.unresolved = FALSE] ELSE a
<1>1. b \in Resolve(R, A)
  BY DEF Resolve
<1>2. CASE Resolvable(R, a)
  <2>1. PICK r \in R : r.native = a.raw[2] /\ RefOf(R, a.raw[2]) = <<r.provider, r.name>>
    BY <1>2, UniqueRow DEF Resolvable
  <2>2. /\ b.provider = a.provider /\ b.raw = a.raw /\ b.access = a.access /\ ~b.unresolved
        /\ b.holder = RefOf(R, a.raw[2])
    BY <1>2 DEF Assignment
  <2> HIDE DEF b
  <2> QED BY <1>1, <1>2, <2>1, <2>2 DEF Settled
<1>3. CASE ~Resolvable(R, a)
  BY <1>1, <1>3 DEF Settled
<1> QED BY <1>2, <1>3

(* Both keep the type.                                                     *)
LEMMA RenamedType ==
  ASSUME NEW own, own \subseteq IdentityRow, NEW ownAccesses, ownAccesses \subseteq AccessRow,
         NEW p \in Providers, NEW o \in Observations[p],
         NEW A, A \subseteq Assignment
  PROVE  RenameAssignments(A, own, ownAccesses, o) \subseteq Assignment
<1> SUFFICES ASSUME NEW b \in RenameAssignments(A, own, ownAccesses, o) PROVE b \in Assignment
  OBVIOUS
<1>1. PICK a \in A :
         b = [a EXCEPT !.access = Renamed(ownAccesses, o.accesses, <<a.provider, a.access>>)[2],
                       !.holder = Renamed(Live(own), o.identities, a.holder)]
  BY DEF RenameAssignments
<1> DEFINE ac == Renamed(ownAccesses, o.accesses, <<a.provider, a.access>>)[2]
           h == Renamed(Live(own), o.identities, a.holder)
<1>2. a \in Assignment /\ a.provider \in Providers /\ a.access \in Names
  BY DEF Assignment
<1>o. o.identities \subseteq Named(Natives) /\ o.accesses \subseteq Named(Groups)
  BY Observed
<1>3. ac \in Names
  <2>1. CASE Renamed(ownAccesses, o.accesses, <<a.provider, a.access>>) = <<a.provider, a.access>>
    BY <1>2, <2>1
  <2>2. CASE \E r \in ownAccesses, i \in o.accesses :
               Renamed(ownAccesses, o.accesses, <<a.provider, a.access>>) = <<r.provider, i.name>>
    BY <1>o, <2>2 DEF Named
  <2> QED BY <2>1, <2>2, RenamedRef
<1>4. h = a.holder \/ h \in Ref
  <2>1. CASE \E r \in Live(own), i \in o.identities : h = <<r.provider, i.name>>
    <3>1. PICK r \in Live(own), i \in o.identities : h = <<r.provider, i.name>>
      BY <2>1
    <3>2. r.provider \in Providers /\ i.name \in Names
      BY <1>o DEF Named, Live, IdentityRow
    <3> QED BY <3>1, <3>2 DEF Ref
  <2> QED BY <2>1, RenamedRef
<1>5. h \in Ref \cup {<<None, n>> : n \in Natives}
  BY <1>2, <1>4 DEF Assignment
<1>6. b = [a EXCEPT !.access = ac, !.holder = h]
  BY <1>1
<1> HIDE DEF ac, h
<1> QED BY <1>2, <1>3, <1>5, <1>6 DEF Assignment

LEMMA ResolvedType ==
  ASSUME NEW R, R \subseteq IdentityRow, NEW A, A \subseteq Assignment
  PROVE  Resolve(R, A) \subseteq Assignment
<1> SUFFICES ASSUME NEW b \in Resolve(R, A) PROVE b \in Assignment
  OBVIOUS
<1>1. PICK a \in A : b = IF Resolvable(R, a)
                        THEN [a EXCEPT !.holder = RefOf(R, a.raw[2]), !.unresolved = FALSE] ELSE a
  BY DEF Resolve
<1>2. CASE Resolvable(R, a)
  <2>1. PICK r \in R : r.native = a.raw[2] /\ RefOf(R, a.raw[2]) = <<r.provider, r.name>>
    BY <1>2, UniqueRow DEF Resolvable
  <2>2. RefOf(R, a.raw[2]) \in Ref
    BY <2>1 DEF Ref, IdentityRow
  <2> QED BY <1>1, <1>2, <2>2 DEF Assignment
<1>3. CASE ~Resolvable(R, a)
  BY <1>1, <1>3
<1> QED BY <1>2, <1>3

-----------------------------------------------------------------------------
(* The rows of a provider after an import: listed anew, or not listed.     *)

Listed(s, O) == \E i \in O : s.native = i.native /\ s.name = i.name

IdKept(s, R, uuid) ==
    \/ \E r \in R : r.native = s.native /\ s.id = r.id
    \/ (\A r \in R : r.native # s.native) /\ s.id = <<s.native, uuid>>

Left(s, R, O, authoritative) ==
    /\ \A i \in O : i.native # s.native
    /\ \E r \in R : /\ r.native = s.native /\ r.name = s.name /\ r.id = s.id
                   /\ s.live = (r.live /\ ~authoritative)

Spared(s, R, O) == s \in R /\ \A i \in O : i.native # s.native /\ i.name # s.name

LEMMA ReconciledIdentity ==
  ASSUME NEW p \in Providers, NEW o \in Observations[p], NEW R, R \subseteq IdentityRow,
         \A r \in R : r.provider = p, NEW uuid \in BatchIds, NEW authoritative \in BOOLEAN,
         NEW s \in ReconcileIdentities(R, p, o, uuid, authoritative)
  PROVE  /\ s \in IdentityRow
         /\ s.provider = p
         /\ \/ s.live /\ Listed(s, o.identities) /\ IdKept(s, R, uuid)
            \/ Left(s, R, o.identities, authoritative)
<1>o. o.identities \subseteq Named(Natives)
  BY Observed
<1>1. CASE \E i \in o.identities :
             s = [provider |-> p, native |-> i.native, name |-> i.name, live |-> TRUE,
                  id |-> KeptId(R, i, uuid)]
  <2>1. PICK i \in o.identities :
           s = [provider |-> p, native |-> i.native, name |-> i.name, live |-> TRUE,
                id |-> KeptId(R, i, uuid)]
    BY <1>1
  <2> PICK id : id = KeptId(R, i, uuid)
    OBVIOUS
  <2>2. i.native \in Natives /\ i.name \in Names
    BY <1>o DEF Named
  <2>3. \/ \E r \in R : r.native = i.native /\ id = r.id
        \/ (\A r \in R : r.native # i.native) /\ id = <<i.native, uuid>>
    BY KeptIdOf
  <2>4. id \in RowId(Natives)
    BY <2>2, <2>3 DEF RowId, IdentityRow
  <2>5. s = [provider |-> p, native |-> i.native, name |-> i.name, live |-> TRUE, id |-> id]
    BY <2>1
  <2>6. s \in IdentityRow
    BY <2>2, <2>4, <2>5 DEF IdentityRow
  <2>7. s.provider = p /\ s.native = i.native /\ s.name = i.name /\ s.live /\ s.id = id
    BY <2>5
  <2> QED BY <2>3, <2>6, <2>7 DEF Listed, IdKept
<1>2. CASE \E r \in {x \in R : \A i \in o.identities : i.native # x.native} :
             s = Unlisted(r, authoritative)
  <2>1. PICK r \in R : /\ \A i \in o.identities : i.native # r.native
                       /\ s = [r EXCEPT !.live = r.live /\ ~authoritative]
    BY <1>2 DEF Unlisted
  <2>2. r \in IdentityRow
    OBVIOUS
  <2>3. s \in IdentityRow
    BY <2>1, <2>2 DEF IdentityRow
  <2>4. s.provider = p /\ s.native = r.native /\ s.name = r.name /\ s.id = r.id
    BY <2>1, <2>2 DEF IdentityRow
  <2>5. s.live = (r.live /\ ~authoritative)
    BY <2>1, <2>2 DEF IdentityRow
  <2> QED BY <2>1, <2>3, <2>4, <2>5 DEF Left
<1> QED BY <1>1, <1>2 DEF ReconcileIdentities

LEMMA ReconciledAccess ==
  ASSUME NEW p \in Providers, NEW o \in Observations[p], NEW R, R \subseteq AccessRow,
         \A r \in R : r.provider = p, NEW uuid \in BatchIds,
         NEW s \in ReconcileAccesses(R, p, o, uuid)
  PROVE  /\ s \in AccessRow
         /\ s.provider = p
         /\ \/ Listed(s, o.accesses) /\ IdKept(s, R, uuid)
            \/ Spared(s, R, o.accesses)
<1>o. o.accesses \subseteq Named(Groups)
  BY Observed
<1>1. CASE \E i \in o.accesses :
             s = [provider |-> p, native |-> i.native, name |-> i.name, id |-> KeptId(R, i, uuid)]
  <2>1. PICK i \in o.accesses :
           s = [provider |-> p, native |-> i.native, name |-> i.name, id |-> KeptId(R, i, uuid)]
    BY <1>1
  <2> PICK id : id = KeptId(R, i, uuid)
    OBVIOUS
  <2>2. i.native \in Groups /\ i.name \in Names
    BY <1>o DEF Named
  <2>3. \/ \E r \in R : r.native = i.native /\ id = r.id
        \/ (\A r \in R : r.native # i.native) /\ id = <<i.native, uuid>>
    BY KeptIdOf
  <2>4. id \in RowId(Groups)
    BY <2>2, <2>3 DEF RowId, AccessRow
  <2>5. s = [provider |-> p, native |-> i.native, name |-> i.name, id |-> id]
    BY <2>1
  <2>6. s \in AccessRow
    BY <2>2, <2>4, <2>5 DEF AccessRow
  <2>7. s.provider = p /\ s.native = i.native /\ s.name = i.name /\ s.id = id
    BY <2>5
  <2> QED BY <2>3, <2>6, <2>7 DEF Listed, IdKept
<1>2. CASE s \in R /\ \A a \in o.accesses : a.native # s.native /\ a.name # s.name
  BY <1>2 DEF Spared
<1> QED BY <1>1, <1>2 DEF ReconcileAccesses

(* What an import lists is there afterwards, and so is what it leaves.     *)
LEMMA IdentitiesKept ==
  ASSUME NEW p, NEW o, NEW R, R \subseteq IdentityRow, NEW uuid, NEW authoritative \in BOOLEAN
  PROVE  LET N == ReconcileIdentities(R, p, o, uuid, authoritative)
         IN  /\ \A i \in o.identities : \E s \in N :
                   s.provider = p /\ s.native = i.native /\ s.name = i.name /\ s.live
             /\ \A r \in R : (\A i \in o.identities : i.native # r.native) =>
                   \E s \in N : /\ s.provider = r.provider /\ s.native = r.native
                                /\ s.name = r.name /\ s.live = (r.live /\ ~authoritative)
<1> DEFINE N == ReconcileIdentities(R, p, o, uuid, authoritative)
<1>1. ASSUME NEW i \in o.identities
      PROVE  \E s \in N : s.provider = p /\ s.native = i.native /\ s.name = i.name /\ s.live
  <2> DEFINE s == [provider |-> p, native |-> i.native, name |-> i.name, live |-> TRUE,
                   id |-> KeptId(R, i, uuid)]
  <2>1. s \in N
    BY DEF ReconcileIdentities
  <2> QED BY <2>1
<1>2. ASSUME NEW r \in R, \A i \in o.identities : i.native # r.native
      PROVE  \E s \in N : /\ s.provider = r.provider /\ s.native = r.native
                          /\ s.name = r.name /\ s.live = (r.live /\ ~authoritative)
  <2>1. Unlisted(r, authoritative) \in N
    BY <1>2 DEF ReconcileIdentities
  <2>2. r \in IdentityRow
    OBVIOUS
  <2>3. /\ Unlisted(r, authoritative).provider = r.provider
        /\ Unlisted(r, authoritative).native = r.native
        /\ Unlisted(r, authoritative).name = r.name
        /\ Unlisted(r, authoritative).live = (r.live /\ ~authoritative)
    BY <2>2 DEF Unlisted, IdentityRow
  <2> QED BY <2>1, <2>3
<1> QED BY <1>1, <1>2

LEMMA AccessesKept ==
  ASSUME NEW p, NEW o, NEW R, NEW uuid
  PROVE  LET N == ReconcileAccesses(R, p, o, uuid)
         IN  /\ \A i \in o.accesses : \E s \in N : s.provider = p /\ s.name = i.name
             /\ \A r \in R : (\A i \in o.accesses : i.native # r.native /\ i.name # r.name) => r \in N
<1> DEFINE N == ReconcileAccesses(R, p, o, uuid)
<1>1. ASSUME NEW i \in o.accesses PROVE \E s \in N : s.provider = p /\ s.name = i.name
  <2> DEFINE s == [provider |-> p, native |-> i.native, name |-> i.name, id |-> KeptId(R, i, uuid)]
  <2>1. s \in N
    BY DEF ReconcileAccesses
  <2> QED BY <2>1
<1>2. ASSUME NEW r \in R, \A i \in o.accesses : i.native # r.native /\ i.name # r.name PROVE r \in N
  BY <1>2 DEF ReconcileAccesses
<1> QED BY <1>1, <1>2

-----------------------------------------------------------------------------
(* The transaction of an import, by what becomes of each table.            *)

IdentitiesAfter(q, uuid) ==
    (identities \ Own(identities, q.provider))
      \cup ReconcileIdentities(Own(identities, q.provider), q.provider, q.obs, uuid, q.authoritative)

AccessesAfter(q, uuid) ==
    (accesses \ Own(accesses, q.provider))
      \cup ReconcileAccesses(Own(accesses, q.provider), q.provider, q.obs, uuid)

Replaced(q) == ReplaceAssignments(assignments, q.provider, q.assignments, q.authoritative)

RenamedAfter(q) ==
    RenameAssignments(Replaced(q), Own(identities, q.provider), Own(accesses, q.provider), q.obs)

StoredAfter(q, uuid) == Resolve(IdentitiesAfter(q, uuid), RenamedAfter(q))

Merged(q) == ReplaceRelations(relations, q.provider, q.obs, q.authoritative)

MergedAfter(q) == RenameRelations(Merged(q), Own(accesses, q.provider), q.obs.accesses)

BatchOf(q, uuid) ==
    [uuid |-> uuid, provider |-> q.provider, scope |-> q.obs.scope, expected |-> q.expected,
     authoritative |-> q.authoritative, retained |-> RetainedUnresolved(q), resolved |-> {}]

SnapshotOf(q, uuid) ==
    [provider |-> q.provider, authoritative |-> q.authoritative,
     assignments |-> SnapshotAssignments(q.provider, q,
         RenamedAfter(q) # Replaced(q) \/ MergedAfter(q) # Merged(q),
         StoredAfter(q, uuid) # RenamedAfter(q), StoredAfter(q, uuid))]

Persists(q, uuid) ==
    /\ \A b \in imports : b.uuid # uuid
    /\ ~NameClash(IdentitiesAfter(q, uuid))
    /\ providers' = providers \cup {q.provider}
    /\ identities' = IdentitiesAfter(q, uuid)
    /\ accesses' = AccessesAfter(q, uuid)
    /\ assignments' = StoredAfter(q, uuid)
    /\ relations' = MergedAfter(q)
    /\ imports' = ResolveRetained(IdentitiesAfter(q, uuid), imports \cup {BatchOf(q, uuid)})
    /\ snapshots' = Append(snapshots, SnapshotOf(q, uuid))

LEMMA PersistStep ==
  ASSUME TypeOK, NEW w \in Workers, PersistImport(w)
  PROVE  /\ req[w] \in PersistRequest /\ req[w] # NoRequest
         /\ req' = [req EXCEPT ![w] = NoRequest]
         /\ \E uuid \in BatchIds : Persists(req[w], uuid)
<1>1. req[w].pc = "persist"
  BY DEF PersistImport
<1>2. req[w] \in PersistRequest /\ req[w] # NoRequest
  BY <1>1 DEF TypeOK, NoRequest, ParsedRequest
<1>3. req' = [req EXCEPT ![w] = NoRequest]
  BY DEF PersistImport
<1>4. \E uuid \in BatchIds : Persists(req[w], uuid)
  BY Zenon DEF PersistImport, Persists, IdentitiesAfter, AccessesAfter, Replaced, RenamedAfter,
               StoredAfter, Merged, MergedAfter, BatchOf, SnapshotOf
<1> QED BY <1>2, <1>3, <1>4

LEMMA Carries ==
  ASSUME NEW q \in PersistRequest, Carried(q)
  PROVE  /\ q.provider \in Providers /\ q.obs \in Observations[q.provider]
         /\ q.authoritative \in BOOLEAN /\ q.assignments \subseteq Assignment
         /\ q.expected \in Scopes \cup {None}
<1>1. q.provider \in Providers /\ q.obs \in Observations[q.provider]
  BY DEF Carried
<1>2. /\ q.authoritative \in BOOLEAN /\ q.assignments \subseteq Assignment
      /\ q.expected \in Scopes \cup {None}
  BY DEF PersistRequest
<1> QED BY <1>1, <1>2

LEMMA OwnRows ==
  ASSUME TypeOK, NEW p
  PROVE  /\ Own(identities, p) \subseteq IdentityRow /\ \A r \in Own(identities, p) : r.provider = p
         /\ Own(accesses, p) \subseteq AccessRow /\ \A r \in Own(accesses, p) : r.provider = p
BY DEF Own, TypeOK

(* A row of another provider is left alone.                                *)
LEMMA IdentityAfter ==
  ASSUME TypeOK, NEW q \in PersistRequest, Carried(q), NEW uuid \in BatchIds,
         NEW s \in IdentitiesAfter(q, uuid)
  PROVE  /\ s \in IdentityRow
         /\ \/ s.provider # q.provider /\ s \in identities
            \/ /\ s.provider = q.provider
               /\ \/ s.live /\ Listed(s, q.obs.identities) /\ IdKept(s, Own(identities, q.provider), uuid)
                  \/ Left(s, Own(identities, q.provider), q.obs.identities, q.authoritative)
<1>1. CASE s \in identities \ Own(identities, q.provider)
  BY <1>1 DEF Own, TypeOK
<1>2. CASE s \in ReconcileIdentities(Own(identities, q.provider), q.provider, q.obs, uuid,
                                    q.authoritative)
  <2>1. /\ Own(identities, q.provider) \subseteq IdentityRow
        /\ \A r \in Own(identities, q.provider) : r.provider = q.provider
        /\ q.provider \in Providers /\ q.obs \in Observations[q.provider] /\ q.authoritative \in BOOLEAN
    BY OwnRows, Carries
  <2> PICK R, p, o, authoritative :
         /\ R = Own(identities, q.provider) /\ p = q.provider /\ o = q.obs
         /\ authoritative = q.authoritative
    OBVIOUS
  <2>2. /\ R \subseteq IdentityRow /\ \A r \in R : r.provider = p
        /\ p \in Providers /\ o \in Observations[p] /\ authoritative \in BOOLEAN
        /\ s \in ReconcileIdentities(R, p, o, uuid, authoritative)
    BY <1>2, <2>1
  <2>3. /\ s \in IdentityRow /\ s.provider = p
        /\ \/ s.live /\ Listed(s, o.identities) /\ IdKept(s, R, uuid)
           \/ Left(s, R, o.identities, authoritative)
    BY <2>2, ReconciledIdentity
  <2> QED BY <2>3
<1> QED BY <1>1, <1>2 DEF IdentitiesAfter

LEMMA AccessAfter ==
  ASSUME TypeOK, NEW q \in PersistRequest, Carried(q), NEW uuid \in BatchIds,
         NEW s \in AccessesAfter(q, uuid)
  PROVE  /\ s \in AccessRow
         /\ \/ s.provider # q.provider /\ s \in accesses
            \/ /\ s.provider = q.provider
               /\ \/ Listed(s, q.obs.accesses) /\ IdKept(s, Own(accesses, q.provider), uuid)
                  \/ Spared(s, accesses, q.obs.accesses)
<1>1. CASE s \in accesses \ Own(accesses, q.provider)
  BY <1>1 DEF Own, TypeOK
<1>2. CASE s \in ReconcileAccesses(Own(accesses, q.provider), q.provider, q.obs, uuid)
  <2>1. /\ Own(accesses, q.provider) \subseteq AccessRow
        /\ \A r \in Own(accesses, q.provider) : r.provider = q.provider
        /\ q.provider \in Providers /\ q.obs \in Observations[q.provider]
    BY OwnRows, Carries
  <2> PICK R, p, o : R = Own(accesses, q.provider) /\ p = q.provider /\ o = q.obs
    OBVIOUS
  <2>2. /\ R \subseteq AccessRow /\ \A r \in R : r.provider = p
        /\ p \in Providers /\ o \in Observations[p] /\ s \in ReconcileAccesses(R, p, o, uuid)
    BY <1>2, <2>1
  <2>3. /\ s \in AccessRow /\ s.provider = p
        /\ \/ Listed(s, o.accesses) /\ IdKept(s, R, uuid)
           \/ Spared(s, R, o.accesses)
    BY <2>2, ReconciledAccess
  <2>4. Spared(s, R, o.accesses) => Spared(s, accesses, q.obs.accesses)
    BY DEF Own, Spared
  <2> QED BY <2>3, <2>4
<1> QED BY <1>1, <1>2 DEF AccessesAfter

LEMMA AssignmentsAfter ==
  ASSUME TypeOK, NEW q \in PersistRequest, Carried(q), NEW uuid \in BatchIds
  PROVE  /\ Replaced(q) \subseteq Assignment /\ RenamedAfter(q) \subseteq Assignment
         /\ StoredAfter(q, uuid) \subseteq Assignment
<1>1. Replaced(q) \subseteq Assignment
  <2>1. q.assignments \subseteq Assignment /\ assignments \subseteq Assignment
    BY Carries DEF TypeOK
  <2> QED BY <2>1 DEF Replaced, ReplaceAssignments
<1>2. RenamedAfter(q) \subseteq Assignment
  <2>1. /\ Own(identities, q.provider) \subseteq IdentityRow /\ Own(accesses, q.provider) \subseteq AccessRow
        /\ q.provider \in Providers /\ q.obs \in Observations[q.provider]
    BY OwnRows, Carries
  <2> QED BY <1>1, <2>1, RenamedType DEF RenamedAfter
<1>3. IdentitiesAfter(q, uuid) \subseteq IdentityRow
  BY IdentityAfter
<1>4. StoredAfter(q, uuid) \subseteq Assignment
  BY <1>2, <1>3, ResolvedType DEF StoredAfter
<1> QED BY <1>1, <1>2, <1>4

(* A relation is one that was there, or joins two groups of the listing.   *)
LEMMA MergedEdge ==
  ASSUME NEW q \in PersistRequest, Carried(q), NEW e \in Merged(q)
  PROVE  \/ e \in relations
         \/ \E x, y \in q.obs.accesses : e = <<<<q.provider, x.name>>, <<q.provider, y.name>>>>
<1> DEFINE o == q.obs
           p == q.provider
<1>o. WellFormed(o)
  BY Observed DEF Carried
<1>1. CASE e \in {<<<<p, NameIn(o.accesses, d[1])>>, <<p, NameIn(o.accesses, d[2])>>>> : d \in o.relations}
  <2>1. PICK d \in o.relations : e = <<<<p, NameIn(o.accesses, d[1])>>, <<p, NameIn(o.accesses, d[2])>>>>
    BY <1>1
  <2>2. (\E a \in o.accesses : a.native = d[1]) /\ (\E a \in o.accesses : a.native = d[2])
    BY <1>o DEF WellFormed
  <2>3. PICK x \in o.accesses : NameIn(o.accesses, d[1]) = x.name
    BY <2>2, NamedIn
  <2>4. PICK y \in o.accesses : NameIn(o.accesses, d[2]) = y.name
    BY <2>2, NamedIn
  <2> QED BY <2>1, <2>3, <2>4
<1>2. CASE e \in relations
  BY <1>2
<1> QED BY <1>1, <1>2 DEF Merged, ReplaceRelations

LEMMA RelationsAfter ==
  ASSUME TypeOK, NEW q \in PersistRequest, Carried(q)
  PROVE  MergedAfter(q) \subseteq Ref \X Ref
<1> DEFINE O == Own(accesses, q.provider)
<1>o. q.provider \in Providers /\ q.obs.accesses \subseteq Named(Groups)
  BY Observed DEF Carried
<1>1. Merged(q) \subseteq Ref \X Ref
  <2> SUFFICES ASSUME NEW e \in Merged(q) PROVE e \in Ref \X Ref
    OBVIOUS
  <2> QED BY <1>o, MergedEdge DEF TypeOK, Named, Ref
<1>2. ASSUME NEW ref \in Ref PROVE Renamed(O, q.obs.accesses, ref) \in Ref
  <2>1. CASE \E r \in O, i \in q.obs.accesses : Renamed(O, q.obs.accesses, ref) = <<r.provider, i.name>>
    <3>1. PICK r \in O, i \in q.obs.accesses : Renamed(O, q.obs.accesses, ref) = <<r.provider, i.name>>
      BY <2>1
    <3>2. r.provider \in Providers /\ i.name \in Names
      BY <1>o DEF Own, TypeOK, AccessRow, Named
    <3> QED BY <3>1, <3>2 DEF Ref
  <2> QED BY <2>1, RenamedRef
<1> SUFFICES ASSUME NEW d \in MergedAfter(q) PROVE d \in Ref \X Ref
  OBVIOUS
<1>3. PICK e \in Merged(q) : d = <<Renamed(O, q.obs.accesses, e[1]), Renamed(O, q.obs.accesses, e[2])>>
  BY DEF MergedAfter, RenameRelations
<1>4. e[1] \in Ref /\ e[2] \in Ref
  BY <1>1
<1>5. Renamed(O, q.obs.accesses, e[1]) \in Ref /\ Renamed(O, q.obs.accesses, e[2]) \in Ref
  BY <1>2, <1>4
<1> QED BY <1>3, <1>5

SameImport(d, b) ==
    /\ d.uuid = b.uuid /\ d.provider = b.provider /\ d.expected = b.expected
    /\ d.scope = b.scope /\ d.authoritative = b.authoritative

(* An import of the history, after a later one was resolved against.       *)
LEMMA RetainedBatch ==
  ASSUME NEW R, R \subseteq IdentityRow, NEW B, B \subseteq Batch
  PROVE  /\ ResolveRetained(R, B) \subseteq Batch
         /\ \A d \in ResolveRetained(R, B) : \E b \in B : SameImport(d, b)
         /\ \A b \in B : \E d \in ResolveRetained(R, B) : SameImport(d, b)
         /\ (\A b, c \in B : b.uuid = c.uuid => b = c) =>
               \A d, e \in ResolveRetained(R, B) : d.uuid = e.uuid => d = e
<1> DEFINE D(b) == Resolve(R, {a \in b.retained : Resolvable(R, a)})
           F(b) == IF D(b) = {} THEN b ELSE [b EXCEPT !.resolved = D(b)]
<1>1. ResolveRetained(R, B) = {F(b) : b \in B}
  BY DEF ResolveRetained
<1>2. ASSUME NEW b \in B
      PROVE  F(b) \in Batch /\ SameImport(F(b), b) /\ F(b).uuid = b.uuid
  <2>1. {a \in b.retained : Resolvable(R, a)} \subseteq Assignment /\ b \in Batch
    BY DEF Batch
  <2>2. D(b) \subseteq Assignment
    BY <2>1, ResolvedType
  <2> HIDE DEF D
  <2> QED BY <2>1, <2>2 DEF Batch, SameImport
<1> HIDE DEF F
<1> QED BY <1>1, <1>2

LEMMA ImportsAfter ==
  ASSUME TypeOK, NEW q \in PersistRequest, Carried(q), NEW uuid \in BatchIds
  PROVE  imports \cup {BatchOf(q, uuid)} \subseteq Batch
<1>1. q.obs.scope \in Scopes
  BY Observed DEF Carried
<1>2. RetainedUnresolved(q) \subseteq Assignment
  BY Carries DEF RetainedUnresolved
<1>3. BatchOf(q, uuid) \in Batch
  BY <1>1, <1>2, Carries DEF BatchOf, Batch
<1> QED BY <1>3 DEF TypeOK

LEMMA SnapshotAfter ==
  ASSUME TypeOK, NEW q \in PersistRequest, Carried(q), NEW uuid \in BatchIds
  PROVE  SnapshotOf(q, uuid) \in Snapshot
<1> PICK m, n : /\ m = (RenamedAfter(q) # Replaced(q) \/ MergedAfter(q) # Merged(q))
                /\ n = (StoredAfter(q, uuid) # RenamedAfter(q))
  OBVIOUS
<1>1. /\ SnapshotOf(q, uuid).provider = q.provider /\ SnapshotOf(q, uuid).authoritative = q.authoritative
      /\ SnapshotOf(q, uuid).assignments = SnapshotAssignments(q.provider, q, m, n, StoredAfter(q, uuid))
  BY DEF SnapshotOf
<1>2. SnapshotAssignments(q.provider, q, m, n, StoredAfter(q, uuid)) \subseteq Assignment
  BY Carries, AssignmentsAfter DEF SnapshotAssignments, Own
<1>3. q.provider \in Providers /\ q.authoritative \in BOOLEAN
  BY Carries
<1> HIDE DEF SnapshotOf
<1>4. SnapshotOf(q, uuid) = [provider |-> q.provider, authoritative |-> q.authoritative,
         assignments |-> SnapshotOf(q, uuid).assignments]
  BY DEF SnapshotOf
<1> QED BY <1>1, <1>2, <1>3, <1>4 DEF Snapshot

LEMMA PersistType ==
  ASSUME InventoryInv, NEW w \in Workers, PersistImport(w)
  PROVE  TypeOK'
<1>t. TypeOK
  BY DEF InventoryInv
<1>1. req[w] \in PersistRequest /\ Carried(req[w]) /\ req' = [req EXCEPT ![w] = NoRequest]
  BY <1>t, PersistStep DEF InventoryInv
<1>2. PICK uuid \in BatchIds : Persists(req[w], uuid)
  BY <1>t, PersistStep
<1> PICK q : q = req[w]
  OBVIOUS
<1>q. q \in PersistRequest /\ Carried(q) /\ Persists(q, uuid)
  BY <1>1, <1>2
<1>3. providers' \subseteq Providers
  BY <1>t, <1>q, Carries DEF Persists, TypeOK
<1>4. identities' \subseteq IdentityRow
  BY <1>t, <1>q, IdentityAfter DEF Persists
<1>5. accesses' \subseteq AccessRow
  BY <1>t, <1>q, AccessAfter DEF Persists
<1>6. assignments' \subseteq Assignment
  BY <1>t, <1>q, AssignmentsAfter DEF Persists
<1>7. relations' \subseteq Ref \X Ref
  BY <1>t, <1>q, RelationsAfter DEF Persists
<1>8. imports' \subseteq Batch
  <2>1. IdentitiesAfter(q, uuid) \subseteq IdentityRow
    BY <1>t, <1>q, IdentityAfter
  <2> QED BY <1>t, <1>q, <2>1, ImportsAfter, RetainedBatch DEF Persists
<1>9. snapshots' \in Seq(Snapshot)
  <2>1. SnapshotOf(q, uuid) \in Snapshot /\ snapshots \in Seq(Snapshot)
    BY <1>t, <1>q, SnapshotAfter DEF TypeOK
  <2> QED BY <1>q, <2>1, AppendProperties DEF Persists
<1>10. req' \in [Workers -> {NoRequest} \cup ParsedRequest \cup PersistRequest]
  BY <1>t, <1>1 DEF TypeOK
<1> QED BY <1>3, <1>4, <1>5, <1>6, <1>7, <1>8, <1>9, <1>10 DEF TypeOK

-----------------------------------------------------------------------------
(* The invariant.                                                          *)

LEMMA PersistCarried ==
  ASSUME InventoryInv, NEW w \in Workers, PersistImport(w)
  PROVE  \A v \in Workers : req'[v] # NoRequest => Carried(req'[v])
<1> SUFFICES ASSUME NEW v \in Workers, req'[v] # NoRequest PROVE Carried(req'[v])
  OBVIOUS
<1>1. req' = [req EXCEPT ![w] = NoRequest]
  BY PersistStep DEF InventoryInv
<1>2. req'[v] = req[v]
  BY <1>1 DEF InventoryInv, TypeOK
<1> QED BY <1>2 DEF InventoryInv

LEMMA PersistRows ==
  ASSUME InventoryInv, NEW w \in Workers, PersistImport(w)
  PROVE  /\ OneNative(identities') /\ OneNative(accesses') /\ ~NameClash(identities')
         /\ \A r \in identities' : MadeByImport(r)'
<1>t. TypeOK
  BY DEF InventoryInv
<1>1. req[w] \in PersistRequest /\ Carried(req[w])
  BY <1>t, PersistStep DEF InventoryInv
<1>2. PICK uuid \in BatchIds : Persists(req[w], uuid)
  BY <1>t, PersistStep
<1> PICK q : q = req[w]
  OBVIOUS
<1>q. q \in PersistRequest /\ Carried(q) /\ Persists(q, uuid)
  BY <1>1, <1>2
<1> DEFINE p == q.provider
           own == Own(identities, p)
           ownAccesses == Own(accesses, p)
<1>o. WellFormed(q.obs)
  BY <1>q, Carries, Observed
<1>i. OneNative(own) /\ OneNative(ownAccesses)
  BY DEF InventoryInv, OneNative, Own
<1>3. OneNative(identities')
  <2> SUFFICES ASSUME NEW s \in identities', NEW t \in identities',
                      s.provider = t.provider, s.native = t.native
               PROVE  s = t
    BY DEF OneNative
  <2>1. s \in IdentitiesAfter(q, uuid) /\ t \in IdentitiesAfter(q, uuid)
    BY <1>q DEF Persists
  <2>2. CASE s.provider # p
    <3>1. s \in identities /\ t \in identities
      BY <1>t, <1>q, <2>1, <2>2, IdentityAfter
    <3> QED BY <3>1 DEF InventoryInv, OneNative
  <2>3. CASE s.provider = p
    <3>1. /\ s \in IdentityRow /\ t \in IdentityRow
          /\ \/ s.live /\ Listed(s, q.obs.identities) /\ IdKept(s, own, uuid)
             \/ Left(s, own, q.obs.identities, q.authoritative)
          /\ \/ t.live /\ Listed(t, q.obs.identities) /\ IdKept(t, own, uuid)
             \/ Left(t, own, q.obs.identities, q.authoritative)
      BY <1>t, <1>q, <2>1, <2>3, IdentityAfter
    <3>2. s.name = t.name /\ s.id = t.id /\ s.live = t.live
      <4>1. CASE Listed(s, q.obs.identities)
        <5>1. t.live /\ Listed(t, q.obs.identities) /\ IdKept(t, own, uuid)
          BY <3>1, <4>1 DEF Left, Listed
        <5>2. s.live /\ IdKept(s, own, uuid)
          BY <3>1, <4>1 DEF Left, Listed
        <5>3. s.name = t.name
          <6>1. PICK i \in q.obs.identities : s.native = i.native /\ s.name = i.name
            BY <4>1 DEF Listed
          <6>2. PICK j \in q.obs.identities : t.native = j.native /\ t.name = j.name
            BY <5>1 DEF Listed
          <6>3. i = j
            BY <1>o, <6>1, <6>2 DEF WellFormed
          <6> QED BY <6>1, <6>2, <6>3
        <5>4. s.id = t.id
          <6>1. CASE \E r \in own : r.native = s.native
            <7>1. \E r \in own : r.native = s.native /\ s.id = r.id
              BY <5>2, <6>1 DEF IdKept
            <7>2. \E r \in own : r.native = s.native /\ t.id = r.id
              BY <5>1, <6>1 DEF IdKept
            <7>3. \A r \in own : r.provider = p
              BY DEF Own
            <7> QED BY <1>i, <7>1, <7>2, <7>3 DEF OneNative
          <6>2. CASE \A r \in own : r.native # s.native
            BY <5>1, <5>2, <6>2 DEF IdKept
          <6> QED BY <6>1, <6>2
        <5>5. s.live \in BOOLEAN /\ t.live \in BOOLEAN
          BY <3>1 DEF IdentityRow
        <5> QED BY <5>1, <5>2, <5>3, <5>4, <5>5
      <4>2. CASE ~Listed(s, q.obs.identities)
        <5>1. Left(s, own, q.obs.identities, q.authoritative)
          BY <3>1, <4>2
        <5>2. Left(t, own, q.obs.identities, q.authoritative)
          BY <3>1, <5>1 DEF Left, Listed
        <5>3. \A r \in own : r.provider = p
          BY DEF Own
        <5>4. PICK r \in own : r.native = s.native /\ r.name = s.name /\ r.id = s.id
                               /\ s.live = (r.live /\ ~q.authoritative)
          BY <5>1 DEF Left
        <5>5. PICK x \in own : x.native = t.native /\ x.name = t.name /\ x.id = t.id
                               /\ t.live = (x.live /\ ~q.authoritative)
          BY <5>2 DEF Left
        <5>6. r = x
          BY <1>i, <5>3, <5>4, <5>5 DEF OneNative
        <5> QED BY <5>4, <5>5, <5>6
      <4> QED BY <4>1, <4>2
    <3> QED BY <3>1, <3>2 DEF IdentityRow
  <2> QED BY <2>2, <2>3
<1>4. OneNative(accesses')
  <2> SUFFICES ASSUME NEW s \in accesses', NEW t \in accesses',
                      s.provider = t.provider, s.native = t.native
               PROVE  s = t
    BY DEF OneNative
  <2>1. s \in AccessesAfter(q, uuid) /\ t \in AccessesAfter(q, uuid)
    BY <1>q DEF Persists
  <2>2. CASE s \in accesses /\ t \in accesses
    BY <2>2 DEF InventoryInv, OneNative
  <2>3. CASE ~(s \in accesses /\ t \in accesses) \/ s.provider = p
    <3>1. /\ s \in AccessRow /\ t \in AccessRow /\ s.provider = p
          /\ \/ Listed(s, q.obs.accesses) /\ IdKept(s, ownAccesses, uuid)
             \/ Spared(s, accesses, q.obs.accesses)
          /\ \/ Listed(t, q.obs.accesses) /\ IdKept(t, ownAccesses, uuid)
             \/ Spared(t, accesses, q.obs.accesses)
      BY <1>t, <1>q, <2>1, <2>3, AccessAfter
    <3>2. CASE Listed(s, q.obs.accesses)
      <4>1. /\ Listed(t, q.obs.accesses) /\ IdKept(t, ownAccesses, uuid)
            /\ IdKept(s, ownAccesses, uuid)
        BY <3>1, <3>2 DEF Listed, Spared
      <4>2. s.name = t.name
        BY <1>o, <3>2, <4>1 DEF Listed, WellFormed
      <4>3. s.id = t.id
        <5>1. CASE \E r \in ownAccesses : r.native = s.native
          <6>1. \E r \in ownAccesses : r.native = s.native /\ s.id = r.id
            BY <4>1, <5>1 DEF IdKept
          <6>2. \E r \in ownAccesses : r.native = s.native /\ t.id = r.id
            BY <4>1, <5>1 DEF IdKept
          <6>3. \A r \in ownAccesses : r.provider = p
            BY DEF Own
          <6> QED BY <1>i, <6>1, <6>2, <6>3 DEF OneNative
        <5>2. CASE \A r \in ownAccesses : r.native # s.native
          BY <4>1, <5>2 DEF IdKept
        <5> QED BY <5>1, <5>2
      <4>4. s \in AccessRow /\ t \in AccessRow
        BY <3>1
      <4> HIDE DEF own, ownAccesses, p
      <4> QED BY <4>2, <4>3, <4>4 DEF AccessRow
    <3>3. CASE ~Listed(s, q.obs.accesses)
      <4>1. s \in accesses /\ t \in accesses
        BY <3>1, <3>3 DEF Listed, Spared
      <4> QED BY <2>2, <4>1
    <3> QED BY <3>2, <3>3
  <2> QED BY <2>2, <2>3
<1>5. ~NameClash(identities')
  BY <1>q DEF Persists
<1>6. ASSUME NEW s \in identities' PROVE MadeByImport(s)'
  <2> DEFINE B == imports \cup {BatchOf(q, uuid)}
  <2>1. s \in IdentitiesAfter(q, uuid)
    BY <1>q DEF Persists
  <2>2. /\ B \subseteq Batch /\ IdentitiesAfter(q, uuid) \subseteq IdentityRow
        /\ imports' = ResolveRetained(IdentitiesAfter(q, uuid), B)
    BY <1>t, <1>q, ImportsAfter, IdentityAfter DEF Persists
  <2>3. \A b \in B : \E d \in imports' : d.uuid = b.uuid /\ d.provider = b.provider
    <3> HIDE DEF B
    <3>1. \A b \in B : \E d \in imports' : SameImport(d, b)
      BY <2>2, RetainedBatch
    <3> QED BY <3>1 DEF SameImport
  <2>4. s.id[1] = s.native /\ \E b \in B : b.uuid = s.id[2] /\ b.provider = s.provider
    <3>1. CASE s.provider # p
      <4>1. s \in identities
        BY <1>t, <1>q, <2>1, <3>1, IdentityAfter
      <4> QED BY <4>1 DEF InventoryInv, MadeByImport
    <3>2. CASE s.provider = p /\ \E r \in own : r.native = s.native /\ r.id = s.id
      <4>1. PICK r \in own : r.native = s.native /\ r.id = s.id
        BY <3>2
      <4>2. r \in identities /\ r.provider = s.provider
        BY <3>2 DEF Own
      <4> QED BY <4>1, <4>2 DEF InventoryInv, MadeByImport
    <3>3. CASE s.provider = p /\ s.id = <<s.native, uuid>>
      <4>1. BatchOf(q, uuid).uuid = uuid /\ BatchOf(q, uuid).provider = p
        BY DEF BatchOf
      <4>2. s.id[1] = s.native /\ s.id[2] = uuid
        BY <3>3
      <4> QED BY <3>3, <4>1, <4>2
    <3> QED BY <1>t, <1>q, <2>1, <3>1, <3>2, <3>3, IdentityAfter DEF IdKept, Left
  <2> QED BY <2>3, <2>4 DEF MadeByImport
<1> QED BY <1>3, <1>4, <1>5, <1>6

LEMMA PersistHistory ==
  ASSUME InventoryInv, NEW w \in Workers, PersistImport(w)
  PROVE  /\ \A b, c \in imports' : b.uuid = c.uuid => b = c
         /\ \A p \in Providers :
               \/ Scoped(p)' = {}
               \/ \E b \in Scoped(p)' : \A c \in Scoped(p)' : c.uuid <= b.uuid
<1>t. TypeOK
  BY DEF InventoryInv
<1>1. req[w] \in PersistRequest /\ Carried(req[w])
  BY <1>t, PersistStep DEF InventoryInv
<1>2. PICK uuid \in BatchIds : Persists(req[w], uuid)
  BY <1>t, PersistStep
<1> PICK q : q = req[w]
  OBVIOUS
<1>q. q \in PersistRequest /\ Carried(q) /\ Persists(q, uuid)
  BY <1>1, <1>2
<1> PICK new : new = BatchOf(q, uuid)
  OBVIOUS
<1> PICK B : B = imports \cup {new}
  OBVIOUS
<1>3. /\ B \subseteq Batch /\ IdentitiesAfter(q, uuid) \subseteq IdentityRow
      /\ imports' = ResolveRetained(IdentitiesAfter(q, uuid), B)
  BY <1>t, <1>q, ImportsAfter, IdentityAfter DEF Persists
<1>4. \A b \in imports : b.uuid # new.uuid
  <2>1. new.uuid = uuid
    BY DEF BatchOf
  <2> QED BY <1>q, <2>1 DEF Persists
<1>5. \A b, c \in B : b.uuid = c.uuid => b = c
  BY <1>4 DEF InventoryInv
<1>6. \A b, c \in imports' : b.uuid = c.uuid => b = c
  BY <1>3, <1>5, RetainedBatch
<1>r. /\ \A d \in imports' : \E b \in B : SameImport(d, b)
      /\ \A b \in B : \E d \in imports' : SameImport(d, b)
  <2> PICK R : R = IdentitiesAfter(q, uuid)
    OBVIOUS
  <2>1. R \subseteq IdentityRow /\ B \subseteq Batch /\ imports' = ResolveRetained(R, B)
    BY <1>3
  <2> QED BY <2>1, RetainedBatch
<1>7. ASSUME NEW p \in Providers, Scoped(p)' # {}
      PROVE  \E b \in Scoped(p)' : \A c \in Scoped(p)' : c.uuid <= b.uuid
  <2> DEFINE S == {b \in B : b.provider = p /\ b.expected # None}
  <2>0. Scoped(p)' = {d \in imports' : d.provider = p /\ d.expected # None}
    BY DEF Scoped
  <2>a. ASSUME NEW d \in Scoped(p)' PROVE \E b \in S : d.uuid = b.uuid
    <3>1. PICK b \in B : d.uuid = b.uuid /\ d.provider = b.provider /\ d.expected = b.expected
      BY <1>r, <2>0 DEF SameImport
    <3> QED BY <2>0, <3>1
  <2>b. ASSUME NEW b \in S PROVE \E d \in Scoped(p)' : d.uuid = b.uuid
    <3>1. PICK d \in imports' : d.uuid = b.uuid /\ d.provider = b.provider /\ d.expected = b.expected
      BY <1>r DEF SameImport
    <3> QED BY <2>0, <3>1
  <2>1. /\ \A d \in Scoped(p)' : \E b \in S : d.uuid = b.uuid
        /\ \A b \in S : \E d \in Scoped(p)' : d.uuid = b.uuid
    BY <2>a, <2>b
  <2>2. S \subseteq Scoped(p) \cup {new} /\ Scoped(p) \subseteq S
    BY DEF Scoped
  <2>3. \A b \in S : b.uuid \in Nat
    <3>1. \A b \in Batch : b.uuid \in Nat
      BY InventoryAssumption DEF Batch
    <3> QED BY <1>3, <3>1
  <2>4. \E b \in S : \A c \in S : c.uuid <= b.uuid
    <3>1. CASE Scoped(p) = {}
      <4>1. S = {new}
        BY <1>7, <2>1, <2>2, <3>1
      <4> QED BY <2>3, <4>1
    <3>2. CASE Scoped(p) # {}
      <4>1. PICK b \in Scoped(p) : \A c \in Scoped(p) : c.uuid <= b.uuid
        BY <3>2 DEF InventoryInv
      <4>2. CASE new \in S /\ b.uuid <= new.uuid
        <5>1. \A c \in S : c.uuid <= new.uuid
          BY <2>2, <2>3, <4>1, <4>2
        <5> QED BY <4>2, <5>1
      <4>3. CASE ~(new \in S /\ b.uuid <= new.uuid)
        <5>1. b \in S /\ \A c \in S : c.uuid <= b.uuid
          BY <2>2, <2>3, <4>1, <4>3
        <5> QED BY <5>1
      <4> QED BY <4>2, <4>3
    <3> QED BY <3>1, <3>2
  <2> HIDE DEF S
  <2>5. PICK b \in S : \A c \in S : c.uuid <= b.uuid
    BY <2>4
  <2>6. PICK d \in Scoped(p)' : d.uuid = b.uuid
    BY <2>1
  <2>7. \A c \in Scoped(p)' : c.uuid <= d.uuid
    BY <2>1, <2>5, <2>6
  <2> QED BY <2>7
<1> QED BY <1>6, <1>7

LEMMA ParseStep ==
  ASSUME InventoryInv, NEW w \in Workers, ParseImport(w)
  PROVE  InventoryInv'
<1>t. TypeOK
  BY DEF InventoryInv
<1>0. PICK p \in Handles[w] : \E o \in Observations[p] :
         req' = [req EXCEPT ![w] = [pc |-> "parsed", provider |-> p, obs |-> o,
                                    assignments |-> Parsed(p, o, identities)]]
  BY DEF ParseImport
<1>a. PICK o \in Observations[p] :
         req' = [req EXCEPT ![w] = [pc |-> "parsed", provider |-> p, obs |-> o,
                                    assignments |-> Parsed(p, o, identities)]]
  BY <1>0
<1> PICK A : A = Parsed(p, o, identities)
  OBVIOUS
<1> DEFINE q == [pc |-> "parsed", provider |-> p, obs |-> o, assignments |-> A]
<1>1. req' = [req EXCEPT ![w] = q]
  BY <1>a
<1>2. p \in Providers
  BY InventoryAssumption
<1>3. identities \subseteq IdentityRow
  BY <1>t DEF TypeOK
<1>4. \A a \in A : a \in Assignment /\ a.provider = p /\ \E g \in o.accesses : a.access = g.name
  BY <1>2, <1>3, ParsedRow
<1>5. q \in ParsedRequest
  BY <1>2, <1>4, Observed DEF ParsedRequest
<1>6. Carried(q)
  BY <1>2, <1>4 DEF Carried
<1>7. \A v \in Workers : req'[v] = IF v = w THEN q ELSE req[v]
  BY <1>1, <1>t DEF TypeOK
<1>8. UNCHANGED tables
  BY DEF ParseImport
<1> HIDE DEF q
<1>9. TypeOK'
  BY <1>t, <1>1, <1>5, <1>8 DEF TypeOK, tables
<1>10. \A v \in Workers : req'[v] # NoRequest => Carried(req'[v])
  BY <1>6, <1>7 DEF InventoryInv
<1> QED BY <1>8, <1>9, <1>10 DEF InventoryInv, tables, NameClash, Live, MadeByImport, Scoped

LEMMA ScopeType ==
  ASSUME InventoryInv, NEW p \in Providers, NEW o \in Observations[p]
  PROVE  /\ LastScope(p) \in Scopes \cup {None}
         /\ ExpectedScope(p, o) \in Scopes \cup {None}
         /\ Authoritative(p, o) \in BOOLEAN
<1>1. LastScope(p) \in Scopes \cup {None}
  <2>1. CASE Scoped(p) = {}
    BY <2>1 DEF LastScope, Scoped
  <2>2. CASE Scoped(p) # {}
    <3> DEFINE b == CHOOSE b \in Scoped(p) : \A c \in Scoped(p) : c.uuid <= b.uuid
    <3>1. b \in Scoped(p)
      BY <2>2 DEF InventoryInv
    <3>2. LastScope(p) = b.expected
      BY <2>2 DEF LastScope, Scoped
    <3> HIDE DEF b
    <3> QED BY <3>1, <3>2 DEF Scoped, InventoryInv, TypeOK, Batch
  <2> QED BY <2>1, <2>2
<1>2. ExpectedScope(p, o) \in Scopes \cup {None}
  BY <1>1, Observed DEF ExpectedScope
<1>3. Authoritative(p, o) \in BOOLEAN
  BY DEF Authoritative
<1> QED BY <1>1, <1>2, <1>3

LEMMA ScopesStep ==
  ASSUME InventoryInv, NEW w \in Workers, ReadScopes(w)
  PROVE  InventoryInv'
<1>t. TypeOK
  BY DEF InventoryInv
<1> PICK r : r = req[w]
  OBVIOUS
<1>1. r \in ParsedRequest /\ Carried(r)
  <2>1. r.pc = "parsed"
    BY DEF ReadScopes
  <2> QED BY <1>t, <2>1 DEF InventoryInv, TypeOK, NoRequest, PersistRequest
<1>2. r.provider \in Providers /\ r.obs \in Observations[r.provider] /\ r.assignments \subseteq Assignment
  BY <1>1 DEF Carried, ParsedRequest
<1> PICK p, o, e, auth : /\ p = r.provider /\ o = r.obs
                         /\ e = ExpectedScope(r.provider, r.obs) /\ auth = Authoritative(r.provider, r.obs)
  OBVIOUS
<1> DEFINE q == [pc |-> "persist", provider |-> p, obs |-> o, assignments |-> r.assignments,
                 fresh |-> p \notin providers, expected |-> e, authoritative |-> auth]
<1>3. req' = [req EXCEPT ![w] = q]
  BY DEF ReadScopes
<1>4. q \in PersistRequest
  BY <1>2, ScopeType, Observed DEF PersistRequest
<1>5. Carried(q)
  BY <1>1 DEF Carried
<1>7. \A v \in Workers : req'[v] = IF v = w THEN q ELSE req[v]
  BY <1>3, <1>t DEF TypeOK
<1>8. UNCHANGED tables
  BY DEF ReadScopes
<1> HIDE DEF q
<1>9. TypeOK'
  BY <1>t, <1>3, <1>4, <1>8 DEF TypeOK, tables
<1>10. \A v \in Workers : req'[v] # NoRequest => Carried(req'[v])
  BY <1>5, <1>7 DEF InventoryInv
<1> QED BY <1>8, <1>9, <1>10 DEF InventoryInv, tables, NameClash, Live, MadeByImport, Scoped

LEMMA InvariantStep == InventoryInv /\ [Next]_vars => InventoryInv'
<1> SUFFICES ASSUME InventoryInv, [Next]_vars PROVE InventoryInv'
  OBVIOUS
<1>1. ASSUME NEW w \in Workers, PersistImport(w) PROVE InventoryInv'
  BY <1>1, PersistType, PersistCarried, PersistRows, PersistHistory, Zenon DEF InventoryInv
<1>2. ASSUME NEW w \in Workers, Fail(w) PROVE InventoryInv'
  <2>1. \A v \in Workers : req'[v] = req[v] \/ req'[v] = NoRequest
    BY <1>2 DEF Fail, InventoryInv, TypeOK
  <2>2. UNCHANGED tables
    BY <1>2 DEF Fail
  <2>3. TypeOK'
    BY <1>2, <2>2 DEF Fail, InventoryInv, TypeOK, tables
  <2>4. \A v \in Workers : req'[v] # NoRequest => Carried(req'[v])
    BY <2>1 DEF InventoryInv
  <2> QED BY <2>2, <2>3, <2>4 DEF InventoryInv, tables, NameClash, Live, MadeByImport, Scoped
<1>3. CASE UNCHANGED vars
  BY <1>3 DEF InventoryInv, vars, TypeOK, NameClash, Live, MadeByImport, Scoped
<1> QED BY <1>1, <1>2, <1>3, ParseStep, ScopesStep DEF Next

(* Whatever is imported in whatever order, the tables have their types, a  *)
(* native id of a provider has one row, live names differ, and the scope   *)
(* of the previous import is defined.                                      *)
THEOREM InventoryInvariant == Spec => []InventoryInv
<1>1. Init => InventoryInv
  <2> SUFFICES ASSUME Init PROVE InventoryInv
    OBVIOUS
  <2>1. snapshots \in Seq(Snapshot)
    BY DEF Init
  <2>2. TypeOK
    BY <2>1 DEF Init, TypeOK
  <2> QED BY <2>2 DEF Init, InventoryInv, OneNative, NameClash, Live, Scoped
<1> QED BY <1>1, InvariantStep, PTL DEF Spec

(* The tables and the imports in flight keep their types.                  *)
THEOREM TypeCorrect == Spec => []TypeOK
<1>1. InventoryInv => TypeOK
  BY DEF InventoryInv
<1> QED BY <1>1, InventoryInvariant, PTL

-----------------------------------------------------------------------------
(* Memberships.                                                            *)

LEMMA SameRaw ==
  ASSUME NEW A, NEW B, NEW p,
         \A a \in A : \E b \in B : b.provider = a.provider /\ b.raw = a.raw,
         \A b \in B : \E a \in A : b.provider = a.provider /\ b.raw = a.raw
  PROVE  RawOf(Own(A, p)) = RawOf(Own(B, p))
<1>1. ASSUME NEW x \in RawOf(Own(A, p)) PROVE x \in RawOf(Own(B, p))
  <2>1. PICK a \in A : a.provider = p /\ a.raw = x
    BY <1>1 DEF RawOf, Own
  <2>2. PICK b \in B : b.provider = p /\ b.raw = x
    BY <2>1
  <2> QED BY <2>2 DEF RawOf, Own
<1>2. ASSUME NEW x \in RawOf(Own(B, p)) PROVE x \in RawOf(Own(A, p))
  <2>1. PICK b \in B : b.provider = p /\ b.raw = x
    BY <1>2 DEF RawOf, Own
  <2>2. PICK a \in A : a.provider = p /\ a.raw = x
    BY <2>1
  <2> QED BY <2>2 DEF RawOf, Own
<1> QED BY <1>1, <1>2

LEMMA RenamedRaw ==
  ASSUME NEW A, A \subseteq Assignment, NEW own, NEW ownAccesses, NEW o, NEW p
  PROVE  RawOf(Own(RenameAssignments(A, own, ownAccesses, o), p)) = RawOf(Own(A, p))
<1> DEFINE N == RenameAssignments(A, own, ownAccesses, o)
<1>1. ASSUME NEW b \in N PROVE \E a \in A : b.provider = a.provider /\ b.raw = a.raw
  <2>1. \E a \in A : Moved(b, a, own, ownAccesses, o)
    BY RenamedRow
  <2> QED BY <2>1 DEF Moved
<1>2. ASSUME NEW a \in A PROVE \E b \in N : b.provider = a.provider /\ b.raw = a.raw
  <2>1. \E b \in N : Moved(b, a, own, ownAccesses, o)
    BY RowRenamed
  <2> QED BY <2>1 DEF Moved
<1> HIDE DEF N
<1>3. RawOf(Own(A, p)) = RawOf(Own(N, p))
  BY <1>1, <1>2, SameRaw
<1> QED BY <1>3 DEF N

LEMMA ResolvedRaw ==
  ASSUME NEW R, NEW A, A \subseteq Assignment, NEW p
  PROVE  RawOf(Own(Resolve(R, A), p)) = RawOf(Own(A, p))
<1> DEFINE N == Resolve(R, A)
<1>1. ASSUME NEW b \in N PROVE \E a \in A : b.provider = a.provider /\ b.raw = a.raw
  <2>1. \E a \in A : Settled(b, a, R)
    BY ResolvedRow
  <2> QED BY <2>1 DEF Settled
<1>2. ASSUME NEW a \in A PROVE \E b \in N : b.provider = a.provider /\ b.raw = a.raw
  <2>1. \E b \in N : Settled(b, a, R)
    BY RowResolved
  <2> QED BY <2>1 DEF Settled
<1> HIDE DEF N
<1>3. RawOf(Own(A, p)) = RawOf(Own(N, p))
  BY <1>1, <1>2, SameRaw
<1> QED BY <1>3 DEF N

LEMMA RawAfter ==
  ASSUME TypeOK, NEW q \in PersistRequest, Carried(q), NEW uuid \in BatchIds, NEW p
  PROVE  RawOf(Own(StoredAfter(q, uuid), p)) =
            IF q.authoritative /\ p = q.provider THEN RawOf(q.assignments) ELSE RawOf(Own(assignments, p))
<1>1. RawOf(Own(StoredAfter(q, uuid), p)) = RawOf(Own(Replaced(q), p))
  <2>1. Replaced(q) \subseteq Assignment /\ RenamedAfter(q) \subseteq Assignment
    BY AssignmentsAfter
  <2>2. RawOf(Own(StoredAfter(q, uuid), p)) = RawOf(Own(RenamedAfter(q), p))
    BY <2>1, ResolvedRaw DEF StoredAfter
  <2>3. RawOf(Own(RenamedAfter(q), p)) = RawOf(Own(Replaced(q), p))
    BY <2>1, RenamedRaw DEF RenamedAfter
  <2> QED BY <2>2, <2>3
<1>2. \A a \in q.assignments : a.provider = q.provider
  BY DEF Carried
<1>3. CASE q.authoritative
  <2>1. Replaced(q) = {a \in assignments : a.provider # q.provider} \cup q.assignments
    BY <1>3 DEF Replaced, ReplaceAssignments
  <2>2. Own(Replaced(q), p) = IF p = q.provider THEN q.assignments ELSE Own(assignments, p)
    BY <1>2, <2>1 DEF Own
  <2> QED BY <1>1, <1>3, <2>2
<1>4. CASE ~q.authoritative
  BY <1>1, <1>4 DEF Replaced, ReplaceAssignments
<1> QED BY <1>3, <1>4

IsLast(i, p, S) ==
    /\ i \in 1 .. Len(S) /\ S[i].provider = p /\ S[i].authoritative
    /\ \A j \in 1 .. Len(S) : S[j].provider = p /\ S[j].authoritative => j <= i

LastCollected(p) ==
    \/ /\ \A i \in 1 .. Len(snapshots) : ~(snapshots[i].provider = p /\ snapshots[i].authoritative)
       /\ RawOf(Own(assignments, p)) = {}
    \/ \E i \in 1 .. Len(snapshots) :
          /\ IsLast(i, p, snapshots)
          /\ RawOf(Own(assignments, p)) = RawOf(snapshots[i].assignments)

LEMMA CollectedStep ==
  ASSUME InventoryInv, NEW w \in Workers, PersistImport(w), NEW p \in Providers, LastCollected(p)
  PROVE  LastCollected(p)'
<1>t. TypeOK
  BY DEF InventoryInv
<1>1. req[w] \in PersistRequest /\ Carried(req[w])
  BY <1>t, PersistStep DEF InventoryInv
<1>2. PICK uuid \in BatchIds : Persists(req[w], uuid)
  BY <1>t, PersistStep
<1> PICK q : q = req[w]
  OBVIOUS
<1>q. q \in PersistRequest /\ Carried(q) /\ Persists(q, uuid)
  BY <1>1, <1>2
<1> PICK s : s = SnapshotOf(q, uuid)
  OBVIOUS
<1>3. s \in Snapshot /\ snapshots \in Seq(Snapshot) /\ snapshots' = Append(snapshots, s)
  BY <1>t, <1>q, SnapshotAfter DEF Persists, TypeOK
<1>4. /\ Len(snapshots) \in Nat /\ Len(snapshots') = Len(snapshots) + 1
      /\ snapshots'[Len(snapshots) + 1] = s
      /\ \A i \in 1 .. Len(snapshots) : snapshots'[i] = snapshots[i]
  BY <1>3, AppendProperties
<1>5. assignments' = StoredAfter(q, uuid)
  BY <1>q DEF Persists
<1>6. s.provider = q.provider /\ s.authoritative = q.authoritative
  BY DEF SnapshotOf
<1>7. CASE q.authoritative /\ p = q.provider
  <2>1. RawOf(Own(assignments', p)) = RawOf(q.assignments)
    BY <1>t, <1>q, <1>5, <1>7, RawAfter
  <2>2. s.assignments = Own(assignments', p) \/ s.assignments = q.assignments
    BY <1>5, <1>7 DEF SnapshotOf, SnapshotAssignments
  <2>3. RawOf(Own(assignments', p)) = RawOf(s.assignments)
    BY <2>1, <2>2
  <2>4. IsLast(Len(snapshots) + 1, p, snapshots')
    BY <1>4, <1>6, <1>7 DEF IsLast
  <2> QED BY <1>4, <2>3, <2>4 DEF LastCollected
<1>8. CASE ~(q.authoritative /\ p = q.provider)
  <2>1. RawOf(Own(assignments', p)) = RawOf(Own(assignments, p))
    BY <1>t, <1>q, <1>5, <1>8, RawAfter
  <2>2. ASSUME NEW i \in 1 .. Len(snapshots')
        PROVE  \/ i \in 1 .. Len(snapshots) /\ snapshots'[i] = snapshots[i]
               \/ i = Len(snapshots) + 1 /\ ~(snapshots'[i].provider = p /\ snapshots'[i].authoritative)
    BY <1>4, <1>6, <1>8
  <2>3. CASE \A i \in 1 .. Len(snapshots) : ~(snapshots[i].provider = p /\ snapshots[i].authoritative)
    <3>1. RawOf(Own(assignments, p)) = {}
      BY <2>3 DEF LastCollected, IsLast
    <3>2. \A i \in 1 .. Len(snapshots') : ~(snapshots'[i].provider = p /\ snapshots'[i].authoritative)
      BY <2>2, <2>3
    <3> QED BY <2>1, <3>1, <3>2 DEF LastCollected
  <2>4. ASSUME NEW i \in 1 .. Len(snapshots), IsLast(i, p, snapshots),
               RawOf(Own(assignments, p)) = RawOf(snapshots[i].assignments)
        PROVE  LastCollected(p)'
    <3>1. i \in 1 .. Len(snapshots') /\ snapshots'[i] = snapshots[i]
      BY <1>4
    <3>2. IsLast(i, p, snapshots')
      BY <2>2, <2>4, <3>1 DEF IsLast
    <3>3. RawOf(Own(assignments', p)) = RawOf(snapshots'[i].assignments)
      BY <2>1, <2>4, <3>1
    <3> QED BY <3>1, <3>2, <3>3 DEF LastCollected
  <2> QED BY <2>3, <2>4 DEF LastCollected
<1> QED BY <1>7, <1>8

(* Whatever partial or narrower collections are imported between, and      *)
(* however holders and groups are renamed or resolved: the memberships of  *)
(* a provider are those of its last authoritative collection.              *)
THEOREM MembershipsAreCollected == Spec => []CurrentIsLastAuthoritative
<1> DEFINE I == \A p \in Providers : LastCollected(p)
<1>1. Init => I
  <2> SUFFICES ASSUME Init, NEW p \in Providers PROVE LastCollected(p)
    OBVIOUS
  <2>1. snapshots = <<>> /\ assignments = {}
    BY DEF Init
  <2> QED BY <2>1 DEF LastCollected, RawOf, Own
<1>2. InventoryInv /\ I /\ [Next]_vars => I'
  <2> SUFFICES ASSUME InventoryInv, I, [Next]_vars, NEW p \in Providers PROVE LastCollected(p)'
    OBVIOUS
  <2>1. ASSUME NEW w \in Workers, PersistImport(w) PROVE LastCollected(p)'
    BY <2>1, CollectedStep
  <2>2. CASE UNCHANGED <<snapshots, assignments>>
    BY <2>2 DEF LastCollected, RawOf, Own
  <2>3. ASSUME NEW w \in Workers, ParseImport(w) \/ ReadScopes(w) \/ Fail(w)
        PROVE  UNCHANGED <<snapshots, assignments>>
    BY <2>3 DEF ParseImport, ReadScopes, Fail, tables
  <2> QED BY <2>1, <2>2, <2>3 DEF Next, vars
<1>3. I => CurrentIsLastAuthoritative
  <2> SUFFICES ASSUME I, NEW p \in Providers
               PROVE  LET S == {i \in 1..Len(snapshots) :
                                  snapshots[i].provider = p /\ snapshots[i].authoritative}
                      IN  RawOf(Own(assignments, p)) =
                            IF S = {} THEN {}
                            ELSE RawOf(snapshots[CHOOSE i \in S : \A j \in S : j <= i].assignments)
    BY DEF CurrentIsLastAuthoritative
  <2> DEFINE S == {i \in 1..Len(snapshots) : snapshots[i].provider = p /\ snapshots[i].authoritative}
  <2>1. CASE S = {}
    BY <2>1 DEF LastCollected, IsLast
  <2>2. CASE S # {}
    <3>1. PICK i \in 1..Len(snapshots) : /\ IsLast(i, p, snapshots)
                                         /\ RawOf(Own(assignments, p)) = RawOf(snapshots[i].assignments)
      BY <2>2 DEF LastCollected
    <3>2. i \in S /\ \A j \in S : j <= i
      BY <3>1 DEF IsLast
    <3>3. ASSUME NEW k \in S, \A j \in S : j <= k PROVE k = i
      BY <3>2, <3>3
    <3>4. (CHOOSE k \in S : \A j \in S : j <= k) = i
      BY <3>2, <3>3
    <3> QED BY <2>2, <3>1, <3>4
  <2> QED BY <2>1, <2>2
<1> HIDE DEF I
<1> QED BY <1>1, <1>2, <1>3, InventoryInvariant, PTL DEF Spec

-----------------------------------------------------------------------------
(* Ids.                                                                    *)

LEMMA IdsStep ==
  ASSUME InventoryInv, NEW w \in Workers, PersistImport(w)
  PROVE  /\ \A r \in identities, s \in identities' :
               r.provider = s.provider /\ r.native = s.native => r.id = s.id
         /\ \A r \in accesses, s \in accesses' :
               r.provider = s.provider /\ r.native = s.native => r.id = s.id
<1>t. TypeOK
  BY DEF InventoryInv
<1>1. req[w] \in PersistRequest /\ Carried(req[w])
  BY <1>t, PersistStep DEF InventoryInv
<1>2. PICK uuid \in BatchIds : Persists(req[w], uuid)
  BY <1>t, PersistStep
<1> PICK q : q = req[w]
  OBVIOUS
<1>q. q \in PersistRequest /\ Carried(q) /\ Persists(q, uuid)
  BY <1>1, <1>2
<1>3. ASSUME NEW r \in identities, NEW s \in identities', r.provider = s.provider, r.native = s.native
      PROVE  r.id = s.id
  <2>1. s \in IdentitiesAfter(q, uuid)
    BY <1>q DEF Persists
  <2>2. CASE s \in identities
    BY <1>3, <2>2 DEF InventoryInv, OneNative
  <2>3. CASE s.provider = q.provider /\ \E x \in Own(identities, q.provider) : x.native = s.native /\ x.id = s.id
    <3>1. PICK x \in identities : x.provider = s.provider /\ x.native = s.native /\ x.id = s.id
      BY <2>3 DEF Own
    <3>2. x = r
      BY <1>3, <3>1 DEF InventoryInv, OneNative
    <3> QED BY <3>1, <3>2
  <2>4. s.provider = q.provider => r \in Own(identities, q.provider)
    BY <1>3 DEF Own
  <2> QED BY <1>t, <1>q, <1>3, <2>1, <2>2, <2>3, <2>4, IdentityAfter DEF IdKept, Left, Own
<1>4. ASSUME NEW r \in accesses, NEW s \in accesses', r.provider = s.provider, r.native = s.native
      PROVE  r.id = s.id
  <2>1. s \in AccessesAfter(q, uuid)
    BY <1>q DEF Persists
  <2>2. CASE s \in accesses
    BY <1>4, <2>2 DEF InventoryInv, OneNative
  <2>3. CASE s.provider = q.provider /\ IdKept(s, Own(accesses, q.provider), uuid)
    BY <1>4, <2>3 DEF InventoryInv, OneNative, Own, IdKept
  <2> QED BY <1>t, <1>q, <2>1, <2>2, <2>3, AccessAfter DEF Spared
<1> QED BY <1>3, <1>4

(* An account or a group that a source renames, stops listing and lists    *)
(* again keeps its internal id.                                            *)
THEOREM IdsAreStable == Spec => StableIds
<1> DEFINE Same == /\ \A r \in identities, s \in identities' :
                         r.provider = s.provider /\ r.native = s.native => r.id = s.id
                   /\ \A r \in accesses, s \in accesses' :
                         r.provider = s.provider /\ r.native = s.native => r.id = s.id
<1>1. InventoryInv /\ [Next]_vars => [Same]_vars
  <2> SUFFICES ASSUME InventoryInv, Next PROVE Same
    OBVIOUS
  <2>1. ASSUME NEW w \in Workers, PersistImport(w) PROVE Same
    BY <2>1, IdsStep
  <2>2. ASSUME NEW w \in Workers, ParseImport(w) \/ ReadScopes(w) \/ Fail(w) PROVE Same
    BY <2>2 DEF ParseImport, ReadScopes, Fail, tables, InventoryInv, OneNative
  <2> QED BY <2>1, <2>2 DEF Next
<1> QED BY <1>1, InventoryInvariant, PTL DEF Spec, StableIds

-----------------------------------------------------------------------------
(* References.                                                             *)

Known(R) == {<<r.provider, r.name>> : r \in R}

ListedNames(q) == {<<q.provider, g.name>> : g \in q.obs.accesses}

(* A rename stays within the provider.                                     *)
LEMMA RenamedWithin ==
  ASSUME NEW R, NEW O, NEW c, NEW n
  PROVE  /\ Renamed(R, O, <<c, n>>)[1] = c
         /\ Renamed(R, O, <<c, n>>) = <<c, Renamed(R, O, <<c, n>>)[2]>>
<1>1. CASE Renamed(R, O, <<c, n>>) = <<c, n>>
  BY <1>1
<1>2. CASE \E r \in R, i \in O : <<c, n>> = <<r.provider, r.name>> /\ Renamed(R, O, <<c, n>>) = <<r.provider, i.name>>
  <2>1. PICK r \in R, i \in O : /\ <<c, n>> = <<r.provider, r.name>>
                                /\ Renamed(R, O, <<c, n>>) = <<r.provider, i.name>>
    BY <1>2
  <2>2. r.provider = c
    BY <2>1
  <2> QED BY <2>1, <2>2
<1> QED BY <1>1, <1>2, RenamedRef

(* A reference to a group that is known, or listed now, leads to a group   *)
(* afterwards.                                                             *)
LEMMA MovedRef ==
  ASSUME TypeOK, NEW q \in PersistRequest, Carried(q), NEW uuid \in BatchIds,
         NEW ref \in Known(accesses) \cup ListedNames(q)
  PROVE  Renamed(Own(accesses, q.provider), q.obs.accesses, ref) \in Known(AccessesAfter(q, uuid))
<1> PICK own, O, N : /\ own = Own(accesses, q.provider) /\ O = q.obs.accesses
                     /\ N = AccessesAfter(q, uuid)
  OBVIOUS
<1>1. \A g \in O : <<q.provider, g.name>> \in Known(N)
  BY AccessesKept DEF AccessesAfter, Known
<1>2. \A r \in accesses : r.provider # q.provider => r \in N
  BY DEF AccessesAfter, Own
<1>3. \A r \in own : (\A i \in O : i.native # r.native /\ i.name # r.name) => r \in N
  BY AccessesKept DEF AccessesAfter
<1>4. \A r \in own : r.provider = q.provider
  BY DEF Own
<1>5. CASE \E r \in own, i \in O : Renamed(own, O, ref) = <<r.provider, i.name>>
  <2>1. PICK r \in own, i \in O : Renamed(own, O, ref) = <<r.provider, i.name>>
    BY <1>5
  <2>2. r.provider = q.provider
    BY <1>4
  <2> QED BY <1>1, <2>1, <2>2
<1>6. CASE /\ Renamed(own, O, ref) = ref
           /\ \A r \in own, i \in O : ~(ref = <<r.provider, r.name>> /\ i.native = r.native)
  <2>1. ref \in ListedNames(q) => ref \in Known(N)
    BY <1>1 DEF ListedNames
  <2>2. ASSUME NEW r \in accesses, ref = <<r.provider, r.name>> PROVE ref \in Known(N)
    <3>1. CASE r.provider # q.provider
      BY <1>2, <2>2, <3>1 DEF Known
    <3>2. CASE r.provider = q.provider
      <4>1. r \in own /\ \A i \in O : i.native # r.native
        BY <1>6, <2>2, <3>2 DEF Own
      <4>2. CASE \E i \in O : i.name = r.name
        BY <1>1, <2>2, <3>2, <4>2
      <4>3. CASE \A i \in O : i.name # r.name
        BY <1>3, <2>2, <4>1, <4>3 DEF Known
      <4> QED BY <4>2, <4>3
    <3> QED BY <3>1, <3>2
  <2>3. ref \in Known(accesses) => ref \in Known(N)
    <3>1. ref \in Known(accesses) => \E r \in accesses : ref = <<r.provider, r.name>>
      BY DEF Known
    <3> QED BY <2>2, <3>1
  <2>4. ref \in Known(N)
    BY <2>1, <2>3
  <2> QED BY <1>6, <2>4
<1> QED BY <1>5, <1>6, RenamedRef

AccessInv ==
    /\ \A a \in assignments : <<a.provider, a.access>> \in Known(accesses)
    /\ \A e \in relations : e[1] \in Known(accesses) /\ e[2] \in Known(accesses)

(* A membership of the import, or one that stays.                          *)
LEMMA ReplacedRow ==
  ASSUME NEW q, NEW a \in Replaced(q)
  PROVE  \/ a \in q.assignments
         \/ a \in assignments /\ (q.authoritative => a.provider # q.provider)
BY DEF Replaced, ReplaceAssignments

LEMMA AccessStep ==
  ASSUME InventoryInv, AccessInv, NEW w \in Workers, PersistImport(w)
  PROVE  AccessInv'
<1>t. TypeOK
  BY DEF InventoryInv
<1>1. req[w] \in PersistRequest /\ Carried(req[w])
  BY <1>t, PersistStep DEF InventoryInv
<1>2. PICK uuid \in BatchIds : Persists(req[w], uuid)
  BY <1>t, PersistStep
<1> PICK q : q = req[w]
  OBVIOUS
<1>q. q \in PersistRequest /\ Carried(q) /\ Persists(q, uuid)
  BY <1>1, <1>2
<1> PICK own, O, N : /\ own = Own(accesses, q.provider) /\ O = q.obs.accesses
                     /\ N = AccessesAfter(q, uuid)
  OBVIOUS
<1>3. \A ref \in Known(accesses) \cup ListedNames(q) : Renamed(own, O, ref) \in Known(N)
  BY <1>t, <1>q, MovedRef
<1>4. accesses' = N /\ assignments' = StoredAfter(q, uuid) /\ relations' = MergedAfter(q)
  BY <1>q DEF Persists
<1>a. Replaced(q) \subseteq Assignment /\ RenamedAfter(q) \subseteq Assignment
  BY <1>t, <1>q, AssignmentsAfter
<1>5. ASSUME NEW b \in assignments' PROVE <<b.provider, b.access>> \in Known(N)
  <2>1. \E m \in RenamedAfter(q) : Settled(b, m, IdentitiesAfter(q, uuid))
    BY <1>4, <1>a, ResolvedRow DEF StoredAfter
  <2>2. PICK m \in RenamedAfter(q) : b.provider = m.provider /\ b.access = m.access
    BY <2>1 DEF Settled
  <2>3. \E a \in Replaced(q) : Moved(m, a, Own(identities, q.provider), own, q.obs)
    BY <1>a, RenamedRow DEF RenamedAfter
  <2>4. PICK a \in Replaced(q) : /\ m.provider = a.provider
                                 /\ m.access = Renamed(own, O, <<a.provider, a.access>>)[2]
    BY <2>3 DEF Moved
  <2>5. <<a.provider, a.access>> \in Known(accesses) \cup ListedNames(q)
    <3>1. CASE a \in q.assignments
      BY <1>q, <3>1 DEF Carried, ListedNames
    <3>2. CASE a \in assignments
      BY <3>2 DEF AccessInv
    <3> QED BY <3>1, <3>2, ReplacedRow
  <2>6. Renamed(own, O, <<a.provider, a.access>>) = <<b.provider, b.access>>
    BY <2>2, <2>4, RenamedWithin
  <2> QED BY <1>3, <2>5, <2>6
<1>6. ASSUME NEW d \in relations' PROVE d[1] \in Known(N) /\ d[2] \in Known(N)
  <2>1. PICK e \in Merged(q) : d = <<Renamed(own, O, e[1]), Renamed(own, O, e[2])>>
    BY <1>4 DEF MergedAfter, RenameRelations
  <2>2. e[1] \in Known(accesses) \cup ListedNames(q) /\ e[2] \in Known(accesses) \cup ListedNames(q)
    <3>1. CASE e \in relations
      BY <3>1 DEF AccessInv
    <3>2. CASE \E x, y \in q.obs.accesses : e = <<<<q.provider, x.name>>, <<q.provider, y.name>>>>
      BY <3>2 DEF ListedNames
    <3> QED BY <1>q, <3>1, <3>2, MergedEdge
  <2> QED BY <1>3, <2>1, <2>2
<1> QED BY <1>4, <1>5, <1>6 DEF AccessInv

(* Whoever holds a membership of an import in flight.                      *)
LEMMA ParsedHeld ==
  ASSUME MembersCollected, NEW p \in Providers, NEW o \in Observations[p],
         NEW known, known \subseteq IdentityRow,
         \A r \in known : r.native \in OwnNatives(r.provider),
         NEW a \in Parsed(p, o, known)
  PROVE  Held(a, {<<p, i.name>> : i \in o.identities})
<1>1. /\ a.provider = p /\ a.raw \in o.members
      /\ \/ ~a.unresolved /\ \E i \in o.identities : i.native = a.raw[2] /\ a.holder = <<p, i.name>>
         \/ /\ \A i \in o.identities : i.native # a.raw[2]
            /\ \/ a.unresolved /\ a.holder = <<None, a.raw[2]>>
               \/ ~a.unresolved /\ \E r \in known : r.native = a.raw[2] /\ a.holder = <<r.provider, r.name>>
  BY ParsedRow
<1>2. CASE ~a.unresolved /\ \E i \in o.identities : i.native = a.raw[2] /\ a.holder = <<p, i.name>>
  <2>1. PICK i \in o.identities : i.native = a.raw[2] /\ a.holder = <<p, i.name>>
    BY <1>2
  <2>2. a.raw[2] \in OwnNatives(p)
    BY <2>1 DEF OwnNatives
  <2> QED BY <1>1, <1>2, <2>1, <2>2 DEF Held
<1>3. CASE \A i \in o.identities : i.native # a.raw[2]
  <2>1. a.raw[2] \notin OwnNatives(p)
    BY <1>1, <1>3 DEF MembersCollected
  <2>2. a.holder[1] # p
    <3>1. CASE a.holder = <<None, a.raw[2]>>
      BY <3>1, InventoryAssumption
    <3>2. CASE \E r \in known : r.native = a.raw[2] /\ a.holder = <<r.provider, r.name>>
      BY <2>1, <3>2
    <3> QED BY <1>1, <1>3, <3>1, <3>2
  <2> QED BY <1>1, <2>1, <2>2 DEF Held
<1> QED BY <1>1, <1>2, <1>3

LEMMA OwnNativesStep ==
  ASSUME InventoryInv, HolderInv, NEW w \in Workers, PersistImport(w)
  PROVE  \A s \in identities' : s.native \in OwnNatives(s.provider)
<1>t. TypeOK
  BY DEF InventoryInv
<1>1. req[w] \in PersistRequest /\ Carried(req[w])
  BY <1>t, PersistStep DEF InventoryInv
<1>2. PICK uuid \in BatchIds : Persists(req[w], uuid)
  BY <1>t, PersistStep
<1> PICK q : q = req[w]
  OBVIOUS
<1>q. q \in PersistRequest /\ Carried(q) /\ Persists(q, uuid)
  BY <1>1, <1>2
<1> SUFFICES ASSUME NEW s \in identities' PROVE s.native \in OwnNatives(s.provider)
  OBVIOUS
<1>3. s \in IdentitiesAfter(q, uuid)
  BY <1>q DEF Persists
<1>4. CASE s \in identities
  BY <1>4 DEF HolderInv
<1>5. CASE s.provider = q.provider /\ Listed(s, q.obs.identities)
  BY <1>q, <1>5 DEF Listed, OwnNatives, Carried
<1>6. CASE s.provider = q.provider /\ Left(s, Own(identities, q.provider), q.obs.identities, q.authoritative)
  <2>1. PICK r \in identities : r.provider = q.provider /\ r.native = s.native
    BY <1>6 DEF Left, Own
  <2> QED BY <1>6, <2>1 DEF HolderInv
<1> QED BY <1>t, <1>q, <1>3, <1>4, <1>5, <1>6, IdentityAfter

(* A live account, or one listed now, is live afterwards under the name a  *)
(* reference to it has then; unless its provider's collection drops it.    *)
LEMMA LiveAfter ==
  ASSUME TypeOK, NEW q \in PersistRequest, Carried(q), NEW uuid \in BatchIds,
         NEW ref, \/ ref \in Listing(q)
                  \/ ref \in LiveRefs /\ (q.authoritative => ref[1] # q.provider)
  PROVE  Renamed(Live(Own(identities, q.provider)), q.obs.identities, ref)
            \in Known(Live(IdentitiesAfter(q, uuid)))
<1> PICK own, O, N : /\ own = Own(identities, q.provider) /\ O = q.obs.identities
                     /\ N = IdentitiesAfter(q, uuid)
  OBVIOUS
<1>o. own \subseteq IdentityRow /\ q.authoritative \in BOOLEAN
  BY OwnRows, Carries
<1>1. \A i \in O : <<q.provider, i.name>> \in Known(Live(N))
  <2>1. \A i \in O : \E s \in N : s.provider = q.provider /\ s.name = i.name /\ s.live
    BY <1>o, IdentitiesKept DEF IdentitiesAfter
  <2> QED BY <2>1 DEF Known, Live
<1>2. \A r \in identities : r.provider # q.provider => r \in N
  BY DEF IdentitiesAfter, Own
<1>3. \A r \in own : (\A i \in O : i.native # r.native) /\ r.live /\ ~q.authoritative =>
         \E s \in N : s.provider = r.provider /\ s.name = r.name /\ s.live
  <2> SUFFICES ASSUME NEW r \in own, \A i \in O : i.native # r.native, r.live, ~q.authoritative
               PROVE  \E s \in N : s.provider = r.provider /\ s.name = r.name /\ s.live
    OBVIOUS
  <2>1. Unlisted(r, q.authoritative) \in N
    BY DEF IdentitiesAfter, ReconcileIdentities
  <2>2. r \in IdentityRow
    BY <1>o
  <2>3. /\ Unlisted(r, q.authoritative).provider = r.provider
        /\ Unlisted(r, q.authoritative).name = r.name /\ Unlisted(r, q.authoritative).live
    BY <2>2 DEF Unlisted, IdentityRow
  <2> QED BY <2>1, <2>3
<1>4. \A r \in own : r.provider = q.provider
  BY DEF Own
<1>5. CASE \E r \in Live(own), i \in O : Renamed(Live(own), O, ref) = <<r.provider, i.name>>
  <2>1. PICK r \in Live(own), i \in O : Renamed(Live(own), O, ref) = <<r.provider, i.name>>
    BY <1>5
  <2>2. r.provider = q.provider
    BY <1>4 DEF Live
  <2> QED BY <1>1, <2>1, <2>2
<1>6. CASE /\ Renamed(Live(own), O, ref) = ref
           /\ \A r \in Live(own), i \in O : ~(ref = <<r.provider, r.name>> /\ i.native = r.native)
  <2>1. ref \in Listing(q) => ref \in Known(Live(N))
    BY <1>1 DEF Listing
  <2>2. ASSUME NEW r \in identities, r.live, ref = <<r.provider, r.name>>, ref \notin Listing(q)
        PROVE  ref \in Known(Live(N))
    <3>1. CASE r.provider # q.provider
      BY <1>2, <2>2, <3>1 DEF Known, Live
    <3>2. CASE r.provider = q.provider
      <4>1. r \in own /\ r \in Live(own)
        BY <2>2, <3>2 DEF Own, Live
      <4>2. \A i \in O : i.native # r.native
        BY <1>6, <2>2, <4>1
      <4>3. ~q.authoritative
        BY <2>2, <3>2
      <4>4. PICK s \in N : s.provider = r.provider /\ s.name = r.name /\ s.live
        BY <1>3, <2>2, <4>1, <4>2, <4>3
      <4> QED BY <2>2, <4>4 DEF Known, Live
    <3> QED BY <3>1, <3>2
  <2>3. ref \in LiveRefs => \E r \in identities : r.live /\ ref = <<r.provider, r.name>>
    BY DEF LiveRefs, Live
  <2>4. ref \in Known(Live(N))
    BY <2>1, <2>2, <2>3
  <2> QED BY <1>6, <2>4
<1> QED BY <1>5, <1>6, RenamedRef

LEMMA HeldStep ==
  ASSUME InventoryInv, HolderInv, NEW w \in Workers, PersistImport(w), NEW b \in assignments'
  PROVE  Held(b, LiveRefs')
<1>t. TypeOK
  BY DEF InventoryInv
<1>1. req[w] \in PersistRequest /\ Carried(req[w]) /\ req[w] # NoRequest
  BY <1>t, PersistStep DEF InventoryInv
<1>2. PICK uuid \in BatchIds : Persists(req[w], uuid)
  BY <1>t, PersistStep
<1> PICK q : q = req[w]
  OBVIOUS
<1>q. /\ q \in PersistRequest /\ Carried(q) /\ Persists(q, uuid)
      /\ \A a \in q.assignments : Held(a, Listing(q))
  BY <1>1, <1>2 DEF HolderInv
<1> PICK own, O, N : /\ own = Own(identities, q.provider) /\ O = q.obs.identities
                     /\ N = IdentitiesAfter(q, uuid)
  OBVIOUS
<1>3. assignments' = StoredAfter(q, uuid) /\ identities' = N
  BY <1>q DEF Persists
<1>l. LiveRefs' = Known(Live(N))
  BY <1>3 DEF LiveRefs, Known, Live
<1>a. Replaced(q) \subseteq Assignment /\ RenamedAfter(q) \subseteq Assignment
  BY <1>t, <1>q, AssignmentsAfter
<1>n. \A s \in N : s.native \in OwnNatives(s.provider)
  BY <1>3, OwnNativesStep
<1>4. PICK m \in RenamedAfter(q) : Settled(b, m, N)
  BY <1>3, <1>a, ResolvedRow DEF StoredAfter
<1>5. PICK a \in Replaced(q) : Moved(m, a, own, Own(accesses, q.provider), q.obs)
  BY <1>a, RenamedRow DEF RenamedAfter
<1>6. /\ m.provider = a.provider /\ m.raw = a.raw /\ m.unresolved = a.unresolved
      /\ m.holder = Renamed(Live(own), O, a.holder)
  BY <1>5 DEF Moved
<1>7. /\ b.provider = a.provider /\ b.raw = a.raw
      /\ \/ b = m
         \/ a.unresolved /\ \E r \in N : r.native = a.raw[2] /\ b.holder = <<r.provider, r.name>>
  BY <1>4, <1>6 DEF Settled, Resolvable
<1>8. m.holder[1] = a.holder[1]
  <2>1. a.holder = <<a.holder[1], a.holder[2]>>
    BY <1>a DEF Assignment, Ref
  <2> QED BY <1>6, <2>1, RenamedWithin
<1>h. \/ a \in q.assignments /\ Held(a, Listing(q))
      \/ a \in assignments /\ Held(a, LiveRefs) /\ (q.authoritative => a.provider # q.provider)
  BY <1>q, ReplacedRow DEF HolderInv
<1>9. CASE a.raw[2] \notin OwnNatives(a.provider)
  <2>1. a.holder[1] # a.provider
    BY <1>h, <1>9 DEF Held
  <2>2. CASE b = m
    BY <1>6, <1>7, <1>8, <1>9, <2>1, <2>2 DEF Held
  <2>3. CASE \E r \in N : r.native = a.raw[2] /\ b.holder = <<r.provider, r.name>>
    <3>1. b.holder[1] # a.provider
      BY <1>9, <1>n, <2>3
    <3> QED BY <1>7, <1>9, <3>1 DEF Held
  <2> QED BY <1>7, <2>2, <2>3
<1>10. CASE a.raw[2] \in OwnNatives(a.provider)
  <2>1. /\ ~a.unresolved /\ a.holder[1] = a.provider
        /\ \/ a.holder \in Listing(q)
           \/ a.holder \in LiveRefs /\ (q.authoritative => a.provider # q.provider)
    BY <1>h, <1>10 DEF Held
  <2>2. m.holder \in Known(Live(N))
    BY <1>t, <1>q, <1>6, <2>1, LiveAfter
  <2>3. b = m
    BY <1>7, <2>1
  <2> QED BY <1>6, <1>7, <1>8, <1>10, <1>l, <2>1, <2>2, <2>3 DEF Held
<1> QED BY <1>9, <1>10

LEMMA HoldersStep ==
  MembersCollected /\ InventoryInv /\ HolderInv /\ [Next]_vars => HolderInv'
<1> SUFFICES ASSUME MembersCollected, InventoryInv, HolderInv, [Next]_vars PROVE HolderInv'
  OBVIOUS
<1>t. TypeOK
  BY DEF InventoryInv
<1>1. ASSUME NEW w \in Workers, PersistImport(w) PROVE HolderInv'
  <2>1. \A v \in Workers : req'[v] = req[v] \/ req'[v] = NoRequest
    BY <1>t, <1>1, PersistStep DEF TypeOK
  <2>2. \A v \in Workers : req'[v] # NoRequest => \A a \in req'[v].assignments : Held(a, Listing(req'[v]))
    BY <2>1 DEF HolderInv
  <2> QED BY <1>1, <2>2, OwnNativesStep, HeldStep DEF HolderInv
<1>2. ASSUME NEW w \in Workers, ParseImport(w) PROVE HolderInv'
  <2>0. PICK p \in Handles[w] : \E o \in Observations[p] :
           req' = [req EXCEPT ![w] = [pc |-> "parsed", provider |-> p, obs |-> o,
                                      assignments |-> Parsed(p, o, identities)]]
    BY <1>2 DEF ParseImport
  <2>a. PICK o \in Observations[p] :
           req' = [req EXCEPT ![w] = [pc |-> "parsed", provider |-> p, obs |-> o,
                                      assignments |-> Parsed(p, o, identities)]]
    BY <2>0
  <2> PICK A : A = Parsed(p, o, identities)
    OBVIOUS
  <2> DEFINE q == [pc |-> "parsed", provider |-> p, obs |-> o, assignments |-> A]
  <2>1. \A v \in Workers : req'[v] = IF v = w THEN q ELSE req[v]
    BY <1>t, <2>a DEF TypeOK
  <2>2. p \in Providers /\ identities \subseteq IdentityRow
    BY <1>t, InventoryAssumption DEF TypeOK
  <2>3. \A a \in A : Held(a, {<<p, i.name>> : i \in o.identities})
    BY <2>2, ParsedHeld DEF HolderInv
  <2>4. Listing(q) = {<<p, i.name>> : i \in o.identities} /\ q.assignments = A
    BY DEF Listing
  <2> HIDE DEF q
  <2>5. \A v \in Workers : req'[v] # NoRequest => \A a \in req'[v].assignments : Held(a, Listing(req'[v]))
    BY <2>1, <2>3, <2>4 DEF HolderInv
  <2>6. UNCHANGED <<identities, assignments>>
    BY <1>2 DEF ParseImport, tables
  <2> QED BY <2>5, <2>6 DEF HolderInv, LiveRefs, Live
<1>3. ASSUME NEW w \in Workers, ReadScopes(w) PROVE HolderInv'
  <2>1. UNCHANGED <<identities, assignments>>
    BY <1>3 DEF ReadScopes, tables
  <2>2. req[w] # NoRequest
    BY <1>3 DEF ReadScopes, NoRequest
  <2> PICK p, o, A : p = req[w].provider /\ o = req[w].obs /\ A = req[w].assignments
    OBVIOUS
  <2> PICK e, f, g : /\ e = (p \notin providers)
                     /\ f = ExpectedScope(p, o) /\ g = Authoritative(p, o)
    OBVIOUS
  <2> DEFINE q == [pc |-> "persist", provider |-> p, obs |-> o, assignments |-> A,
                   fresh |-> e, expected |-> f, authoritative |-> g]
  <2>3. req' = [req EXCEPT ![w] = q]
    BY <1>3 DEF ReadScopes
  <2>4. q.provider = p /\ q.obs = o /\ q.assignments = A
    OBVIOUS
  <2> HIDE DEF q
  <2>5. \A v \in Workers : req'[v] = IF v = w THEN q ELSE req[v]
    BY <1>t, <2>3 DEF TypeOK
  <2>6. \A a \in A : Held(a, Listing(q))
    BY <2>2, <2>4 DEF HolderInv, Listing
  <2>7. \A v \in Workers : req'[v] # NoRequest => \A a \in req'[v].assignments : Held(a, Listing(req'[v]))
    BY <2>4, <2>5, <2>6 DEF HolderInv
  <2> QED BY <2>1, <2>7 DEF HolderInv, LiveRefs, Live
<1>4. ASSUME NEW w \in Workers, Fail(w) PROVE HolderInv'
  <2>1. UNCHANGED <<identities, assignments>>
    BY <1>4 DEF Fail, tables
  <2>2. \A v \in Workers : req'[v] = req[v] \/ req'[v] = NoRequest
    BY <1>t, <1>4 DEF Fail, TypeOK
  <2> QED BY <2>1, <2>2 DEF HolderInv, LiveRefs, Live
<1>5. CASE UNCHANGED vars
  BY <1>5 DEF vars, HolderInv, LiveRefs, Live
<1> QED BY <1>1, <1>2, <1>3, <1>4, <1>5 DEF Next

(* After any imports, renames and late resolutions, no reference of the    *)
(* inventory dangles, provided that a collection that lists a group with   *)
(* an account of its own source lists the account too.                     *)
THEOREM ReferencesNeverDangle ==
  ASSUME MembersCollected
  PROVE  Spec => []ReferencesResolve
<1>1. Init => AccessInv /\ HolderInv
  BY DEF Init, AccessInv, HolderInv, NoRequest
<1>2. InventoryInv /\ AccessInv /\ [Next]_vars => AccessInv'
  <2> SUFFICES ASSUME InventoryInv, AccessInv, [Next]_vars PROVE AccessInv'
    OBVIOUS
  <2>1. ASSUME NEW w \in Workers, ParseImport(w) \/ ReadScopes(w) \/ Fail(w) PROVE UNCHANGED tables
    BY <2>1 DEF ParseImport, ReadScopes, Fail
  <2>2. CASE UNCHANGED tables
    BY <2>2 DEF tables, AccessInv, Known
  <2> QED BY <2>1, <2>2, AccessStep DEF Next, vars, tables
<1>3. AccessInv /\ HolderInv => ReferencesResolve
  <2> SUFFICES ASSUME AccessInv, HolderInv PROVE ReferencesResolve
    OBVIOUS
  <2>1. \A a \in assignments : a.holder[1] = a.provider => a.holder \in LiveRefs
    BY DEF HolderInv, Held
  <2> QED BY <2>1 DEF ReferencesResolve, AccessInv, Known, LiveRefs
<1>4. InventoryInv /\ HolderInv /\ [Next]_vars => HolderInv'
  BY HoldersStep
<1> QED BY <1>1, <1>2, <1>3, <1>4, InventoryInvariant, PTL DEF Spec

-----------------------------------------------------------------------------
(* Renames.                                                                *)

(* The row an id leads to afterwards is the one of the same object.        *)
LEMMA SameObject ==
  ASSUME InventoryInv, InventoryInv', NEW w \in Workers, PersistImport(w),
         NEW r \in identities, NEW s \in identities', s.id = r.id
  PROVE  s.provider = r.provider /\ s.native = r.native
<1>t. TypeOK
  BY DEF InventoryInv
<1>1. req[w] \in PersistRequest /\ Carried(req[w])
  BY <1>t, PersistStep DEF InventoryInv
<1>2. PICK uuid \in BatchIds : Persists(req[w], uuid)
  BY <1>t, PersistStep
<1> PICK q : q = req[w]
  OBVIOUS
<1>q. q \in PersistRequest /\ Carried(q) /\ Persists(q, uuid)
  BY <1>1, <1>2
<1> PICK B, R : B = imports \cup {BatchOf(q, uuid)} /\ R = IdentitiesAfter(q, uuid)
  OBVIOUS
<1>3. B \subseteq Batch /\ R \subseteq IdentityRow /\ imports' = ResolveRetained(R, B)
  BY <1>t, <1>q, ImportsAfter, IdentityAfter DEF Persists
<1>4. \A b \in B : \E d \in imports' : SameImport(d, b)
  BY <1>3, RetainedBatch
<1>5. r.id[1] = r.native /\ \E b \in imports : b.uuid = r.id[2] /\ b.provider = r.provider
  BY DEF InventoryInv, MadeByImport
<1>6. s.id[1] = s.native /\ \E c \in imports' : c.uuid = s.id[2] /\ c.provider = s.provider
  BY DEF InventoryInv, MadeByImport
<1>7. PICK d \in imports' : d.uuid = r.id[2] /\ d.provider = r.provider
  BY <1>4, <1>5 DEF SameImport
<1>8. PICK c \in imports' : c.uuid = s.id[2] /\ c.provider = s.provider
  BY <1>6
<1>9. c = d
  BY <1>7, <1>8 DEF InventoryInv
<1> QED BY <1>5, <1>6, <1>7, <1>8, <1>9

(* A reference to a live account is renamed to the name the account gets.  *)
LEMMA AccountRenamed ==
  ASSUME InventoryInv, NEW q \in PersistRequest, Carried(q), NEW uuid \in BatchIds,
         NEW r \in Live(identities), NEW s \in IdentitiesAfter(q, uuid),
         s.provider = r.provider, s.native = r.native
  PROVE  Renamed(Live(Own(identities, q.provider)), q.obs.identities, <<r.provider, r.name>>)
            = <<s.provider, s.name>>
<1>t. TypeOK
  BY DEF InventoryInv
<1> PICK own, O : own = Own(identities, q.provider) /\ O = q.obs.identities
  OBVIOUS
<1>1. r \in identities /\ r.live
  BY DEF Live
<1>2. \A x \in Live(own) : x.provider = q.provider /\ x \in Live(identities)
  BY DEF Own, Live
<1>3. \A x \in Live(own) : <<x.provider, x.name>> = <<r.provider, r.name>> => x = r
  BY <1>2 DEF InventoryInv, NameClash
<1>4. CASE r.provider # q.provider
  <2>1. s \in identities
    BY <1>t, <1>4, IdentityAfter
  <2>2. s = r
    BY <1>1, <2>1 DEF InventoryInv, OneNative
  <2>3. Renamed(Live(own), O, <<r.provider, r.name>>) = <<r.provider, r.name>>
    BY <1>2, <1>4, RenamedRef
  <2> QED BY <2>2, <2>3
<1>5. CASE r.provider = q.provider
  <2>1. r \in Live(own)
    BY <1>1, <1>5 DEF Own, Live
  <2>2. Listed(s, O) \/ Left(s, own, O, q.authoritative)
    BY <1>t, <1>5, IdentityAfter
  <2>3. CASE Listed(s, O)
    <3>1. PICK i \in O : s.native = i.native /\ s.name = i.name
      BY <2>3 DEF Listed
    <3>2. PICK x \in Live(own), j \in O :
             /\ <<r.provider, r.name>> = <<x.provider, x.name>> /\ j.native = x.native
             /\ Renamed(Live(own), O, <<r.provider, r.name>>) = <<x.provider, j.name>>
      <4>1. i.native = r.native
        BY <3>1
      <4> PICK ref, L : ref = <<r.provider, r.name>> /\ L = Live(own)
        OBVIOUS
      <4>2. \/ \E x \in L, j \in O : /\ ref = <<x.provider, x.name>> /\ j.native = x.native
                                      /\ Renamed(L, O, ref) = <<x.provider, j.name>>
            \/ /\ Renamed(L, O, ref) = ref
               /\ \A x \in L, j \in O : ~(ref = <<x.provider, x.name>> /\ j.native = x.native)
        BY RenamedRef
      <4>3. r \in L
        BY <2>1
      <4> QED BY <4>1, <4>2, <4>3
    <3>3. x = r
      BY <1>3, <3>2
    <3>4. WellFormed(q.obs)
      BY Observed DEF Carried
    <3>5. j = i
      BY <3>1, <3>2, <3>3, <3>4 DEF WellFormed
    <3> QED BY <3>1, <3>2, <3>3, <3>5
  <2>4. CASE Left(s, own, O, q.authoritative)
    <3>1. PICK y \in own : y.native = s.native /\ y.name = s.name
      BY <2>4 DEF Left
    <3>2. y = r
      BY <1>1, <1>5, <3>1 DEF InventoryInv, OneNative, Own
    <3>3. \A i \in O : i.native # r.native
      BY <2>4 DEF Left
    <3>4. Renamed(Live(own), O, <<r.provider, r.name>>) = <<r.provider, r.name>>
      BY <1>3, <3>3, RenamedRef
    <3> QED BY <3>1, <3>2, <3>4
  <2> QED BY <2>2, <2>3, <2>4
<1> QED BY <1>4, <1>5

Followed(a, r, s) ==
    /\ ~a.unresolved /\ a.holder = <<r.provider, r.name>> /\ s.id = r.id
    /\ snapshots' # snapshots
    /\ ~(snapshots'[Len(snapshots')].authoritative
           /\ snapshots'[Len(snapshots')].provider = a.provider)
    => \E b \in assignments' : /\ b.provider = a.provider /\ b.raw = a.raw
                               /\ b.holder = <<s.provider, s.name>>

LEMMA FollowStep ==
  ASSUME InventoryInv, InventoryInv', NEW w \in Workers, PersistImport(w),
         NEW a \in assignments, NEW r \in Live(identities), NEW s \in Live(identities')
  PROVE  Followed(a, r, s)
<1>t. TypeOK
  BY DEF InventoryInv
<1>1. req[w] \in PersistRequest /\ Carried(req[w])
  BY <1>t, PersistStep DEF InventoryInv
<1>2. PICK uuid \in BatchIds : Persists(req[w], uuid)
  BY <1>t, PersistStep
<1> PICK q : q = req[w]
  OBVIOUS
<1>q. q \in PersistRequest /\ Carried(q) /\ Persists(q, uuid)
  BY <1>1, <1>2
<1> SUFFICES ASSUME ~a.unresolved, a.holder = <<r.provider, r.name>>, s.id = r.id,
                    ~(snapshots'[Len(snapshots')].authoritative
                       /\ snapshots'[Len(snapshots')].provider = a.provider)
             PROVE  \E b \in assignments' : /\ b.provider = a.provider /\ b.raw = a.raw
                                            /\ b.holder = <<s.provider, s.name>>
  BY DEF Followed
<1>3. r \in identities /\ s \in identities'
  BY DEF Live
<1>4. s.provider = r.provider /\ s.native = r.native
  BY <1>3, SameObject
<1> PICK own, O, N : /\ own = Own(identities, q.provider) /\ O = q.obs.identities
                     /\ N = IdentitiesAfter(q, uuid)
  OBVIOUS
<1>5. assignments' = StoredAfter(q, uuid) /\ identities' = N
  BY <1>q DEF Persists
<1>6. Renamed(Live(own), O, a.holder) = <<s.provider, s.name>>
  BY <1>q, <1>3, <1>4, <1>5, AccountRenamed
<1>7. a \in Replaced(q)
  <2>1. snapshots' = Append(snapshots, SnapshotOf(q, uuid)) /\ snapshots \in Seq(Snapshot)
    BY <1>t, <1>q DEF Persists, TypeOK
  <2>2. SnapshotOf(q, uuid) \in Snapshot
    BY <1>t, <1>q, SnapshotAfter
  <2>3. snapshots'[Len(snapshots')] = SnapshotOf(q, uuid)
    BY <2>1, <2>2, AppendProperties
  <2>4. ~(q.authoritative /\ q.provider = a.provider)
    BY <2>3 DEF SnapshotOf
  <2> QED BY <2>4 DEF Replaced, ReplaceAssignments
<1>8. Replaced(q) \subseteq Assignment /\ RenamedAfter(q) \subseteq Assignment
  BY <1>t, <1>q, AssignmentsAfter
<1>9. PICK m \in RenamedAfter(q) : Moved(m, a, own, Own(accesses, q.provider), q.obs)
  BY <1>7, <1>8, RowRenamed DEF RenamedAfter
<1>10. PICK b \in assignments' : Settled(b, m, N)
  BY <1>5, <1>8, RowResolved DEF StoredAfter
<1>11. m.provider = a.provider /\ m.raw = a.raw /\ ~m.unresolved /\ m.holder = <<s.provider, s.name>>
  BY <1>6, <1>9 DEF Moved
<1>12. b = m
  BY <1>10, <1>11 DEF Settled, Resolvable
<1> QED BY <1>11, <1>12

(* Every membership of a live account follows it to its new name, in each  *)
(* provider that the import does not replace.                              *)
THEOREM MembershipsFollowRenames == Spec => HoldersFollowRenames
<1> DEFINE All == \A a \in assignments, r \in Live(identities), s \in Live(identities') : Followed(a, r, s)
<1>1. InventoryInv /\ InventoryInv' /\ [Next]_vars => [All]_vars
  <2> SUFFICES ASSUME InventoryInv, InventoryInv', Next,
                      NEW a \in assignments, NEW r \in Live(identities), NEW s \in Live(identities')
               PROVE  Followed(a, r, s)
    OBVIOUS
  <2>1. ASSUME NEW w \in Workers, PersistImport(w) PROVE Followed(a, r, s)
    BY <2>1, FollowStep
  <2>2. ASSUME NEW w \in Workers, ParseImport(w) \/ ReadScopes(w) \/ Fail(w) PROVE snapshots' = snapshots
    BY <2>2 DEF ParseImport, ReadScopes, Fail, tables
  <2>3. CASE snapshots' = snapshots
    BY <2>3 DEF Followed
  <2> QED BY <2>1, <2>2, <2>3 DEF Next
<1>2. [][All]_vars => HoldersFollowRenames
  BY PTL DEF HoldersFollowRenames, Followed
<1> HIDE DEF All
<1> QED BY <1>1, <1>2, InventoryInvariant, PTL DEF Spec

-----------------------------------------------------------------------------
(* Deletions.                                                              *)

(* Every row of the history is, up to what it resolved, one of before or   *)
(* the one of the import.                                                  *)
LEMMA HistoryAfter ==
  ASSUME InventoryInv, NEW q \in PersistRequest, Carried(q), NEW uuid \in BatchIds,
         Persists(q, uuid)
  PROVE  /\ \A d \in imports' : SameImport(d, BatchOf(q, uuid)) \/ \E b \in imports : SameImport(d, b)
         /\ \E d \in imports' : SameImport(d, BatchOf(q, uuid))
<1>t. TypeOK
  BY DEF InventoryInv
<1> PICK B, R, n : /\ n = BatchOf(q, uuid) /\ B = imports \cup {n}
                   /\ R = IdentitiesAfter(q, uuid)
  OBVIOUS
<1>1. B \subseteq Batch
  BY <1>t, ImportsAfter
<1>2. R \subseteq IdentityRow
  BY <1>t, IdentityAfter
<1>3. imports' = ResolveRetained(R, B)
  BY DEF Persists
<1>4. /\ \A d \in imports' : \E b \in B : SameImport(d, b)
      /\ \A b \in B : \E d \in imports' : SameImport(d, b)
  BY <1>1, <1>2, <1>3, RetainedBatch
<1> QED BY <1>4

LEMMA BatchFields ==
  ASSUME NEW q, NEW uuid, NEW d, SameImport(d, BatchOf(q, uuid))
  PROVE  /\ d.uuid = uuid /\ d.provider = q.provider /\ d.expected = q.expected
         /\ d.scope = q.obs.scope /\ d.authoritative = q.authoritative
BY DEF SameImport, BatchOf

LEMMA ScopeSettles ==
  ASSUME InventoryInv, ScopeInv, NEW p, Type[p] = "openldap", NEW o
  PROVE  /\ \A b \in Scoped(p) : ExpectedScope(p, o) = b.expected
         /\ Authoritative(p, o) => ExpectedScope(p, o) = o.scope
<1>1. ASSUME NEW b \in Scoped(p) PROVE LastScope(p) = b.expected /\ b.expected # None
  <2> DEFINE c == CHOOSE c \in Scoped(p) : TRUE
             l == CHOOSE l \in Scoped(p) : \A d \in Scoped(p) : d.uuid <= l.uuid
  <2>1. LastScope(p) = l.expected
    BY DEF LastScope, Scoped
  <2>2. p \in Providers
    BY DEF Scoped, InventoryInv, TypeOK, Batch
  <2>3. l \in Scoped(p)
    BY <2>2 DEF InventoryInv
  <2> HIDE DEF l
  <2> QED BY <2>1, <2>3 DEF Scoped, ScopeInv
<1>2. \A b \in Scoped(p) : ExpectedScope(p, o) = b.expected
  BY <1>1 DEF ExpectedScope
<1>3. Authoritative(p, o) => ExpectedScope(p, o) = o.scope
  BY DEF Authoritative
<1> QED BY <1>2, <1>3

LEMMA ScopePersists ==
  ASSUME OneAtATime, InventoryInv, ScopeInv, NEW w \in Workers, PersistImport(w)
  PROVE  ScopeInv'
<1>t. TypeOK
  BY DEF InventoryInv
<1>1. req[w] \in PersistRequest /\ req[w] # NoRequest /\ req' = [req EXCEPT ![w] = NoRequest]
  BY <1>t, PersistStep
<1>2. PICK uuid \in BatchIds : Persists(req[w], uuid)
  BY <1>t, PersistStep
<1> PICK q : q = req[w]
  OBVIOUS
<1>q. q \in PersistRequest /\ Carried(q) /\ Persists(q, uuid)
  BY <1>1, <1>2 DEF InventoryInv
<1> PICK n : n = BatchOf(q, uuid)
  OBVIOUS
<1>3. \A d \in imports' : SameImport(d, n) \/ \E b \in imports : SameImport(d, b)
  BY <1>q, HistoryAfter
<1>n. \A d : SameImport(d, n) => /\ d.provider = q.provider /\ d.expected = q.expected
                                 /\ d.scope = q.obs.scope /\ d.authoritative = q.authoritative
  BY BatchFields
<1>4. q.pc = "persist" /\ q.provider \in Handles[w] /\ SettledScope(q)
  BY <1>1, <1>q DEF ScopeInv, PersistRequest
<1>5. \A v \in Workers : req'[v] = IF v = w THEN NoRequest ELSE req[v]
  BY <1>1, <1>t DEF TypeOK
<1>6. ASSUME NEW v \in Workers, req'[v] # NoRequest
      PROVE  (req[v].provider \in Handles[v] /\ SettledScope(req[v]))'
  <2> PICK r : r = req[v]
    OBVIOUS
  <2>1. req'[v] = r /\ v # w
    BY <1>5, <1>6
  <2>2. r.provider \in Handles[v] /\ SettledScope(r)
    BY <1>6, <2>1 DEF ScopeInv
  <2>3. r.provider # q.provider
    BY <1>4, <2>1, <2>2 DEF OneAtATime
  <2>4. \A d \in Scoped(r.provider)' : \E b \in Scoped(r.provider) : d.expected = b.expected
    BY <1>3, <1>n, <2>3 DEF Scoped, SameImport
  <2>5. SettledScope(r)'
    BY <2>2, <2>4 DEF SettledScope
  <2> QED BY <2>1, <2>2, <2>5 DEF SettledScope
<1>7. ASSUME NEW d \in imports', NEW e \in imports', d.provider = e.provider,
             Type[d.provider] = "openldap", d.expected # None, e.expected # None
      PROVE  d.expected = e.expected
  <2>1. ASSUME NEW b \in imports, b.provider = q.provider, b.expected # None,
               Type[q.provider] = "openldap"
        PROVE  q.expected = b.expected
    BY <1>4, <2>1 DEF SettledScope, Scoped
  <2>2. CASE SameImport(d, n) /\ SameImport(e, n)
    BY <1>n, <2>2
  <2>3. CASE SameImport(d, n) /\ \E b \in imports : SameImport(e, b)
    BY <1>7, <1>n, <2>1, <2>3 DEF SameImport
  <2>4. CASE SameImport(e, n) /\ \E b \in imports : SameImport(d, b)
    BY <1>7, <1>n, <2>1, <2>4 DEF SameImport
  <2>5. CASE (\E b \in imports : SameImport(d, b)) /\ \E b \in imports : SameImport(e, b)
    BY <1>7, <2>5 DEF SameImport, ScopeInv
  <2> QED BY <1>3, <2>2, <2>3, <2>4, <2>5
<1>8. ASSUME NEW d \in imports', Type[d.provider] = "openldap", d.authoritative
      PROVE  d.expected = d.scope
  <2>1. CASE SameImport(d, n)
    BY <1>8, <1>n, <1>4, <2>1 DEF SettledScope
  <2>2. CASE \E b \in imports : SameImport(d, b)
    BY <1>8, <2>2 DEF SameImport, ScopeInv
  <2> QED BY <1>3, <2>1, <2>2
<1> QED BY <1>6, <1>7, <1>8 DEF ScopeInv

LEMMA ScopeStep ==
  OneAtATime /\ InventoryInv /\ ScopeInv /\ [Next]_vars => ScopeInv'
<1> SUFFICES ASSUME OneAtATime, InventoryInv, ScopeInv, [Next]_vars PROVE ScopeInv'
  OBVIOUS
<1>t. TypeOK
  BY DEF InventoryInv
<1>1. ASSUME UNCHANGED imports,
             \A v \in Workers : req'[v] # NoRequest =>
                 req'[v].provider \in Handles[v] /\ SettledScope(req'[v])
      PROVE  ScopeInv'
  BY <1>1 DEF ScopeInv, SettledScope, Scoped
<1>2. ASSUME NEW w \in Workers, ParseImport(w) PROVE ScopeInv'
  <2>0. PICK p \in Handles[w] : \E o \in Observations[p] :
           req' = [req EXCEPT ![w] = [pc |-> "parsed", provider |-> p, obs |-> o,
                                      assignments |-> Parsed(p, o, identities)]]
    BY <1>2 DEF ParseImport
  <2>a. PICK o \in Observations[p] :
           req' = [req EXCEPT ![w] = [pc |-> "parsed", provider |-> p, obs |-> o,
                                      assignments |-> Parsed(p, o, identities)]]
    BY <2>0
  <2> PICK A : A = Parsed(p, o, identities)
    OBVIOUS
  <2> DEFINE q == [pc |-> "parsed", provider |-> p, obs |-> o, assignments |-> A]
  <2>1. \A v \in Workers : req'[v] = IF v = w THEN q ELSE req[v]
    BY <1>t, <2>a DEF TypeOK
  <2>2. q.provider \in Handles[w] /\ SettledScope(q)
    BY DEF SettledScope
  <2> HIDE DEF q
  <2> QED BY <1>1, <1>2, <2>1, <2>2 DEF ParseImport, tables, ScopeInv
<1>3. ASSUME NEW w \in Workers, ReadScopes(w) PROVE ScopeInv'
  <2>2. req[w] # NoRequest /\ req[w].provider \in Handles[w]
    BY <1>3 DEF ReadScopes, NoRequest, ScopeInv
  <2> PICK p, o, A : p = req[w].provider /\ o = req[w].obs /\ A = req[w].assignments
    OBVIOUS
  <2> PICK e, f, g : /\ e = (p \notin providers)
                     /\ f = ExpectedScope(p, o) /\ g = Authoritative(p, o)
    OBVIOUS
  <2> DEFINE q == [pc |-> "persist", provider |-> p, obs |-> o, assignments |-> A,
                   fresh |-> e, expected |-> f, authoritative |-> g]
  <2>3. req' = [req EXCEPT ![w] = q]
    BY <1>3 DEF ReadScopes
  <2>4. q.provider = p /\ q.obs = o /\ q.expected = f /\ q.authoritative = g
    OBVIOUS
  <2> HIDE DEF q
  <2>5. \A v \in Workers : req'[v] = IF v = w THEN q ELSE req[v]
    BY <1>t, <2>3 DEF TypeOK
  <2>6. SettledScope(q)
    BY <2>4, ScopeSettles DEF SettledScope
  <2> QED BY <1>1, <1>3, <2>2, <2>4, <2>5, <2>6 DEF ReadScopes, tables, ScopeInv
<1>4. ASSUME NEW w \in Workers, Fail(w) PROVE ScopeInv'
  <2>1. \A v \in Workers : req'[v] = req[v] \/ req'[v] = NoRequest
    BY <1>t, <1>4 DEF Fail, TypeOK
  <2> QED BY <1>1, <1>4, <2>1 DEF Fail, tables, ScopeInv
<1>5. CASE UNCHANGED vars
  BY <1>1, <1>5 DEF vars, ScopeInv
<1> QED BY <1>2, <1>3, <1>4, <1>5, ScopePersists DEF Next

Deleted(r, s) ==
    r.live /\ ~s.live /\ s.id = r.id =>
        \E b \in imports' :
            /\ \A c \in imports : c.uuid # b.uuid
            /\ b.provider = r.provider /\ b.authoritative
            /\ Type[b.provider] = "openldap" =>
                  \A c \in imports : c.provider = b.provider /\ c.authoritative => c.scope = b.scope

LEMMA DeletionStep ==
  ASSUME InventoryInv, InventoryInv', ScopeInv, NEW w \in Workers, PersistImport(w),
         NEW r \in identities, NEW s \in identities'
  PROVE  Deleted(r, s)
<1>t. TypeOK
  BY DEF InventoryInv
<1>1. req[w] \in PersistRequest /\ req[w] # NoRequest
  BY <1>t, PersistStep
<1>2. PICK uuid \in BatchIds : Persists(req[w], uuid)
  BY <1>t, PersistStep
<1> PICK q : q = req[w]
  OBVIOUS
<1>q. q \in PersistRequest /\ Carried(q) /\ Persists(q, uuid)
  BY <1>1, <1>2 DEF InventoryInv
<1> SUFFICES ASSUME r.live, ~s.live, s.id = r.id
             PROVE  \E b \in imports' :
                        /\ \A c \in imports : c.uuid # b.uuid
                        /\ b.provider = r.provider /\ b.authoritative
                        /\ Type[b.provider] = "openldap" =>
                              \A c \in imports : c.provider = b.provider /\ c.authoritative =>
                                  c.scope = b.scope
  BY DEF Deleted
<1>3. s.provider = r.provider /\ s.native = r.native
  BY SameObject
<1> PICK own, O, auth : /\ own = Own(identities, q.provider) /\ O = q.obs.identities
                        /\ auth = q.authoritative
  OBVIOUS
<1>4. s \in IdentitiesAfter(q, uuid)
  BY <1>q DEF Persists
<1>5. \/ s.provider # q.provider /\ s \in identities
      \/ s.provider = q.provider /\ Left(s, own, O, auth)
  BY <1>t, <1>q, <1>4, IdentityAfter
<1>6. s \notin identities
  BY <1>3 DEF InventoryInv, OneNative
<1>7. PICK y \in own : y.native = s.native /\ s.live = (y.live /\ ~auth)
  BY <1>5, <1>6 DEF Left
<1>8. y = r
  BY <1>3, <1>5, <1>6, <1>7 DEF Own, InventoryInv, OneNative
<1>9. r.provider = q.provider /\ q.authoritative
  BY <1>3, <1>5, <1>6, <1>7, <1>8
<1>10. PICK d \in imports' : SameImport(d, BatchOf(q, uuid))
  BY <1>q, HistoryAfter
<1>11. /\ d.uuid = uuid /\ d.provider = q.provider
       /\ d.scope = q.obs.scope /\ d.authoritative = q.authoritative
  BY <1>10, BatchFields
<1>12. \A c \in imports : c.uuid # d.uuid
  BY <1>q, <1>11 DEF Persists
<1>13. ASSUME Type[q.provider] = "openldap", NEW c \in imports,
              c.provider = q.provider, c.authoritative
       PROVE  c.scope = q.obs.scope
  <2>1. c.expected = c.scope
    BY <1>13 DEF ScopeInv
  <2>2. c.expected # None
    BY <1>t, <2>1, InventoryAssumption DEF TypeOK, Batch
  <2>3. q.pc = "persist" /\ SettledScope(q)
    BY <1>1, <1>q DEF ScopeInv, PersistRequest
  <2>4. c \in Scoped(q.provider)
    BY <1>13, <2>2 DEF Scoped
  <2>5. q.expected = c.expected /\ q.expected = q.obs.scope
    BY <1>9, <1>13, <2>3, <2>4 DEF SettledScope
  <2> QED BY <2>1, <2>5
<1>14. d.provider = r.provider /\ d.authoritative
  BY <1>9, <1>11
<1>15. Type[d.provider] = "openldap" =>
          \A c \in imports : c.provider = d.provider /\ c.authoritative => c.scope = d.scope
  BY <1>11, <1>13
<1> QED BY <1>12, <1>14, <1>15

(* If imports of one provider do not overlap, an account is deleted only   *)
(* by a complete collection of its provider, made under the scope of every *)
(* earlier one.                                                            *)
THEOREM DeletionsAreInScope ==
  ASSUME OneAtATime
  PROVE  Spec => DeletedInScope
<1> DEFINE All == \A r \in identities, s \in identities' : Deleted(r, s)
<1>1. Init => ScopeInv
  BY DEF Init, ScopeInv, NoRequest
<1>2. InventoryInv /\ ScopeInv /\ [Next]_vars => ScopeInv'
  BY ScopeStep
<1>3. InventoryInv /\ InventoryInv' /\ ScopeInv /\ [Next]_vars => [All]_vars
  <2> SUFFICES ASSUME InventoryInv, InventoryInv', ScopeInv, Next,
                      NEW r \in identities, NEW s \in identities'
               PROVE  Deleted(r, s)
    OBVIOUS
  <2>1. ASSUME NEW w \in Workers, PersistImport(w) PROVE Deleted(r, s)
    BY <2>1, DeletionStep
  <2>2. ASSUME NEW w \in Workers, ParseImport(w) \/ ReadScopes(w) \/ Fail(w)
        PROVE  identities' = identities
    BY <2>2 DEF ParseImport, ReadScopes, Fail, tables
  <2>3. CASE identities' = identities
    <3>1. s.id = r.id => s = r
      <4>1. SUFFICES ASSUME s.id = r.id PROVE s = r
        OBVIOUS
      <4>2. r.native = s.native /\ r.id[2] = s.id[2]
        BY <2>3, <4>1 DEF InventoryInv, MadeByImport
      <4>3. r.provider = s.provider
        BY <2>3, <4>2 DEF InventoryInv, MadeByImport
      <4> QED BY <2>3, <4>2, <4>3 DEF InventoryInv, OneNative
    <3> QED BY <3>1 DEF Deleted
  <2> QED BY <2>1, <2>2, <2>3 DEF Next
<1>4. All => \A r \in Live(identities) :
                 (\E s \in identities' \ Live(identities') : s.id = r.id) =>
                     \E b \in imports' :
                         /\ \A c \in imports : c.uuid # b.uuid
                         /\ b.provider = r.provider /\ b.authoritative
                         /\ Type[b.provider] = "openldap" =>
                               \A c \in imports : c.provider = b.provider /\ c.authoritative =>
                                   c.scope = b.scope
  BY DEF Deleted, Live
<1>5. [][All]_vars => DeletedInScope
  <2> HIDE DEF All
  <2> QED BY <1>4, PTL DEF DeletedInScope
<1> HIDE DEF All
<1> QED BY <1>1, <1>2, <1>3, <1>5, InventoryInvariant, PTL DEF Spec
=============================================================================
