-------------------------- MODULE CollectionProofs --------------------------
(***************************************************************************)
(* A completed surface misses nothing, and an import of a collection is    *)
(* faithful to the source.  The module first shows what a page is (the     *)
(* first n of a finite, ordered set of keys), then that the listing in     *)
(* progress loses nothing, and then that the surfaces do not.              *)
(***************************************************************************)
EXTENDS Importers, FiniteSetTheorems, TLAPS

-----------------------------------------------------------------------------
(* Pages.                                                                  *)

(* A set of naturals has a least element: the initial segments 0 .. n are  *)
(* finite sets, and strict inclusion of finite sets is well founded.       *)
LEMMA LeastNatural ==
    ASSUME NEW T, T \subseteq Nat, T # {}
    PROVE  \E n \in T : \A m \in T : n <= m
<1> DEFINE Segments == {0 .. n : n \in T}
           Inside == StrictSubsetOrdering(Nat)
<1>1. Segments \subseteq FiniteSubsetsOf(Nat)
  <2>1. \A n \in T : IsFiniteSet(0 .. n)
    BY FS_Interval
  <2> QED BY <2>1, SMT DEF FiniteSubsetsOf
<1>2. Segments # {}
  OBVIOUS
<1>3. IsWellFoundedOn(Inside, FiniteSubsetsOf(Nat))
  BY FS_StrictSubsetOrderingWellFounded
<1>4. PICK S \in Segments : \A U \in Segments : ~(<<U, S>> \in Inside)
  <2> HIDE DEF Segments, Inside
  <2> QED BY <1>1, <1>2, <1>3, WFMin
<1>5. PICK n \in T : S = 0 .. n
  OBVIOUS
<1>6. ASSUME NEW m \in T PROVE n <= m
  <2> SUFFICES ASSUME m < n PROVE FALSE
    OBVIOUS
  <2>1. 0 .. m \in Segments /\ 0 .. m \subseteq S /\ 0 .. m # S
    BY <1>5
  <2>2. <<0 .. m, S>> \in Inside
    BY <2>1, <1>5 DEF StrictSubsetOrdering
  <2> QED BY <2>1, <2>2, <1>4
<1> QED BY <1>6

(* Keys of a listing: finitely many, each at a place of its own.           *)
IsListing(K) == K \subseteq Keys /\ IsFiniteSet(K)

LEMMA KeysAreFinite == ASSUME NEW K \in SUBSET Keys PROVE IsListing(K)
<1>1. IsFiniteSet(Id \X Id)
  BY CollectionAssumption, FS_Product
<1>2. IsFiniteSet(Keys)
  BY <1>1, CollectionAssumption, FS_Union DEF Keys
<1> QED BY <1>2, FS_Subset DEF IsListing

LEMMA PlaceOfKey ==
    /\ \A k \in Keys : Place[k] \in Nat
    /\ \A k, l \in Keys : Place[k] = Place[l] => k = l
BY CollectionAssumption

LEMMA BeforeIsFinite ==
    ASSUME NEW K, IsListing(K), NEW k
    PROVE  /\ IsFiniteSet(Before(K, k))
           /\ Cardinality(Before(K, k)) \in Nat
<1>1. Before(K, k) \in SUBSET K
  BY DEF Before
<1> QED BY <1>1, FS_Subset, FS_CardinalityType DEF IsListing

LEMMA FirstIsListing ==
    ASSUME NEW K, IsListing(K), NEW n
    PROVE  /\ IsListing(First(n, K)) /\ IsListing(K \ First(n, K))
           /\ First(n, K) \subseteq K
           /\ Cardinality(First(n, K)) \in Nat
<1>1. First(n, K) \in SUBSET K /\ K \ First(n, K) \in SUBSET K
  BY DEF First
<1> QED BY <1>1, FS_Subset, FS_CardinalityType DEF IsListing

(* A key that is not among the first n comes behind all of them.           *)
LEMMA FirstComeBefore ==
    ASSUME NEW K, IsListing(K), NEW n \in Nat, NEW k \in K \ First(n, K)
    PROVE  First(n, K) \subseteq Before(K, k)
<1> SUFFICES ASSUME NEW l \in First(n, K) PROVE Place[l] < Place[k]
  BY FirstIsListing DEF Before
<1>1. l \in K /\ l \in Keys /\ k \in Keys
  BY FirstIsListing DEF IsListing
<1>2. Place[l] \in Nat /\ Place[k] \in Nat
  BY <1>1, PlaceOfKey
<1>3. CASE Place[k] <= Place[l]
  <2>1. Before(K, k) \in SUBSET Before(K, l)
    <3> SUFFICES ASSUME NEW m \in K, Place[m] < Place[k] PROVE Place[m] < Place[l]
      BY DEF Before
    <3>1. Place[m] \in Nat
      BY PlaceOfKey DEF IsListing
    <3> QED BY <3>1, <1>2, <1>3
  <2>2. Cardinality(Before(K, k)) <= Cardinality(Before(K, l))
    BY <2>1, BeforeIsFinite, FS_Subset
  <2>3. Cardinality(Before(K, l)) < n
    BY DEF First
  <2>4. ~(Cardinality(Before(K, k)) < n)
    BY DEF First
  <2> QED BY <2>2, <2>3, <2>4, BeforeIsFinite
<1> QED BY <1>2, <1>3

(* The first n of a listing are n, if it has that many.                    *)
LEMMA FirstHasSize ==
    ASSUME NEW K, IsListing(K), NEW n \in Nat, n <= Cardinality(K)
    PROVE  Cardinality(First(n, K)) = n
<1> DEFINE Wrong == {m \in Nat : m <= Cardinality(K) /\ Cardinality(First(m, K)) # m}
<1> SUFFICES ASSUME Wrong # {} PROVE FALSE
  OBVIOUS
<1>1. PICK w \in Wrong : \A m \in Wrong : w <= m
  <2>1. Wrong \subseteq Nat
    OBVIOUS
  <2> HIDE DEF Wrong
  <2> QED BY <2>1, LeastNatural
<1>2. w # 0
  <2> SUFFICES ASSUME w = 0 PROVE FALSE
    OBVIOUS
  <2>1. First(0, K) = {}
    BY BeforeIsFinite, SMT DEF First
  <2> QED BY <2>1, FS_EmptySet
<1> DEFINE v == w - 1
           L == First(v, K)
<1>3. v \in Nat /\ v < w /\ w = v + 1 /\ w <= Cardinality(K)
  BY <1>2
<1>4. Cardinality(L) = v
  <2>1. v \notin Wrong
    BY <1>1, <1>3
  <2>2. v <= Cardinality(K)
    <3>1. Cardinality(K) \in Nat
      BY FS_CardinalityType DEF IsListing
    <3> QED BY <3>1, <1>3
  <2> QED BY <2>1, <2>2, <1>3
<1>5. L \subseteq K /\ IsListing(L)
  BY FirstIsListing
<1>6. K \ L # {}
  <2> SUFFICES ASSUME K \ L = {} PROVE FALSE
    OBVIOUS
  <2>1. K = L
    BY <1>5
  <2>2. Cardinality(K) = v
    BY <2>1, <1>4
  <2> QED BY <2>2, <1>3
<1>7. PICK k \in K \ L : \A l \in K \ L : Place[k] <= Place[l]
  <2> DEFINE Places == {Place[l] : l \in K \ L}
  <2>1. Places \subseteq Nat
    BY PlaceOfKey DEF IsListing
  <2>2. Places # {}
    BY <1>6
  <2>3. PICK p \in Places : \A q \in Places : p <= q
    <3> HIDE DEF Places
    <3> QED BY <2>1, <2>2, LeastNatural
  <2> QED BY <2>3
<1>8. Before(K, k) = L
  <2>1. L \subseteq Before(K, k)
    BY FirstComeBefore, <1>3
  <2>2. ASSUME NEW l \in Before(K, k) PROVE l \in L
    <3>1. l \in K /\ Place[l] < Place[k]
      BY DEF Before
    <3>2. Place[l] \in Nat /\ Place[k] \in Nat
      BY <3>1, PlaceOfKey DEF IsListing
    <3> HIDE DEF L
    <3> QED BY <3>1, <3>2, <1>7
  <2> QED BY <2>1, <2>2
<1>9. First(w, K) = L \cup {k}
  <2>1. k \in First(w, K)
    BY <1>8, <1>4, <1>3 DEF First
  <2>2. ASSUME NEW l \in L PROVE l \in First(w, K)
    <3>1. l \in K /\ Cardinality(Before(K, l)) < v
      BY DEF First
    <3>2. Cardinality(Before(K, l)) \in Nat
      BY BeforeIsFinite
    <3> QED BY <3>1, <3>2, <1>3 DEF First
  <2>3. ASSUME NEW l \in First(w, K), l \notin L PROVE l = k
    <3> SUFFICES ASSUME l # k PROVE FALSE
      OBVIOUS
    <3>1. l \in K \ L /\ Cardinality(Before(K, l)) < w
      BY <2>3 DEF First
    <3>2. Place[l] \in Nat /\ Place[k] \in Nat /\ Place[l] # Place[k]
      BY <3>1, PlaceOfKey DEF IsListing
    <3>3. Place[k] < Place[l]
      BY <3>1, <3>2, <1>7
    <3>4. L \cup {k} \in SUBSET Before(K, l)
      <4>1. k \in Before(K, l)
        BY <3>3 DEF Before
      <4>2. L \subseteq Before(K, l)
        BY <3>1, FirstComeBefore, <1>3
      <4> QED BY <4>1, <4>2
    <3>5. Cardinality(L \cup {k}) = v + 1
      <4>1. k \notin L /\ IsFiniteSet(L)
        BY <1>5 DEF IsListing
      <4> HIDE DEF L, v
      <4> QED BY <4>1, <1>4, FS_AddElement
    <3>6. Cardinality(L \cup {k}) <= Cardinality(Before(K, l))
      <4> HIDE DEF L
      <4> QED BY <3>4, BeforeIsFinite, FS_Subset
    <3>7. Cardinality(Before(K, l)) \in Nat
      BY BeforeIsFinite
    <3> QED BY <3>1, <3>5, <3>6, <3>7, <1>3
  <2> QED BY <2>1, <2>2, <2>3
<1>10. Cardinality(First(w, K)) = w
  <2>1. k \notin L /\ IsFiniteSet(L)
    BY <1>5 DEF IsListing
  <2>2. Cardinality(L \cup {k}) = v + 1
    <3> HIDE DEF L, v
    <3> QED BY <2>1, <1>4, FS_AddElement
  <2> QED BY <2>2, <1>9, <1>3
<1> QED BY <1>10

(* Reading by offset: as long as the source goes on listing what was read, *)
(* nothing that is still ahead slips behind the offset.                    *)
LEMMA OffsetKept ==
    ASSUME NEW K, IsListing(K), NEW M, IsListing(M), NEW n \in Nat,
           First(n, K) \subseteq M, NEW k \in M, k \in K \ First(n, K)
    PROVE  k \in M \ First(n, M)
<1>1. First(n, K) \in SUBSET Before(M, k)
  BY FirstComeBefore DEF Before
<1>2. n <= Cardinality(K)
  <2>1. Before(K, k) \in SUBSET K /\ ~(Cardinality(Before(K, k)) < n)
    BY DEF Before, First
  <2>2. Cardinality(Before(K, k)) <= Cardinality(K)
    BY <2>1, FS_Subset DEF IsListing
  <2>3. Cardinality(Before(K, k)) \in Nat /\ Cardinality(K) \in Nat
    BY BeforeIsFinite, FS_CardinalityType DEF IsListing
  <2> QED BY <2>1, <2>2, <2>3
<1>3. Cardinality(First(n, K)) = n
  BY <1>2, FirstHasSize
<1>4. Cardinality(First(n, K)) <= Cardinality(Before(M, k))
  BY <1>1, BeforeIsFinite, FS_Subset
<1>5. ~(Cardinality(Before(M, k)) < n)
  BY <1>3, <1>4, BeforeIsFinite
<1> QED BY <1>5 DEF First

(* Reading a page by offset: what it leaves is behind a full page, and     *)
(* ahead of the next offset.                                               *)
LEMMA OffsetMoves ==
    ASSUME NEW K, IsListing(K), NEW n \in Nat, NEW m \in Nat,
           NEW A, A = K \ First(n, K), NEW k \in A \ First(m, A)
    PROVE  /\ k \in K \ First(n + m, K)
           /\ Cardinality(First(m, A)) = m
<1>1. IsListing(A)
  BY FirstIsListing
<1>2. First(m, A) \subseteq Before(A, k) /\ First(n, K) \subseteq Before(K, k)
  BY <1>1, FirstComeBefore
<1>3. Cardinality(First(m, A)) = m
  <2>1. Before(A, k) \in SUBSET A /\ ~(Cardinality(Before(A, k)) < m)
    BY DEF Before, First
  <2>2. Cardinality(Before(A, k)) <= Cardinality(A)
    BY <2>1, <1>1, FS_Subset DEF IsListing
  <2>3. Cardinality(Before(A, k)) \in Nat /\ Cardinality(A) \in Nat
    BY <1>1, BeforeIsFinite, FS_CardinalityType DEF IsListing
  <2>4. m <= Cardinality(A)
    BY <2>1, <2>2, <2>3
  <2> QED BY <2>4, <1>1, FirstHasSize
<1>4. Cardinality(First(n, K)) = n
  <2>1. Before(K, k) \in SUBSET K /\ ~(Cardinality(Before(K, k)) < n)
    BY DEF Before, First
  <2>2. Cardinality(Before(K, k)) <= Cardinality(K)
    BY <2>1, FS_Subset DEF IsListing
  <2>3. Cardinality(Before(K, k)) \in Nat /\ Cardinality(K) \in Nat
    BY BeforeIsFinite, FS_CardinalityType DEF IsListing
  <2>4. n <= Cardinality(K)
    BY <2>1, <2>2, <2>3
  <2> QED BY <2>4, FirstHasSize
<1>5. First(n, K) \cup First(m, A) \in SUBSET Before(K, k)
  <2>1. Before(A, k) \subseteq Before(K, k)
    BY DEF Before
  <2> QED BY <1>2, <2>1
<1>6. Cardinality(First(n, K) \cup First(m, A)) = n + m
  <2>1. First(n, K) \cap First(m, A) = {}
    BY <1>1, FirstIsListing
  <2>2. IsFiniteSet(First(n, K)) /\ IsFiniteSet(First(m, A))
    BY <1>1, FirstIsListing DEF IsListing
  <2>3. Cardinality(First(n, K) \cap First(m, A)) = 0
    BY <2>1, FS_EmptySet
  <2>4. Cardinality(First(n, K) \cup First(m, A))
          = Cardinality(First(n, K)) + Cardinality(First(m, A))
            - Cardinality(First(n, K) \cap First(m, A))
    BY <2>2, FS_Union
  <2> QED BY <2>3, <2>4, <1>3, <1>4
<1>7. Cardinality(First(n, K) \cup First(m, A)) <= Cardinality(Before(K, k))
  BY <1>5, BeforeIsFinite, FS_Subset
<1>8. ~(Cardinality(Before(K, k)) < n + m)
  BY <1>6, <1>7, BeforeIsFinite
<1> QED BY <1>3, <1>8 DEF First

(* Reading a page by token: what it leaves is behind all that was read.    *)
LEMMA TokenMoves ==
    ASSUME NEW L, NEW K, IsListing(K), NEW m \in Nat,
           NEW B, B = {k \in K : \A e \in L : Place[e.key] < Place[k]},
           NEW E, \A e \in E : e.key \in First(m, B),
           NEW k \in B \ First(m, B)
    PROVE  \A e \in L \cup E : Place[e.key] < Place[k]
<1>1. IsListing(B)
  <2>1. B \in SUBSET K
    OBVIOUS
  <2> QED BY <2>1, FS_Subset DEF IsListing
<1>2. First(m, B) \subseteq Before(B, k)
  BY <1>1, FirstComeBefore
<1> QED BY <1>2 DEF Before

-----------------------------------------------------------------------------
(* The inductive invariant.                                                *)

Last == Len(Plan(request.kind))

TypeCorrect ==
    /\ status \in {"running", "raised", "done"}
    /\ request \in Requests
    /\ step \in 1 .. Last + 1
    /\ page \in Nat
    /\ DOMAIN data = Surfaces(request.kind)
    /\ queue # {} => step <= Last
    /\ status = "done" => step > Last

(* The histories bound the source from below and from above.               *)
Histories ==
    /\ WellFormed(world)
    /\ WellFormed(always)
    /\ Within(always, world)
    /\ Within(world, ever)
    /\ ever.groups \subseteq Id
    /\ ever.member \cup ever.grants \subseteq Id \X Id

(* A row of the artifact says what the source held at some time.           *)
Real(w, surface, row) ==
    /\ surface = "groups" => row \in w.groups
    /\ surface = "memberships" => row \in w.member \cup (IF Keycloak THEN Nested(w) ELSE {})
    /\ surface \in {"user_role_mappings", "group_role_mappings", "admin_role_assignments",
                    "iam_allow_policies"} => row \in w.grants
    /\ surface = "composite_roles" => row \in w.composite

(* A role that always granted another says that it is composite.           *)
IsComposite(w, r) == \E c \in w.roles : <<r, c>> \in w.composite
Flagged(w, surface, row) ==
    /\ surface = "realm_roles" => (IsComposite(w, row.id) => row.composite)
    /\ surface = "client_roles" => (IsComposite(w, row[1].id) => row[1].composite)

RowsAreReal ==
    \A s \in Surfaces(request.kind) : \A d \in data[s] :
        Real(ever, s, d.row) /\ Flagged(always, s, d.row)

(* An entry of the listing of parent shows its key.                        *)
Shows(w, surface, parent, key, row) ==
    CASE surface \in {"users", "service_accounts", "realm_roles", "admin_roles"} -> row.id = key
      [] surface = "groups" -> GroupRow(w, key) \subseteq row
      [] surface = "client_roles" -> row[1].id = key /\ row[2] = parent
      [] surface = "memberships" -> key \in Id /\ row = <<key, parent>>
      [] surface \in {"user_role_mappings", "group_role_mappings", "composite_roles"} ->
           row = <<parent, key>>
      [] OTHER -> row = key

EntryIsGood(e) ==
    /\ Shows(always, Surface, Parent, e.key, e.row)
    /\ Flagged(always, Surface, e.row)
    /\ IF Surface = "groups" THEN e.row \subseteq ever.groups
       ELSE ~(Surface = "memberships" /\ Parent = None) => Real(ever, Surface, e.row)

EntriesAreGood == queue # {} => \A e \in listing : EntryIsGood(e)

(* Memberships visit groups; in Workspace they list them first.            *)
VisitsGroups ==
    queue # {} /\ Surface = "memberships" =>
        \/ \A v \in queue : v[1] # None
        \/ ~Keycloak /\ queue = Once

(* The parents a surface has to visit for what the source always held.     *)
Due(w, surface) ==
    IF Keycloak
    THEN CASE surface \in {"memberships", "group_role_mappings"} -> w.groups
           [] surface = "client_roles" -> w.clients
           [] surface = "user_role_mappings" -> w.users
           [] surface = "composite_roles" -> {r \in w.roles : IsComposite(w, r)}
           [] surface = "service_accounts" -> {c \in w.clients : ServiceUser[c] # None}
           [] OTHER -> {None}
    ELSE IF surface = "memberships" THEN w.groups ELSE {None}

(* What the artifact has of an object in the listing of a parent, when it  *)
(* says C of the surface.                                                  *)
Taken(C, w, surface, parent, key) ==
    CASE surface = "groups" -> GroupRow(w, key) \subseteq C
      [] surface \in {"client_roles", "memberships"} -> <<key, parent>> \in C
      [] surface \in {"user_role_mappings", "group_role_mappings", "composite_roles"} ->
           <<parent, key>> \in C
      [] OTHER -> key \in C

NestingTaken(C, w, surface) == surface = "memberships" /\ Keycloak => Nested(w) \subseteq C

Whole(C, w, surface) ==
    /\ \A p \in Due(w, surface) : \A k \in Listed(w, surface, p) : Taken(C, w, surface, p, k)
    /\ NestingTaken(C, w, surface)

Sound(surface) == surface \in Required(request.kind) /\ Wanted(surface) /\ surface \notin errors

SurfacesAreWhole ==
    ~disturbed => \A i \in 1 .. step - 1 :
        Sound(Plan(request.kind)[i]) =>
            Whole(Collected(Plan(request.kind)[i]), always, Plan(request.kind)[i])

(* The listing in progress has read a key, or has it ahead.                *)
InSight(parent, key) ==
    \/ \E e \in listing : e.key = key
    \/ Single(Surface)
    \/ key \in Ahead(Listed(world, Surface, parent))

Awaited(parent, key) ==
    \E v \in queue :
        \/ v[1] = parent /\ (v = Visit => InSight(parent, key))
        \/ Surface = "memberships" /\ v[1] = None /\ InSight(None, parent)

SurfaceLosesNothing ==
    ~disturbed /\ queue # {} /\ Sound(Surface) =>
        /\ \A p \in Due(always, Surface) : \A k \in Listed(always, Surface, p) :
               Taken(Collected(Surface), always, Surface, p, k) \/ Awaited(p, k)
        /\ NestingTaken(Collected(Surface), always, Surface)

CollectionInv ==
    /\ TypeCorrect
    /\ Histories
    /\ RowsAreReal
    /\ EntriesAreGood
    /\ VisitsGroups
    /\ SurfacesAreWhole
    /\ SurfaceLosesNothing

-----------------------------------------------------------------------------
(* The plan.                                                               *)

LEMMA Plans ==
    /\ Len(Plan("keycloak")) = 12
    /\ Plan("keycloak")[1] = "authentication_policy" /\ Plan("keycloak")[2] = "users"
    /\ Plan("keycloak")[3] = "groups" /\ Plan("keycloak")[4] = "memberships"
    /\ Plan("keycloak")[5] = "clients" /\ Plan("keycloak")[6] = "realm_roles"
    /\ Plan("keycloak")[7] = "client_roles" /\ Plan("keycloak")[8] = "user_role_mappings"
    /\ Plan("keycloak")[9] = "group_role_mappings" /\ Plan("keycloak")[10] = "composite_roles"
    /\ Plan("keycloak")[11] = "service_accounts" /\ Plan("keycloak")[12] = "authorization"
    /\ Len(Plan("google_workspace")) = 5
    /\ Plan("google_workspace")[1] = "users" /\ Plan("google_workspace")[2] = "groups"
    /\ Plan("google_workspace")[3] = "memberships" /\ Plan("google_workspace")[4] = "admin_roles"
    /\ Plan("google_workspace")[5] = "admin_role_assignments"
    /\ Len(Plan("gcp_iam")) = 2
    /\ Plan("gcp_iam")[1] = "iam_allow_policies" /\ Plan("gcp_iam")[2] = "service_accounts"
BY DEF Plan

LEMMA PlanLength == ASSUME NEW kind \in Kinds PROVE Len(Plan(kind)) \in 1 .. 12
BY Plans DEF Kinds

PlaceInPlan(surface) ==
    CASE surface = "authentication_policy" -> 1
      [] surface = "users" -> 2
      [] surface = "groups" -> 3
      [] surface = "memberships" -> 4
      [] surface = "clients" -> 5
      [] surface = "realm_roles" -> 6
      [] surface = "client_roles" -> 7
      [] surface = "user_role_mappings" -> 8
      [] surface = "group_role_mappings" -> 9
      [] surface = "composite_roles" -> 10
      [] surface = "service_accounts" -> 11
      [] surface = "authorization" -> 12

LEMMA PlanIsInjective ==
    ASSUME NEW kind \in Kinds, NEW i \in 1 .. Len(Plan(kind)), NEW j \in 1 .. Len(Plan(kind)),
           Plan(kind)[i] = Plan(kind)[j]
    PROVE  i = j
<1>1. CASE kind = "keycloak"
  <2>1. \A n \in 1 .. 12 : PlaceInPlan(Plan("keycloak")[n]) = n
    BY Plans DEF PlaceInPlan
  <2>2. i \in 1 .. 12 /\ j \in 1 .. 12
    BY <1>1, Plans
  <2> QED BY <1>1, <2>1, <2>2
<1>2. CASE kind = "google_workspace"
  BY <1>2, Plans
<1>3. CASE kind = "gcp_iam"
  BY <1>3, Plans
<1> QED BY <1>1, <1>2, <1>3 DEF Kinds

(* The surfaces whose rows a Keycloak surface visits come before it.       *)
Sources(surface) ==
    CASE surface \in {"memberships", "group_role_mappings"} -> {"groups"}
      [] surface = "user_role_mappings" -> {"users"}
      [] surface \in {"client_roles", "service_accounts"} -> {"clients"}
      [] surface = "composite_roles" -> {"realm_roles", "client_roles"}
      [] OTHER -> {}

LEMMA SourcesComeFirst ==
    ASSUME NEW i \in 1 .. 12, NEW s \in Sources(Plan("keycloak")[i])
    PROVE  \E j \in 1 .. i - 1 : Plan("keycloak")[j] = s
<1>1. CASE i \in {4, 9}
  BY <1>1, Plans DEF Sources
<1>2. CASE i \in {7, 11}
  BY <1>2, Plans DEF Sources
<1>3. CASE i = 8
  BY <1>3, Plans DEF Sources
<1>4. CASE i = 10
  BY <1>4, Plans DEF Sources
<1>5. CASE i \in {1, 2, 3, 5, 6, 12}
  BY <1>5, Plans DEF Sources
<1> QED BY <1>1, <1>2, <1>3, <1>4, <1>5

LEMMA SurfaceIsPlanned ==
    ASSUME TypeCorrect, step <= Last
    PROVE  /\ request.kind \in Kinds
           /\ step \in 1 .. Last
           /\ Surface \in Surfaces(request.kind)
           /\ \A i \in 1 .. step - 1 : i \in 1 .. Last /\ Plan(request.kind)[i] # Surface
<1>1. request.kind \in Kinds
  BY CollectionAssumption DEF TypeCorrect
<1>2. Last \in 1 .. 12
  BY <1>1, PlanLength DEF Last
<1>3. step \in 1 .. Last
  BY <1>2 DEF TypeCorrect
<1>4. \A i \in 1 .. step - 1 : i \in 1 .. Last /\ i # step
  BY <1>2, <1>3
<1>5. \A i \in 1 .. step - 1 : Plan(request.kind)[i] # Surface
  BY <1>1, <1>3, <1>4, PlanIsInjective DEF Surface, Last
<1> QED BY <1>1, <1>3, <1>4, <1>5 DEF Surfaces, Surface, Last

(* What each connector may be asked to collect.                            *)
LEMMA SurfaceNames ==
    /\ Surfaces("keycloak") = {"authentication_policy", "users", "groups", "memberships", "clients",
                               "realm_roles", "client_roles", "user_role_mappings",
                               "group_role_mappings", "composite_roles", "service_accounts",
                               "authorization"}
    /\ Surfaces("google_workspace") = {"users", "groups", "memberships", "admin_roles",
                                       "admin_role_assignments"}
    /\ Surfaces("gcp_iam") = {"iam_allow_policies", "service_accounts"}
<1>1. 1 .. 12 = {1, 2, 3, 4, 5, 6, 7, 8, 9, 10, 11, 12} /\ 1 .. 5 = {1, 2, 3, 4, 5} /\ 1 .. 2 = {1, 2}
  OBVIOUS
<1>2. Surfaces("keycloak") = {Plan("keycloak")[i] : i \in {1, 2, 3, 4, 5, 6, 7, 8, 9, 10, 11, 12}}
  BY <1>1, Plans DEF Surfaces
<1>3. Surfaces("google_workspace") = {Plan("google_workspace")[i] : i \in {1, 2, 3, 4, 5}}
  BY <1>1, Plans DEF Surfaces
<1>4. Surfaces("gcp_iam") = {Plan("gcp_iam")[i] : i \in {1, 2}}
  BY <1>1, Plans DEF Surfaces
<1> QED BY <1>2, <1>3, <1>4, Plans

-----------------------------------------------------------------------------
(* What is listed and shown in a source that holds more.                   *)

LEMMA ListedGrows ==
    ASSUME NEW v, NEW w, Within(v, w), NEW s, NEW p
    PROVE  Listed(v, s, p) \subseteq Listed(w, s, p)
<1>1. /\ v.users \subseteq w.users /\ v.groups \subseteq w.groups /\ v.member \subseteq w.member
      /\ v.clients \subseteq w.clients /\ v.roles \subseteq w.roles /\ v.grants \subseteq w.grants
      /\ v.composite \subseteq w.composite
  BY DEF Within, WorldFields
<1> QED BY <1>1 DEF Listed

LEMMA CompositesGrow ==
    ASSUME NEW v, NEW w, Within(v, w), NEW r, IsComposite(v, r)
    PROVE  IsComposite(w, r)
BY DEF IsComposite, Within, WorldFields

LEMMA GroupsGrow ==
    ASSUME NEW v, NEW w, Within(v, w), NEW g
    PROVE  GroupRow(v, g) \subseteq GroupRow(w, g)
BY DEF GroupRow, Within, WorldFields

LEMMA DueGrows ==
    ASSUME NEW v, NEW w, Within(v, w), NEW s
    PROVE  Due(v, s) \subseteq Due(w, s)
<1>1. /\ v.users \subseteq w.users /\ v.groups \subseteq w.groups /\ v.clients \subseteq w.clients
      /\ v.roles \subseteq w.roles
  BY DEF Within, WorldFields
<1>2. \A r : IsComposite(v, r) => IsComposite(w, r)
  BY CompositesGrow
<1> QED BY <1>1, <1>2 DEF Due

LEMMA ShowsLess ==
    ASSUME NEW v, NEW w, Within(v, w), NEW s, NEW p, NEW k, NEW row
    PROVE  /\ Shows(w, s, p, k, row) => Shows(v, s, p, k, row)
           /\ Flagged(w, s, row) => Flagged(v, s, row)
<1>1. GroupRow(v, k) \subseteq GroupRow(w, k)
  BY GroupsGrow
<1>2. \A r : IsComposite(v, r) => IsComposite(w, r)
  BY CompositesGrow
<1>3. Shows(w, s, p, k, row) => Shows(v, s, p, k, row)
  BY <1>1 DEF Shows
<1> QED BY <1>2, <1>3 DEF Flagged

LEMMA RealGrows ==
    ASSUME NEW v, NEW w, Within(v, w), NEW s, NEW row, Real(v, s, row)
    PROVE  Real(w, s, row)
<1>1. /\ v.groups \subseteq w.groups /\ v.member \subseteq w.member /\ v.grants \subseteq w.grants
      /\ v.composite \subseteq w.composite
  BY DEF Within, WorldFields
<1>2. Nested(v) \subseteq Nested(w)
  BY <1>1 DEF Nested
<1> QED BY <1>1, <1>2 DEF Real

LEMMA TakenIsLess ==
    ASSUME NEW v, NEW w, Within(v, w), NEW s, NEW p, NEW k, NEW C, NEW D, C \subseteq D,
           Taken(C, w, s, p, k)
    PROVE  Taken(D, v, s, p, k)
<1>1. GroupRow(v, k) \subseteq GroupRow(w, k)
  BY GroupsGrow
<1> QED BY <1>1 DEF Taken

LEMMA NestedGrows ==
    ASSUME NEW v, NEW w, Within(v, w)
    PROVE  Nested(v) \subseteq Nested(w)
BY DEF Within, WorldFields, Nested

(* The source shows what it lists.                                         *)
LEMMA RowShows ==
    ASSUME NEW w, WellFormed(w), NEW s \in Surfaces(request.kind), request.kind \in Kinds,
           NEW p, NEW k \in Listed(w, s, p), NEW row, row = Row(w, s, p, k),
           s = "memberships" /\ p = None => ~Keycloak
    PROVE  /\ Shows(w, s, p, k, row)
           /\ Flagged(w, s, row)
           /\ s = "groups" => row \subseteq w.groups
           /\ s # "groups" /\ ~(s = "memberships" /\ p = None) => Real(w, s, row)
<1>1. Shows(w, s, p, k, row)
  <2>1. CASE s = "memberships"
    <3>1. k \in Id
      BY <2>1 DEF Listed, WellFormed
    <3> QED BY <2>1, <3>1 DEF Shows, Row
  <2>2. CASE s # "memberships"
    BY <2>2 DEF Shows, Row, UserRow, RoleRow
  <2> QED BY <2>1, <2>2
<1>2. Flagged(w, s, row)
  BY DEF Flagged, Row, RoleRow, IsComposite
<1>3. ASSUME s = "groups" PROVE row \subseteq w.groups
  BY <1>3 DEF Row, GroupRow, Listed
<1>4. ASSUME s # "groups", ~(s = "memberships" /\ p = None) PROVE Real(w, s, row)
  <2>1. s = "memberships" => row \in w.member
    BY <1>4 DEF Row, Listed
  <2>2. s \in {"user_role_mappings", "group_role_mappings"} => row \in w.grants
    BY DEF Row, Listed
  <2>3. s \in {"admin_role_assignments", "iam_allow_policies"} => row \in w.grants
    BY DEF Row, Listed
  <2>4. s = "composite_roles" => row \in w.composite
    BY DEF Row, Listed
  <2> QED BY <1>4, <2>1, <2>2, <2>3, <2>4 DEF Real
<1> QED BY <1>1, <1>2, <1>3, <1>4

(* A listing of pages has keys.                                            *)
LEMMA ListedAreKeys ==
    ASSUME NEW w, WellFormed(w), NEW s \in Surfaces(request.kind), request.kind \in Kinds,
           ~Single(s), NEW p
    PROVE  IsListing(Listed(w, s, p))
<1>1. /\ w.users \subseteq Id /\ w.groups \subseteq Id /\ w.clients \subseteq Id /\ w.roles \subseteq Id
      /\ w.grants \subseteq Id \X Id
  BY DEF WellFormed
<1>2. Listed(w, s, p) \subseteq Keys
  <2>1. CASE request.kind = "keycloak"
    BY <1>1, <2>1, SurfaceNames DEF Listed, Keys, Single, Keycloak
  <2>2. CASE request.kind = "google_workspace"
    BY <1>1, <2>2, SurfaceNames DEF Listed, Keys, Single, Keycloak
  <2>3. CASE request.kind = "gcp_iam"
    BY <1>1, <2>3, SurfaceNames DEF Listed, Keys, Single, Keycloak
  <2> QED BY <2>1, <2>2, <2>3 DEF Kinds
<1> QED BY <1>2, KeysAreFinite

LEMMA WholeIsLess ==
    ASSUME NEW v, NEW w, Within(v, w), NEW s, NEW C, NEW D, C \subseteq D, Whole(C, w, s)
    PROVE  Whole(D, v, s)
<1>1. ASSUME NEW p \in Due(v, s), NEW k \in Listed(v, s, p)
      PROVE  Taken(D, v, s, p, k)
  <2>1. p \in Due(w, s) /\ k \in Listed(w, s, p)
    BY DueGrows, ListedGrows
  <2>2. Taken(C, w, s, p, k)
    BY <2>1 DEF Whole
  <2> QED BY <2>2, TakenIsLess
<1>2. NestingTaken(D, v, s)
  <2>1. Nested(v) \subseteq Nested(w)
    BY NestedGrows
  <2> QED BY <2>1 DEF Whole, NestingTaken
<1> QED BY <1>1, <1>2 DEF Whole

LEMMA WithinItself == ASSUME NEW w PROVE Within(w, w)
BY DEF Within

LEMMA WithinIsTransitive ==
    ASSUME NEW u, NEW v, NEW w, Within(u, v), Within(v, w)
    PROVE  Within(u, w)
BY DEF Within

(* The request does not change, and the operators read nothing else of the *)
(* state than the source they are given.                                   *)
LEMMA SameRequest ==
    ASSUME request' = request, NEW s, NEW p, NEW k, NEW row
    PROVE  /\ Listed(always, s, p)' = Listed(always', s, p)
           /\ Listed(world, s, p)' = Listed(world', s, p)
           /\ Due(always, s)' = Due(always', s)
           /\ Shows(always, s, p, k, row)' <=> Shows(always', s, p, k, row)
           /\ Flagged(always, s, row)' <=> Flagged(always', s, row)
           /\ Real(ever, s, row)' <=> Real(ever', s, row)
<1>1. Listed(always, s, p)' = Listed(always', s, p) /\ Listed(world, s, p)' = Listed(world', s, p)
  BY DEF Listed, Keycloak
<1>2. Due(always, s)' = Due(always', s)
  BY DEF Due, IsComposite, Keycloak
<1>3. Shows(always, s, p, k, row)' <=> Shows(always', s, p, k, row)
  BY DEF Shows, GroupRow, Keycloak
<1>4. Flagged(always, s, row)' <=> Flagged(always', s, row)
  BY DEF Flagged, IsComposite
<1>5. Real(ever, s, row)' <=> Real(ever', s, row)
  BY DEF Real, Keycloak, Nested
<1> QED BY <1>1, <1>2, <1>3, <1>4, <1>5

LEMMA SameRequestTaken ==
    ASSUME request' = request, NEW s, NEW p, NEW k
    PROVE  /\ Taken(Collected(s), always, s, p, k)' <=> Taken(Collected(s)', always', s, p, k)
           /\ NestingTaken(Collected(s), always, s)' <=> NestingTaken(Collected(s)', always', s)
           /\ Single(s)' <=> Single(s)
           /\ Sound(s)' <=> s \in Required(request.kind) /\ Wanted(s) /\ s \notin errors'
<1>1. Taken(Collected(s), always, s, p, k)' <=> Taken(Collected(s)', always', s, p, k)
  BY DEF Taken, GroupRow, Keycloak
<1>2. NestingTaken(Collected(s), always, s)' <=> NestingTaken(Collected(s)', always', s)
  BY DEF NestingTaken, Nested, Keycloak
<1>3. Single(s)' <=> Single(s)
  BY DEF Single, Keycloak
<1>4. Wanted(s)' <=> Wanted(s)
  BY DEF Wanted
<1>5. Sound(s)' <=> s \in Required(request.kind) /\ Wanted(s) /\ s \notin errors'
  BY <1>4 DEF Sound
<1> QED BY <1>1, <1>2, <1>3, <1>5

LEMMA SameRequestWhole ==
    ASSUME request' = request, NEW s
    PROVE  Whole(Collected(s), always, s)' <=> Whole(Collected(s)', always', s)
<1>1. \A p : Listed(always, s, p)' = Listed(always', s, p)
  BY SameRequest
<1>2. Due(always, s)' = Due(always', s)
  BY SameRequest
<1>3. \A p, k : Taken(Collected(s), always, s, p, k)' <=> Taken(Collected(s)', always', s, p, k)
  BY SameRequestTaken
<1>4. NestingTaken(Collected(s), always, s)' <=> NestingTaken(Collected(s)', always', s)
  BY SameRequestTaken
<1> QED BY <1>1, <1>2, <1>3, <1>4 DEF Whole

LEMMA SameData ==
    ASSUME NEW s, data'[s] = data[s]
    PROVE  Collected(s)' = Collected(s)
BY DEF Collected, Says

-----------------------------------------------------------------------------
(* What the steps have in common.                                          *)

(* A step leaves the earlier surfaces whole; when it ends a surface that   *)
(* did not fail, that surface is to be whole.                              *)
LEMMA SurfacesStayWhole ==
    ASSUME TypeCorrect, SurfacesAreWhole, NEW S, S = Surface,
           request' = request, Within(always', always), disturbed => disturbed',
           errors \subseteq errors',
           \A s \in Surfaces(request.kind) : (step <= Last /\ s = S) \/ data'[s] = data[s],
           \/ step' = step
           \/ /\ step' = step + 1 /\ step <= Last
              /\ ~disturbed' /\ S \in Required(request.kind) /\ Wanted(S) /\ S \notin errors'
                   => Whole(Collected(S)', always', S)
    PROVE  SurfacesAreWhole'
<1> SUFFICES ASSUME ~disturbed', NEW i \in 1 .. step' - 1, Sound(Plan(request.kind)[i])'
             PROVE  Whole(Collected(Plan(request.kind)[i]), always, Plan(request.kind)[i])'
  BY DEF SurfacesAreWhole
<1> PICK s : s = Plan(request.kind)[i]
  OBVIOUS
<1>0. s = Plan(request.kind)[i]'
  OBVIOUS
<1>1. s \in Required(request.kind) /\ Wanted(s) /\ s \notin errors'
  <2>1. Sound(s)'
    BY <1>0
  <2> QED BY <2>1, SameRequestTaken
<1>2. s \in Surfaces(request.kind)
  BY <1>1 DEF Required
<1>3. step \in Nat
  BY SurfaceIsPlanned DEF TypeCorrect
<1>4. Whole(Collected(s)', always', s)
  <2>1. CASE i \in 1 .. step - 1
    <3>1. Whole(Collected(s), always, s)
      BY <1>1, <2>1 DEF SurfacesAreWhole, Sound
    <3>2. data'[s] = data[s]
      BY <1>2, <2>1, SurfaceIsPlanned
    <3>3. Collected(s)' = Collected(s)
      BY <3>2, SameData
    <3> QED BY <3>1, <3>3, WholeIsLess
  <2>2. CASE i \notin 1 .. step - 1
    <3>1. i = step /\ step' = step + 1
      BY <2>2, <1>3
    <3>2. s = S
      BY <3>1 DEF Surface
    <3> QED BY <3>1, <3>2, <1>1, <1>3
  <2> QED BY <2>1, <2>2
<1>5. Whole(Collected(s), always, s)'
  BY <1>4, SameRequestWhole
<1> QED BY <1>5, <1>0

LEMMA HistoriesStay ==
    ASSUME Histories, UNCHANGED sourceVars
    PROVE  Histories' /\ Within(always', always) /\ Within(always', world') /\ WellFormed(world')
<1>1. world' = world /\ always' = always /\ ever' = ever
  BY DEF sourceVars
<1>2. Histories'
  BY <1>1 DEF Histories, Within, WellFormed
<1> QED BY <1>1, <1>2, WithinItself DEF Histories

LEMMA RowsStayReal ==
    ASSUME RowsAreReal, request' = request, Within(always', always), Within(ever, ever'),
           \A s \in Surfaces(request.kind) : \A d \in data'[s] :
               d \in data[s] \/ (Real(ever, s, d.row) /\ Flagged(always, s, d.row))
    PROVE  RowsAreReal'
<1> SUFFICES ASSUME NEW s \in Surfaces(request.kind), NEW d \in data'[s]
             PROVE  Real(ever, s, d.row)' /\ Flagged(always, s, d.row)'
  BY DEF RowsAreReal
<1> PICK row : row = d.row
  OBVIOUS
<1>1. Real(ever, s, row) /\ Flagged(always, s, row)
  BY DEF RowsAreReal
<1>2. Real(ever', s, row) /\ Flagged(always', s, row)
  BY <1>1, RealGrows, ShowsLess
<1> QED BY <1>2, SameRequest

(* A listing that starts has everything ahead.                             *)
LEMMA FreshIsInSight ==
    ASSUME NEW S, S = Surface', request' = request, request.kind \in Kinds,
           S \in Surfaces(request.kind), page' = 0, listing' = {}, WellFormed(world'),
           NEW p, NEW k, k \in Listed(world', S, p)
    PROVE  InSight(p, k)'
<1>1. CASE Single(S)
  BY <1>1, SameRequestTaken DEF InSight
<1>2. CASE ~Single(S)
  <2> PICK K : K = Listed(world', S, p)
    OBVIOUS
  <2>1. IsListing(K)
    BY <1>2, ListedAreKeys
  <2>2. First(0, K) = {}
    BY <2>1, BeforeIsFinite, SMT DEF First
  <2>3. page' * PageSize = 0
    BY CollectionAssumption
  <2>4. k \in Ahead(K)'
    BY <2>2, <2>3 DEF Ahead
  <2>5. K = Listed(world, S, p)'
    BY SameRequest
  <2> QED BY <2>4, <2>5 DEF InSight
<1> QED BY <1>1, <1>2

LEMMA StartLosesNothing ==
    ASSUME NEW S, S = Surface', request' = request, request.kind \in Kinds,
           S \in Surfaces(request.kind), page' = 0, listing' = {},
           Within(always', world'), WellFormed(world'),
           NestingTaken(Collected(S)', always', S),
           \A p \in Due(always', S) : \A k \in Listed(always', S, p) :
               \/ Taken(Collected(S)', always', S, p, k)
               \/ \E v \in queue' : v[1] = p \/ (S = "memberships" /\ v[1] = None)
    PROVE  SurfaceLosesNothing'
<1>1. ASSUME NEW p \in Due(always', S), NEW k \in Listed(always', S, p)
      PROVE  Taken(Collected(S), always, S, p, k)' \/ Awaited(p, k)'
  <2>1. CASE Taken(Collected(S)', always', S, p, k)
    BY <2>1, SameRequestTaken
  <2>2. CASE \E v \in queue' : v[1] = p
    <3>1. k \in Listed(world', S, p)
      BY ListedGrows
    <3>2. InSight(p, k)'
      BY <3>1, FreshIsInSight
    <3> QED BY <2>2, <3>2 DEF Awaited
  <2>3. CASE \E v \in queue' : S = "memberships" /\ v[1] = None
    <3>1. p \in always'.groups
      BY <2>3, SMT DEF Due
    <3>2. p \in Listed(world', S, None)
      BY <2>3, <3>1 DEF Listed, Within, WorldFields
    <3>3. InSight(None, p)'
      BY <3>2, FreshIsInSight
    <3> QED BY <2>3, <3>3 DEF Awaited
  <2> QED BY <1>1, <2>1, <2>2, <2>3
<1>2. NestingTaken(Collected(S), always, S)'
  BY SameRequestTaken
<1>3. \A p : Listed(always, S, p)' = Listed(always', S, p)
  BY SameRequest
<1>4. Due(always, S)' = Due(always', S)
  BY SameRequest
<1> QED BY <1>1, <1>2, <1>3, <1>4 DEF SurfaceLosesNothing

-----------------------------------------------------------------------------
(* A whole surface has all the facts, and visits all the parents.          *)

LEMMA TopIsTop == \A g \in DOMAIN ParentGroup : ParentGroup[TopGroup[g]] = None
BY CollectionAssumption

LEMMA WholeHasFacts ==
    ASSUME NEW w, WellFormed(w), NEW s \in Required(request.kind), request.kind \in Kinds,
           NEW C, Whole(C, w, s)
    PROVE  Facts(w, s) \subseteq C
<1> SUFFICES ASSUME NEW f \in Facts(w, s) PROVE f \in C
  OBVIOUS
<1>0. \A p \in Due(w, s) : \A k \in Listed(w, s, p) : Taken(C, w, s, p, k)
  BY DEF Whole
<1>1. CASE s \in {"users", "clients", "realm_roles", "admin_roles", "admin_role_assignments",
                  "iam_allow_policies"}
  <2>1. None \in Due(w, s)
    BY <1>1 DEF Due
  <2>2. f \in Listed(w, s, None)
    BY <1>1 DEF Listed, Facts
  <2> QED BY <1>0, <1>1, <2>1, <2>2 DEF Taken
<1>2. CASE s = "groups"
  <2>1. None \in Due(w, s) /\ f \in w.groups
    BY <1>2 DEF Due, Facts
  <2>2. CASE Keycloak
    <3>1. TopGroup[f] \in w.groups /\ ParentGroup[TopGroup[f]] = None
      <4>1. f \in DOMAIN ParentGroup /\ TopGroup[f] \in w.groups
        BY <2>1, SMT DEF WellFormed
      <4> QED BY <4>1, TopIsTop
    <3>2. TopGroup[f] \in Listed(w, s, None)
      BY <1>2, <2>2, <3>1 DEF Listed
    <3>3. f \in GroupRow(w, TopGroup[f])
      BY <2>1, <2>2 DEF GroupRow
    <3>4. GroupRow(w, TopGroup[f]) \subseteq C
      BY <1>0, <1>2, <2>1, <3>2 DEF Taken
    <3> QED BY <3>3, <3>4
  <2>3. CASE ~Keycloak
    <3>1. f \in Listed(w, s, None) /\ f \in GroupRow(w, f)
      BY <1>2, <2>1, <2>3 DEF Listed, GroupRow
    <3>2. GroupRow(w, f) \subseteq C
      BY <1>0, <1>2, <2>1, <3>1 DEF Taken
    <3> QED BY <3>1, <3>2
  <2> QED BY <2>2, <2>3
<1>3. CASE s = "memberships"
  <2>1. CASE f \in w.member
    <3>1. f = <<f[1], f[2]>> /\ f[1] \in Id /\ f[2] \in w.groups /\ f[2] \in Id
      BY <2>1 DEF WellFormed
    <3>2. f[2] \in Due(w, s)
      BY <1>3, <3>1 DEF Due
    <3>3. f[1] \in Listed(w, s, f[2])
      BY <1>3, <2>1, <3>1, CollectionAssumption DEF Listed
    <3>4. Taken(C, w, s, f[2], f[1])
      BY <1>0, <3>2, <3>3
    <3> QED BY <1>3, <3>1, <3>4 DEF Taken
  <2>2. CASE Keycloak /\ f \in Nested(w)
    BY <1>3, <2>2 DEF Whole, NestingTaken
  <2>3. f \in w.member \/ (Keycloak /\ f \in Nested(w))
    BY <1>3 DEF Facts
  <2> QED BY <2>1, <2>2, <2>3
<1>4. CASE s = "client_roles"
  <2>0. Keycloak
    BY <1>4, SurfaceNames DEF Required, Kinds, Keycloak
  <2>1. PICK r \in w.roles : RoleClient[r] # None /\ f = <<r, RoleClient[r]>>
    BY <1>4 DEF Facts
  <2>2. RoleClient[r] \in Due(w, s)
    BY <1>4, <2>0, <2>1 DEF Due, WellFormed
  <2>3. r \in Listed(w, s, RoleClient[r])
    BY <1>4, <2>1 DEF Listed
  <2>4. Taken(C, w, s, RoleClient[r], r)
    BY <1>0, <2>2, <2>3
  <2> QED BY <1>4, <2>1, <2>4 DEF Taken
<1>5. CASE s \in {"user_role_mappings", "group_role_mappings"}
  <2>0. Keycloak
    BY <1>5, SurfaceNames DEF Required, Kinds, Keycloak
  <2>1. f \in w.grants /\ f = <<f[1], f[2]>> /\ f[2] \in w.roles
    BY <1>5 DEF Facts, WellFormed
  <2>2. f[1] \in Due(w, s)
    BY <1>5, <2>0 DEF Due, Facts
  <2>3. f[2] \in Listed(w, s, f[1])
    BY <1>5, <2>1 DEF Listed
  <2>4. Taken(C, w, s, f[1], f[2])
    BY <1>0, <2>2, <2>3
  <2> QED BY <1>5, <2>1, <2>4 DEF Taken
<1>6. CASE s = "composite_roles"
  <2>0. Keycloak
    BY <1>6, SurfaceNames DEF Required, Kinds, Keycloak
  <2>1. f \in w.composite /\ f = <<f[1], f[2]>> /\ f[1] \in w.roles /\ f[2] \in w.roles
    BY <1>6 DEF Facts, WellFormed
  <2>2. f[1] \in Due(w, s)
    BY <1>6, <2>0, <2>1 DEF Due, IsComposite
  <2>3. f[2] \in Listed(w, s, f[1])
    BY <1>6, <2>1 DEF Listed
  <2>4. Taken(C, w, s, f[1], f[2])
    BY <1>0, <2>2, <2>3
  <2> QED BY <1>6, <2>1, <2>4 DEF Taken
<1>7. CASE s = "service_accounts"
  <2>1. CASE Keycloak
    <3>1. PICK c \in w.clients : ServiceUser[c] # None /\ f = ServiceUser[c]
      BY <1>7, <2>1 DEF Facts
    <3>2. c \in Due(w, s) /\ f \in Listed(w, s, c)
      BY <1>7, <2>1, <3>1 DEF Due, Listed
    <3>3. Taken(C, w, s, c, f)
      BY <1>0, <3>2
    <3> QED BY <1>7, <3>3 DEF Taken
  <2>2. CASE ~Keycloak
    <3>1. None \in Due(w, s) /\ f \in Listed(w, s, None)
      BY <1>7, <2>2 DEF Due, Listed, Facts
    <3>2. Taken(C, w, s, None, f)
      BY <1>0, <3>1
    <3> QED BY <1>7, <3>2 DEF Taken
  <2> QED BY <2>1, <2>2
<1>8. s \in {"users", "clients", "realm_roles", "admin_roles", "admin_role_assignments",
             "iam_allow_policies", "groups", "memberships", "client_roles", "user_role_mappings",
             "group_role_mappings", "composite_roles", "service_accounts"}
  BY SurfaceNames DEF Required, Kinds
<1> QED BY <1>1, <1>2, <1>3, <1>4, <1>5, <1>6, <1>7, <1>8

(* The source of a surface that may start is whole.                        *)
LEMMA SourceIsWhole ==
    ASSUME TypeCorrect, SurfacesAreWhole, ~disturbed, step <= Last, Keycloak,
           NEW S, S = Surface, NEW s \in Sources(S), s \in Required(request.kind), Wanted(s),
           s \notin errors
    PROVE  Whole(Collected(s), always, s)
<1>1. Plan(request.kind) = Plan("keycloak") /\ step \in 1 .. 12
  BY SurfaceIsPlanned, Plans DEF Keycloak, Last
<1>2. PICK j \in 1 .. step - 1 : Plan(request.kind)[j] = s
  BY <1>1, SourcesComeFirst DEF Surface
<1> QED BY <1>2 DEF SurfacesAreWhole, Sound

LEMMA SourceHasFacts ==
    ASSUME TypeCorrect, Histories, SurfacesAreWhole, ~disturbed, step <= Last, Keycloak,
           NEW S, S = Surface, Wanted(S), ~DependencyFailed(S), S \in Required(request.kind),
           NEW s \in Sources(S)
    PROVE  Facts(always, s) \subseteq Collected(s)
<1>1. request.kind \in Kinds /\ request.kind = "keycloak"
  BY SurfaceIsPlanned DEF Keycloak
<1>2. s \in Required(request.kind)
  BY <1>1, SurfaceNames DEF Sources, Required
<1>3. s \notin errors
  BY DEF Sources, DependencyFailed, Missing
<1>4. Wanted(s)
  BY DEF Sources, DependencyFailed, Missing, Wanted
<1>5. Whole(Collected(s), always, s)
  BY <1>2, <1>3, <1>4, SourceIsWhole
<1> QED BY <1>1, <1>2, <1>5, WholeHasFacts DEF Histories

(* A surface that may start visits every parent that is due.               *)
LEMMA VisitsCover ==
    ASSUME TypeCorrect, Histories, RowsAreReal, SurfacesAreWhole, ~disturbed, step <= Last,
           NEW S, S = Surface, Wanted(S), ~DependencyFailed(S), S \in Required(request.kind),
           NEW p \in Due(always, S)
    PROVE  \E v \in Visits(S) : v[1] = p \/ (S = "memberships" /\ v[1] = None)
<1>1. CASE ~Keycloak
  BY <1>1 DEF Visits, Due, Once
<1>2. CASE Keycloak
  <2>0. \A s \in Sources(S) : Facts(always, s) \subseteq Collected(s)
    BY <1>2, SourceHasFacts
  <2>1. CASE S \in {"memberships", "group_role_mappings"}
    <3>1. p \in Facts(always, "groups")
      BY <1>2, <2>1 DEF Due, Facts
    <3>2. p \in Collected("groups")
      BY <2>0, <2>1, <3>1 DEF Sources
    <3>3. PICK d \in data["groups"] : d.row = p
      BY <3>2 DEF Collected, Says
    <3>4. <<d.row, d.nr>> \in Visits(S)
      BY <1>2, <2>1, <3>3 DEF Visits
    <3> QED BY <3>3, <3>4
  <2>2. CASE S = "client_roles"
    <3>1. p \in Facts(always, "clients")
      BY <1>2, <2>2 DEF Due, Facts
    <3>2. p \in Collected("clients")
      BY <2>0, <2>2, <3>1 DEF Sources
    <3>3. PICK d \in data["clients"] : d.row = p
      BY <3>2 DEF Collected, Says
    <3>4. <<d.row, d.nr>> \in Visits(S)
      BY <1>2, <2>2, <3>3 DEF Visits
    <3> QED BY <3>3, <3>4
  <2>3. CASE S = "user_role_mappings"
    <3>1. p \in Facts(always, "users")
      BY <1>2, <2>3 DEF Due, Facts
    <3>2. p \in Collected("users")
      BY <2>0, <2>3, <3>1 DEF Sources
    <3>3. PICK d \in data["users"] : d.row.id = p
      BY <3>2 DEF Collected, Says
    <3>4. <<d.row.id, d.nr>> \in Visits(S)
      BY <1>2, <2>3, <3>3 DEF Visits
    <3> QED BY <3>3, <3>4
  <2>4. CASE S = "service_accounts"
    <3>1. p \in Facts(always, "clients") /\ ServiceUser[p] # None
      BY <1>2, <2>4 DEF Due, Facts
    <3>2. p \in Collected("clients")
      BY <2>0, <2>4, <3>1 DEF Sources
    <3>3. PICK d \in data["clients"] : d.row = p
      BY <3>2 DEF Collected, Says
    <3>4. <<d.row, d.nr>> \in Visits(S)
      BY <1>2, <2>4, <3>1, <3>3 DEF Visits
    <3> QED BY <3>3, <3>4
  <2>5. CASE S = "composite_roles"
    <3>0. request.kind = "keycloak" /\ "realm_roles" \in Surfaces(request.kind)
                                    /\ "client_roles" \in Surfaces(request.kind)
      BY <1>2, SurfaceNames DEF Keycloak
    <3>1. p \in always.roles /\ IsComposite(always, p)
      BY <1>2, <2>5 DEF Due
    <3>2. CASE RoleClient[p] = None
      <4>1. p \in Facts(always, "realm_roles")
        BY <3>1, <3>2 DEF Facts
      <4>2. p \in Collected("realm_roles")
        BY <2>0, <2>5, <4>1 DEF Sources
      <4>3. PICK d \in data["realm_roles"] : d.row.id = p
        BY <4>2 DEF Collected, Says
      <4>4. d.row.composite
        BY <3>0, <3>1, <4>3 DEF RowsAreReal, Flagged
      <4>5. <<d.row.id, d.nr>> \in RoleVisits
        BY <4>4 DEF RoleVisits
      <4> QED BY <1>2, <2>5, <4>3, <4>5 DEF Visits
    <3>3. CASE RoleClient[p] # None
      <4>1. <<p, RoleClient[p]>> \in Facts(always, "client_roles")
        BY <3>1, <3>3 DEF Facts
      <4>2. <<p, RoleClient[p]>> \in Collected("client_roles")
        BY <2>0, <2>5, <4>1 DEF Sources
      <4>3. PICK d \in data["client_roles"] : d.row[1].id = p
        BY <4>2 DEF Collected, Says
      <4>4. d.row[1].composite
        BY <3>0, <3>1, <4>3 DEF RowsAreReal, Flagged
      <4>5. <<d.row[1].id, d.nr>> \in RoleVisits
        BY <4>4 DEF RoleVisits
      <4> QED BY <1>2, <2>5, <4>3, <4>5 DEF Visits
    <3> QED BY <3>2, <3>3
  <2>6. CASE S \notin {"memberships", "group_role_mappings", "client_roles", "user_role_mappings",
                       "service_accounts", "composite_roles", "authorization"}
    BY <1>2, <2>6 DEF Visits, Due, Once
  <2>7. S # "authorization"
    BY DEF Required
  <2> QED BY <2>1, <2>2, <2>3, <2>4, <2>5, <2>6, <2>7
<1> QED BY <1>1, <1>2

(* Memberships start with the nesting of the groups.                       *)
LEMMA NestingIsTaken ==
    ASSUME TypeCorrect, Histories, SurfacesAreWhole, ~disturbed, step <= Last,
           NEW S, S = Surface, Wanted(S), ~DependencyFailed(S), S \in Required(request.kind),
           NEW C, C = Says(S, {d.row : d \in Initially(S)})
    PROVE  NestingTaken(C, always, S)
<1> SUFFICES ASSUME S = "memberships", Keycloak, NEW g \in always.groups, ParentGroup[g] # None
             PROVE  <<g, ParentGroup[g]>> \in C
  BY DEF NestingTaken, Nested
<1>1. Facts(always, "groups") \subseteq Collected("groups")
  BY SourceHasFacts DEF Sources
<1>2. g \in Collected("groups")
  BY <1>1 DEF Facts
<1>3. PICK d \in data["groups"] : d.row = g
  BY <1>2 DEF Collected, Says
<1>4. PICK e \in Initially(S) : e.row = <<g, ParentGroup[g]>>
  <2>1. [row |-> <<d.row, ParentGroup[d.row]>>, nr |-> d.nr] \in Initially(S)
    BY <1>3 DEF Initially
  <2> QED BY <2>1, <1>3
<1>5. e.row \in {c.row : c \in Initially(S)}
  OBVIOUS
<1>6. C = {c.row : c \in Initially(S)}
  BY DEF Says
<1> QED BY <1>4, <1>5, <1>6

-----------------------------------------------------------------------------
(* A step that goes on with the listing, or does nothing to it.            *)

LEMMA EntryStays ==
    ASSUME NEW e, EntryIsGood(e), UNCHANGED <<request, step, queue>>,
           Within(always', always), Within(ever, ever')
    PROVE  EntryIsGood(e)'
<1> PICK S, p : S = Surface /\ p = Parent
  OBVIOUS
<1>1. S = Surface' /\ p = Parent'
  BY DEF Surface, Parent, Visit
<1>2. Shows(always', S, p, e.key, e.row) /\ Flagged(always', S, e.row)
  BY ShowsLess DEF EntryIsGood
<1>3. IF S = "groups" THEN e.row \subseteq ever'.groups
      ELSE ~(S = "memberships" /\ p = None) => Real(ever', S, e.row)
  <2>1. CASE S = "groups"
    BY <2>1 DEF EntryIsGood, Within, WorldFields
  <2>2. CASE S # "groups"
    BY <2>2, RealGrows DEF EntryIsGood
  <2> QED BY <2>1, <2>2
<1>4. /\ Shows(always, S, p, e.key, e.row)' /\ Flagged(always, S, e.row)'
      /\ Real(ever', S, e.row) <=> Real(ever, S, e.row)'
  BY <1>2, SameRequest
<1> QED BY <1>1, <1>3, <1>4 DEF EntryIsGood

(* Whoever is awaited first is awaited in the listing in progress.         *)
LEMMA VisitIsQueued == ASSUME queue # {} PROVE Visit \in queue
BY DEF Visit

LEMMA OnceIsVisited ==
    ASSUME VisitsGroups, queue # {}, Surface = "memberships", NEW v \in queue, v[1] = None
    PROVE  v = Visit /\ Parent = None /\ ~Keycloak /\ queue = Once
<1>1. ~Keycloak /\ queue = Once
  BY DEF VisitsGroups
<1>2. Visit \in queue
  BY VisitIsQueued
<1> QED BY <1>1, <1>2 DEF Once, Parent

LEMMA SightKeepsInv ==
    ASSUME CollectionInv, TypeCorrect', Histories', EntriesAreGood',
           UNCHANGED <<request, step, queue, data, errors>>,
           Within(always', always), Within(always', world'), Within(ever, ever'),
           disturbed => disturbed',
           NEW S, S = Surface, NEW p, p = Parent,
           queue # {} /\ ~disturbed' =>
               \A k \in Listed(world', S, p) : InSight(p, k) => InSight(p, k)'
    PROVE  CollectionInv'
<1> USE DEF CollectionInv
<1>1. RowsAreReal'
  BY RowsStayReal
<1>2. VisitsGroups'
  BY DEF VisitsGroups, Surface, Keycloak, Once
<1>3. SurfacesAreWhole'
  BY SurfacesStayWhole
<1>4. SurfaceLosesNothing'
  <2> SUFFICES ASSUME ~disturbed', queue' # {}, Sound(Surface)'
               PROVE  /\ \A q \in Due(always', S) : \A k \in Listed(always', S, q) :
                            Taken(Collected(S), always, S, q, k)' \/ Awaited(q, k)'
                      /\ NestingTaken(Collected(S), always, S)'
    <3>1. S = Surface'
      BY DEF Surface
    <3>2. Due(always, S)' = Due(always', S) /\ \A q : Listed(always, S, q)' = Listed(always', S, q)
      BY SameRequest
    <3> QED BY <3>1, <3>2 DEF SurfaceLosesNothing
  <2>1. S = Surface' /\ Visit' = Visit /\ Parent' = Parent
    BY DEF Surface, Parent, Visit
  <2>2. Sound(S)'
    BY <2>1
  <2>3. Sound(S)
    BY <2>2, SameRequestTaken DEF Sound
  <2>4. Collected(S)' = Collected(S)
    BY SameData
  <2>5. ASSUME NEW q \in Due(always', S), NEW k \in Listed(always', S, q)
        PROVE  Taken(Collected(S), always, S, q, k)' \/ Awaited(q, k)'
    <3>1. q \in Due(always, S) /\ k \in Listed(always, S, q) /\ k \in Listed(world', S, q)
      BY DueGrows, ListedGrows
    <3>2. Taken(Collected(S), always, S, q, k) \/ Awaited(q, k)
      BY <2>3, <3>1 DEF SurfaceLosesNothing
    <3>3. CASE Taken(Collected(S), always, S, q, k)
      <4>1. Taken(Collected(S), always', S, q, k)
        BY <3>3, TakenIsLess
      <4> QED BY <4>1, <2>4, SameRequestTaken
    <3>4. CASE \E v \in queue : v[1] = q /\ (v = Visit => InSight(q, k))
      <4>1. PICK v \in queue : v[1] = q /\ (v = Visit => InSight(q, k))
        BY <3>4
      <4>2. v = Visit => InSight(q, k)'
        <5> SUFFICES ASSUME v = Visit PROVE InSight(q, k)'
          OBVIOUS
        <5>1. q = p
          BY <4>1 DEF Parent
        <5> QED BY <4>1, <3>1, <5>1
      <4> QED BY <4>1, <4>2, <2>1 DEF Awaited
    <3>5. CASE \E v \in queue : S = "memberships" /\ v[1] = None /\ InSight(None, q)
      <4>1. PICK v \in queue : S = "memberships" /\ v[1] = None /\ InSight(None, q)
        BY <3>5
      <4>2. p = None /\ ~Keycloak
        BY <4>1, OnceIsVisited
      <4>3. q \in always'.groups
        BY <4>1, SMT DEF Due
      <4>4. q \in Listed(world', S, None)
        BY <4>1, <4>3 DEF Listed, Within, WorldFields
      <4>5. InSight(None, q)'
        BY <4>1, <4>2, <4>4
      <4> QED BY <4>1, <4>5, <2>1 DEF Awaited
    <3> QED BY <3>2, <3>3, <3>4, <3>5 DEF Awaited
  <2>6. NestingTaken(Collected(S), always, S)'
    <3>1. NestingTaken(Collected(S), always, S)
      BY <2>3 DEF SurfaceLosesNothing
    <3>2. Nested(always') \subseteq Nested(always)
      BY NestedGrows
    <3>3. NestingTaken(Collected(S)', always', S)
      BY <3>1, <3>2, <2>4 DEF NestingTaken
    <3> QED BY <3>3, SameRequestTaken
  <2> QED BY <2>5, <2>6
<1> QED BY <1>1, <1>2, <1>3, <1>4

(* A step that touches neither the collection nor the source.              *)
LEMMA QuietKeepsInv ==
    ASSUME CollectionInv,
           UNCHANGED <<request, step, queue, page, listing, data, errors, sourceVars>>,
           status' = status \/ (status' = "done" /\ step > Last)
    PROVE  CollectionInv'
<1> USE DEF CollectionInv
<1> PICK S, p : S = Surface /\ p = Parent
  OBVIOUS
<1>1. world' = world /\ always' = always /\ ever' = ever /\ disturbed' = disturbed
  BY DEF sourceVars
<1>2. Within(ever, ever') /\ Within(always', always) /\ Within(always', world') /\ Histories'
  BY <1>1, HistoriesStay, WithinItself
<1>3. TypeCorrect'
  BY DEF TypeCorrect, Last
<1>4. EntriesAreGood'
  BY <1>2, EntryStays DEF EntriesAreGood
<1>5. S = Surface' /\ (Keycloak' <=> Keycloak) /\ (Single(S)' <=> Single(S))
  BY DEF Surface, Keycloak, Single
<1>6. ASSUME NEW k, InSight(p, k) PROVE InSight(p, k)'
  <2> PICK K : K = Listed(world, S, p)
    OBVIOUS
  <2>1. K = Listed(world, S, p)'
    BY <1>1, SameRequest
  <2>2. k \in Ahead(K) => k \in Ahead(K)'
    BY <1>5 DEF Ahead
  <2> QED BY <1>5, <1>6, <2>1, <2>2 DEF InSight
<1> QED BY <1>1, <1>2, <1>3, <1>4, <1>6, SightKeepsInv

(* What is ahead of an offset stays ahead unless the listing shifts.       *)
LEMMA ChangeKeepsInv ==
    ASSUME CollectionInv, SourceChanges
    PROVE  CollectionInv'
<1> USE DEF CollectionInv
<1> PICK S, p : S = Surface /\ p = Parent
  OBVIOUS
<1>0. /\ UNCHANGED <<request, status, step, queue, page, listing, data, errors>>
      /\ WellFormed(world')
      /\ always' = [f \in WorldFields |-> always[f] \cap world'[f]]
      /\ ever' = [f \in WorldFields |-> ever[f] \cup world'[f]]
      /\ disturbed' = (disturbed \/ Shifts)
  BY DEF SourceChanges
<1>1. Within(always', always) /\ Within(always', world')
  BY <1>0 DEF Within
<1>2. Within(ever, ever') /\ Within(world', ever')
  BY <1>0 DEF Within
<1>3. WellFormed(always')
  <2>1. /\ always'.users = always.users \cap world'.users
        /\ always'.clients = always.clients \cap world'.clients
        /\ always'.groups = always.groups \cap world'.groups
        /\ always'.roles = always.roles \cap world'.roles
        /\ always'.member = always.member \cap world'.member
        /\ always'.grants = always.grants \cap world'.grants
        /\ always'.composite = always.composite \cap world'.composite
    BY <1>0 DEF WorldFields
  <2> QED BY <2>1, <1>0 DEF Histories, WellFormed
<1>4. ever'.groups \subseteq Id /\ ever'.member \cup ever'.grants \subseteq Id \X Id
  <2>1. /\ ever'.groups = ever.groups \cup world'.groups
        /\ ever'.member = ever.member \cup world'.member
        /\ ever'.grants = ever.grants \cup world'.grants
    BY <1>0 DEF WorldFields
  <2> QED BY <2>1, <1>0 DEF Histories, WellFormed
<1>5. Histories'
  BY <1>0, <1>1, <1>2, <1>3, <1>4 DEF Histories, Within, WellFormed
<1>6. TypeCorrect'
  BY <1>0 DEF TypeCorrect, Last
<1>7. EntriesAreGood'
  BY <1>0, <1>1, <1>2, EntryStays DEF EntriesAreGood
<1>8. ASSUME queue # {}, ~disturbed', NEW k \in Listed(world', S, p), InSight(p, k)
      PROVE  InSight(p, k)'
  <2>0. S = Surface' /\ p = Parent' /\ Listed(world, S, p)' = Listed(world', S, p)
    <3>1. request' = request
      BY <1>0
    <3> QED BY <3>1, <1>0, SameRequest DEF Surface, Parent, Visit
  <2>1. CASE Single(S) \/ \E e \in listing : e.key = k
    BY <2>0, <2>1, <1>0, SameRequestTaken DEF InSight
  <2>2. CASE ~Single(S) /\ k \in Ahead(Listed(world, S, p))
    <3> PICK K, M : K = Listed(world, S, p) /\ M = Listed(world', S, p)
      OBVIOUS
    <3>1. S \in Surfaces(request.kind) /\ request.kind \in Kinds
      BY <1>8, SurfaceIsPlanned DEF TypeCorrect
    <3>2. IsListing(K) /\ IsListing(M)
      BY <1>0, <2>2, <3>1, ListedAreKeys DEF Histories
    <3>3. Keycloak' = Keycloak
      BY <1>0 DEF Keycloak
    <3>4. CASE ~Keycloak
      <4>1. k \in Ahead(M)'
        BY <3>3, <3>4, <2>2, <1>0, <1>8 DEF Ahead
      <4> QED BY <4>1, <2>0 DEF InSight
    <3>5. CASE Keycloak
      <4> PICK n : n = page * PageSize
        OBVIOUS
      <4>1. n \in Nat
        BY CollectionAssumption DEF TypeCorrect
      <4>2. k \in K \ First(n, K)
        BY <2>2, <3>5 DEF Ahead
      <4>3. First(n, K) \subseteq M
        <5>1. CASE page > 0
          <6>1. ~Shifts
            BY <1>0, <1>8
          <6>2. First(page * PageSize, Listed(world, Surface, Parent))
                  \subseteq Listed(world', Surface, Parent)
            BY <6>1, <5>1, <3>5, <1>8 DEF Shifts
          <6> QED BY <6>2
        <5>2. CASE page = 0
          <6>1. n = 0
            BY <5>2, CollectionAssumption
          <6>2. First(0, K) = {}
            BY <3>2, BeforeIsFinite, SMT DEF First
          <6> QED BY <6>1, <6>2
        <5> QED BY <5>1, <5>2 DEF TypeCorrect
      <4>4. k \in M \ First(n, M)
        BY <1>8, <3>2, <4>1, <4>2, <4>3, OffsetKept
      <4>5. n = page' * PageSize
        BY <1>0
      <4>6. k \in Ahead(M)'
        BY <3>3, <3>5, <4>4, <4>5 DEF Ahead
      <4> QED BY <4>6, <2>0 DEF InSight
    <3> QED BY <3>4, <3>5
  <2> QED BY <1>8, <2>1, <2>2 DEF InSight
<1> QED BY <1>0, <1>1, <1>2, <1>5, <1>6, <1>7, <1>8, SightKeepsInv

-----------------------------------------------------------------------------
(* A surface fails, or begins.                                             *)

LEMMA FailureKeepsInv ==
    ASSUME CollectionInv, status = "running", queue # {}, SurfaceFails,
           UNCHANGED <<request, sourceVars>>
    PROVE  CollectionInv'
<1> USE DEF CollectionInv
<1> PICK S : S = Surface
  OBVIOUS
<1>0. /\ request' = request /\ world' = world /\ always' = always /\ ever' = ever
      /\ disturbed' = disturbed /\ errors' = errors \cup {S}
  BY DEF sourceVars, SurfaceFails
<1>1. Histories' /\ Within(always', always) /\ Within(ever, ever')
  BY <1>0, HistoriesStay, WithinItself
<1>2. step <= Last /\ S \in Surfaces(request.kind) /\ request.kind \in Kinds /\ step \in Nat /\ Last \in Nat
  BY SurfaceIsPlanned, PlanLength DEF TypeCorrect, Last
<1>3. /\ \/ queue' = {} /\ step' = step + 1
         \/ queue' = queue \ {Visit} /\ step' = step
      /\ page' = 0 /\ listing' = {}
  BY DEF SurfaceFails, NextVisit, GiveUp, NextSurface, ResetListing
<1>4. /\ DOMAIN data' = DOMAIN data
      /\ \A s \in Surfaces(request.kind) : data'[s] \subseteq data[s]
      /\ \A s \in Surfaces(request.kind) : s = S \/ data'[s] = data[s]
  BY DEF SurfaceFails, TypeCorrect
<1>5. TypeCorrect'
  <2>1. status' \in {"running", "raised"}
    BY DEF SurfaceFails
  <2>2. Last' = Last
    BY <1>0 DEF Last
  <2> QED BY <1>0, <1>2, <1>3, <1>4, <2>1, <2>2 DEF TypeCorrect
<1>6. RowsAreReal'
  BY <1>0, <1>1, <1>4, RowsStayReal
<1>7. EntriesAreGood'
  BY <1>3 DEF EntriesAreGood
<1>8. VisitsGroups'
  <2> SUFFICES ASSUME queue' # {}, Surface' = "memberships"
               PROVE  \A v \in queue' : v[1] # None
    BY DEF VisitsGroups
  <2>1. queue' = queue \ {Visit} /\ Surface' = Surface
    BY <1>0, <1>3 DEF Surface
  <2> QED BY <2>1, OnceIsVisited
<1>9. SurfacesAreWhole'
  BY <1>0, <1>1, <1>2, <1>3, <1>4, SurfacesStayWhole
<1>10. SurfaceLosesNothing'
  <2>1. CASE queue' = {}
    BY <2>1 DEF SurfaceLosesNothing
  <2>2. CASE queue' # {}
    <3>1. S = Surface'
      BY <2>2, <1>0, <1>3 DEF Surface
    <3>2. ~Sound(S)'
      BY <1>0, SameRequestTaken
    <3> QED BY <3>1, <3>2 DEF SurfaceLosesNothing
  <2> QED BY <2>1, <2>2
<1> QED BY <1>1, <1>5, <1>6, <1>7, <1>8, <1>9, <1>10

LEMMA InitialRowsAreReal ==
    ASSUME RowsAreReal, NEW s, NEW d \in Initially(s)
    PROVE  Real(ever, s, d.row) /\ Flagged(always, s, d.row)
<1>1. s = "memberships" /\ Keycloak
  BY DEF Initially
<1>2. PICK e \in data["groups"] : /\ ParentGroup[e.row] # None
                                 /\ d = [row |-> <<e.row, ParentGroup[e.row]>>, nr |-> e.nr]
  BY <1>1 DEF Initially
<1>3. "groups" \in Surfaces(request.kind)
  BY <1>1, SurfaceNames DEF Keycloak
<1>4. e.row \in ever.groups
  BY <1>3 DEF RowsAreReal, Real
<1>5. d.row \in Nested(ever)
  BY <1>2, <1>4 DEF Nested
<1> QED BY <1>1, <1>5 DEF Real, Flagged

LEMMA BeginKeepsInv ==
    ASSUME CollectionInv, Begin
    PROVE  CollectionInv'
<1> USE DEF CollectionInv
<1> PICK S : S = Surface
  OBVIOUS
<1>0. /\ request' = request /\ world' = world /\ always' = always /\ ever' = ever
      /\ disturbed' = disturbed /\ status' = status /\ status = "running" /\ queue = {}
      /\ page' = 0 /\ listing' = {} /\ step <= Last
  BY DEF sourceVars, Begin, ResetListing, Last
<1>1. Histories' /\ Within(always', always) /\ Within(ever, ever') /\ Within(always', world') /\ WellFormed(world')
  BY <1>0, HistoriesStay, WithinItself DEF Begin
<1>2. S \in Surfaces(request.kind) /\ request.kind \in Kinds /\ step \in Nat /\ Last \in Nat
  BY <1>0, SurfaceIsPlanned, PlanLength DEF TypeCorrect, Last
<1>3. /\ queue' = {} => step' = step + 1
      /\ queue' # {} => step' = step
      /\ errors \subseteq errors'
      /\ DOMAIN data' = DOMAIN data
      /\ \A s \in Surfaces(request.kind) : s = S \/ data'[s] = data[s]
  BY DEF Begin, NextSurface, TypeCorrect
<1>4. TypeCorrect'
  <2>1. Last' = Last
    BY <1>0 DEF Last
  <2> QED BY <1>0, <1>2, <1>3, <2>1 DEF TypeCorrect
<1>5. EntriesAreGood'
  BY <1>0 DEF EntriesAreGood
<1>6. CASE ~(Wanted(S) /\ ~DependencyFailed(S))
  <2>1. errors' = errors \cup {s \in {S} : Wanted(s)} /\ data' = data /\ queue' = {} /\ step' = step + 1
    BY <1>6 DEF Begin, NextSurface
  <2>2. RowsAreReal'
    BY <1>0, <1>1, <2>1, RowsStayReal
  <2>3. SurfacesAreWhole'
    <3>1. ~(Wanted(S) /\ S \notin errors')
      BY <2>1
    <3> QED BY <1>0, <1>1, <1>3, <2>1, <3>1, SurfacesStayWhole
  <2>4. VisitsGroups' /\ SurfaceLosesNothing'
    BY <2>1 DEF VisitsGroups, SurfaceLosesNothing
  <2> QED BY <1>1, <1>4, <1>5, <2>2, <2>3, <2>4
<1>7. CASE Wanted(S) /\ ~DependencyFailed(S)
  <2>1. /\ data' = [data EXCEPT ![S] = Initially(S)] /\ errors' = errors
        /\ queue' = Visits(S)
    BY <1>7 DEF Begin, NextSurface
  <2>2. data'[S] = Initially(S)
    BY <2>1, <1>2 DEF TypeCorrect
  <2>3. RowsAreReal'
    <3>1. \A s \in Surfaces(request.kind) : \A d \in data'[s] :
              d \in data[s] \/ (Real(ever, s, d.row) /\ Flagged(always, s, d.row))
      BY <1>3, <2>2, InitialRowsAreReal
    <3> QED BY <1>0, <1>1, <3>1, RowsStayReal
  <2>4. VisitsGroups'
    <3> SUFFICES ASSUME queue' # {}, Surface' = "memberships"
                 PROVE  \/ \A v \in queue' : v[1] # None
                        \/ ~Keycloak' /\ queue' = Once
      BY DEF VisitsGroups, Once
    <3>1. S = "memberships"
      BY <1>0, <1>3 DEF Surface
    <3>2. CASE ~Keycloak
      BY <3>2, <2>1, <1>0 DEF Visits, Keycloak
    <3>3. CASE Keycloak
      <4>1. "groups" \in Surfaces(request.kind)
        BY <3>3, SurfaceNames DEF Keycloak
      <4>2. \A d \in data["groups"] : d.row \in ever.groups
        BY <4>1 DEF RowsAreReal, Real
      <4>3. \A d \in data["groups"] : d.row # None
        BY <4>2, CollectionAssumption DEF Histories
      <4> QED BY <2>1, <3>1, <3>3, <4>3 DEF Visits
    <3> QED BY <3>2, <3>3
  <2>5. Collected(S)' = Says(S, {d.row : d \in Initially(S)})
    BY <2>2 DEF Collected, Says
  <2>6. ASSUME ~disturbed', S \in Required(request.kind)
        PROVE  NestingTaken(Collected(S)', always', S)
    BY <1>0, <1>7, <2>5, <2>6, NestingIsTaken
  <2>7. ASSUME ~disturbed', S \in Required(request.kind), NEW q \in Due(always', S)
        PROVE  \E v \in queue' : v[1] = q \/ (S = "memberships" /\ v[1] = None)
    BY <1>0, <1>7, <2>1, <2>7, VisitsCover
  <2>8. SurfacesAreWhole'
    <3>1. CASE queue' # {}
      BY <1>0, <1>1, <1>3, <3>1, SurfacesStayWhole
    <3>2. CASE queue' = {}
      <4>1. ~disturbed' /\ S \in Required(request.kind) => Whole(Collected(S)', always', S)
        BY <2>6, <2>7, <3>2 DEF Whole
      <4> QED BY <1>0, <1>1, <1>3, <3>2, <4>1, SurfacesStayWhole
    <3> QED BY <3>1, <3>2
  <2>9. SurfaceLosesNothing'
    <3> SUFFICES ASSUME ~disturbed', queue' # {}, Sound(Surface)'
                 PROVE  SurfaceLosesNothing'
      BY DEF SurfaceLosesNothing
    <3>1. S = Surface'
      BY <1>0, <1>3 DEF Surface
    <3>2. S \in Required(request.kind)
      <4>1. Sound(S)'
        BY <3>1
      <4> QED BY <4>1, <1>0, SameRequestTaken
    <3> QED BY <1>0, <1>1, <1>2, <2>6, <2>7, <3>1, <3>2, StartLosesNothing
  <2> QED BY <1>1, <1>4, <1>5, <2>3, <2>4, <2>8, <2>9
<1> QED BY <1>6, <1>7

-----------------------------------------------------------------------------
(* A request is answered.                                                  *)

LEMMA PageIsListed ==
    ASSUME NEW K
    PROVE  PageOf(K) \subseteq K
BY DEF PageOf, First, Ahead

LEMMA NewEntriesAreGood ==
    ASSUME CollectionInv, queue # {}, NEW K, K = Listed(world, Surface, Parent),
           NEW e \in Entries(PageOf(K))
    PROVE  EntryIsGood(e)
<1> USE DEF CollectionInv
<1> PICK S, p : S = Surface /\ p = Parent
  OBVIOUS
<1>1. PICK k \in PageOf(K) : e = [key |-> k, row |-> Row(world, S, p, k), nr |-> answers]
  BY DEF Entries
<1>2. e.key = k /\ e.row = Row(world, S, p, k) /\ k \in Listed(world, S, p)
  BY <1>1, PageIsListed
<1>3. S \in Surfaces(request.kind) /\ request.kind \in Kinds
  BY SurfaceIsPlanned DEF TypeCorrect
<1>4. S = "memberships" /\ p = None => ~Keycloak
  <2>1. Visit \in queue
    BY VisitIsQueued
  <2> QED BY <2>1, OnceIsVisited DEF Parent
<1>5. /\ Shows(world, S, p, k, e.row) /\ Flagged(world, S, e.row)
      /\ S = "groups" => e.row \subseteq world.groups
      /\ S # "groups" /\ ~(S = "memberships" /\ p = None) => Real(world, S, e.row)
  BY <1>2, <1>3, <1>4, RowShows DEF Histories
<1>6. Shows(always, S, p, k, e.row) /\ Flagged(always, S, e.row)
  BY <1>5, ShowsLess DEF Histories
<1>7. CASE S = "groups"
  BY <1>2, <1>5, <1>6, <1>7 DEF EntryIsGood, Histories, Within, WorldFields
<1>8. CASE S # "groups"
  <2>1. ~(S = "memberships" /\ p = None) => Real(ever, S, e.row)
    BY <1>5, <1>8, RealGrows DEF Histories
  <2> QED BY <1>2, <1>6, <1>8, <2>1 DEF EntryIsGood
<1> QED BY <1>7, <1>8

(* What is in sight has been read when the page is the last one, and is    *)
(* still in sight when it is not.                                          *)
LEMMA PageKeepsSight ==
    ASSUME CollectionInv, queue # {}, NEW S, S = Surface, NEW p, p = Parent,
           NEW K, K = Listed(world, S, p), NEW k \in K, InSight(p, k),
           \A e \in listing \cup Entries(PageOf(K)) : e.key # k
    PROVE  /\ ~LastPage(K)
           /\ Keycloak => k \in K \ First((page + 1) * PageSize, K)
           /\ ~Keycloak => \A e \in listing \cup Entries(PageOf(K)) : Place[e.key] < Place[k]
<1> USE DEF CollectionInv
<1>0. PageSize \in Nat /\ page \in Nat /\ page * PageSize \in Nat
      /\ (page + 1) * PageSize = page * PageSize + PageSize
  BY CollectionAssumption DEF TypeCorrect
<1>1. k \notin PageOf(K)
  <2> SUFFICES ASSUME k \in PageOf(K) PROVE FALSE
    OBVIOUS
  <2>1. [key |-> k, row |-> Row(world, S, p, k), nr |-> answers] \in Entries(PageOf(K))
    BY DEF Entries
  <2> QED BY <2>1
<1>2. ~Single(S)
  BY <1>1 DEF PageOf
<1>3. k \in Ahead(K)
  BY <1>2 DEF InSight
<1>4. PageOf(K) = First(PageSize, Ahead(K)) /\ k \in Ahead(K) \ First(PageSize, Ahead(K))
  BY <1>1, <1>2, <1>3 DEF PageOf
<1>5. IsListing(K)
  <2>1. S \in Surfaces(request.kind) /\ request.kind \in Kinds
    BY SurfaceIsPlanned DEF TypeCorrect
  <2> QED BY <2>1, <1>2, ListedAreKeys DEF Histories
<1>6. CASE Keycloak
  <2> PICK A, n : A = Ahead(K) /\ n = page * PageSize
    OBVIOUS
  <2>1. A = K \ First(n, K)
    BY <1>6 DEF Ahead
  <2>2. k \in K \ First(n + PageSize, K) /\ Cardinality(First(PageSize, A)) = PageSize
    BY <1>0, <1>4, <1>5, <2>1, OffsetMoves
  <2>3. ~(Cardinality(PageOf(K)) < PageSize)
    BY <2>2, <1>4, <1>0
  <2>4. ~LastPage(K)
    BY <2>3, <1>2, <1>6 DEF LastPage
  <2> QED BY <2>2, <2>4, <1>0, <1>6
<1>7. CASE ~Keycloak
  <2> PICK B : B = Ahead(K)
    OBVIOUS
  <2>1. B = {l \in K : \A e \in listing : Place[e.key] < Place[l]}
    BY <1>7 DEF Ahead
  <2>2. \A e \in Entries(PageOf(K)) : e.key \in First(PageSize, B)
    BY <1>4 DEF Entries
  <2>3. \A e \in listing \cup Entries(PageOf(K)) : Place[e.key] < Place[k]
    BY <1>0, <1>4, <1>5, <2>1, <2>2, TokenMoves
  <2>4. ~LastPage(K)
    BY <1>1, <1>2, <1>3, <1>7 DEF LastPage
  <2> QED BY <2>3, <2>4, <1>7
<1> QED BY <1>6, <1>7

LEMMA PageKeepsInv ==
    ASSUME CollectionInv, queue # {}, NEW K, K = Listed(world, Surface, Parent),
           listing' = listing \cup Entries(PageOf(K)), page' = page + 1,
           UNCHANGED <<request, status, step, queue, data, errors, sourceVars>>
    PROVE  CollectionInv'
<1> USE DEF CollectionInv
<1> PICK S, p : S = Surface /\ p = Parent
  OBVIOUS
<1>0. world' = world /\ always' = always /\ ever' = ever /\ disturbed' = disturbed
  BY DEF sourceVars
<1>1. Within(ever, ever') /\ Within(always', always) /\ Within(always', world') /\ Histories'
  BY <1>0, HistoriesStay, WithinItself
<1>2. TypeCorrect'
  BY DEF TypeCorrect, Last
<1>3. EntriesAreGood'
  <2>1. \A e \in listing' : EntryIsGood(e)
    BY NewEntriesAreGood DEF EntriesAreGood
  <2> QED BY <2>1, <1>1, EntryStays DEF EntriesAreGood
<1>4. ASSUME NEW k \in Listed(world', S, p), InSight(p, k)
      PROVE  InSight(p, k)'
  <2>1. k \in K /\ S = Surface' /\ K = Listed(world, S, p)'
    BY <1>0, <1>4, SameRequest DEF Surface
  <2>2. CASE \E e \in listing' : e.key = k
    BY <2>2 DEF InSight
  <2>3. CASE ~(\E e \in listing' : e.key = k)
    <3>1. /\ Keycloak => k \in K \ First(page' * PageSize, K)
          /\ ~Keycloak => \A e \in listing' : Place[e.key] < Place[k]
      BY <1>4, <2>1, <2>3, PageKeepsSight
    <3>2. Keycloak' = Keycloak
      BY DEF Keycloak
    <3>3. k \in Ahead(K)'
      BY <2>1, <3>1, <3>2 DEF Ahead
    <3> QED BY <2>1, <3>3 DEF InSight
  <2> QED BY <2>2, <2>3
<1> QED BY <1>0, <1>1, <1>2, <1>3, <1>4, SightKeepsInv

(* Workspace memberships have listed their groups, and visit them.         *)
LEMMA GroupsListedKeepsInv ==
    ASSUME CollectionInv, status = "running", queue # {}, Surface = "memberships", Parent = None,
           NEW K, K = Listed(world, Surface, Parent), LastPage(K),
           NEW E, E = listing \cup Entries(PageOf(K)), EndListing(E),
           UNCHANGED <<request, status, errors, sourceVars>>
    PROVE  CollectionInv'
<1> USE DEF CollectionInv
<1>0. /\ world' = world /\ always' = always /\ ever' = ever /\ disturbed' = disturbed
      /\ page' = 0 /\ listing' = {} /\ data' = data
      /\ queue' = {} => step' = step + 1
      /\ queue' # {} => step' = step
      /\ queue' = {<<e.key, e.nr>> : e \in E}
  BY DEF sourceVars, EndListing, NextSurface, ResetListing
<1>1. Histories' /\ Within(always', always) /\ Within(ever, ever') /\ Within(always', world') /\ WellFormed(world')
  BY <1>0, HistoriesStay, WithinItself
<1>2. Surface \in Surfaces(request.kind) /\ request.kind \in Kinds /\ step \in Nat /\ Last \in Nat /\ step <= Last
  BY SurfaceIsPlanned, PlanLength DEF TypeCorrect, Last
<1>3. ~Keycloak /\ queue = Once
  <2>1. Visit \in queue
    BY VisitIsQueued
  <2> QED BY <2>1, OnceIsVisited DEF Parent
<1>4. TypeCorrect'
  <2>1. Last' = Last
    BY <1>0 DEF Last
  <2> QED BY <1>0, <1>2, <2>1 DEF TypeCorrect
<1>5. RowsAreReal'
  BY <1>0, <1>1, RowsStayReal
<1>6. EntriesAreGood'
  BY <1>0 DEF EntriesAreGood
<1>7. VisitsGroups'
  <2>1. ASSUME NEW e \in E PROVE e.key # None
    <3>1. EntryIsGood(e)
      BY NewEntriesAreGood DEF EntriesAreGood
    <3>2. e.key \in Id
      BY <3>1, SMT DEF EntryIsGood, Shows
    <3> QED BY <3>2, CollectionAssumption
  <2>2. \A v \in queue' : v[1] # None
    BY <1>0, <2>1
  <2> QED BY <2>2 DEF VisitsGroups
<1>8. ASSUME ~disturbed', "memberships" \notin errors, Wanted("memberships"),
             "memberships" \in Required(request.kind), NEW q \in Due(always, "memberships"),
             NEW k \in Listed(always, "memberships", q)
      PROVE  \/ Taken(Collected("memberships"), always, "memberships", q, k)
             \/ \E v \in queue' : v[1] = q
  <2> SUFFICES ASSUME ~Taken(Collected("memberships"), always, "memberships", q, k)
               PROVE  \E v \in queue' : v[1] = q
    OBVIOUS
  <2>1. Sound("memberships") /\ ~disturbed
    BY <1>0, <1>8 DEF Sound
  <2>2. Awaited(q, k)
    BY <2>1 DEF SurfaceLosesNothing
  <2>3. q \in always.groups /\ q # None
    <3>1. q \in always.groups
      BY <1>3, SMT DEF Due
    <3> QED BY <3>1, CollectionAssumption DEF Histories, WellFormed
  <2>4. InSight(None, q)
    BY <2>2, <2>3, <1>3 DEF Awaited, Once
  <2>5. q \in K
    BY <2>3, <1>3 DEF Listed, Histories, Within, WorldFields
  <2>6. PICK e \in E : e.key = q
    BY <2>4, <2>5, PageKeepsSight
  <2>7. <<e.key, e.nr>> \in queue'
    BY <1>0
  <2> QED BY <2>6, <2>7
<1>9. NestingTaken(Collected("memberships"), always, "memberships")
  BY <1>3 DEF NestingTaken
<1>10. Collected("memberships")' = Collected("memberships")
  BY <1>0, SameData
<1>11. SurfacesAreWhole'
  <2>1. CASE queue' # {}
    BY <1>0, <1>1, <2>1, SurfacesStayWhole
  <2>2. CASE queue' = {}
    <3>1. ~disturbed' /\ "memberships" \in Required(request.kind) /\ Wanted("memberships")
            /\ "memberships" \notin errors'
              => Whole(Collected("memberships")', always', "memberships")
      BY <1>0, <1>8, <1>9, <1>10, <2>2 DEF Whole
    <3> QED BY <1>0, <1>1, <1>2, <2>2, <3>1, SurfacesStayWhole
  <2> QED BY <2>1, <2>2
<1>12. SurfaceLosesNothing'
  <2> SUFFICES ASSUME ~disturbed', queue' # {}, Sound(Surface)'
               PROVE  SurfaceLosesNothing'
    BY DEF SurfaceLosesNothing
  <2>1. "memberships" = Surface'
    BY <1>0 DEF Surface
  <2>2. "memberships" \in Required(request.kind) /\ Wanted("memberships") /\ "memberships" \notin errors
    <3>1. Sound("memberships")'
      BY <2>1
    <3> QED BY <3>1, <1>0, SameRequestTaken
  <2>3. \A q \in Due(always', "memberships") : \A k \in Listed(always', "memberships", q) :
            \/ Taken(Collected("memberships")', always', "memberships", q, k)
            \/ \E v \in queue' : v[1] = q
    BY <1>0, <1>8, <1>10, <2>2
  <2>4. NestingTaken(Collected("memberships")', always', "memberships")
    BY <1>0, <1>9, <1>10
  <2> QED BY <1>0, <1>1, <1>2, <2>1, <2>3, <2>4, StartLosesNothing
<1> QED BY <1>1, <1>4, <1>5, <1>6, <1>7, <1>11, <1>12

(* The rows of a listing say what its entries show.                        *)
LEMMA RowsSay ==
    ASSUME NEW S, S = Surface, NEW p, p = Parent, S \in Surfaces(request.kind), request.kind \in Kinds,
           ~(S = "memberships" /\ p = None),
           NEW E, NEW e \in E, EntryIsGood(e),
           NEW D, Rows(E) \subseteq D
    PROVE  Taken(Says(S, {d.row : d \in D}), always, S, p, e.key)
<1> PICK R : R = {d.row : d \in D}
  OBVIOUS
<1>0. Shows(always, S, p, e.key, e.row)
  BY DEF EntryIsGood
<1>1. CASE S = "groups"
  <2>1. \A g \in e.row : [row |-> g, nr |-> e.nr] \in Rows(E)
    BY <1>1 DEF Rows
  <2>2. ASSUME NEW g \in e.row PROVE g \in R
    <3>1. [row |-> g, nr |-> e.nr] \in D
      BY <2>1
    <3>2. [row |-> g, nr |-> e.nr].row \in R
      BY <3>1
    <3> QED BY <3>2
  <2>3. Says(S, R) = R
    BY <1>1 DEF Says
  <2>4. GroupRow(always, e.key) \subseteq e.row
    BY <1>0, <1>1, SMT DEF Shows
  <2> QED BY <1>1, <2>2, <2>3, <2>4 DEF Taken
<1>2. CASE S # "groups"
  <2>1. [row |-> e.row, nr |-> e.nr] \in Rows(E)
    BY <1>2 DEF Rows
  <2>2. e.row \in R
    BY <2>1
  <2>3. CASE S \in {"users", "service_accounts", "realm_roles", "admin_roles"}
    <3>1. e.key \in Says(S, R)
      BY <1>0, <2>2, <2>3 DEF Shows, Says
    <3> QED BY <2>3, <3>1 DEF Taken
  <2>4. CASE S = "client_roles"
    <3>1. <<e.key, p>> \in Says(S, R)
      BY <1>0, <2>2, <2>4, SMT DEF Shows, Says
    <3> QED BY <2>4, <3>1 DEF Taken
  <2>5. CASE S \in {"memberships", "user_role_mappings", "group_role_mappings", "composite_roles"}
    <3>1. Says(S, R) = R
      BY <2>5 DEF Says
    <3> QED BY <1>0, <2>2, <2>5, <3>1 DEF Shows, Taken
  <2>6. CASE S \notin {"users", "service_accounts", "realm_roles", "admin_roles", "client_roles",
                       "memberships", "user_role_mappings", "group_role_mappings",
                       "composite_roles", "groups"}
    <3>1. Says(S, R) = R
      BY <2>6 DEF Says
    <3> QED BY <1>0, <2>2, <2>6, <3>1 DEF Shows, Taken
  <2> QED BY <1>2, <2>3, <2>4, <2>5, <2>6
<1> QED BY <1>1, <1>2

LEMMA NewRowsAreReal ==
    ASSUME CollectionInv, NEW S, S = Surface, ~(S = "memberships" /\ Parent = None),
           NEW E, \A e \in E : EntryIsGood(e), NEW d \in Rows(E)
    PROVE  Real(ever, S, d.row) /\ Flagged(always, S, d.row)
<1>1. CASE S = "groups"
  <2>1. PICK e \in E : \E g \in e.row : d = [row |-> g, nr |-> e.nr]
    BY <1>1 DEF Rows
  <2>2. d.row \in e.row
    BY <2>1
  <2>3. e.row \subseteq ever.groups
    BY <1>1 DEF EntryIsGood
  <2> QED BY <1>1, <2>2, <2>3 DEF Real, Flagged
<1>2. CASE S # "groups"
  <2>1. PICK e \in E : d = [row |-> e.row, nr |-> e.nr]
    BY <1>2 DEF Rows
  <2>2. d.row = e.row
    BY <2>1
  <2> QED BY <1>2, <2>2 DEF EntryIsGood
<1> QED BY <1>1, <1>2

LEMMA SaysMore ==
    ASSUME NEW s, NEW C, NEW D, C \subseteq D
    PROVE  Says(s, {d.row : d \in C}) \subseteq Says(s, {d.row : d \in D})
BY DEF Says

(* A listing is read: the next visit, or the next surface.                 *)
LEMMA ListingReadKeepsInv ==
    ASSUME CollectionInv, status = "running", queue # {},
           ~(Surface = "memberships" /\ Parent = None),
           NEW K, K = Listed(world, Surface, Parent), LastPage(K),
           NEW E, E = listing \cup Entries(PageOf(K)), EndListing(E),
           UNCHANGED <<request, status, errors, sourceVars>>
    PROVE  CollectionInv'
<1> USE DEF CollectionInv
<1> PICK S, p : S = Surface /\ p = Parent
  OBVIOUS
<1>0. /\ world' = world /\ always' = always /\ ever' = ever /\ disturbed' = disturbed
      /\ page' = 0 /\ listing' = {}
      /\ queue' = {} => step' = step + 1
      /\ queue' # {} => step' = step
      /\ queue' = queue \ {Visit}
      /\ data' = [data EXCEPT ![S] = @ \cup Rows(E)]
  BY DEF sourceVars, EndListing, NextVisit, NextSurface, ResetListing
<1>1. Histories' /\ Within(always', always) /\ Within(ever, ever') /\ Within(always', world') /\ WellFormed(world')
  BY <1>0, HistoriesStay, WithinItself
<1>2. S \in Surfaces(request.kind) /\ request.kind \in Kinds /\ step \in Nat /\ Last \in Nat /\ step <= Last
  BY SurfaceIsPlanned, PlanLength DEF TypeCorrect, Last
<1>3. /\ DOMAIN data' = DOMAIN data
      /\ data'[S] = data[S] \cup Rows(E)
      /\ \A s \in Surfaces(request.kind) : s = S \/ data'[s] = data[s]
  BY <1>0, <1>2 DEF TypeCorrect
<1>4. TypeCorrect'
  <2>1. Last' = Last
    BY <1>0 DEF Last
  <2> QED BY <1>0, <1>2, <1>3, <2>1 DEF TypeCorrect
<1>5. \A e \in E : EntryIsGood(e)
  BY NewEntriesAreGood DEF EntriesAreGood
<1>6. RowsAreReal'
  <2>1. \A d \in Rows(E) : Real(ever, S, d.row) /\ Flagged(always, S, d.row)
    BY <1>5, NewRowsAreReal
  <2>2. \A s \in Surfaces(request.kind) : \A d \in data'[s] :
            d \in data[s] \/ (Real(ever, s, d.row) /\ Flagged(always, s, d.row))
    BY <1>3, <2>1
  <2> QED BY <1>1, <2>2, RowsStayReal
<1>7. EntriesAreGood'
  BY <1>0 DEF EntriesAreGood
<1>8. S = "memberships" => \A v \in queue : v[1] # None
  <2>1. Visit \in queue
    BY VisitIsQueued
  <2> QED BY <2>1, OnceIsVisited
<1>9. VisitsGroups'
  <2> SUFFICES ASSUME queue' # {}, Surface' = "memberships"
               PROVE  \A v \in queue' : v[1] # None
    BY DEF VisitsGroups
  <2>1. Surface' = S
    BY <1>0 DEF Surface
  <2> QED BY <2>1, <1>0, <1>8
<1>10. Collected(S) \subseteq Collected(S)'
  <2>1. Collected(S)' = Says(S, {d.row : d \in data'[S]})
    BY DEF Collected, Says
  <2> QED BY <2>1, <1>3, SaysMore DEF Collected
<1>11. ASSUME ~disturbed', S \in Required(request.kind), Wanted(S), S \notin errors,
              NEW q \in Due(always, S), NEW k \in Listed(always, S, q)
       PROVE  Taken(Collected(S)', always, S, q, k) \/ \E v \in queue' : v[1] = q
  <2>1. Taken(Collected(S), always, S, q, k) \/ Awaited(q, k)
    BY <1>0, <1>11 DEF SurfaceLosesNothing, Sound
  <2>2. CASE Taken(Collected(S), always, S, q, k)
    BY <2>2, <1>10, WithinItself, TakenIsLess
  <2>3. CASE Awaited(q, k)
    <3>1. PICK v \in queue : v[1] = q /\ (v = Visit => InSight(q, k))
      BY <2>3, <1>8 DEF Awaited
    <3>2. CASE v # Visit
      BY <3>1, <3>2, <1>0
    <3>3. CASE v = Visit
      <4>1. q = p /\ InSight(p, k)
        BY <3>1, <3>3 DEF Parent
      <4>2. k \in K
        BY <4>1, ListedGrows DEF Histories
      <4>3. PICK e \in E : e.key = k
        BY <4>1, <4>2, PageKeepsSight
      <4>4. Taken(Says(S, {d.row : d \in data'[S]}), always, S, p, e.key)
        BY <1>2, <1>3, <1>5, RowsSay
      <4>5. Collected(S)' = Says(S, {d.row : d \in data'[S]})
        BY DEF Collected, Says
      <4> QED BY <4>1, <4>3, <4>4, <4>5
    <3> QED BY <3>2, <3>3
  <2> QED BY <2>1, <2>2, <2>3
<1>12. ASSUME ~disturbed', S \in Required(request.kind), Wanted(S), S \notin errors
       PROVE  NestingTaken(Collected(S)', always', S)
  <2>1. NestingTaken(Collected(S), always, S)
    BY <1>0, <1>12 DEF SurfaceLosesNothing, Sound
  <2> QED BY <2>1, <1>0, <1>10 DEF NestingTaken
<1>13. SurfacesAreWhole'
  <2>1. CASE queue' # {}
    BY <1>0, <1>1, <1>2, <1>3, <2>1, SurfacesStayWhole
  <2>2. CASE queue' = {}
    <3>1. ~disturbed' /\ S \in Required(request.kind) /\ Wanted(S) /\ S \notin errors'
              => Whole(Collected(S)', always', S)
      BY <1>0, <1>11, <1>12, <2>2 DEF Whole
    <3> QED BY <1>0, <1>1, <1>2, <1>3, <2>2, <3>1, SurfacesStayWhole
  <2> QED BY <2>1, <2>2
<1>14. SurfaceLosesNothing'
  <2> SUFFICES ASSUME ~disturbed', queue' # {}, Sound(Surface)'
               PROVE  SurfaceLosesNothing'
    BY DEF SurfaceLosesNothing
  <2>1. S = Surface'
    BY <1>0 DEF Surface
  <2>2. S \in Required(request.kind) /\ Wanted(S) /\ S \notin errors
    <3>1. Sound(S)'
      BY <2>1
    <3> QED BY <3>1, <1>0, SameRequestTaken
  <2>3. \A q \in Due(always', S) : \A k \in Listed(always', S, q) :
            Taken(Collected(S)', always', S, q, k) \/ \E v \in queue' : v[1] = q
    BY <1>0, <1>11, <2>2
  <2>4. NestingTaken(Collected(S)', always', S)
    BY <1>12, <2>2
  <2> QED BY <1>0, <1>1, <1>2, <2>1, <2>3, <2>4, StartLosesNothing
<1> QED BY <1>1, <1>4, <1>6, <1>7, <1>9, <1>13, <1>14

LEMMA FetchKeepsInv ==
    ASSUME CollectionInv, Fetch
    PROVE  CollectionInv'
<1> PICK K : K = Listed(world, Surface, Parent)
  OBVIOUS
<1> PICK E : E = listing \cup Entries(PageOf(K))
  OBVIOUS
<1>0. status = "running" /\ queue # {} /\ UNCHANGED <<request, sourceVars>>
  BY DEF Fetch
<1>1. CASE SurfaceFails
  BY <1>0, <1>1, FailureKeepsInv
<1>2. CASE LastPage(K) /\ EndListing(E) /\ UNCHANGED <<status, errors>>
  <2>1. CASE Surface = "memberships" /\ Parent = None
    BY <1>0, <1>2, <2>1, GroupsListedKeepsInv
  <2>2. CASE ~(Surface = "memberships" /\ Parent = None)
    BY <1>0, <1>2, <2>2, ListingReadKeepsInv
  <2> QED BY <2>1, <2>2
<1>3. CASE listing' = E /\ page' = page + 1 /\ UNCHANGED <<status, errors, step, queue, data>>
  BY <1>0, <1>3, PageKeepsInv
<1> QED BY <1>1, <1>2, <1>3 DEF Fetch

-----------------------------------------------------------------------------
(* The invariant, and completed surfaces.                                  *)

LEMMA InitHasInv ==
    ASSUME Init
    PROVE  CollectionInv
<1>1. WellFormed(world) /\ request.kind \in Kinds
  BY CollectionAssumption DEF Init
<1>2. Last \in 1 .. 12
  BY <1>1, PlanLength DEF Last
<1>3. TypeCorrect
  BY <1>2 DEF Init, TypeCorrect
<1>4. Histories
  BY <1>1, WithinItself DEF Init, Histories, WellFormed
<1>5. RowsAreReal
  BY DEF Init, RowsAreReal
<1>6. SurfacesAreWhole
  BY DEF Init, SurfacesAreWhole
<1> QED BY <1>3, <1>4, <1>5, <1>6
        DEF Init, CollectionInv, EntriesAreGood, VisitsGroups, SurfaceLosesNothing

LEMMA NextKeepsInv ==
    ASSUME CollectionInv, [Next]_vars
    PROVE  CollectionInv'
<1>1. CASE Begin
  BY <1>1, BeginKeepsInv
<1>2. CASE Fetch
  BY <1>2, FetchKeepsInv
<1>3. CASE FetchGone
  BY <1>3, FailureKeepsInv DEF FetchGone
<1>4. CASE FetchTransient
  <2>1. CASE SurfaceFails
    BY <1>4, <2>1, FailureKeepsInv DEF FetchTransient
  <2>2. CASE ~SurfaceFails
    BY <1>4, <2>2, QuietKeepsInv DEF FetchTransient
  <2> QED BY <2>1, <2>2
<1>5. CASE FetchFails
  BY <1>5, FailureKeepsInv DEF FetchFails
<1>6. CASE Finish
  BY <1>6, QuietKeepsInv DEF Finish, Last
<1>7. CASE SourceChanges
  BY <1>7, ChangeKeepsInv
<1>8. CASE UNCHANGED vars
  BY <1>8, QuietKeepsInv DEF vars, sourceVars
<1> QED BY <1>1, <1>2, <1>3, <1>4, <1>5, <1>6, <1>7, <1>8 DEF Next, Collect

(* The listing in progress and the surfaces before it lose nothing that    *)
(* the source held all the time: collect, _pages and _retry.               *)
THEOREM CollectionIsSound == Spec => []CollectionInv
<1>1. Init => CollectionInv
  BY InitHasInv
<1>2. CollectionInv /\ [Next]_vars => CollectionInv'
  BY NextKeepsInv
<1> QED BY <1>1, <1>2, PTL DEF Spec

(* In the end every surface that was asked for and did not fail is whole.  *)
LEMMA DoneIsWhole ==
    ASSUME CollectionInv, status = "done", ~disturbed, NEW s \in Required(request.kind), Sound(s)
    PROVE  Whole(Collected(s), always, s)
<1> USE DEF CollectionInv
<1>1. request.kind \in Kinds /\ Last \in 1 .. 12
  BY CollectionAssumption, PlanLength DEF TypeCorrect, Last
<1>2. PICK i \in 1 .. Last : Plan(request.kind)[i] = s
  BY DEF Required, Surfaces, Last
<1>3. i \in 1 .. step - 1
  BY <1>1 DEF TypeCorrect
<1> QED BY <1>2, <1>3 DEF SurfacesAreWhole

(* A surface the manifest calls complete misses nothing that the source    *)
(* held all the time.                                                      *)
THEOREM CompletedSurfacesAreWhole == Spec => []CompletedIsWhole
<1>1. CollectionInv => CompletedIsWhole
  <2> SUFFICES ASSUME CollectionInv, status = "done", ~disturbed, NEW s \in Completed
               PROVE  Facts(always, s) \subseteq Collected(s)
    BY DEF CompletedIsWhole
  <2>1. request.kind \in Kinds /\ request.surfaces \subseteq Required(request.kind)
    BY CollectionAssumption DEF CollectionInv, TypeCorrect
  <2>2. s \in Required(request.kind) /\ Sound(s)
    BY <2>1 DEF Completed, Sound, Wanted
  <2>3. Whole(Collected(s), always, s)
    BY <2>2, DoneIsWhole
  <2>4. WellFormed(always)
    BY DEF CollectionInv, Histories
  <2> QED BY <2>1, <2>2, <2>3, <2>4, WholeHasFacts
<1> QED BY <1>1, CollectionIsSound, PTL

-----------------------------------------------------------------------------
(* What edges lead to.                                                     *)

(* Whoever has the edges that leave N, and N them all, is led as far.      *)
LEMMA ReachedGrows ==
    ASSUME NEW R, NEW Q, NEW N, \A e \in R : e[1] \in N => (e \in Q /\ e[2] \in N),
           NEW x \in N
    PROVE  ReachedFrom(R, x) \subseteq ReachedFrom(Q, x)
<1> SUFFICES ASSUME NEW y \in ReachedFrom(R, x) PROVE y \in ReachedFrom(Q, x)
  OBVIOUS
<1> PICK Ends, Reach : Ends = {e[2] : e \in R} /\ Reach = {e[2] : e \in Q}
  OBVIOUS
<1>1. ASSUME NEW T \in Closed(Q, x)
      PROVE  y \in T
  <2> PICK S : S = T \cap Ends \cap N
    OBVIOUS
  <2>1. T \in SUBSET Reach /\ After(Q, T \cup {x}) \subseteq T
    BY DEF Closed
  <2>2. ASSUME NEW e \in R, e[1] \in S \cup {x}
        PROVE  e[2] \in S
    <3>1. e \in Q /\ e[2] \in N /\ e[1] \in T \cup {x}
      BY <2>2
    <3>2. e[2] \in T
      BY <2>1, <3>1 DEF After
    <3> QED BY <3>1, <3>2
  <2>3. After(R, S \cup {x}) \subseteq S
    BY <2>2 DEF After
  <2>4. S \in Closed(R, x)
    BY <2>3 DEF Closed
  <2> QED BY <2>4 DEF ReachedFrom
<1>2. Reach \in Closed(Q, x)
  BY DEF Closed, After
<1> QED BY <1>1, <1>2 DEF ReachedFrom

LEMMA ReachedIsLess ==
    ASSUME NEW R, NEW Q, NEW A, NEW B, NEW r, NEW q, A \subseteq B, r \subseteq q,
           \A x \in A : ReachedFrom(R, x) \subseteq ReachedFrom(Q, x)
    PROVE  Reached(R, A, r) \subseteq Reached(Q, B, q)
<1> SUFFICES ASSUME NEW x \in A, NEW z \in {x} \X (ReachedFrom(R, x) \cap r)
             PROVE  z \in Reached(Q, B, q)
  BY DEF Reached
<1>1. z \in {x} \X (ReachedFrom(Q, x) \cap q) /\ x \in B
  OBVIOUS
<1> QED BY <1>1 DEF Reached

-----------------------------------------------------------------------------
(* An import of a collection.                                              *)

LEMMA ImportedRowIsReal ==
    ASSUME CollectionInv, NEW s, NEW row \in SurfaceRows(s)
    PROVE  Real(ever, s, row)
<1>1. s \in request.surfaces /\ row \in {d.row : d \in data[s]}
  BY DEF SurfaceRows
<1>2. s \in Surfaces(request.kind)
  BY <1>1, CollectionAssumption DEF CollectionInv, TypeCorrect, Required
<1> QED BY <1>1, <1>2 DEF CollectionInv, RowsAreReal

LEMMA ImportedRows ==
    ASSUME CollectionInv
    PROVE  /\ SurfaceRows("memberships") \subseteq ever.member \cup (IF Keycloak THEN Nested(ever) ELSE {})
           /\ SurfaceRows("user_role_mappings") \subseteq ever.grants
           /\ SurfaceRows("group_role_mappings") \subseteq ever.grants
           /\ SurfaceRows("composite_roles") \subseteq ever.composite
           /\ SurfaceRows("admin_role_assignments") \subseteq ever.grants
           /\ SurfaceRows("iam_allow_policies") \subseteq ever.grants
BY ImportedRowIsReal DEF Real

(* Every edge that an import makes was there at some time.                 *)
LEMMA EdgesAreReal ==
    ASSUME CollectionInv
    PROVE  ImportedEdges(Import) \subseteq Edges(ever)
<1> PICK E : E = Edges(ever)
  OBVIOUS
<1>0. request.kind \in Kinds
  BY CollectionAssumption DEF CollectionInv, TypeCorrect
<1>1. ever.member \cup ever.grants \subseteq Id \X Id
  BY DEF CollectionInv, Histories
<1>2. \A e \in ever.member \cup ever.grants \cup Nested(ever) : e = <<e[1], e[2]>>
  BY <1>1 DEF Nested
<1>3. CASE request.kind = "keycloak"
  <2>1. Keycloak /\ Import = ImportKeycloak
    BY <1>3 DEF Import, Keycloak
  <2>2. Import.assignments = KeycloakAssignments /\ Import.relations = KeycloakRelations
    BY <2>1 DEF ImportKeycloak
  <2>3. ever.member \cup ever.grants \cup Nested(ever) \cup ever.composite \subseteq E
    BY <2>1, <1>3 DEF Edges
  <2>4. KeycloakRelations \subseteq E
    BY <2>1, <2>3, ImportedRows DEF KeycloakRelations
  <2>5. ASSUME NEW q \in KeycloakAssignments PROVE <<q[2], q[1]>> \in E
    <3>1. PICK e \in SurfaceRows("memberships") \cup SurfaceRows("user_role_mappings")
                       \cup SurfaceRows("group_role_mappings") : q = <<e[2], e[1]>>
      BY DEF KeycloakAssignments
    <3>2. e \in ever.member \cup ever.grants \cup Nested(ever)
      BY <2>1, ImportedRows
    <3>3. <<q[2], q[1]>> = e
      BY <1>2, <3>1, <3>2
    <3> QED BY <2>3, <3>2, <3>3
  <2> QED BY <2>2, <2>4, <2>5 DEF ImportedEdges
<1>4. CASE request.kind = "google_workspace"
  <2>1. ~Keycloak /\ Import = ImportWorkspace
    BY <1>4 DEF Import, Keycloak
  <2> PICK W : W = WorkspaceMembers \cup WorkspaceGrants
    OBVIOUS
  <2>2. Import.assignments = {<<e[2], e[1]>> : e \in W}
        /\ Import.relations = {e \in W : e[1] \in DOMAIN ParentGroup}
    BY <2>1 DEF ImportWorkspace
  <2>3. ever.member \cup ever.grants \subseteq E
    BY <2>1, <1>4 DEF Edges
  <2>4. W \subseteq ever.member \cup ever.grants
    BY <2>1, ImportedRows DEF WorkspaceMembers, WorkspaceGrants
  <2>5. ASSUME NEW q \in Import.assignments PROVE <<q[2], q[1]>> \in E
    <3>1. PICK e \in W : q = <<e[2], e[1]>>
      BY <2>2
    <3>2. <<q[2], q[1]>> = e
      BY <1>2, <2>4, <3>1
    <3> QED BY <2>3, <2>4, <3>2
  <2> QED BY <2>2, <2>3, <2>4, <2>5 DEF ImportedEdges
<1>5. CASE request.kind = "gcp_iam"
  <2>1. Import = ImportGcp
    BY <1>5 DEF Import
  <2> PICK W : W = SurfaceRows("iam_allow_policies")
    OBVIOUS
  <2>2. Import.assignments = {<<e[2], e[1]>> : e \in W} /\ Import.relations = {}
    BY <2>1 DEF ImportGcp
  <2>3. W \subseteq ever.grants /\ ever.grants \subseteq E
    BY ImportedRows DEF Edges
  <2>4. ASSUME NEW q \in Import.assignments PROVE <<q[2], q[1]>> \in E
    <3>1. PICK e \in W : q = <<e[2], e[1]>>
      BY <2>2
    <3>2. <<q[2], q[1]>> = e
      BY <1>2, <2>3, <3>1
    <3> QED BY <2>3, <3>2
  <2> QED BY <2>2, <2>4 DEF ImportedEdges
<1> QED BY <1>0, <1>3, <1>4, <1>5 DEF Kinds

LEMMA InvImportsReal ==
    ASSUME CollectionInv
    PROVE  HoldsByImport(Import) \subseteq Holds(ever)
<1> PICK R, Q : R = ImportedEdges(Import) /\ Q = Edges(ever)
  OBVIOUS
<1>1. R \subseteq Q
  BY EdgesAreReal
<1>2. ASSUME NEW x PROVE ReachedFrom(R, x) \subseteq ReachedFrom(Q, x)
  <2> PICK N : N = {x} \cup {e[2] : e \in R}
    OBVIOUS
  <2>1. \A e \in R : e[1] \in N => (e \in Q /\ e[2] \in N)
    BY <1>1
  <2> QED BY <2>1, ReachedGrows
<1>3. People(Import) \cap ever.users \subseteq ever.users
  OBVIOUS
<1> QED BY <1>2, <1>3, ReachedIsLess DEF HoldsByImport, Holds

(* A full artifact has what the source held all the time.                  *)
LEMMA FullHasFacts ==
    ASSUME CollectionInv, status = "done", ~disturbed, DeclaredFull, NEW s \in Required(request.kind)
    PROVE  Facts(always, s) \subseteq Says(s, SurfaceRows(s))
<1>1. request.kind \in Kinds /\ WellFormed(always)
  BY CollectionAssumption DEF CollectionInv, TypeCorrect, Histories
<1>2. Sound(s)
  BY DEF DeclaredFull, Sound, Wanted
<1>3. Whole(Collected(s), always, s)
  BY <1>2, DoneIsWhole
<1>4. Collected(s) = Says(s, SurfaceRows(s))
  BY DEF Collected, SurfaceRows, DeclaredFull
<1> QED BY <1>1, <1>3, <1>4, WholeHasFacts

LEMMA FullKnowsAll ==
    ASSUME CollectionInv, status = "done", ~disturbed, DeclaredFull
    PROVE  /\ request.kind # "gcp_iam" =>
                 /\ \A u \in always.users : \E d \in SurfaceRows("users") : d.id = u
                 /\ always.groups \subseteq SurfaceRows("groups")
                 /\ always.member \subseteq SurfaceRows("memberships")
           /\ Keycloak =>
                 /\ Nested(always) \subseteq SurfaceRows("memberships")
                 /\ {e \in always.grants : e[1] \in always.users} \subseteq SurfaceRows("user_role_mappings")
                 /\ {e \in always.grants : e[1] \in always.groups} \subseteq SurfaceRows("group_role_mappings")
                 /\ always.composite \subseteq SurfaceRows("composite_roles")
           /\ request.kind = "google_workspace" =>
                 always.grants \subseteq SurfaceRows("admin_role_assignments")
           /\ request.kind = "gcp_iam" =>
                 /\ \A u \in always.users : \E d \in SurfaceRows("service_accounts") : d.id = u
                 /\ always.grants \subseteq SurfaceRows("iam_allow_policies")
<1>0. \A s \in Required(request.kind) : Facts(always, s) \subseteq Says(s, SurfaceRows(s))
  BY FullHasFacts
<1>9. request.kind \in Kinds
  BY CollectionAssumption DEF CollectionInv, TypeCorrect
<1>1. ASSUME request.kind # "gcp_iam"
      PROVE  /\ always.users \subseteq Says("users", SurfaceRows("users"))
             /\ always.groups \subseteq SurfaceRows("groups")
             /\ always.member \subseteq SurfaceRows("memberships")
             /\ Keycloak => Nested(always) \subseteq SurfaceRows("memberships")
  <2>1. {"users", "groups", "memberships"} \subseteq Required(request.kind)
    BY <1>9, <1>1, SurfaceNames DEF Kinds, Required
  <2>2. Says("groups", SurfaceRows("groups")) = SurfaceRows("groups")
        /\ Says("memberships", SurfaceRows("memberships")) = SurfaceRows("memberships")
    BY DEF Says
  <2>3. Facts(always, "users") = always.users /\ Facts(always, "groups") = always.groups
        /\ Facts(always, "memberships") = always.member \cup (IF Keycloak THEN Nested(always) ELSE {})
    BY DEF Facts
  <2> QED BY <1>0, <2>1, <2>2, <2>3
<1>2. ASSUME Keycloak
      PROVE  /\ {e \in always.grants : e[1] \in always.users} \subseteq SurfaceRows("user_role_mappings")
             /\ {e \in always.grants : e[1] \in always.groups} \subseteq SurfaceRows("group_role_mappings")
             /\ always.composite \subseteq SurfaceRows("composite_roles")
  <2>1. {"user_role_mappings", "group_role_mappings", "composite_roles"} \subseteq Required(request.kind)
    BY <1>2, SurfaceNames DEF Required, Keycloak
  <2>2. \A s \in {"user_role_mappings", "group_role_mappings", "composite_roles"} :
            Says(s, SurfaceRows(s)) = SurfaceRows(s)
    BY DEF Says
  <2>3. /\ Facts(always, "user_role_mappings") = {e \in always.grants : e[1] \in always.users}
        /\ Facts(always, "group_role_mappings") = {e \in always.grants : e[1] \in always.groups}
        /\ Facts(always, "composite_roles") = always.composite
    BY DEF Facts
  <2> QED BY <1>0, <2>1, <2>2, <2>3
<1>3. ASSUME request.kind = "google_workspace"
      PROVE  always.grants \subseteq SurfaceRows("admin_role_assignments")
  <2>1. "admin_role_assignments" \in Required(request.kind)
    BY <1>3, SurfaceNames DEF Required
  <2> QED BY <1>0, <2>1 DEF Facts, Says
<1>4. ASSUME request.kind = "gcp_iam"
      PROVE  /\ always.users \subseteq Says("service_accounts", SurfaceRows("service_accounts"))
             /\ always.grants \subseteq SurfaceRows("iam_allow_policies")
  <2>1. {"service_accounts", "iam_allow_policies"} \subseteq Required(request.kind)
    BY <1>4, SurfaceNames DEF Required
  <2>2. Facts(always, "service_accounts") = always.users
    BY <1>4 DEF Facts, Keycloak
  <2>3. Facts(always, "iam_allow_policies") = always.grants
        /\ Says("iam_allow_policies", SurfaceRows("iam_allow_policies")) = SurfaceRows("iam_allow_policies")
    BY DEF Facts, Says
  <2> QED BY <1>0, <2>1, <2>2, <2>3
<1>5. \A s \in {"users", "service_accounts"} : \A u \in Says(s, SurfaceRows(s)) :
          \E d \in SurfaceRows(s) : d.id = u
  BY DEF Says
<1>6. request.kind # "gcp_iam" =>
          \A u \in always.users : \E d \in SurfaceRows("users") : d.id = u
  BY <1>1, <1>5
<1>7. request.kind = "gcp_iam" =>
          \A u \in always.users : \E d \in SurfaceRows("service_accounts") : d.id = u
  BY <1>4, <1>5
<1>8. Keycloak => request.kind # "gcp_iam"
  BY DEF Keycloak
<1> QED BY <1>1, <1>2, <1>3, <1>4, <1>6, <1>7, <1>8

(* A full import knows the accounts that were there all the time, and has  *)
(* every edge that leaves an object of the source.                         *)
Nodes(w) == w.users \cup w.groups \cup w.roles

LEMMA EdgesStayInside ==
    ASSUME NEW w, WellFormed(w), NEW e \in Edges(w)
    PROVE  e[2] \in Nodes(w) /\ e = <<e[1], e[2]>>
<1>1. CASE e \in w.grants \cup w.member \cup w.composite
  BY <1>1 DEF WellFormed, Nodes
<1>2. CASE e \in Nested(w)
  BY <1>2, SMT DEF WellFormed, Nodes, Nested
<1> QED BY <1>1, <1>2 DEF Edges

LEMMA KeycloakImportsAll ==
    ASSUME CollectionInv, status = "done", ~disturbed, DeclaredFull, Unresolved = {}, Keycloak,
           Import.accepted
    PROVE  /\ always.users \subseteq People(Import)
           /\ \A e \in Edges(always) : e[1] \in Nodes(always) => e \in ImportedEdges(Import)
<1>1. Import = ImportKeycloak
  BY DEF Import, Keycloak
<1>2. /\ Import.identities = KeycloakIdentities /\ Import.assignments = KeycloakAssignments
      /\ Import.relations = KeycloakRelations
  BY <1>1 DEF ImportKeycloak
<1>3. request.kind # "gcp_iam" /\ WellFormed(always)
  BY DEF Keycloak, CollectionInv, Histories
<1>4. always.users \subseteq People(Import)
  <2> SUFFICES ASSUME NEW u \in always.users PROVE u \in People(Import)
    OBVIOUS
  <2>1. PICK d \in SurfaceRows("users") : d.id = u
    BY <1>3, FullKnowsAll
  <2> DEFINE services == SurfaceRows("service_accounts")
             kind == IF u \in {r.id : r \in services} THEN "technical" ELSE "user"
             active == \A r \in SurfaceRows("users") \cup services : r.id = u => r.enabled
  <2>2. Identity(u, kind, active) \in KeycloakIdentities
    BY <2>1 DEF KeycloakIdentities
  <2>3. Identity(u, kind, active).id = u /\ Identity(u, kind, active).kind # "group"
    BY DEF Identity
  <2> QED BY <1>2, <2>2, <2>3 DEF People
<1>5. ASSUME NEW e \in Edges(always), e[1] \in Nodes(always)
      PROVE  e \in ImportedEdges(Import)
  <2>0. e = <<e[1], e[2]>>
    BY <1>3, EdgesStayInside
  <2>1. ASSUME e \in KeycloakRelations PROVE e \in ImportedEdges(Import)
    BY <1>2, <2>1 DEF ImportedEdges
  <2>2. ASSUME e \in SurfaceRows("memberships") \cup SurfaceRows("user_role_mappings"), e[1] \in always.users
        PROVE  e \in ImportedEdges(Import)
    <3>1. <<e[2], e[1]>> \in KeycloakAssignments
      BY <2>2 DEF KeycloakAssignments
    <3>2. e[1] \in People(Import)
      BY <1>4, <2>2
    <3>3. <<e[2], e[1]>> \in {q \in Import.assignments : q[2] \in People(Import)}
      BY <1>2, <3>1, <3>2
    <3> QED BY <2>0, <3>3 DEF ImportedEdges
  <2>3. CASE e \in always.composite
    BY <2>1, <2>3, FullKnowsAll DEF KeycloakRelations
  <2>4. CASE e \in Nested(always)
    <3>1. e[1] \in SurfaceRows("groups") /\ e \in SurfaceRows("memberships")
      BY <1>3, <2>4, FullKnowsAll DEF Nested
    <3> QED BY <2>1, <3>1 DEF KeycloakRelations
  <2>5. CASE e \in always.member \cup always.grants
    <3>1. e[1] \in always.users \cup always.groups
      BY <1>3, <1>5, <2>5 DEF WellFormed, Nodes
    <3>2. CASE e \in always.member
      <4>1. e \in SurfaceRows("memberships")
        BY <1>3, <3>2, FullKnowsAll
      <4>2. CASE e[1] \in always.users
        BY <2>2, <4>1, <4>2
      <4>3. CASE e[1] \in always.groups
        <5>1. e[1] \in SurfaceRows("groups")
          BY <1>3, <4>3, FullKnowsAll
        <5> QED BY <2>1, <4>1, <5>1 DEF KeycloakRelations
      <4> QED BY <3>1, <4>2, <4>3
    <3>3. CASE e \in always.grants
      <4>1. CASE e[1] \in always.users
        BY <2>2, <3>3, <4>1, FullKnowsAll
      <4>2. CASE e[1] \in always.groups
        <5>1. e \in SurfaceRows("group_role_mappings")
          BY <3>3, <4>2, FullKnowsAll
        <5> QED BY <2>1, <5>1 DEF KeycloakRelations
      <4> QED BY <3>1, <4>1, <4>2
    <3> QED BY <2>5, <3>2, <3>3
  <2> QED BY <2>3, <2>4, <2>5 DEF Edges
<1> QED BY <1>4, <1>5

LEMMA WorkspaceImportsAll ==
    ASSUME CollectionInv, status = "done", ~disturbed, DeclaredFull, request.kind = "google_workspace"
    PROVE  /\ always.users \subseteq People(Import)
           /\ \A e \in Edges(always) : e[1] \in Nodes(always) => e \in ImportedEdges(Import)
<1>1. Import = ImportWorkspace /\ ~Keycloak
  BY DEF Import, Keycloak
<1> PICK W : W = WorkspaceMembers \cup WorkspaceGrants
  OBVIOUS
<1>2. /\ Import.identities = WorkspaceIdentities /\ Import.assignments = {<<e[2], e[1]>> : e \in W}
      /\ Import.relations = {e \in W : e[1] \in DOMAIN ParentGroup}
  BY <1>1 DEF ImportWorkspace
<1>3. request.kind # "gcp_iam" /\ WellFormed(always)
  BY DEF CollectionInv, Histories
<1>4. always.users \subseteq People(Import)
  <2> SUFFICES ASSUME NEW u \in always.users PROVE u \in People(Import)
    OBVIOUS
  <2>1. PICK d \in SurfaceRows("users") : d.id = u
    BY <1>3, FullKnowsAll
  <2> DEFINE active == \A q \in SurfaceRows("users") : q.id = d.id => q.enabled
  <2>2. Identity(d.id, "user", active) \in WorkspaceIdentities
    BY DEF WorkspaceIdentities
  <2>3. Identity(d.id, "user", active).id = u /\ Identity(d.id, "user", active).kind # "group"
    BY <2>1 DEF Identity
  <2> QED BY <1>2, <2>2, <2>3 DEF People
<1>5. \A x \in always.users \cup always.groups : \E d \in WorkspaceIdentities : d.id = x
  <2>1. \A u \in always.users : \E d \in WorkspaceIdentities : d.id = u
    BY <1>4, <1>2 DEF People
  <2>2. ASSUME NEW g \in always.groups PROVE \E d \in WorkspaceIdentities : d.id = g
    <3>1. g \in SurfaceRows("groups")
      BY <1>3, FullKnowsAll
    <3>2. Identity(g, "group", TRUE) \in WorkspaceIdentities
      BY <3>1 DEF WorkspaceIdentities
    <3> QED BY <3>2 DEF Identity
  <2> QED BY <2>1, <2>2
<1>6. ASSUME NEW e \in Edges(always), e[1] \in Nodes(always)
      PROVE  e \in ImportedEdges(Import)
  <2>0. e = <<e[1], e[2]>> /\ e \in always.member \cup always.grants
    BY <1>1, <1>3, EdgesStayInside DEF Edges
  <2>1. e[1] \in always.users \cup always.groups
    BY <1>3, <1>6, <2>0 DEF WellFormed, Nodes
  <2>2. e \in W
    <3>1. CASE e \in always.member
      <4>1. e[2] \in always.groups
        BY <1>3, <3>1 DEF WellFormed
      <4>2. e \in SurfaceRows("memberships") /\ e[2] \in SurfaceRows("groups")
        BY <1>3, <3>1, <4>1, FullKnowsAll
      <4> QED BY <4>2 DEF WorkspaceMembers
    <3>2. CASE e \in always.grants
      <4>1. e \in SurfaceRows("admin_role_assignments")
        BY <3>2, FullKnowsAll
      <4>2. e[1] \in {d.id : d \in WorkspaceIdentities}
        BY <1>5, <2>1
      <4> QED BY <4>1, <4>2 DEF WorkspaceGrants
    <3> QED BY <2>0, <3>1, <3>2
  <2>3. CASE e[1] \in always.users
    <3>1. e[1] \in People(Import)
      BY <1>4, <2>3
    <3>2. <<e[2], e[1]>> \in {q \in Import.assignments : q[2] \in People(Import)}
      BY <1>2, <2>2, <3>1
    <3> QED BY <2>0, <3>2 DEF ImportedEdges
  <2>4. CASE e[1] \in always.groups
    <3>1. e[1] \in DOMAIN ParentGroup
      BY <1>3, <2>4 DEF WellFormed
    <3> QED BY <1>2, <2>2, <3>1 DEF ImportedEdges
  <2> QED BY <2>1, <2>3, <2>4
<1> QED BY <1>4, <1>6

LEMMA GcpImportsAll ==
    ASSUME CollectionInv, status = "done", ~disturbed, DeclaredFull, request.kind = "gcp_iam"
    PROVE  /\ always.users \subseteq People(Import)
           /\ \A e \in Edges(always) : e[1] \in Nodes(always) => e \in ImportedEdges(Import)
<1>1. Import = ImportGcp /\ ~Keycloak
  BY DEF Import, Keycloak
<1> PICK W : W = SurfaceRows("iam_allow_policies")
  OBVIOUS
<1>2. Import.identities = GcpIdentities /\ Import.assignments = {<<e[2], e[1]>> : e \in W}
  BY <1>1 DEF ImportGcp
<1>3. WellFormed(always)
  BY DEF CollectionInv, Histories
<1>4. ASSUME NEW d \in SurfaceRows("service_accounts") PROVE d.id \in People(Import)
  <2>1. Identity(d.id, "technical", d.enabled) \in GcpIdentities
    BY DEF GcpIdentities
  <2> QED BY <1>2, <2>1 DEF People, Identity
<1>5. ASSUME NEW e \in W PROVE e[1] \in People(Import)
  <2>1. CASE \E d \in SurfaceRows("service_accounts") : d.id = e[1]
    BY <1>4, <2>1
  <2>2. CASE \A d \in SurfaceRows("service_accounts") : d.id # e[1]
    <3>1. Identity(e[1], "unresolved", FALSE) \in GcpIdentities
      BY <2>2 DEF GcpIdentities
    <3> QED BY <1>2, <3>1 DEF People, Identity
  <2> QED BY <2>1, <2>2
<1>6. ASSUME NEW e \in Edges(always)
      PROVE  e \in ImportedEdges(Import)
  <2>1. e = <<e[1], e[2]>> /\ e \in always.grants
    BY <1>1, <1>3, EdgesStayInside DEF Edges
  <2>2. e \in W
    BY <2>1, FullKnowsAll
  <2>3. <<e[2], e[1]>> \in {q \in Import.assignments : q[2] \in People(Import)}
    BY <1>2, <1>5, <2>2
  <2> QED BY <2>1, <2>3 DEF ImportedEdges
<1>7. always.users \subseteq People(Import)
  BY <1>4, FullKnowsAll
<1> QED BY <1>6, <1>7

LEMMA InvImportsWhole ==
    ASSUME CollectionInv, status = "done", ~disturbed, Import.accepted, Import.full
    PROVE  Holds(always) \subseteq HoldsByImport(Import)
<1> PICK R, Q, N : R = Edges(always) /\ Q = ImportedEdges(Import) /\ N = Nodes(always)
  OBVIOUS
<1>1. request.kind \in Kinds
  BY CollectionAssumption DEF CollectionInv, TypeCorrect
<1>2. always.users \subseteq People(Import) /\ \A e \in R : e[1] \in N => e \in Q
  <2>1. CASE request.kind = "keycloak"
    <3>1. DeclaredFull /\ Unresolved = {}
      BY <2>1 DEF Import, ImportKeycloak
    <3> QED BY <2>1, <3>1, KeycloakImportsAll DEF Keycloak
  <2>2. CASE request.kind = "google_workspace"
    <3>1. DeclaredFull
      BY <2>2 DEF Import, ImportWorkspace
    <3> QED BY <2>2, <3>1, WorkspaceImportsAll
  <2>3. CASE request.kind = "gcp_iam"
    <3>1. DeclaredFull
      BY <2>3 DEF Import, ImportGcp
    <3> QED BY <2>3, <3>1, GcpImportsAll
  <2> QED BY <1>1, <2>1, <2>2, <2>3 DEF Kinds
<1>3. \A e \in R : e[2] \in N
  BY EdgesStayInside DEF CollectionInv, Histories
<1>4. \A x \in always.users : ReachedFrom(R, x) \subseteq ReachedFrom(Q, x)
  <2>1. always.users \subseteq N
    BY DEF Nodes
  <2> QED BY <1>2, <1>3, <2>1, ReachedGrows
<1>5. always.users \subseteq People(Import) \cap ever.users /\ always.roles \subseteq ever.roles
  BY <1>2 DEF CollectionInv, Histories, Within, WorldFields
<1> QED BY <1>4, <1>5, ReachedIsLess DEF HoldsByImport, Holds

(* An import is faithful to the source, whatever changed or failed while   *)
(* it was collected: no account holds a role that it had no path to, and   *)
(* a full import, which revokes what it misses, misses nothing.            *)
THEOREM ImportsAreFaithful == Spec => []ImportIsFaithful
<1>1. CollectionInv => ImportIsFaithful
  BY InvImportsReal, InvImportsWhole DEF ImportIsFaithful, FullImportIsWhole, ImportIsReal
<1> QED BY <1>1, CollectionIsSound, PTL

=============================================================================
