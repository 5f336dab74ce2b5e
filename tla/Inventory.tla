------------------------------ MODULE Inventory ------------------------------
(***************************************************************************)
(* The inventory of current accounts, accesses, assignments and relations, *)
(* and persist_import_result, which merges one collection of one provider  *)
(* into it and freezes a snapshot.                                         *)
(*                                                                         *)
(* An import is parsed against the identities known then, reads the        *)
(* provider's earlier import scopes to decide whether it is authoritative, *)
(* and then writes everything in one transaction, which SQLite serialises. *)
(* Two web workers and the command line may have imports in flight.        *)
(*                                                                         *)
(* Objects carry the native id of their source (a SID, an entryUUID);      *)
(* assignments and relations refer to them by provider and name.           *)
(***************************************************************************)
EXTENDS Naturals, Sequences

CONSTANTS
    Providers,    \* provider names
    Type,         \* provider -> "active_directory", "openldap", "google", "keycloak"
    Natives,      \* native ids of identities
    Groups,       \* native ids of accesses
    Names,        \* identifiers and access names
    Scopes,       \* canonical collection scopes
    Supported,    \* scopes that cover a whole provider (surfaces, base DN and filter)
    Realm,        \* scope -> its Keycloak realm
    Observations, \* provider -> collections that may be imported
    Workers,      \* web workers and operators
    Handles,      \* worker -> providers it imports
    None,         \* absent value
    BatchIds      \* bound: uuids of import batches, compared as SQL compares ids

Named(N) == [native : N, name : Names]

(* What a collector exported: full means completeness full and no          *)
(* collection error; graph is FALSE when it says nothing of relations.     *)
Observation ==
    [identities : SUBSET Named(Natives), accesses : SUBSET Named(Groups),
     members : SUBSET (Groups \X Natives), relations : SUBSET (Groups \X Groups),
     graph : BOOLEAN, full : BOOLEAN, scope : Scopes]

(* The importers drop duplicates, and memberships of groups not exported.  *)
WellFormed(o) ==
    /\ \A i, j \in o.identities : i.native = j.native \/ i.name = j.name => i = j
    /\ \A i, j \in o.accesses : i.native = j.native \/ i.name = j.name => i = j
    /\ \A m \in o.members : \E a \in o.accesses : a.native = m[1]
    /\ \A e \in o.relations : \A n \in {1, 2} : \E a \in o.accesses : a.native = e[n]

ASSUME InventoryAssumption ==
    /\ Type \in [Providers -> {"active_directory", "openldap", "google", "keycloak"}]
    /\ Supported \subseteq Scopes
    /\ Observations \in [Providers -> SUBSET Observation]
    /\ \A p \in Providers : \A o \in Observations[p] : WellFormed(o)
    /\ Handles \in [Workers -> SUBSET Providers]
    /\ None \notin Scopes \cup Providers
    /\ BatchIds \subseteq Nat

(* A row's uuid: fresh for a native id and the batch that created the row. *)
RowId(N) == N \X BatchIds

IdentityRow == [provider : Providers, native : Natives, name : Names, live : BOOLEAN,
                id : RowId(Natives)]

AccessRow == [provider : Providers, native : Groups, name : Names, id : RowId(Groups)]

Ref == Providers \X Names

(* raw: the group and member ids the source gave, kept in origin.raw.  The *)
(* holder of an unresolved assignment is not an identity of any provider.  *)
Assignment == [provider : Providers, access : Names, raw : Groups \X Natives,
               holder : Ref \cup {<<None, n>> : n \in Natives}, unresolved : BOOLEAN]

(* scope: as collected; expected: authoritative_scope as recorded.         *)
Batch == [uuid : BatchIds, provider : Providers, scope : Scopes,
          expected : Scopes \cup {None}, authoritative : BOOLEAN,
          retained : SUBSET Assignment, resolved : SUBSET Assignment]

Snapshot == [provider : Providers, authoritative : BOOLEAN, assignments : SUBSET Assignment]

VARIABLES
    providers,   \* table providers: names with a row
    identities,  \* table identities
    accesses,    \* table accesses
    assignments, \* table access_assignments
    relations,   \* table access_relations: <<parent, child>>
    imports,     \* table imports
    snapshots,   \* table snapshots, oldest first
    req          \* worker -> the import it has in flight

vars == <<providers, identities, accesses, assignments, relations, imports, snapshots, req>>

tables == <<providers, identities, accesses, assignments, relations, imports, snapshots>>

NoRequest == [pc |-> "idle"]

Init ==
    /\ providers = {}
    /\ identities = {}
    /\ accesses = {}
    /\ assignments = {}
    /\ relations = {}
    /\ imports = {}
    /\ snapshots = <<>>
    /\ req = [w \in Workers |-> NoRequest]

-----------------------------------------------------------------------------
(* Parsing.                                                                *)

NameIn(S, n) == (CHOOSE x \in S : x.native = n).name

(* The identity a native id names, when exactly one row has it.  Deleted   *)
(* rows count.                                                             *)
Unique(R, n) == \E r \in R : {x \in R : x.native = n} = {r}

RefOf(R, n) == LET r == CHOOSE x \in R : x.native = n IN <<r.provider, r.name>>

(* _resolve_member: among the collected identities, else among those known *)
(* (the OpenLDAP and Keycloak importers are given none), else unresolved.  *)
Parsed(p, o, known) ==
    LET local == {i.native : i \in o.identities}
        K == IF Type[p] \in {"active_directory", "google"} THEN known ELSE {}
    IN  {[provider |-> p, access |-> NameIn(o.accesses, m[1]), raw |-> m,
          holder |-> IF m[2] \in local THEN <<p, NameIn(o.identities, m[2])>>
                     ELSE IF Unique(K, m[2]) THEN RefOf(K, m[2]) ELSE <<None, m[2]>>,
          unresolved |-> m[2] \notin local /\ ~Unique(K, m[2])] : m \in o.members}

(* import_file_to_repository: identities are read, the artifact is parsed. *)
ParseImport(w) ==
    /\ req[w] = NoRequest
    /\ \E p \in Handles[w] : \E o \in Observations[p] :
          req' = [req EXCEPT ![w] = [pc |-> "parsed", provider |-> p, obs |-> o,
                                     assignments |-> Parsed(p, o, identities)]]
    /\ UNCHANGED tables

-----------------------------------------------------------------------------
(* Authority.                                                              *)

(* The scope recorded by the previous import.  imports has no created_at,  *)
(* so the rows come in uuid order and "previous" is the greatest uuid.     *)
LastScope(p) ==
    LET B == {b \in imports : b.provider = p /\ b.expected # None}
    IN  IF B = {} THEN None
        ELSE (CHOOSE b \in B : \A c \in B : c.uuid <= b.uuid).expected

(* Mutant: the expected OpenLDAP scope follows every supported collection. *)
ExpectedScopeDrifts(p, o) ==
    IF Type[p] = "active_directory" THEN None
    ELSE IF Type[p] # "openldap" THEN o.scope
    ELSE IF o.full /\ o.scope \in Supported THEN o.scope ELSE LastScope(p)

(* authoritative_scope: OpenLDAP keeps the first supported full scope; the *)
(* Google and Keycloak connectors record their own; AD has none.           *)
ExpectedScope(p, o) ==
    IF Type[p] = "active_directory" THEN None
    ELSE IF Type[p] # "openldap" THEN o.scope
    ELSE IF LastScope(p) # None THEN LastScope(p)
    ELSE IF o.full /\ o.scope \in Supported THEN o.scope ELSE None

(* _provider_import_scope, then _is_authoritative_full.                    *)
Authoritative(p, o) ==
    /\ o.full
    /\ CASE Type[p] = "openldap" -> ExpectedScope(p, o) = o.scope
         [] Type[p] = "google" -> o.scope \in Supported /\ LastScope(p) \in {None, o.scope}
         [] OTHER -> o.scope \in Supported

RealmChanged(p, o) ==
    /\ Type[p] = "keycloak"
    /\ LastScope(p) # None
    /\ Realm[LastScope(p)] # Realm[o.scope]

(* persist_import_result, before its transaction.                          *)
ReadScopes(w) ==
    /\ req[w].pc = "parsed"
    /\ LET p == req[w].provider
           o == req[w].obs
       IN  /\ ~RealmChanged(p, o)
           /\ req' = [req EXCEPT ![w] =
                 [pc |-> "persist", provider |-> p, obs |-> o,
                  assignments |-> req[w].assignments, fresh |-> p \notin providers,
                  expected |-> ExpectedScope(p, o), authoritative |-> Authoritative(p, o)]]
    /\ UNCHANGED tables

-----------------------------------------------------------------------------
(* The transaction.                                                        *)

Own(R, p) == {r \in R : r.provider = p}

Live(R) == {r \in R : r.live}

(* An object renamed to a name that another row still holds is refused.    *)
RenameCollision(R, O) ==
    \E i \in O, r \in R, t \in R : r.native = i.native /\ t.name = i.name /\ r # t

NameClash(R) == \E r, s \in Live(R) : r.provider = s.provider /\ r.name = s.name /\ r # s

(* Mutant: a row is matched by its name.                                   *)
KeptByName(R, i, uuid) ==
    IF \E r \in R : r.name = i.name THEN (CHOOSE r \in R : r.name = i.name).id
    ELSE <<i.native, uuid>>

(* The row keeps the id of the one with its native id.                     *)
KeptId(R, i, uuid) ==
    IF \E r \in R : r.native = i.native THEN (CHOOSE r \in R : r.native = i.native).id
    ELSE <<i.native, uuid>>

(* A row the collection does not list: deleted if it is authoritative.     *)
Unlisted(r, authoritative) ==
    [r EXCEPT !.live = r.live /\ ~authoritative]

(* reconcile_identities, over the rows of the provider.                    *)
ReconcileIdentities(R, p, o, uuid, authoritative) ==
    {[provider |-> p, native |-> i.native, name |-> i.name, live |-> TRUE,
      id |-> KeptId(R, i, uuid)] : i \in o.identities}
    \cup {Unlisted(r, authoritative) :
            r \in {x \in R : \A i \in o.identities : i.native # x.native}}

(* _reconcile_accesses: nothing is deleted, but a new object with the name *)
(* of an old one takes its place.                                          *)
ReconcileAccesses(R, p, o, uuid) ==
    {[provider |-> p, native |-> a.native, name |-> a.name, id |-> KeptId(R, a, uuid)] :
        a \in o.accesses}
    \cup {r \in R : \A a \in o.accesses : a.native # r.native /\ a.name # r.name}

(* _detect_*_renames, as a map on references: O names the rows R anew.     *)
Renamed(R, O, ref) ==
    IF \E r \in R, i \in O : ref = <<r.provider, r.name>> /\ i.native = r.native
    THEN LET r == CHOOSE x \in R : ref = <<x.provider, x.name>> /\ \E i \in O : i.native = x.native
         IN  <<r.provider, NameIn(O, r.native)>>
    ELSE ref

(* Mutant: relations keep the old names.                                   *)
RelationsAsTheyWere(E, R, O) == E

RenameRelations(E, R, O) == {<<Renamed(R, O, e[1]), Renamed(R, O, e[2])>> : e \in E}

(* Mutant: only the access of an assignment is renamed.                    *)
RenameAccessOnly(A, own, ownAccesses, o) ==
    {[a EXCEPT !.access = Renamed(ownAccesses, o.accesses, <<a.provider, a.access>>)[2]] : a \in A}

(* _rename_assignment_references: every provider's assignments.            *)
RenameAssignments(A, own, ownAccesses, o) ==
    {[a EXCEPT !.access = Renamed(ownAccesses, o.accesses, <<a.provider, a.access>>)[2],
               !.holder = Renamed(Live(own), o.identities, a.holder)] : a \in A}

(* _resolve_assignment, against the identities R.                          *)
Resolvable(R, a) == a.unresolved /\ Unique(R, a.raw[2]) /\ RefOf(R, a.raw[2]) # a.holder

Resolve(R, A) ==
    {IF Resolvable(R, a) THEN [a EXCEPT !.holder = RefOf(R, a.raw[2]), !.unresolved = FALSE]
     ELSE a : a \in A}

(* Mutant: any import replaces the provider's assignments.                 *)
ReplaceAlways(A, p, new, authoritative) == {a \in A : a.provider # p} \cup new

ReplaceAssignments(A, p, new, authoritative) ==
    IF authoritative THEN {a \in A : a.provider # p} \cup new ELSE A

(* None leaves the graph alone; a non-authoritative one only adds.         *)
ReplaceRelations(E, p, o, authoritative) ==
    LET seen == {<<<<p, NameIn(o.accesses, e[1])>>, <<p, NameIn(o.accesses, e[2])>>>> :
                    e \in o.relations}
    IN  IF ~o.graph THEN E
        ELSE IF authoritative THEN {e \in E : e[1][1] # p} \cup seen ELSE E \cup seen

(* What a non-authoritative import keeps in its row instead of storing.    *)
RetainedUnresolved(q) == IF q.authoritative THEN {} ELSE {a \in q.assignments : a.unresolved}

(* Retained observations are resolved in the import row, nowhere else.     *)
ResolveRetained(R, B) ==
    {LET done == Resolve(R, {a \in b.retained : Resolvable(R, a)})
     IN  IF done = {} THEN b ELSE [b EXCEPT !.resolved = done] : b \in B}

(* The snapshot holds the collected assignments, or the stored ones when   *)
(* references were renamed or resolved under them.                         *)
SnapshotAssignments(p, q, renamed, resolved, stored) ==
    IF IF q.authoritative THEN resolved ELSE renamed \/ Type[p] = "keycloak"
    THEN Own(stored, p) ELSE q.assignments

PersistImport(w) ==
    /\ req[w].pc = "persist"
    /\ \E uuid \in BatchIds :
         LET q == req[w]
             p == q.provider
             o == q.obs
             own == Own(identities, p)
             ownAccesses == Own(accesses, p)
             ids == (identities \ own)
                      \cup ReconcileIdentities(own, p, o, uuid, q.authoritative)
             replaced == ReplaceAssignments(assignments, p, q.assignments, q.authoritative)
             renamed == RenameAssignments(replaced, own, ownAccesses, o)
             stored == Resolve(ids, renamed)
             graph == ReplaceRelations(relations, p, o, q.authoritative)
             graphRenamed == RenameRelations(graph, ownAccesses, o.accesses)
             batch == [uuid |-> uuid, provider |-> p, scope |-> o.scope,
                       expected |-> q.expected, authoritative |-> q.authoritative,
                       retained |-> RetainedUnresolved(q),
                       resolved |-> {}]
         IN  /\ \A b \in imports : b.uuid # uuid
             /\ q.fresh => p \notin providers
             /\ ~RenameCollision(Live(own), o.identities)
             /\ ~RenameCollision(ownAccesses, o.accesses)
             /\ ~NameClash(ids)
             /\ providers' = providers \cup {p}
             /\ identities' = ids
             /\ accesses' = (accesses \ ownAccesses)
                              \cup ReconcileAccesses(ownAccesses, p, o, uuid)
             /\ assignments' = stored
             /\ relations' = graphRenamed
             /\ imports' = ResolveRetained(ids, imports \cup {batch})
             /\ snapshots' = Append(snapshots,
                   [provider |-> p, authoritative |-> q.authoritative,
                    assignments |-> SnapshotAssignments(p, q,
                        renamed # replaced \/ graphRenamed # graph, stored # renamed, stored)])
             /\ req' = [req EXCEPT ![w] = NoRequest]

(* The import is refused (a changed realm, a collision, a taken name) or   *)
(* its process dies: the transaction leaves nothing.                       *)
Fail(w) ==
    /\ req[w] # NoRequest
    /\ req' = [req EXCEPT ![w] = NoRequest]
    /\ UNCHANGED tables

Next == \E w \in Workers : ParseImport(w) \/ ReadScopes(w) \/ PersistImport(w) \/ Fail(w)

Spec == Init /\ [][Next]_vars

-----------------------------------------------------------------------------
(* Properties.                                                             *)

ParsedRequest == [pc : {"parsed"}, provider : Providers, obs : Observation,
                  assignments : SUBSET Assignment]

PersistRequest == [pc : {"persist"}, provider : Providers, obs : Observation,
                   assignments : SUBSET Assignment, fresh : BOOLEAN,
                   expected : Scopes \cup {None}, authoritative : BOOLEAN]

(* Tables and imports in flight have their types.                          *)
TypeOK ==
    /\ providers \subseteq Providers
    /\ identities \subseteq IdentityRow
    /\ accesses \subseteq AccessRow
    /\ assignments \subseteq Assignment
    /\ relations \subseteq Ref \X Ref
    /\ imports \subseteq Batch
    /\ snapshots \in Seq(Snapshot)
    /\ req \in [Workers -> {NoRequest} \cup ParsedRequest \cup PersistRequest]

RawOf(A) == {a.raw : a \in A}

(* "Non-authoritative data must never become authoritative current state": *)
(* after any sequence of imports, renames and late resolutions, a provider *)
(* has exactly the memberships of its last authoritative collection.       *)
CurrentIsLastAuthoritative ==
    \A p \in Providers :
        LET I == {i \in 1..Len(snapshots) :
                     snapshots[i].provider = p /\ snapshots[i].authoritative}
        IN  RawOf(Own(assignments, p)) =
                IF I = {} THEN {}
                ELSE RawOf(snapshots[CHOOSE i \in I : \A j \in I : j <= i].assignments)

(* No reference dangles, whatever is renamed or replaced: the access of an *)
(* assignment, both ends of a relation, and the holder of a resolved       *)
(* assignment within its provider, which is a live account.                *)
ReferencesResolve ==
    LET known == {<<r.provider, r.name>> : r \in accesses}
        live == {<<r.provider, r.name>> : r \in Live(identities)}
    IN  /\ \A a \in assignments :
              /\ <<a.provider, a.access>> \in known
              /\ ~a.unresolved /\ a.holder[1] = a.provider => a.holder \in live
        /\ \A e \in relations : e[1] \in known /\ e[2] \in known

(* "same SID plus renamed account keeps the same internal identity": a     *)
(* source object that keeps a row keeps its id, also through a deletion.   *)
StableIds ==
    [][/\ \A r \in identities, s \in identities' :
             r.provider = s.provider /\ r.native = s.native => r.id = s.id
       /\ \A r \in accesses, s \in accesses' :
             r.provider = s.provider /\ r.native = s.native => r.id = s.id]_vars

(* An account is marked deleted only by an authoritative collection of its *)
(* own provider, made under the scope of every earlier authoritative one.  *)
DeletedInScope ==
    [][\A r \in Live(identities) : (\E s \in identities' \ Live(identities') : s.id = r.id) =>
          \E b \in imports' :
              /\ \A c \in imports : c.uuid # b.uuid
              /\ b.provider = r.provider /\ b.authoritative
              /\ Type[b.provider] = "openldap" =>
                    \A c \in imports : c.provider = b.provider /\ c.authoritative =>
                        c.scope = b.scope]_vars

(* A membership follows its holder: when an import renames a live account, *)
(* every membership it has, in any provider not replaced by that import,   *)
(* moves to the new name.                                                  *)
HoldersFollowRenames ==
    [][\A a \in assignments, r \in Live(identities), s \in Live(identities') :
          /\ ~a.unresolved /\ a.holder = <<r.provider, r.name>> /\ s.id = r.id
          /\ snapshots' # snapshots
          /\ ~(snapshots'[Len(snapshots')].authoritative
                 /\ snapshots'[Len(snapshots')].provider = a.provider)
          => \E b \in assignments' : /\ b.provider = a.provider /\ b.raw = a.raw
                                     /\ b.holder = <<s.provider, s.name>>]_vars

-----------------------------------------------------------------------------
(* The inductive invariant behind the theorems of InventoryProofs.         *)

(* An import in flight carries memberships of its provider, under names of *)
(* the groups it lists.                                                    *)
Carried(q) ==
    /\ q.provider \in Providers
    /\ q.obs \in Observations[q.provider]
    /\ \A a \in q.assignments :
          /\ a.provider = q.provider
          /\ \E g \in q.obs.accesses : a.access = g.name

OneNative(R) == \A r, s \in R : r.provider = s.provider /\ r.native = s.native => r = s

(* An id is made of the native id and of an import of the row's provider.  *)
MadeByImport(r) == r.id[1] = r.native /\ \E b \in imports : b.uuid = r.id[2] /\ b.provider = r.provider

Scoped(p) == {b \in imports : b.provider = p /\ b.expected # None}

InventoryInv ==
    /\ TypeOK
    /\ \A w \in Workers : req[w] # NoRequest => Carried(req[w])
    /\ OneNative(identities) /\ OneNative(accesses)
    /\ ~NameClash(identities)
    /\ \A r \in identities : MadeByImport(r)
    /\ \A b, c \in imports : b.uuid = c.uuid => b = c
    /\ \A p \in Providers :
          Scoped(p) = {} \/ \E b \in Scoped(p) : \A c \in Scoped(p) : c.uuid <= b.uuid

(* Native ids are of the sources they are collected from, and a collection *)
(* that lists a group with an account of its own source lists the account. *)
OwnNatives(p) == UNION {{i.native : i \in o.identities} : o \in Observations[p]}

MembersCollected ==
    \A p \in Providers : \A o \in Observations[p] : \A m \in o.members :
        m[2] \in OwnNatives(p) => \E i \in o.identities : i.native = m[2]

LiveRefs == {<<r.provider, r.name>> : r \in Live(identities)}

(* The holder of a membership: a live account of its provider, or none of  *)
(* its provider's.                                                         *)
Held(a, refs) ==
    \/ /\ a.raw[2] \in OwnNatives(a.provider) /\ ~a.unresolved
       /\ a.holder[1] = a.provider /\ a.holder \in refs
    \/ a.raw[2] \notin OwnNatives(a.provider) /\ a.holder[1] # a.provider

Listing(q) == {<<q.provider, i.name>> : i \in q.obs.identities}

HolderInv ==
    /\ \A w \in Workers : req[w] # NoRequest =>
          \A a \in req[w].assignments : Held(a, Listing(req[w]))
    /\ \A r \in identities : r.native \in OwnNatives(r.provider)
    /\ \A a \in assignments : Held(a, LiveRefs)

(* Imports of one provider do not overlap.                                 *)
OneAtATime == \A v, w \in Workers : v # w => Handles[v] \cap Handles[w] = {}

(* What an import of an OpenLDAP source settled before its transaction is  *)
(* still so: the scope established by the first one.                       *)
SettledScope(q) ==
    q.pc = "persist" /\ Type[q.provider] = "openldap" =>
        /\ \A b \in Scoped(q.provider) : q.expected = b.expected
        /\ q.authoritative => q.expected = q.obs.scope

ScopeInv ==
    /\ \A w \in Workers : req[w] # NoRequest =>
          req[w].provider \in Handles[w] /\ SettledScope(req[w])
    /\ \A b, c \in imports :
          /\ b.provider = c.provider /\ Type[b.provider] = "openldap"
          /\ b.expected # None /\ c.expected # None
          => b.expected = c.expected
    /\ \A b \in imports :
          Type[b.provider] = "openldap" /\ b.authoritative => b.expected = b.scope

=============================================================================
