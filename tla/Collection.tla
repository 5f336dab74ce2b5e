----------------------------- MODULE Collection -----------------------------
(***************************************************************************)
(* The read-only collectors of Keycloak, Google Workspace and Google Cloud *)
(* IAM: one surface after the other, each a paged listing or one listing   *)
(* per parent object, against a source that goes on changing meanwhile.    *)
(*                                                                         *)
(* A step is one request to the source or the bookkeeping between two.     *)
(* Keycloak pages by offset, Google by a token that continues behind the   *)
(* last row it returned.  A listing is the set of the objects it lists,    *)
(* each with its place in the order the source lists them.  Rows are kept  *)
(* with the number of the answer that held them: an object that two pages  *)
(* list is collected, and later visited, twice.                            *)
(*                                                                         *)
(* Left out: the check-only mode, authentication and the renewal of an     *)
(* access token, names and attributes of objects other than whether a user *)
(* is enabled, and the order in which the parents of a surface come.       *)
(***************************************************************************)
EXTENDS Naturals, Sequences, FiniteSets

CONSTANTS
    Id,             \* native ids
    Place,          \* place of an id, or a pair of ids, in what a source lists
    ParentGroup,    \* group -> the group it is nested in, or None
    TopGroup,       \* group -> the group around it that nothing is around
    RoleClient,     \* role -> the client it belongs to, or None for a realm role
    ServiceUser,    \* client -> its service account, or None
    Authorization,  \* clients with Authorization Services
    Worlds,         \* states of the source when the collection starts
    Requests,       \* connector configurations: [kind, surfaces, partial]
    Changes(_),     \* states the source may change to
    PageSize,
    MaxRetries,
    MaxPages,
    MaxEvents,      \* bound: changes of the source and failed requests
    None

Kinds == {"keycloak", "google_workspace", "gcp_iam"}

(* The surfaces of a connector, in the order its collect function visits   *)
(* them; the last Keycloak step reads Authorization Services per client.   *)
Plan(kind) ==
    CASE kind = "keycloak" ->
           <<"authentication_policy", "users", "groups", "memberships", "clients",
             "realm_roles", "client_roles", "user_role_mappings", "group_role_mappings",
             "composite_roles", "service_accounts", "authorization">>
      [] kind = "google_workspace" ->
           <<"users", "groups", "memberships", "admin_roles", "admin_role_assignments">>
      [] kind = "gcp_iam" -> <<"iam_allow_policies", "service_accounts">>

Surfaces(kind) == {Plan(kind)[i] : i \in 1 .. Len(Plan(kind))}

(* Surfaces an artifact must complete to be full.                          *)
Required(kind) == Surfaces(kind) \ {"authentication_policy", "authorization"}

(* A state of the source.                                                  *)
WorldFields == {"users", "enabled", "groups", "member", "clients", "roles", "grants", "composite"}
Within(v, w) == \A f \in WorldFields : v[f] \subseteq w[f]

(* A source refers to groups, roles and clients that it has; a member or   *)
(* an assignee may be a stranger to it.                                    *)
WellFormed(w) ==
    /\ w.users \cup w.clients \cup w.roles \subseteq Id
    /\ w.groups \subseteq Id \cap DOMAIN ParentGroup
    /\ w.member \subseteq (Id \ w.roles) \X w.groups
    /\ w.grants \subseteq (Id \ w.roles) \X w.roles
    /\ w.composite \subseteq w.roles \X w.roles
    /\ \A g \in w.groups : TopGroup[g] \in w.groups /\ ParentGroup[g] \in w.groups \cup {None}
    /\ \A r \in w.roles : RoleClient[r] \in w.clients \cup {None}

Keys == Id \cup (Id \X Id)

ASSUME CollectionAssumption ==
    /\ IsFiniteSet(Id)
    /\ None \notin Id
    /\ Place \in [Keys -> Nat]
    /\ \A k, l \in Keys : Place[k] = Place[l] => k = l
    /\ PageSize \in Nat \ {0}
    /\ MaxRetries \in Nat
    /\ MaxPages \in Nat \ {0}
    /\ MaxEvents \in Nat
    /\ \A g \in DOMAIN ParentGroup :
          ParentGroup[TopGroup[g]] = None /\ (ParentGroup[g] = None => TopGroup[g] = g)
    /\ \A w \in Worlds : WellFormed(w)
    /\ \A q \in Requests : /\ q.kind \in Kinds
                           /\ q.surfaces \subseteq Required(q.kind)
                           /\ q.partial \in BOOLEAN

VARIABLES
    world,      \* the source
    request,    \* the configuration of this collection
    status,     \* "running", "raised" or "done"
    step,       \* position in the plan
    queue,      \* visits the surface has left, {} before it starts
    page,       \* pages read of the listing
    attempt,    \* failed attempts at the page
    seen,       \* signatures of the pages read
    listing,    \* rows of the listing read so far, each with its key
    data,       \* surface -> rows
    answers,    \* answers of the source so far
    errors,     \* collection errors, by surface
    events,     \* bound counter
    always,     \* history: what the source held all the time
    ever,       \* history: what it held at some time
    disturbed   \* history: a listing lost a row that was already read

vars == <<world, request, status, step, queue, page, attempt, seen, listing, data, answers,
          errors, events, always, ever, disturbed>>

sourceVars == <<world, always, ever, disturbed>>

Surface == Plan(request.kind)[step]
Keycloak == request.kind = "keycloak"

(* A visit is a parent and the number of the answer that listed it; None   *)
(* is the parent of a surface that has none.  Which visit comes first is   *)
(* left open.                                                              *)
Once == {<<None, 0>>}
Visit == CHOOSE v \in queue : TRUE
Parent == Visit[1]

(* The objects the source would list, over all pages.  Without a parent,   *)
(* Workspace memberships first lists the groups to visit.                  *)
Listed(w, surface, parent) ==
    CASE surface = "users" -> w.users
      [] surface = "groups" ->
           IF Keycloak THEN {g \in w.groups : ParentGroup[g] = None} ELSE w.groups
      [] surface = "memberships" ->
           IF parent = None THEN w.groups ELSE {m \in Id : <<m, parent>> \in w.member}
      [] surface = "clients" -> w.clients
      [] surface \in {"realm_roles", "admin_roles"} -> {r \in w.roles : RoleClient[r] = None}
      [] surface = "client_roles" -> {r \in w.roles : RoleClient[r] = parent}
      [] surface \in {"user_role_mappings", "group_role_mappings"} ->
           {r \in w.roles : <<parent, r>> \in w.grants}
      [] surface = "composite_roles" -> {r \in w.roles : <<parent, r>> \in w.composite}
      [] surface = "service_accounts" -> IF Keycloak THEN {ServiceUser[parent]} ELSE w.users
      [] surface \in {"admin_role_assignments", "iam_allow_policies"} -> w.grants
      [] OTHER -> {parent}

UserRow(w, u) == [id |-> u, enabled |-> u \in w.enabled]
RoleRow(w, r) == [id |-> r, composite |-> \E c \in w.roles : <<r, c>> \in w.composite]
(* A top level group carries the groups nested in it, however deep.        *)
GroupRow(w, g) == IF Keycloak THEN {h \in w.groups : TopGroup[h] = g} ELSE {g}

(* The row of the artifact for an object in the listing of parent.         *)
Row(w, surface, parent, key) ==
    CASE surface \in {"users", "service_accounts"} -> UserRow(w, key)
      [] surface = "groups" -> GroupRow(w, key)
      [] surface \in {"realm_roles", "admin_roles"} -> RoleRow(w, key)
      [] surface = "client_roles" -> <<RoleRow(w, key), parent>>
      [] surface = "memberships" -> <<key, parent>>
      [] surface \in {"user_role_mappings", "group_role_mappings", "composite_roles"} ->
           <<parent, key>>
      [] OTHER -> key

(* Surfaces read with one request instead of pages.                        *)
Single(surface) ==
    \/ surface \in {"authentication_policy", "authorization"}
    \/ surface = "service_accounts" /\ Keycloak

(* The clients are also read for the surfaces that visit them.             *)
Wanted(surface) ==
    \/ surface \in request.surfaces \cup {"authentication_policy", "authorization"}
    \/ surface = "clients" /\ {"client_roles", "service_accounts"} \cap request.surfaces # {}

(* Mutant: a surface whose parents could not be read is an empty one.      *)
NeverBlocked(surface) == FALSE

(* The surfaces whose rows a surface visits were not read.                 *)
Missing(surface) == surface \notin request.surfaces \/ surface \in errors
DependencyFailed(surface) ==
    /\ Keycloak
    /\ \/ surface \in {"memberships", "group_role_mappings"} /\ Missing("groups")
       \/ surface = "user_role_mappings" /\ Missing("users")
       \/ surface = "client_roles" /\ "clients" \in errors
       \/ surface = "service_accounts" /\ Missing("clients")
       \/ surface = "composite_roles" /\ (Missing("realm_roles") \/ Missing("client_roles"))

(* The visits of a surface, from the rows collected before.                *)
RoleVisits ==
    {<<d.row.id, d.nr>> : d \in {e \in data["realm_roles"] : e.row.composite}}
    \cup {<<d.row[1].id, d.nr>> : d \in {e \in data["client_roles"] : e.row[1].composite}}
Visits(surface) ==
    IF ~Keycloak THEN Once
    ELSE CASE surface \in {"memberships", "group_role_mappings"} ->
                {<<d.row, d.nr>> : d \in data["groups"]}
           [] surface = "client_roles" -> {<<d.row, d.nr>> : d \in data["clients"]}
           [] surface = "user_role_mappings" -> {<<d.row.id, d.nr>> : d \in data["users"]}
           [] surface = "composite_roles" -> RoleVisits
           [] surface = "service_accounts" ->
                {<<d.row, d.nr>> : d \in {e \in data["clients"] : ServiceUser[e.row] # None}}
           [] surface = "authorization" ->
                {<<d.row, d.nr>> : d \in {e \in data["clients"] : e.row \in Authorization}}
           [] OTHER -> Once

(* Rows a surface has before any request: the nesting of groups.           *)
Initially(surface) ==
    IF surface = "memberships" /\ Keycloak
    THEN {[row |-> <<d.row, ParentGroup[d.row]>>, nr |-> d.nr] :
            d \in {e \in data["groups"] : ParentGroup[e.row] # None}}
    ELSE {}

-----------------------------------------------------------------------------

NextSurface == step' = step + 1 /\ queue' = {}

ResetListing == page' = 0 /\ attempt' = 0 /\ seen' = {} /\ listing' = {}

(* collect arrives at the next surface.                                    *)
Begin ==
    /\ status = "running"
    /\ queue = {}
    /\ step <= Len(Plan(request.kind))
    /\ IF Wanted(Surface) /\ ~DependencyFailed(Surface)
       THEN /\ data' = [data EXCEPT ![Surface] = Initially(Surface)]
            /\ errors' = errors
            /\ IF Visits(Surface) = {} THEN NextSurface
               ELSE queue' = Visits(Surface) /\ step' = step
       ELSE /\ errors' = errors \cup {s \in {Surface} : Wanted(s)}
            /\ data' = data
            /\ NextSurface
    /\ ResetListing
    /\ UNCHANGED <<request, status, answers, events, sourceVars>>

(* The next visit, or the next surface after the last one.                 *)
NextVisit ==
    /\ IF queue = {Visit} THEN NextSurface ELSE queue' = queue \ {Visit} /\ step' = step
    /\ ResetListing

(* What a listing adds to the artifact: a row of groups is flattened.      *)
Rows(entries) ==
    IF Surface = "groups"
    THEN UNION {{[row |-> g, nr |-> e.nr] : g \in e.row} : e \in entries}
    ELSE {[row |-> e.row, nr |-> e.nr] : e \in entries}

(* The listing is read; the first one of Workspace memberships only says   *)
(* which groups to visit.                                                  *)
EndListing(entries) ==
    IF Surface = "memberships" /\ Parent = None
    THEN /\ IF entries = {} THEN NextSurface
            ELSE queue' = {<<e.key, e.nr>> : e \in entries} /\ step' = step
         /\ ResetListing
         /\ data' = data
    ELSE /\ NextVisit
         /\ data' = [data EXCEPT ![Surface] = @ \cup Rows(entries)]

(* Mutant: the surface that failed is collected again.                     *)
RestartSurface == step' = step /\ queue' = {} /\ ResetListing

GiveUp == NextSurface /\ ResetListing

(* A surface fails.  Without allow_partial the collection is over; with it *)
(* the surface is recorded as failed, the composite roles and the clients  *)
(* of Authorization Services go on with the next one, and the surfaces     *)
(* that visit Keycloak parents keep what the earlier parents gave.         *)
SurfaceFails ==
    /\ errors' = errors \cup {Surface}
    /\ IF Surface \in {"composite_roles", "authorization"} THEN NextVisit ELSE GiveUp
    /\ data' = IF Keycloak THEN data ELSE [data EXCEPT ![Surface] = {}]
    /\ status' = IF request.partial \/ Surface = "authorization" THEN status ELSE "raised"
    /\ answers' = answers

(* The keys that come before k, and the first n of a set of keys.          *)
Before(keys, k) == {l \in keys : Place[l] < Place[k]}
First(n, keys) == {k \in keys : Cardinality(Before(keys, k)) < n}

(* Where a listing goes on: at the offset, or behind the last row.         *)
Ahead(keys) ==
    IF Keycloak THEN keys \ First(page * PageSize, keys)
    ELSE {k \in keys : \A e \in listing : Place[e.key] < Place[k]}
PageOf(keys) == IF Single(Surface) THEN keys ELSE First(PageSize, Ahead(keys))

(* Whether the page is the last one: Keycloak sends no more than asked,    *)
(* Google sends a token while there is more.                               *)
LastPage(keys) ==
    \/ Single(Surface)
    \/ IF Keycloak THEN Cardinality(PageOf(keys)) < PageSize ELSE PageOf(keys) = Ahead(keys)

(* The parent was deleted since it was listed: the source answers 404.     *)
Gone(parent) == parent # None /\ parent \notin world.users \cup world.groups
                                               \cup world.clients \cup world.roles

Entries(keys) ==
    {[key |-> k, row |-> Row(world, Surface, Parent, k), nr |-> answers] : k \in keys}
Signature(keys) == {Row(world, Surface, Parent, k) : k \in keys}

(* A page that is not empty repeats an earlier one of the listing.         *)
Repeated(keys) ==
    Keycloak /\ ~Single(Surface) /\ PageOf(keys) # {} /\ Signature(PageOf(keys)) \in seen

(* _pages: one request that is answered.                                   *)
Fetch ==
    LET keys == Listed(world, Surface, Parent)
        entries == listing \cup Entries(PageOf(keys))
    IN /\ status = "running"
       /\ queue # {}
       /\ ~Gone(Parent)
       /\ IF Repeated(keys) \/ (Keycloak /\ page >= MaxPages)
          THEN SurfaceFails
          ELSE /\ UNCHANGED <<status, errors>>
               /\ answers' = answers + 1
               /\ IF LastPage(keys) THEN EndListing(entries)
                  ELSE /\ listing' = entries
                       /\ page' = page + 1
                       /\ seen' = seen \cup {Signature(PageOf(keys))}
                       /\ attempt' = 0
                       /\ UNCHANGED <<step, queue, data>>
       /\ UNCHANGED <<request, events, sourceVars>>

FetchGone ==
    /\ status = "running"
    /\ queue # {}
    /\ Gone(Parent)
    /\ SurfaceFails
    /\ UNCHANGED <<request, events, sourceVars>>

(* _retry: a transient failure is tried again, up to MaxRetries times.     *)
FetchTransient ==
    /\ status = "running"
    /\ queue # {}
    /\ IF attempt < MaxRetries /\ Surface # "authentication_policy"
       THEN /\ attempt' = attempt + 1
            /\ UNCHANGED <<status, step, queue, page, seen, listing, data, answers, errors>>
       ELSE SurfaceFails
    /\ UNCHANGED <<request, events, sourceVars>>

(* Any other failure is final at once.                                     *)
FetchFails ==
    /\ status = "running"
    /\ queue # {}
    /\ events < MaxEvents
    /\ SurfaceFails
    /\ events' = events + 1
    /\ UNCHANGED <<request, sourceVars>>

(* The manifest and the files are written.                                 *)
Finish ==
    /\ status = "running"
    /\ queue = {}
    /\ step > Len(Plan(request.kind))
    /\ status' = "done"
    /\ UNCHANGED <<request, step, queue, page, attempt, seen, listing, data, answers, errors,
                   events, sourceVars>>

-----------------------------------------------------------------------------

(* Between two pages read by offset, an object of a page that was read     *)
(* leaves the listing: the next page starts one row too late.              *)
Shifts ==
    /\ Keycloak
    /\ queue # {}
    /\ page > 0
    /\ LET old == Listed(world, Surface, Parent)
       IN ~(First(page * PageSize, old) \subseteq Listed(world', Surface, Parent))

(* The source changes.                                                     *)
SourceChanges ==
    /\ status = "running"
    /\ events < MaxEvents
    /\ events' = events + 1
    /\ world' \in Changes(world)
    /\ WellFormed(world')
    /\ always' = [f \in WorldFields |-> always[f] \cap world'[f]]
    /\ ever' = [f \in WorldFields |-> ever[f] \cup world'[f]]
    /\ disturbed' = (disturbed \/ Shifts)
    /\ UNCHANGED <<request, status, step, queue, page, attempt, seen, listing, data, answers,
                   errors>>

Init ==
    /\ world \in Worlds
    /\ request \in Requests
    /\ status = "running"
    /\ step = 1
    /\ queue = {}
    /\ page = 0
    /\ attempt = 0
    /\ seen = {}
    /\ listing = {}
    /\ data = [s \in Surfaces(request.kind) |-> {}]
    /\ answers = 0
    /\ errors = {}
    /\ events = 0
    /\ always = world
    /\ ever = world
    /\ disturbed = FALSE

Collect == Begin \/ Fetch \/ FetchGone \/ FetchTransient \/ FetchFails \/ Finish
Next == Collect \/ SourceChanges

Spec == Init /\ [][Next]_vars /\ WF_vars(Collect)

-----------------------------------------------------------------------------

Completed == request.surfaces \ errors

(* What a surface says when it is read of a source in state w.             *)
Nested(w) == {<<g, ParentGroup[g]>> : g \in {h \in w.groups : ParentGroup[h] # None}}
Facts(w, surface) ==
    CASE surface = "users" -> w.users
      [] surface = "groups" -> w.groups
      [] surface = "memberships" -> w.member \cup (IF Keycloak THEN Nested(w) ELSE {})
      [] surface = "clients" -> w.clients
      [] surface \in {"realm_roles", "admin_roles"} -> {r \in w.roles : RoleClient[r] = None}
      [] surface = "client_roles" ->
           {<<r, RoleClient[r]>> : r \in {x \in w.roles : RoleClient[x] # None}}
      [] surface = "user_role_mappings" -> {p \in w.grants : p[1] \in w.users}
      [] surface = "group_role_mappings" -> {p \in w.grants : p[1] \in w.groups}
      [] surface = "composite_roles" -> w.composite
      [] surface = "service_accounts" ->
           IF Keycloak
           THEN {ServiceUser[c] : c \in {d \in w.clients : ServiceUser[d] # None}} ELSE w.users
      [] OTHER -> w.grants

(* What rows of the artifact say, and what it says of a surface.           *)
Says(surface, rows) ==
    CASE surface \in {"users", "service_accounts", "realm_roles", "admin_roles"} ->
           {r.id : r \in rows}
      [] surface = "client_roles" -> {<<r[1].id, r[2]>> : r \in rows}
      [] OTHER -> rows
Collected(surface) == Says(surface, {d.row : d \in data[surface]})

(* A surface the manifest calls complete misses nothing that the source    *)
(* held all the time, whatever else changed, failed or was tried again     *)
(* meanwhile, unless a page shifted under the reader.                      *)
CompletedIsWhole ==
    (status = "done" /\ ~disturbed) =>
        \A s \in Completed : Facts(always, s) \subseteq Collected(s)

(* A collection ends, with an artifact or an error.                        *)
CollectionEnds == <>(status # "running")
=============================================================================
