----------------------------- MODULE Importers -----------------------------
(***************************************************************************)
(* The importers of Keycloak, Google Workspace and Google Cloud IAM, read  *)
(* over the artifact that Collection leaves: which identities, accesses,   *)
(* assignments and relations they make of it, what they refuse and when    *)
(* the result is still full, that is, authoritative for deletion.          *)
(*                                                                         *)
(* An access is named by its native object: a group stands for membership  *)
(* in it.  An assignment is <<access, subject>>, a relation <<access,      *)
(* granted access>>.                                                       *)
(***************************************************************************)
EXTENDS Collection

SurfaceRows(surface) == IF surface \in request.surfaces THEN {d.row : d \in data[surface]} ELSE {}

(* completeness in the manifest.                                           *)
DeclaredFull == errors = {} /\ request.surfaces = Required(request.kind)

(* _read_artifact and read_artifact: a full artifact completes everything  *)
(* that was requested, a Keycloak one every surface and without errors.    *)
Readable ==
    DeclaredFull => /\ Completed = request.surfaces
                    /\ request.kind = "keycloak" => Completed = Required("keycloak") /\ errors = {}

(* _unique_rows: one id with two different rows.                           *)
Conflicting(rows) == \E r, q \in rows : r.id = q.id /\ r # q

Identity(id, kind, active) == [id |-> id, kind |-> kind, active |-> active]

(* The accounts of a realm: a service account is technical, and disabled   *)
(* when either of its rows says so.                                        *)
KeycloakIdentities ==
    LET users == SurfaceRows("users")
        services == SurfaceRows("service_accounts")
        technical == {r.id : r \in services}
    IN {Identity(u, IF u \in technical THEN "technical" ELSE "user",
                 \A r \in users \cup services : r.id = u => r.enabled) :
          u \in {r.id : r \in users} \cup technical}
       \cup {Identity(g, "group", TRUE) : g \in SurfaceRows("groups")}

(* The roles of the realm, and those of clients that were read.            *)
KeycloakRoles ==
    {r.id : r \in SurfaceRows("realm_roles")}
    \cup {p[1].id : p \in {q \in SurfaceRows("client_roles") : q[2] \in SurfaceRows("clients")}}

(* The references an artifact makes to objects it does not have.           *)
Unresolved ==
    LET ids == {d.id : d \in KeycloakIdentities}
    IN {p \in SurfaceRows("memberships") : p[1] \notin ids \/ p[2] \notin SurfaceRows("groups")}
       \cup {p \in SurfaceRows("user_role_mappings") \cup SurfaceRows("group_role_mappings") :
               p[1] \notin ids \/ p[2] \notin KeycloakRoles}
       \cup {p \in SurfaceRows("composite_roles") : ~({p[1], p[2]} \subseteq KeycloakRoles)}
       \cup {p \in SurfaceRows("client_roles") : p[2] \notin SurfaceRows("clients")}

(* Memberships and role mappings.                                          *)
KeycloakAssignments ==
    {<<p[2], p[1]>> : p \in (SurfaceRows("memberships") \cup SurfaceRows("user_role_mappings")
                              \cup SurfaceRows("group_role_mappings")) \ Unresolved}

(* Mutant: what is granted to a group is assigned to the group alone.      *)
NoGroupGrants ==
    ({p \in SurfaceRows("memberships") : p[1] \in SurfaceRows("groups")}
     \cup SurfaceRows("composite_roles")) \ Unresolved

(* Nested groups, roles of groups and composite roles.                     *)
KeycloakRelations ==
    ({p \in SurfaceRows("memberships") : p[1] \in SurfaceRows("groups")}
     \cup SurfaceRows("group_role_mappings") \cup SurfaceRows("composite_roles")) \ Unresolved

(* import_keycloak_zip: rows that contradict each other are refused, and a *)
(* full artifact with a reference that does not resolve.                   *)
ImportKeycloak ==
    [accepted |->
       /\ \A s \in {"users", "service_accounts", "realm_roles"} : ~Conflicting(SurfaceRows(s))
       /\ ~Conflicting({p[1] : p \in SurfaceRows("client_roles")})
       /\ DeclaredFull => Unresolved = {},
     full |-> DeclaredFull /\ Unresolved = {},
     identities |-> KeycloakIdentities,
     accesses |-> SurfaceRows("groups") \cup KeycloakRoles,
     assignments |-> KeycloakAssignments,
     relations |-> KeycloakRelations]

(* A membership of a group that was not listed is left out; a member that  *)
(* was not listed becomes a placeholder of the type the row names.         *)
WorkspaceMembers == {p \in SurfaceRows("memberships") : p[2] \in SurfaceRows("groups")}
WorkspaceIdentities ==
    LET users == SurfaceRows("users")
        listed == {r.id : r \in users} \cup SurfaceRows("groups")
    IN {Identity(r.id, "user", \A q \in users : q.id = r.id => q.enabled) : r \in users}
       \cup {Identity(g, "group", TRUE) : g \in SurfaceRows("groups")}
       \cup {Identity(x, IF x \in DOMAIN ParentGroup THEN "group" ELSE "user", FALSE) :
               x \in {p[1] : p \in WorkspaceMembers} \ listed}

(* An admin role of an assignee nobody listed is not assigned.             *)
WorkspaceGrants ==
    {p \in SurfaceRows("admin_role_assignments") : p[1] \in {d.id : d \in WorkspaceIdentities}}

(* import_google_workspace_zip.                                            *)
ImportWorkspace ==
    LET edges == WorkspaceMembers \cup WorkspaceGrants
    IN [accepted |-> TRUE,
        full |-> DeclaredFull,
        identities |-> WorkspaceIdentities,
        accesses |-> SurfaceRows("groups") \cup {p[2] : p \in SurfaceRows("admin_role_assignments")},
        assignments |-> {<<p[2], p[1]>> : p \in edges},
        relations |-> {p \in edges : p[1] \in DOMAIN ParentGroup}]

(* Service accounts, and a placeholder for every other member of a binding. *)
GcpIdentities ==
    LET accounts == SurfaceRows("service_accounts")
    IN {Identity(r.id, "technical", r.enabled) : r \in accounts}
       \cup {Identity(p[1], "unresolved", FALSE) :
               p \in {q \in SurfaceRows("iam_allow_policies") : \A r \in accounts : r.id # q[1]}}

(* import_gcp_iam_zip: every member of a binding is assigned, known or not. *)
ImportGcp ==
    LET bindings == SurfaceRows("iam_allow_policies")
    IN [accepted |-> TRUE,
        full |-> DeclaredFull,
        identities |-> GcpIdentities,
        accesses |-> {p[2] : p \in bindings},
        assignments |-> {<<p[2], p[1]>> : p \in bindings},
        relations |-> {}]

Import ==
    CASE request.kind = "keycloak" -> ImportKeycloak
      [] request.kind = "google_workspace" -> ImportWorkspace
      [] OTHER -> ImportGcp

-----------------------------------------------------------------------------

(* Whatever R leads to from x, in one or more steps: the least set that    *)
(* holds what R leads to from x and is closed under R.                     *)
After(R, S) == {p[2] : p \in {q \in R : q[1] \in S}}
Closed(R, x) == {S \in SUBSET {p[2] : p \in R} : After(R, S \cup {x}) \subseteq S}
ReachedFrom(R, x) == {y \in {p[2] : p \in R} : \A S \in Closed(R, x) : y \in S}
Reached(R, people, roles) == UNION {{x} \X (ReachedFrom(R, x) \cap roles) : x \in people}

(* Who holds which role in the source: directly, in Workspace and Keycloak *)
(* also through a group, and in Keycloak through a group around it and     *)
(* through composite roles.                                                *)
Edges(w) ==
    w.grants \cup (IF request.kind # "gcp_iam" THEN w.member ELSE {})
             \cup (IF Keycloak THEN Nested(w) \cup w.composite ELSE {})
Holds(w) == Reached(Edges(w), w.users, w.roles)

(* The same by what was imported: the accesses assigned to an account and  *)
(* those that they grant.                                                  *)
People(i) == {d.id : d \in {e \in i.identities : e.kind # "group"}}
ImportedEdges(i) == {<<p[2], p[1]>> : p \in {q \in i.assignments : q[2] \in People(i)}} \cup i.relations
HoldsByImport(i) == Reached(ImportedEdges(i), People(i) \cap ever.users, ever.roles)

(* A full import knows of every role that an account held all the time, by *)
(* whatever path: what it misses is taken for revoked.                     *)
FullImportIsWhole ==
    (status = "done" /\ Readable /\ ~disturbed /\ Import.accepted /\ Import.full) =>
        Holds(always) \subseteq HoldsByImport(Import)

(* No import, full or partial, says of an account that it holds a role it  *)
(* had no path to at any time of the collection.                           *)
ImportIsReal ==
    (status = "done" /\ Import.accepted) => HoldsByImport(Import) \subseteq Holds(ever)

(* An import is faithful to the source, whatever changed or failed while   *)
(* it was collected: it invents nothing, and a full one misses nothing.    *)
ImportIsFaithful == FullImportIsWhole /\ ImportIsReal
=============================================================================
