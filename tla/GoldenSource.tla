---------------------------- MODULE GoldenSource ----------------------------
(***************************************************************************)
(* The Golden Source store: immutable versions of the expected state, the  *)
(* pointer to the active one, the comments attached to expected            *)
(* assignments, and everything that writes them: the web handlers and the  *)
(* command line.                                                           *)
(*                                                                         *)
(* Every writer reads the golden_sources row, then the version table, and  *)
(* numbers its version one above the highest it saw.  Four web handlers    *)
(* commit comments, pointer, version and audit event in one transaction;   *)
(* the others commit them one by one, the pointer before the version it    *)
(* points to; the command line commits the version first.  The unique      *)
(* index uq_golden_version lets one version take a number: a loser's       *)
(* insert fails, and what it committed before stays.                       *)
(***************************************************************************)
EXTENDS Naturals, Sequences

CONSTANTS
    Sources,      \* names of Golden Sources
    Assignments,  \* expected assignments
    Definitions,  \* access definitions, relations, functional models, access comments
    Controls,     \* expected authentication controls
    Provider,     \* assignment -> its access provider
    Part,         \* definition -> the list of the version it belongs to
    Snapshots,    \* ids of complete snapshots
    Covers,       \* snapshot -> its providers
    Shows,        \* snapshot -> the facts it observed
    WebWriters,   \* accounts that send web requests
    CliWriters,   \* operators at a command line
    Kinds,        \* kinds of write they attempt
    Failures,     \* whether a request may die between two of its commits
    MaxIds        \* bound: versions that are ever prepared

Facts == Assignments \cup Definitions \cup Controls

Writers == WebWriters \cup CliWriters

Parts == {"definitions", "relations", "models", "comments"}

ASSUME GoldenAssumption ==
    /\ Part \in [Definitions -> Parts]
    /\ Shows \in [Snapshots -> SUBSET Facts]
    /\ "none" \notin Snapshots
    /\ Failures \in BOOLEAN
    /\ MaxIds \in Nat
    /\ WebWriters \cap CliWriters = {}

(* Version ids are fresh uuids, numbered here in the order they are drawn; *)
(* 0 stands for None.                                                      *)
Id == 0..MaxIds

(* touched: the facts the request set out to change.  The code does not    *)
(* store it; it only lets the properties speak of the rest.                *)
Version == [id : 1..MaxIds, source : Sources, number : 1..MaxIds, parent : Id,
            content : SUBSET Facts, touched : SUBSET Facts]

NoVersion == [id |-> 0, number |-> 0, content |-> {}]

(* Writes that take the pointer's version as the one to evolve; the others *)
(* take the highest-numbered one.                                          *)
PointerKinds == {"edit", "adopt", "describe", "annotate", "cli_edit"}

(* Handlers that write inside repo.transaction().  describe stands for     *)
(* access-comment, functional-model and version-comment.                   *)
TransactionKinds == {"describe", "annotate"}

WebKinds == {"edit", "adopt", "describe", "annotate", "from_scratch", "baseline",
             "confirm", "promote"}

(* golden create and import replace everything; edit is the line editor.   *)
CliKinds == {"cli_import", "cli_edit", "cli_promote"}

VARIABLES
    rows,        \* golden_sources: names that have a row
    active,      \* golden_sources.active_version_id
    versions,    \* table golden_source_versions
    annotations, \* table golden_assignment_annotations: <<version id, assignment>>
    audit,       \* version ids an audit event names
    snapshots,   \* table snapshots, in the order list_payloads returns it
    issued,      \* version ids drawn so far
    compared,    \* web writer -> the comparison it was shown: [version, snapshot]
    req          \* writer -> its request in flight

vars == <<rows, active, versions, annotations, audit, snapshots, issued, compared, req>>

tables == <<rows, active, versions, annotations, audit, snapshots>>

Request ==
    [pc : {"idle", "versions", "copy", "insert", "commit", "pointer", "audit"},
     kind : WebKinds \cup CliKinds \cup {"none"},
     source : Sources \cup {"none"},
     pointer : Id,            \* active_version_id as read
     fresh : BOOLEAN,         \* the row did not exist when it was read
     version : Version \cup {NoVersion},   \* the version to insert
     comments : SUBSET Assignments]        \* comments still to copy

NoRequest ==
    [pc |-> "idle", kind |-> "none", source |-> "none", pointer |-> 0, fresh |-> FALSE,
     version |-> NoVersion, comments |-> {}]

Init ==
    /\ rows = {}
    /\ active = [s \in Sources |-> 0]
    /\ versions = {}
    /\ annotations = {}
    /\ audit = {}
    /\ snapshots = <<>>
    /\ issued = 0
    /\ compared = [w \in WebWriters |-> [version |-> 0, snapshot |-> "none"]]
    /\ req = [w \in Writers |-> NoRequest]

-----------------------------------------------------------------------------

VersionsOf(s) == {v \in versions : v.source = s}

Newest(V) == CHOOSE v \in V : \A u \in V : u.number <= v.number

(* _golden_context: the version the pointer names, else the newest.        *)
ActiveOf(pointer, V) ==
    IF \E v \in V : v.id = pointer THEN CHOOSE v \in V : v.id = pointer
    ELSE IF V # {} THEN Newest(V) ELSE NoVersion

(* The versions a writer finds for the source it read or is creating.      *)
Seen(q) == IF q.fresh THEN {} ELSE VersionsOf(q.source)

(* Mutant: every handler evolves the version the pointer named when read.  *)
BaseFromPointer(q) == ActiveOf(q.pointer, Seen(q))

Base(q) ==
    IF q.kind \in PointerKinds THEN ActiveOf(q.pointer, Seen(q)) ELSE ActiveOf(0, Seen(q))

(* Mutant: the number comes from a sequence that failed writes advance.    *)
NumberFromSequence(q) == issued + 1

(* create_golden_version: one above the highest version seen.              *)
NextNumber(q) == ActiveOf(0, Seen(q)).number + 1

Change(content, touched) == [content |-> content, touched |-> touched]

(* Replace, in c, the touched facts by the given ones.                     *)
Replacing(c, touched, given) == Change((c \ touched) \cup given, touched)

Taken == {snapshots[i] : i \in 1..Len(snapshots)}

Latest == snapshots[Len(snapshots)]

(* The newest snapshot that observed an authentication posture.            *)
LatestPosture ==
    LET P == {i \in 1..Len(snapshots) : Shows[snapshots[i]] \cap Controls # {}}
    IN  {snapshots[i] : i \in {j \in P : \A l \in P : l <= j}}

(* golden_version_from_snapshot: assignments and posture of the snapshot;  *)
(* a list of definitions is the previous one unless that is empty.  The    *)
(* command line passes no observed functional models.                      *)
Observes(q) == IF q.kind = "cli_promote" THEN {"definitions", "relations"}
                  ELSE {"definitions", "relations", "models"}

FromSnapshot(q, c, x) ==
    LET filled == {d \in Definitions : /\ Part[d] \in Observes(q)
                                       /\ \A e \in c \cap Definitions : Part[e] # Part[d]}
        about == {a \in Assignments : Covers[x] = {} \/ Provider[a] \in Covers[x]}
        touched == about \cup Controls \cup filled
    IN  Replacing(c, touched, Shows[x] \cap touched)

(* Refused when the previous version expects assignments of a provider the *)
(* snapshot does not cover; a snapshot without providers covers them all.  *)
CoveredBy(c, x) == Covers[x] # {} => {Provider[a] : a \in c \cap Assignments} \subseteq Covers[x]

SnapshotChanges(q, c, X) == {FromSnapshot(q, c, x) : x \in {y \in X : CoveredBy(c, y)}}

(* Any rewriting of some facts of F.                                       *)
Rewritings(c, F) == UNION {{Replacing(c, t, g) : g \in SUBSET t} : t \in SUBSET F}

(* What a request of each kind may ask for, given the version it evolves.  *)
(* A change that leaves the version as it is is refused; describe may also *)
(* change nothing but the version's own comment.                           *)
Changes(q, base) ==
    LET c == base.content IN
    CASE q.kind = "edit" -> {x \in Rewritings(c, Assignments) : base = NoVersion \/ x.content # c}
      [] q.kind = "describe" -> {x \in Rewritings(c, Definitions) : x.touched = {} \/ x.content # c}
      [] q.kind = "adopt" -> {Replacing(c, Controls, Shows[x] \cap Controls) : x \in LatestPosture}
      [] q.kind = "annotate" -> {Change(c, {a}) : a \in c \cap Assignments}
      [] q.kind = "promote" -> Rewritings(c, Assignments)
      [] q.kind \in {"baseline", "cli_promote"} -> SnapshotChanges(q, c, Taken)
      [] q.kind = "confirm" -> SnapshotChanges(q, c, {Latest})
      [] q.kind = "from_scratch" -> {Change({}, Facts)}
      [] q.kind \in {"cli_import", "cli_edit"} -> {Change(a, Facts) : a \in SUBSET Assignments}

(* Mutant: confirm does not look at the snapshot again.                    *)
AdmissibleStaleSnapshot(w, q, base) ==
    /\ base = NoVersion => q.kind \notin {"describe", "adopt", "annotate", "promote", "confirm"}
    /\ q.kind = "confirm" => snapshots # <<>> /\ base.id = compared[w].version

(* A version to evolve is required, and confirm requires the version and   *)
(* the snapshot that were compared to be still the current ones.           *)
Admissible(w, q, base) ==
    /\ base = NoVersion => q.kind \notin {"describe", "adopt", "annotate", "promote", "confirm"}
    /\ q.kind = "confirm" =>
          snapshots # <<>> /\ compared[w] = [version |-> base.id, snapshot |-> Latest]

Finish(w) == req' = [req EXCEPT ![w] = NoRequest]

(* A collection adds a complete snapshot.  One of the same second as the   *)
(* last may come out of list_payloads before it.                           *)
TakeSnapshot ==
    /\ \E x \in Snapshots \ Taken, n \in {Len(snapshots), Len(snapshots) - 1} \cap Nat :
          snapshots' = SubSeq(snapshots, 1, n) \o <<x>> \o SubSeq(snapshots, n + 1, Len(snapshots))
    /\ UNCHANGED <<rows, active, versions, annotations, audit, issued, compared, req>>

(* compare_baseline compares the newest version with the newest snapshot,  *)
(* by making the version that would be confirmed, and hands out their ids. *)
CompareBaseline(w) ==
    /\ "confirm" \in Kinds
    /\ req[w] = NoRequest
    /\ snapshots # <<>>
    /\ \E s \in Sources :
          /\ VersionsOf(s) # {}
          /\ CoveredBy(Newest(VersionsOf(s)).content, Latest)
          /\ compared' = [compared EXCEPT ![w] = [version |-> Newest(VersionsOf(s)).id,
                                                  snapshot |-> Latest]]
    /\ UNCHANGED <<tables, issued, req>>

(* The first read of every web handler: the golden_sources row.            *)
ReadSource(w) ==
    /\ req[w] = NoRequest
    /\ \E k \in Kinds \cap WebKinds, s \in Sources :
          /\ k = "from_scratch" => s \notin rows
          /\ k \notin {"from_scratch", "baseline"} => s \in rows
          /\ req' = [req EXCEPT ![w] =
                [NoRequest EXCEPT !.pc = "versions", !.kind = k, !.source = s,
                                  !.pointer = active[s], !.fresh = (s \notin rows)]]
    /\ UNCHANGED <<tables, issued, compared>>

(* golden_command: a missing row is created before anything else.          *)
CliReadSource(w) ==
    /\ req[w] = NoRequest
    /\ \E k \in Kinds \cap CliKinds, s \in Sources :
          /\ rows' = rows \cup {s}
          /\ req' = [req EXCEPT ![w] =
                [NoRequest EXCEPT !.pc = "versions", !.kind = k, !.source = s,
                                  !.pointer = active[s]]]
    /\ UNCHANGED <<active, versions, annotations, audit, snapshots, issued, compared>>

(* The second read: the versions.  The comments of an existing version     *)
(* never change, so reading those to copy here is reading them later.      *)
ReadVersions(w) ==
    LET q == req[w]
        base == Base(q)
        id == issued + 1
    IN  /\ q.pc = "versions"
        /\ \/ /\ Admissible(w, q, base)
              /\ id <= MaxIds
              /\ \E x \in Changes(q, base) :
                    req' = [req EXCEPT ![w] =
                       [q EXCEPT !.pc = CASE q.kind \in TransactionKinds -> "commit"
                                          [] q.kind \in CliKinds -> "insert"
                                          [] OTHER -> "copy",
                                 !.version = [id |-> id, source |-> q.source,
                                    number |-> NextNumber(q), parent |-> base.id,
                                    content |-> x.content, touched |-> x.touched],
                                 !.comments = IF q.kind \in CliKinds THEN {}
                                    ELSE {a \in x.content \cap Assignments :
                                             <<base.id, a>> \in annotations}]]
              /\ issued' = id
           \/ /\ Admissible(w, q, base) => Changes(q, base) = {}
              /\ Finish(w)
              /\ UNCHANGED issued
        /\ UNCHANGED <<tables, compared>>

(* copy_assignment_annotations, outside a transaction: a commit a comment. *)
CopyComment(w) ==
    /\ req[w].pc = "copy"
    /\ \E a \in req[w].comments :
          /\ annotations' = annotations \cup {<<req[w].version.id, a>>}
          /\ req' = [req EXCEPT ![w] = [req[w] EXCEPT !.comments = req[w].comments \ {a}]]
    /\ UNCHANGED <<rows, active, versions, audit, snapshots, issued, compared>>

(* Mutant: the new version is stored but never activated.                  *)
PointNowhere(w) ==
    /\ req[w].pc = "copy"
    /\ req[w].comments = {}
    /\ rows' = rows \cup {req[w].source}
    /\ req' = [req EXCEPT ![w] = [req[w] EXCEPT !.pc = "insert"]]
    /\ UNCHANGED <<active, versions, annotations, audit, snapshots, issued, compared>>

(* The golden_sources upsert that points to the version still to be        *)
(* inserted.  A new row loses to one of the same name (uq_golden_source).  *)
PointFirst(w) ==
    LET q == req[w] IN
    /\ q.pc = "copy"
    /\ q.comments = {}
    /\ \/ /\ q.fresh => q.source \notin rows
          /\ rows' = rows \cup {q.source}
          /\ active' = [active EXCEPT ![q.source] = q.version.id]
          /\ req' = [req EXCEPT ![w] = [req[w] EXCEPT !.pc = "insert"]]
       \/ /\ q.fresh /\ q.source \in rows
          /\ Finish(w)
          /\ UNCHANGED <<rows, active>>
    /\ UNCHANGED <<versions, annotations, audit, snapshots, issued, compared>>

NumberTaken(v) == \E u \in versions : u.source = v.source /\ u.number = v.number

(* Mutant: the number's uniqueness is not enforced.                        *)
InsertAnyNumber(w) ==
    LET q == req[w] IN
    /\ q.pc = "insert"
    /\ versions' = versions \cup {q.version}
    /\ req' = [req EXCEPT ![w] = [req[w] EXCEPT !.pc = "audit"]]
    /\ UNCHANGED <<rows, active, annotations, audit, snapshots, issued, compared>>

(* Mutant: an insert that loses its number is ignored, not an error.       *)
InsertOrIgnore(w) ==
    LET q == req[w] IN
    /\ q.pc = "insert"
    /\ versions' = IF NumberTaken(q.version) THEN versions ELSE versions \cup {q.version}
    /\ req' = [req EXCEPT ![w] = [req[w] EXCEPT !.pc = "audit"]]
    /\ UNCHANGED <<rows, active, annotations, audit, snapshots, issued, compared>>

(* The golden_source_versions insert, or the failure of its unique index.  *)
InsertVersion(w) ==
    LET q == req[w] IN
    /\ q.pc = "insert"
    /\ \/ /\ ~NumberTaken(q.version)
          /\ versions' = versions \cup {q.version}
          /\ req' = [req EXCEPT ![w] =
                [req[w] EXCEPT !.pc = IF q.kind \in CliKinds THEN "pointer" ELSE "audit"]]
       \/ /\ NumberTaken(q.version)
          /\ Finish(w)
          /\ UNCHANGED versions
    /\ UNCHANGED <<rows, active, annotations, audit, snapshots, issued, compared>>

RecordAudit(w) ==
    /\ req[w].pc = "audit"
    /\ audit' = audit \cup {req[w].version.id}
    /\ Finish(w)
    /\ UNCHANGED <<rows, active, versions, annotations, snapshots, issued, compared>>

(* The command line points to the version it inserted, and audits nothing. *)
PointLast(w) ==
    /\ req[w].pc = "pointer"
    /\ active' = [active EXCEPT ![req[w].source] = req[w].version.id]
    /\ Finish(w)
    /\ UNCHANGED <<rows, versions, annotations, audit, snapshots, issued, compared>>

(* Mutant: the comments of the previous version are not copied.            *)
CommentsOf(q, on) ==
    IF q.kind = "annotate" /\ on THEN {q.version.id} \X (q.version.touched \cap Assignments) ELSE {}

(* The comments of the new version: those copied, and the one assignment a *)
(* golden_assignment_comment sets or clears.                               *)
TransactionComments(q, on) ==
    LET copied == {q.version.id} \X q.comments
        named == {q.version.id} \X (q.version.touched \cap Assignments)
    IN  IF q.kind # "annotate" THEN copied
        ELSE IF on THEN copied \cup named ELSE copied \ named

(* The transactional handlers: everything, or nothing if the number is     *)
(* taken.  Only a comment that exists can be cleared.                      *)
CommitAll(w) ==
    LET q == req[w] IN
    /\ q.pc = "commit"
    /\ \/ /\ ~NumberTaken(q.version)
          /\ \E on \in BOOLEAN :
                /\ q.kind = "annotate" /\ ~on => q.version.touched \subseteq q.comments
                /\ annotations' = annotations \cup TransactionComments(q, on)
          /\ active' = [active EXCEPT ![q.source] = q.version.id]
          /\ versions' = versions \cup {q.version}
          /\ audit' = audit \cup {q.version.id}
       \/ /\ NumberTaken(q.version)
          /\ UNCHANGED <<active, versions, annotations, audit>>
    /\ Finish(w)
    /\ UNCHANGED <<rows, snapshots, issued, compared>>

Fail(w) ==
    /\ Failures
    /\ req[w] # NoRequest
    /\ Finish(w)
    /\ UNCHANGED <<tables, issued, compared>>

WebStep(w) ==
    \/ CompareBaseline(w) \/ ReadSource(w) \/ CopyComment(w) \/ PointFirst(w)
    \/ RecordAudit(w) \/ CommitAll(w)

Next ==
    \/ TakeSnapshot
    \/ \E w \in WebWriters : WebStep(w)
    \/ \E w \in CliWriters : CliReadSource(w) \/ PointLast(w)
    \/ \E w \in Writers : ReadVersions(w) \/ InsertVersion(w) \/ Fail(w)

Spec == Init /\ [][Next]_vars

-----------------------------------------------------------------------------
(* Properties.                                                             *)

(* Holding: the request has made its version; Waiting: it is not stored.   *)
Holding(w) == req[w].pc \in {"copy", "insert", "commit", "pointer", "audit"}

Waiting(w) == req[w].pc \in {"copy", "insert", "commit"}

TablesTyped ==
    /\ rows \subseteq Sources
    /\ active \in [Sources -> 0..issued]
    /\ versions \subseteq Version
    /\ \A v \in versions : v.id <= issued
    /\ annotations \subseteq (1..issued) \X Assignments
    /\ audit \subseteq 1..issued
    /\ snapshots \in Seq(Snapshots)
    /\ issued \in 0..MaxIds
    /\ compared \in [WebWriters -> [version : 0..issued, snapshot : Snapshots \cup {"none"}]]

RequestsTyped ==
    /\ req \in [Writers -> Request]
    /\ \A w \in Writers :
          /\ req[w].pc # "idle" => req[w].source \in Sources /\ req[w].kind # "none"
          /\ Holding(w) =>
                /\ req[w].version \in Version
                /\ req[w].version.source = req[w].source
                /\ req[w].version.id <= issued

(* Tables and requests have their types; a request past its reads holds a  *)
(* version of its source whose id was drawn, numbered from 1.              *)
TypeOK == TablesTyped /\ RequestsTyped

(* The history of a source has no gap and no fork: whoever writes at the   *)
(* same time, its versions are numbered 1, 2, ... once each.               *)
VersionsContiguous ==
    \A v \in versions :
        /\ \A u \in VersionsOf(v.source) : u.number = v.number => u = v
        /\ \A n \in 1..v.number : \E u \in VersionsOf(v.source) : u.number = n

(* "GoldenSourceVersion is immutable expected evidence": no write changes  *)
(* or removes a stored version.                                            *)
VersionsImmutable == [][versions \subseteq versions']_vars

(* The expected state everyone reads is the newest version of the source,  *)
(* at every moment of any number of concurrent or failed web writes.       *)
ActiveIsNewest ==
    \A s \in Sources : VersionsOf(s) # {} =>
        ActiveOf(active[s], VersionsOf(s)) = Newest(VersionsOf(s))

(* Each version evolves the one numbered just before it, unless it is a    *)
(* full replacement, and changes only what its request touched: no         *)
(* concurrent change is silently undone.                                   *)
Follows(v, p) ==
    /\ v.source = p.source /\ v.number = p.number + 1
    /\ v.parent = p.id \/ v.touched = Facts
    /\ v.content \ v.touched = p.content \ v.touched

NothingDropped ==
    \A v \in versions : v.number > 1 => \E p \in versions : Follows(v, p)

(* The version a request holds evolves the version its user compared with  *)
(* the snapshot its user compared.                                         *)
AsCompared(w) ==
    \E p \in versions :
        /\ p.id = compared[w].version
        /\ req[w].version.parent = p.id
        /\ req[w].version.content = FromSnapshot(req[w], p.content, compared[w].snapshot).content

(* A confirmation stores what was compared: the version a user saw,        *)
(* evolved with the snapshot that user saw, whatever happened meanwhile.   *)
ConfirmedAsCompared ==
    [][\A w \in WebWriters :
          req[w].kind = "confirm" /\ req[w].version \in versions' \ versions => AsCompared(w)]_vars

(* Comments on expected assignments survive into the next version, unless  *)
(* the request was about that assignment.                                  *)
CommentsFollow ==
    \A v, p \in versions :
        v.parent = p.id =>
            \A a \in (v.content \cap p.content \cap Assignments) \ v.touched :
                <<p.id, a>> \in annotations => <<v.id, a>> \in annotations

(* The audit trail names no version that was not stored.                   *)
AuditedStored == \A i \in audit : \E v \in versions : v.id = i

(* The inductive invariant behind the theorems, in named parts.            *)

(* An id names one version, and a version in flight is stored only once    *)
(* its insert is done.                                                     *)
VersionIds ==
    /\ \A u, v \in versions : u.id = v.id => u = v
    /\ \A v \in versions : v.number <= v.id
    /\ \A w \in Writers : Holding(w) =>
          /\ req[w].version.number <= req[w].version.id
          /\ Waiting(w) => \A u \in versions : u.id # req[w].version.id
          /\ ~Waiting(w) => req[w].version \in versions
          /\ \A x \in Writers : x # w /\ Holding(x) => req[x].version.id # req[w].version.id

(* Whoever made a version numbered n saw versions 1 to n - 1 stored.       *)
PredecessorsStored ==
    \A w \in Writers : Holding(w) =>
        \A n \in 1..(req[w].version.number - 1) :
            \E u \in VersionsOf(req[w].source) : u.number = n

IsNewest(v) == \A u \in VersionsOf(v.source) : u.number <= v.number

NewestExists == \A s \in Sources : VersionsOf(s) # {} => \E v \in VersionsOf(s) : IsNewest(v)

History ==
    RequestsTyped /\ VersionsContiguous /\ VersionIds /\ PredecessorsStored /\ NewestExists

HistoryInv == TablesTyped /\ History /\ AuditedStored

(* Where the pointer is: at the newest version, or at one not stored yet,  *)
(* and a request about to insert has pointed to its version, or has been   *)
(* overtaken by another pointer, or will lose its number.                  *)
PointsNewest == \A v \in versions : active[v.source] = v.id => IsNewest(v)

Pointed(w) ==
    \/ active[req[w].source] = req[w].version.id
    \/ \A v \in VersionsOf(req[w].source) : v.id # active[req[w].source]
    \/ NumberTaken(req[w].version)

PointerInv ==
    /\ PointsNewest
    /\ \A w \in Writers : /\ req[w].kind \notin CliKinds
                          /\ req[w].pc = "insert" => Pointed(w)

(* The lineage of versions: what a version evolved stays stored, and the   *)
(* comments of that one are in place, or still to be copied.               *)
Evolved(v) == v.parent = 0 \/ \E p \in versions : p.id = v.parent

Copied(v, pending) ==
    \A p \in versions : v.parent = p.id =>
        \A a \in (v.content \cap p.content \cap Assignments) \ v.touched :
            <<p.id, a>> \in annotations => <<v.id, a>> \in annotations \/ a \in pending

LineageInv ==
    /\ \A v \in versions : Evolved(v) /\ Copied(v, {})
    /\ \A w \in Writers :
          /\ Holding(w) => Evolved(req[w].version)
          /\ Waiting(w) => Copied(req[w].version, req[w].comments)
          /\ req[w].pc = "insert" => req[w].comments = {}

(* A request that holds a version has seen the one it follows.             *)
SuccessorInv ==
    /\ NothingDropped
    /\ \A w \in Writers : req[w].kind \in Kinds \cup {"none"}
    /\ \A w \in Writers : Holding(w) /\ req[w].version.number > 1 =>
          \E p \in versions : Follows(req[w].version, p)

(* A confirmation in flight carries what its user compared.                *)
ConfirmInv ==
    \A w \in WebWriters :
        /\ ~Holding(w) => req[w].version = NoVersion
        /\ Waiting(w) /\ req[w].kind = "confirm" => AsCompared(w)
=============================================================================
