# Verification of the Easy Access Review Engine

The engine (EARE) collects who has access to what from directories and
applications, compares it with an approved expected state (the Golden Source),
and runs review campaigns whose decisions become remediation actions. This
directory holds TLA+ modules that model its core, the TLC configurations that
check them on small instances, and TLAPS proofs of the results that matter most.
Paths below are relative to `src/access_review_engine/` unless they say
otherwise.

## 1. The system

| Part | State it keeps | Operations | What makes it correct |
|---|---|---|---|
| Review campaigns (`api.py`, `services.py`) | campaigns, review items, decisions, remediation actions, captured business contexts, audit events | create, update, open, close, cancel, delete, decide, reassign, follow up | the lifecycle goes one way, a closed campaign is fully decided, an action rests on a decision, evidence is append-only |
| Golden Source store (`api.py`, `services.py`, `golden_annotations.py`, `cli/main.py`) | sources with a pointer to the active version, immutable versions, comments | edit, adopt controls, describe, annotate, from scratch, baseline, compare and confirm, promote; create, import, edit and promote from the command line | histories have no gap and no fork, the active version is the newest, nobody undoes a change they did not see |
| Inventory and imports (`application.py`, `importers/`) | providers, identities, accesses, assignments, relations, import history, snapshots | import a collection | current state comes from complete collections only, nothing dangles, objects keep their ids through renames |
| Effective access (`services.py`) | none (a traversal) | evaluate | exactly what is granted is found, for any graph |
| Comparison and review selection (`services.py`, `web_use_cases.py`) | none | compare, select | nothing is confirmed by a different object, reported missing on partial evidence, or left out |
| Accounts, sessions, tokens (`system_admin.py`, `authentication.py`, `api.py`) | system users, tokens, switches, directories, login failures; sessions are signed cookies | user form, enable, disable, reset, change password, sign in and out, issue and revoke tokens, restart | an administrator remains, a session follows its credential, a suspended account's tokens stay dead, guesses are bounded |
| Collectors (`collectors/`) | the collection in progress and its artifact | page, retry, skip, give up, finish | a surface called complete is complete, a collection ends |
| Importers (`importers/`) | none | import an artifact | nothing invented, a full import misses nothing |
| Background jobs (`web_jobs.py`, `collector_runner.py`) | job rows and events, the queue, two threads, artifacts | queue, run, fail, finish, restart | every job ends, a sync installs once what the source was during the sync |
| Read models, reports, API, MCP (`web_read_models.py`, `reporting.py`, `mcp_reports.py`, `api.py`) | none | list, count, export | only authorised evidence, the same answer everywhere |
| Assistant (`chatbot/`) | conversations, messages, the request in progress | receive, call tools, answer, clean up | the authority of the moment, conversations of one's own |
| Perimeters, Golden authorisation (`perimeters.py`, `golden_authorization.py`) | trees, assignments | filter, authorise | part of the read surfaces |
| Feedback, finding tracking (`api.py`, `guidance.py`) | status rows | submit, review, track | status workflows; not modelled |
| Snapshot composition, functional models | composed snapshots, rights | resolve, merge | merges match their definition; not modelled |
| Source inspection, configuration, web interface | none | parse, render | formats and I/O: not modelled |

How they interact: a sync is a background job that runs a collector and imports
its artifact; importers turn files into an import result; an import writes
the inventory and a snapshot in one transaction; a snapshot is evaluated and
compared with a Golden Source version when it is created and again when a
campaign is prepared; opening a campaign stores one review item per selected
row; closing it turns decisions into remediation actions; promoting a campaign
or a snapshot writes the next Golden Source version. Pages, exports, the v1 API,
the MCP server and the assistant all read the same tables, each with code of its
own that decides what the account behind the session or token may see.

What is hard. Web handlers are plain functions in a thread pool, each on its own
connection. `Repository.upsert` and `insert_append_only` commit by themselves
unless they are inside `repo.transaction()`, so most handlers are a read,
then a series of separate commits, and another account's request, a failure or
a restart may come between any two. Imports meet objects that were renamed,
deleted, reused or only partly collected. The relation graph is customer data.
Sources change while they are read page by page. Jobs run in two threads of a
process that may stop. Accounts, passwords and scopes change under open sessions
and under an assistant request that takes many model rounds.

## 2. The modules

| Module | Models |
|---|---|
| `Campaign` | the campaign handlers of `api.py`, with the services they call |
| `CampaignProofs` | theorems about `Campaign`, with any number of managers and with one |
| `GoldenSource` | every writer of Golden Source versions, web and command line |
| `GoldenSourceProofs` | theorems about `GoldenSource` |
| `Inventory` | `import_file_to_repository` and `persist_import_result` |
| `InventoryProofs` | theorems about `Inventory` |
| `EffectiveAccess` | `calculate_effective_accesses` |
| `Comparison` | `compare_snapshot` and `reviewable_comparison_states`; extends `EffectiveAccess`, whose result it uses |
| `ComparisonProofs` | theorems about both |
| `Accounts` | system accounts, sessions, tokens and switches |
| `SignIn` | the failure limiter of the sign-in |
| `AuthenticationProofs` | theorems about `Accounts` and `SignIn` |
| `Collection` | the Keycloak, Workspace and Google Cloud collectors |
| `Importers` | what the importers make of an artifact; extends `Collection`, so one run goes from the source to the import |
| `CollectionProofs` | theorems about both |
| `WebJobs` | job rows, queue, worker threads and the two operations that run there |
| `SyncService` | what a synchronisation promises; `WebJobs` implements it |
| `WebJobsProofs` | theorems about `WebJobs`, the refinement among them |
| `ReadAccess` | the tables that are read, and the handlers that change them, as whole transactions |
| `Surfaces` | what each page, export, API route, MCP tool and assistant tool shows a reader of those tables |
| `Chatbot` | the assistant's request, conversations and clean-up; extends `Surfaces` |
| `AssistantProofs` | theorems about `ReadAccess`, `Surfaces` and `Chatbot` |
| `MCCampaign`, `MCGoldenSource`, `MCInventory`, `MCComparison`, `MCAccounts`, `MCSignIn`, `MCCollection`, `MCSurfaces`, `MCAssistant` | small instances; requests of `MCSignIn` are symmetric, since nothing but `handler` and `verifying` names them |

A definition preceded by a comment that begins with "Mutant:" is a deliberately
wrong variant of the definition after it; it shows that a property notices the
mistake and is used by nothing else.

### Campaign

`campaign`, `items`, `decisions`, `remediation`, `contexts`, `audit` are the
tables. `req[a]` is the handler that account `a` has in flight: its program
counter and what it read. Reading is one action (`CampaignOpen`, `CampaignClose`
...), each later commit another (`OpenCommit`, `CloseRead`, `CloseCommit`,
`RemediationInsert` ...). Requests the code refuses change nothing and are not
steps. `Fail` ends a request between two commits. A review item is identified by
campaign, row and opening, so that two openings make different items. Decisions
carry a timestamp of whole seconds and a uuid, and `LatestDecisions` orders them
as `latest_decisions` does on the rows the database returns. Authorisation by
provider scope is modelled (`RequiredProviders`, `CanManage`, `CanDelete`).
Abstracted: which rows a scope selects is a constant; comments, due dates and
tracking rows are left out.

### GoldenSource

`rows`, `active`, `versions`, `annotations`, `audit`, `snapshots` are the
tables; the content of a version is a set of facts (expected assignments,
definitions of four kinds, authentication controls). Every writer reads the
pointer (`ReadSource`), then the versions (`ReadVersions`), and writes either in
a transaction or as separate commits with the pointer first (web) or the version
first (command line). `touched`, the facts a request set out to change, is the
only history variable. The unique index on the version number decides races.

### Inventory

An import is parsed against the identities known then (`ParseImport`), the
authoritative scope is settled from the import history (`ReadScopes`), and one
transaction (`PersistImport`) reconciles identities and accesses by native id,
replaces the provider's assignments and relations when the collection is
authoritative, propagates renames to all providers, resolves members left
unresolved, also in the history, and appends a snapshot. Assignments keep the raw
reference of the source, which the properties use to tell what was collected
from what the engine made of it.

### EffectiveAccess and Comparison

The three nested loops of the traversal are three actions. The code sorts
assignments and relations by names, checksums and ids; the model takes them in
any order, which covers every naming. `Comparison` then compares in one step with
any Golden Source version and scope. An access name, its native id, permission
and display name are constants, so names and native ids may disagree as after a
rename. Observations of the same access and identity are assumed to carry the
same native id, since one importer writes them all.

### Accounts and SignIn

`users`, `tokens`, `settings`, `directory` are the tables, `cookie[c]` the session
that client `c` presents, `req[c]` its request in flight. A session is accepted
when its account is enabled and `session_version` is the stored one
(`current_user`). As in `Campaign`, a handler's read and each of its commits are
separate steps and `Fail` may come between them. History: `byForm` (the password was
set with the user form), `overlap` (two removals of administrators were in flight
together), `retired` (tokens whose revocation was answered).

`SignIn` is one key of the limiter. A request reads the clock (`Arrive`), passes or
fails the check in the first critical section (`Check`), verifies the password, and
notes the time it read in the second one (`Refuse`), forgets the key (`Accept`) or dies
with an error (`Raises`); between these steps other requests for the key come and go.
Time is in ticks. The list of times is a set of numbered ones: `attempts[-1]` is the
one with the highest number (`Latest`), the slice to the last LIMIT is `Kept`.
History: `tries`, the failures noted since the key was last forgotten.

### Collection and Importers

The source is a record of sets (`world`); `always` and `ever` are what it held all
the time and at some time of the collection. A step is one request of the
collector or the bookkeeping between two: `Fetch` reads a page, `FetchTransient`
fails and is tried again, `FetchGone` meets a parent that was deleted, `FetchFails`
ends a surface or the collection, `Finish` settles the manifest. Keycloak pages by
offset and Google by token. A listing is the set of the objects it lists; `Place` is
where a source lists each, so that a page is the first `PageSize` of those ahead
(`First`, `Ahead`). `queue` holds the parents a surface has yet to visit, in any order,
and each collected row carries the number of the answer it came in (`answers`): an
object that two pages list is a duplicate row, and is visited twice. Groups nest to any
depth (`ParentGroup`, `TopGroup`), and a group keeps its place in the hierarchy. A
source refers only to groups, roles and clients that it has (`WellFormed`), but may
name members and assignees it does not. `disturbed` says that an object of a page
already read went away, which shifts the pages behind it; the properties about
completeness except that case, in which the code does lose rows. `Importers` computes
what the import of the finished artifact yields: accepted or refused, full or scoped,
and its identities, assignments and relations. `Reached` says which roles a set of edges
leads an account to, as the least closed set (`ReachedFrom`), in the source and in the
import alike.

### WebJobs and SyncService

A row per job, the executor's queue, two threads with the stage they are at, an
artifact per job, the inventory as the version of the source it holds. Each commit
and each file operation is a step; `OperationFails` ends an operation in any stage,
`TakeFails` and `ReportFails` are commits of the row that fail, whose exception
stays in a future nobody reads. `SyncService` knows only phases of jobs and the
version installed. The mapping (`Phase`) takes a job whose row can no longer be
brought up to date (`lost`) to "over".

### ReadAccess, Surfaces and Chatbot

`ReadAccess` has campaigns, items, decisions, actions, the Golden version and the
assignments of one perimeter, changed by one action per handler. It is coarser
than `Campaign`, which has the interleavings: here the question is who may see what
in any state they lead to. `Surfaces` has an operator per surface, with the reader's
role and scope. Reads of one surface are several statements in the code and one
state here. `Chatbot` adds the request: `Receive`, rounds of `ModelAnswers`, then per
tool `Call` (the account is looked up again) and `Read`, and `Reply`; accounts and
sessions change at any moment, and `Cleanup` removes what expired.

## 3. The runs

Passing runs:

| Run | Shows | Bounds |
|---|---|---|
| `CampaignOneManager` | with one manager, one reviewer, follow-ups and failures anywhere: full decisions at close, evidence only of opened campaigns, one item per row and one action per item, append-only decisions | 1 campaign, 2 rows, 2 openings, 2 decisions, 2 actions |
| `CampaignTwoManagers` | what survives two managers racing commit by commit: justified actions, atomic openings; and, when no request dies, every action a close computed is inserted | 1 row, no reviewer, updates or deletions, 4 actions, a clock of 2 seconds, otherwise the same |
| `GoldenWebRace` | two web writers and failures: contiguous history, the active version is the newest, comments follow, audit events name stored versions | 3 version ids, one fact of each kind |
| `GoldenPromotionRace` | snapshot promotions, confirmations and the command line: nothing is dropped, a confirmation stores what was compared | 2 snapshots, 3 version ids, 1 web and 1 command line writer |
| `InventoryImports` | any sequence of complete, partial and narrower collections of two directories: see the properties | 3 imports, 2 operators, 3 accounts, 3 groups, 4 names |
| `ComparisonPaths` | every graph over six relations, in every order: exact effective accesses, no path lost silently, termination, correct matching, everything reported and composite grants reviewed | path limit 2, 6 Golden Sources, 4 scopes |
| `AccountsShared` | an administrator remains, sessions follow credentials, suspended tokens stay dead | 3 accounts, 2 browsers and a shell, 2 tokens, 2 user forms, 5 requests |
| `SignInLimiter` | the number of guesses in a window | 3 interchangeable requests at a time, limit 2, a window of 2 ticks, 3 ticks (one before the window, one after), 11 tries (one more than the bound) |
| `CollectAndImport` | complete surfaces miss nothing, imports are faithful, collections end | 3 kinds of source of 9 objects, groups three deep, pages of 2, 1 retry, 2 changes or failures |
| `WebJobs` | artifacts are removed, jobs end, the whole implements `SyncService` | 2 jobs, 2 threads, 1 change of the source, 3 faults |
| `Assistant` | evidence stays within domains, the assistant within the web, the surfaces agree, audiences are stable, the assistant reads under the authority of the moment, conversations are owned | 1 campaign, 3 rows in 2 providers, 3 scopes, 2 versions, 7 readers, 1 decision; 2 states of the account, 2 conversations, 2 rounds of 1 call |

The bounds are the smallest at which the cases meet: two openings and two
decisions for repetition and revision; three version ids for a race lost to a
third writer; three imports for a scope established, narrowed and restored; a
path limit of 2 where three paths lead to one role; five requests for a removal
that races another while a session is open; pages of two over three accounts for a
second page that can shift; two jobs that overlap in two threads, with a fault in
each and a restart; rows whose access and identity belong to the same and to
different providers, and readers of one provider, both, all and none. In
`Assistant` the scopes of one item close with its one decision, by approval and by
revocation; the person's account goes between two states, with and without the
assistant and one of the scopes; and a second conversation is someone else's.
The bounds are small also because most of what they check is proved for all
values. Deadlock checking is off in all runs: campaigns end, ids run out,
traversals finish.

The run that refutes what a document says (finding):

| Run | What happens |
|---|---|
| `AssistantDecision` | the assistant calls the first decision on an item the current one (`chatbot/tools/semantic.py:603`) |

### Observed behaviours without a run

They follow from the modelled code and interleavings.

Campaigns. Two managers can both open a campaign, which gives each row two items;
an update that read a draft can write it over an opening; a decision checked before
a close can be inserted after it, although `docs/user-guide.md` says closing stops
further decisions; a reassignment can bring back items of a campaign deleted
meanwhile; of two decisions in one second the greater uuid counts. Deleting a
campaign leaves its remediation actions (`api.py:4737` selects them by a field they
do not have), although the web interface says they are removed. A close that dies
after committing the status leaves a closed campaign without its actions, for good.
`campaign_update` checks the domains of the new scope only. A revoked row that was
not observed still yields an action to revoke.

Golden Source. The editors, which evolve the version the pointer named, drop a
version committed between their two reads (`_golden_context`). The web pages check
the role only, where the API checks the domains of all versions and the assistant
those of the active one.

Imports and comparison. An account that takes the name another gives up in the same
collection has its memberships attributed to the renamed one (`application.py:191`).
Two imports of one provider that overlap are applied in commit order, whatever the
order of collection; the previous Google scope is the last import in uuid order;
swaps and chains of names are refused rather than resolved. A collection that lists a
group with a member of its own source that is not among its accounts, because the
account came back between two of its pages, attributes the membership to the deleted
row: `_unique_identities_by_native_id` counts those too. An expected access that
the source lists through two origins is reported missing (`services.py:544`). An
identity that has a role through a composite role and through a mapped group is not
reviewed for it at all (`services.py:484`). The last two and the name taken over were
reproduced by calling the functions themselves.

Collections. Paging by offset misses a row when an object of an earlier page is
deleted meanwhile, and the artifact still counts as full. Workspace groups are
listed twice, once for memberships. A Workspace admin role of an assignee that is
not among the users is dropped from a full import without a word; a Keycloak import
with contradicting rows, or a full one with a reference that does not resolve, is
refused. A failed authorization surface makes an artifact scoped.

Jobs. After a restart, queued and running jobs stay so; overlapping syncs may take
the inventory back; a job reported as failed may have imported already; when the
row itself cannot be written, the exception stays in the future.

Accounts. Two administrators who remove each other at the same moment leave none.
A change or reset of password that races a move to a directory leaves a password on
a directory account; a token issued while its account is being disabled stays
unrevoked; a password set with the user form keeps older sessions. A slow refused
sign-in notes an old time and pushes a newer failure out of the list.

Surfaces and assistant. The dashboards, and the tile of the brief, count no open remediation
action for scoped operators, because actions carry no provider of their own. The
two drill-down pages ask about one provider only, and the assignment list is not
narrowed by provider at all (`web_read_models.py:530` names a table that the route
at `api.py:5237` calls differently). The MCP remediation summary has revocations
only. The readiness the assistant reports ignores perimeters, so it may call a
campaign blocked that would open, never the reverse. Drafts are visible to
assistant and MCP by their scope alone. The chatbot switch is not looked at again
within a request, and earlier answers stay in the history after a scope shrinks. The
clean-up can remove an idle conversation that is being continued, and that request
then fails.

## 4. Fairness

`CampaignTwoManagers` assumes weak fairness of every account's `Continue`: the server
runs a handler to completion, and each commit waits on no other handler (no
locks are held between commits). Sending requests is not fair: nobody is obliged
to decide or close. `ComparisonPaths` assumes weak fairness of `Traverse`, a
sequential loop. `Collection` assumes it of `Collect`, the collector's own loop; that
the source answers is not assumed, because every request has a timeout and then
counts as failed. `WebJobs` assumes it of `Submit`, which follows the insert in the
same handler, and of each thread's `Work`: the executor's threads take jobs as long as
there are any, and the collector runs under a timeout. Faults are not fair. The
other specifications state safety only.

## 5. The proofs

TLAPS proves, for every value of the constants:

* `CampaignProofs`: `TypeCorrect`, `RemediationRestsOnDecisions`,
  `OpeningIsAtomic`, `DecisionsAreAppendOnly`. The first two safety properties
  are not inductive: a close computes its actions in one step and inserts them in
  others, a reassignment writes items it read earlier, and a deletion removes
  what it read. `EvidenceInv` adds `InFlightEvidence`, which says of every
  handler in flight that what it carries is already supported by the tables, or
  that its campaign's deletion is audited.
  With one manager (`OneManager`) beside any number of reviewers:
  `ClosedCampaignsAreDecided`, `EvidenceIsOfOpenedCampaigns`, `EverythingIsAskedOnce`.
  `SoleManagerInv` says that what the manager's handler read before its
  commits is still so (`Current`) and that the actions it is about to insert are one
  an item and not recorded (`Asking`). With a second manager that is false, and so
  are the three properties (section 3).
* `GoldenSourceProofs`: `TypeCorrect`, `HistoryIsContiguous`,
  `AuditNamesStored`, `VersionsAreImmutable`, `ActiveVersionIsNewest`,
  `CommentsAreKept`, `NothingIsDropped`, `ConfirmationsAreAsCompared`.
  `HistoryInv` says of a prepared version that its number is at most one above
  the newest, so that the unique index either admits the next number or refuses.
  `PointerInv` explains why committing the pointer first is harmless: it names
  the newest version, or one not stored, in which case readers fall back to the
  newest. It assumes `CliWriters = {}`, because the command line stores the
  version before the pointer. `LineageInv` says which comments a request has
  copied by its stage, and needs no such hypothesis. `NothingIsDropped` assumes that
  no web editor is among the writers (`EvolvesNewest`): the editors evolve the version
  the pointer named and drop one committed between their two reads (section 3).
  `SuccessorInv` then says that the version a request holds follows one that is
  stored. `ConfirmInv` says that what a waiting confirmation
  holds is made of the version and the snapshot its user compared.
* `AuthenticationProofs`, on `Accounts`: `TypeCorrect`, `AnAdministratorRemains`,
  `SessionsFollowCredentials`, `SuspensionsRetireTokens`. `AdminInv`: a removal in
  flight is the only one and leaves another administrator. `SessionInv`: every
  session, also one a sign-in has yet to hand out, carries an older
  `session_version` or the credential of now. `TokenInv`: a token a suspension has
  to end is revoked or of a kind the request in flight will still revoke.
* The same module, on `SignIn`: `LimiterTypeCorrect`, `GuessesAreBounded`: with H
  requests at a time at most LIMIT + H * H - 1 passwords are refused in one window, for
  any limit and window. Two things go past the limit. A request whose time is older than
  the window notes it late: that pushes a failure of the window out of a full list, and
  once it has expired the list is short and every request may pass again. And requests
  that read the clock in the window may wait until others, checked later, have dropped
  the window's failures. `Within` says of a window still open, or of one that all
  requests wait for, how many of its failures can have been pushed out (`pushed`) by the
  requests that no longer can (`spare` counts those that can). Its inequalities are
  arithmetic (`Fits`); the lemmas on `Added` lists say what noting a time does to the
  numbers. With one request at a time the bound is LIMIT. With two it is LIMIT + 3,
  which TLC reaches.
* `CollectionProofs`: `CollectionIsSound`, `CompletedSurfacesAreWhole`,
  `ImportsAreFaithful`, for any source, page size, nesting of groups and any changes and
  failures while it is read. First the pages: the first n of a finite set of keys are n
  of them (`FirstHasSize`), so that a page read by offset leaves nothing behind the next
  offset (`OffsetMoves`), and nothing slips behind it as long as the source goes on
  listing what was read (`OffsetKept`: this is where `disturbed` is needed). Then
  `CollectionInv`: what the listing in progress owes (the objects the source held all the
  time, for every parent due) is collected, read, ahead on a later page, or behind a
  parent still in `queue` (`SurfaceLosesNothing`); surfaces before it owe nothing
  (`SurfacesAreWhole`); and a row says what the source held at some time
  (`RowsAreReal`). Neither of the properties is inductive without the others: a surface
  visits the rows of earlier surfaces, so it is whole only because they are
  (`VisitsCover`), and composite roles are visited only because a role that always
  granted another was flagged so whenever it was read (`Flagged`). A failed source is why
  `DependencyFailed` must stop the surfaces that visit it. For the import,
  `EdgesAreReal` and `KeycloakImportsAll`, `WorkspaceImportsAll`, `GcpImportsAll` compare
  the edges of source and import, and `ReachedGrows` carries that to paths of any length:
  a set closed under the edges of one side is closed, where it matters, under the
  other's.
* `InventoryProofs`: `TypeCorrect`, `MembershipsAreCollected`, `IdsAreStable`,
  `ReferencesNeverDangle`, `MembershipsFollowRenames`, `DeletionsAreInScope`.
  `InventoryInv` says that a provider has one row for a native id, that the names of
  its live accounts differ, that an id was made by an import of the row's provider, and
  what an import in flight carries. Renames find the row they mean, and a row its id,
  because of the first two. Memberships are compared by what the source gave, which
  neither renaming nor resolving touches (`RawAfter`). `ReferencesResolve` is not
  inductive: a membership in flight names an account that its own transaction will
  store, a rename moves holders, and a late resolution may turn to a deleted row.
  `HolderInv` says that the holder of a membership whose member is of its provider is a
  live account of it, or one the import in flight lists. It assumes `MembersCollected`:
  a collection that lists a group with an account of its own source lists the account
  (section 3 says what happens otherwise). `ScopeInv` says that the imports of an
  OpenLDAP source agree on the scope they recorded, and those in flight with them.
  It assumes `OneAtATime`, no overlapping imports of one provider: two that read the
  history before either wrote would each establish a scope. `InventoryImports`
  satisfies both hypotheses (`ASSUME`s that TLC evaluates).
* `ComparisonProofs`: `TypeCorrect`, `EffectiveIsExact`, `ComparisonEvaluates`,
  `PathsAreKept`, `ConfirmationsAreSound`, `AbsencesAreSound`, `NothingEscapes`.
  `EffectiveInv` says that every path at work leads through accesses already
  found, that what is found is granted, and that what a found access grants is
  found or pending. A relation that closes a cycle, or leads to an access at its
  limit (at least one path), leads to an access already found: that is why
  neither cut loses an access. `Granted` is the least set closed under the
  relations, so no induction is needed. `ComparisonEvaluates` shows that the
  comparison's specification implements the traversal's. `PathsInv` says that the
  extension of a recorded path by a relation already handled is recorded or reported.
  `ComparedInv` ties the result to the snapshot. `NothingEscapes` assumes
  `KeysIdentify`: different accesses, or identities, have different stable keys,
  which is what native ids are for; the constants of `ComparisonPaths` satisfy it (an
  `ASSUME` that TLC evaluates), and a source that gave two objects one native id
  would have them reported as one.
* `WebJobsProofs`: `JobsAreConsistent`, `ArtifactsAreOfWorkingJobs`,
  `ImplementsSyncService`. `JobInv` says that a job is in one place (created, queued,
  at one thread, or lost), what its row then says, what its thread has done by its
  stage, and that an artifact holds a version its source had since the job was
  created. The last is why a slow sync may still install what it read. Each step then
  maps to one step of `SyncService`, or to none: `CreateJob` to `Begin`, the `Store` of
  a sync to `Install`, a successful `Report` to `Succeed`, failures and restarts to
  `End`.
* `AssistantProofs`: `EvidenceStaysWithinDomains`, `AssistantStaysWithinWeb`,
  `SurfacesStayInAgreement`, `AudiencesStay`, `AssistantOnlyReads`,
  `ToolsReadWithinAuthority`, `ConversationsStayOwned`. `TablesInv` says that items
  are of campaigns that were opened and that a closed campaign is decided, with the
  actions its decisions ask for; the properties of a state follow from it. The
  centre is `SameReaders`: each surface computes the providers a campaign requires
  with code of its own, and once there is evidence they come to the same.
  `SurfacesStayInAgreement` assumes that the snapshot has a provider: without one, an
  open campaign without items requires none, and the web then lets an operator of
  all domains in, whom the assistant refuses. `AudienceIsStable` holds because
  opening replaces the rows a draft would review by items of the same rows
  (`StepOfCampaign`). `AuthorityInv` says that the account is among those seen since the
  model's last answer, and that a tool is read with one of them; `ConversationsInv`
  says whose conversation the request and each message are in, with the accounts all
  being states of one person's.

The assumptions are the named `ASSUME`s of the modules: types of the constants,
a path limit of at least one, disjoint web and command line writers, a `None` that
is neither a number nor a native id nor a kind of job, sources that refer only to groups,
roles and clients they have, distinct places in a listing, groups whose `TopGroup` has
none around it, accounts of the assistant's person that bear
one name. Hypotheses beyond them stand in the theorems that need them.

Only model-checked: liveness (`RemediationDelivered`, `TraversalEnds`,
`CollectionEnds`, `JobsEnd`). Every safety property that a run checks is proved. Out of
the prover's reach: liveness under fairness, `ENABLED`, the library's induction theorems,
which take an operator, and modules with `RECURSIVE` operators (none here). Two forms of
induction that need none of these are used instead: reachability is a least closed set,
and a smallest counterexample exists because strict inclusion of finite sets is well
founded (`LeastNatural`).

## 6. Not modelled, and limits

Not modelled: feedback and finding workflows, snapshot composition, functional
access models, source inspection and mapping, configuration, the web interface, and
the command line apart from its Golden commands. They are listed in `PROJECT.json`
with the reason. Of modelled parts, formats, wording, columns, sorting, searching and
paging of what is shown are left out.

Limits. In `Inventory`: objects without native id, placeholder principals of Google
sources, authentication postures and functional models; one import per provider
at a time; imports of different providers commit one after the other, as SQLite
makes them. In `Comparison`: the findings attached to rows. In `Accounts`: provider
scopes and display names; ages are one nondeterministic expiry; the LDAP server is an
answer. In `Collection`: the check-only mode, HTTP, and attributes other than whether a
user is enabled. In `Importers`: checks of files and sizes, functional rights. In
`Surfaces`: a Golden version is the set of its assignments, and reads are of one
state. In `Chatbot`: the language model is an external answer; guardrails, traces,
prompts and narratives are left out.

The abstract `SyncService` leaves the order of syncs open on purpose: the code does
not promise one.

## 7. Plan

1. Done: `Campaign`, `GoldenSource`, `Inventory`, `EffectiveAccess`,
   `Comparison`, and the proofs above; `Accounts`, `SignIn`, `Collection`,
   `Importers`, `WebJobs` with `SyncService`, `ReadAccess`, `Surfaces`, `Chatbot`.
2. Proofs, done beside those: one manager's campaigns, `Accounts`, the rest of
   `GoldenSource` and `Comparison`, `Inventory`, `SignIn`, the surfaces and the
   assistant, `Collection` and `Importers`.
3. Feedback and finding workflows; perimeter trees; promotion of a campaign's
   decisions into a Golden Source version, which composes `Campaign` with
   `GoldenSource`.
4. Functional models, snapshot composition and `golden_diff` as pure algorithms
   checked against reference definitions.
