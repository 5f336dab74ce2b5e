------------------------------ MODULE Campaign ------------------------------
(***************************************************************************)
(* The review campaign lifecycle behind the web API: campaign rows, the    *)
(* review items an opening materialises, reviewers' decisions, remediation *)
(* actions and the audit trail.                                            *)
(*                                                                         *)
(* Handlers run in a thread pool, each on its own database connection, and *)
(* every Repository.upsert / insert_append_only commits by itself unless   *)
(* it is inside repo.transaction().  A handler is therefore a little       *)
(* process: a read step, then one step per commit.  An account (an actor   *)
(* here) has one request in flight at a time; two accounts interleave      *)
(* freely.  A refused request (4xx) changes nothing and is not a step.     *)
(***************************************************************************)
EXTENDS Naturals

CONSTANTS
    Campaigns,      \* campaign ids (uuid4 in the code)
    Rows,           \* reviewable comparison rows of the snapshot
    Expected,       \* rows the Golden Source expects
    Observed,       \* rows the snapshot observed
    Owner,          \* row -> access owner, else account owner, else None
    Exposes,        \* row -> the providers of its access and its identity
    Providers,      \* providers of the snapshot
    Scopes,         \* campaign scopes clients ask for
    ScopeRows,      \* scope -> rows it selects
    ScopeProviders, \* scope -> providers it names ("all": every snapshot provider)
    Managers,       \* ADMIN and OPERATOR accounts
    Admins,         \* the ADMIN accounts
    Domains,        \* manager -> authorized providers (system_users.scopes)
    Reviewers,      \* GROUP_OWNER accounts
    None,          \* absent value (SQL NULL, Python None)
    Requests,       \* kinds of request the clients send
    Failures,       \* whether a request may die between two of its commits
    MaxOpenings,    \* bound: openings of one campaign
    DecisionIds,    \* bound: uuids of decisions, compared as SQL compares ids
    ActionIds,      \* bound: ids of remediation actions
    MaxClock        \* bound: seconds that pass

People == Managers \cup Reviewers

ASSUME CampaignAssumption ==
    /\ Expected \subseteq Rows
    /\ Observed \subseteq Rows
    /\ Owner \in [Rows -> People \cup {None}]
    /\ Exposes \in [Rows -> SUBSET Providers]
    /\ ScopeRows \in [Scopes -> SUBSET Rows]
    /\ ScopeProviders \in [Scopes -> SUBSET Providers]
    /\ Admins \subseteq Managers
    /\ Domains \in [Managers -> SUBSET Providers]
    /\ Failures \in BOOLEAN
    /\ None \notin People
    /\ MaxOpenings \in Nat
    /\ DecisionIds \subseteq Nat
    /\ ActionIds \subseteq Nat
    /\ MaxClock \in Nat

(* A row that exists; default stands for default_reviewer, or else manager.*)
LiveRow == [status : {"draft", "open", "closed", "cancelled"}, scope : Scopes,
            pilot : Managers, default : People \cup {None}]

NoRow == [status |-> "absent", scope |-> None, pilot |-> None, default |-> None]

DeletedRow == [status |-> "deleted", scope |-> None, pilot |-> None, default |-> None]

(* "absent": the id is not issued yet; "deleted": its row is gone.         *)
CampaignRow == LiveRow \cup {NoRow, DeletedRow}

(* A review item id is a fresh uuid: the opening that made it tells two    *)
(* items of the same campaign and row apart.                               *)
ItemId == [campaign : Campaigns, row : Rows, opening : 1..MaxOpenings]

DecisionValue == {"approve", "revoke", "not_applicable"}

Decision == [item : ItemId, value : DecisionValue, at : 0..MaxClock, uuid : DecisionIds]

RemediationStatus == {"pending", "exported", "completed", "not_completed"}

PendingAction == [item : ItemId, action : {"revoke", "grant"}]

RemediationAction == [id : ActionIds, item : ItemId, action : {"revoke", "grant"},
                      status : RemediationStatus]

Event == {"campaign.created", "campaign.updated", "campaign.opened", "campaign.closed",
          "campaign.cancelled", "campaign.deleted", "review.decision_recorded",
          "review.reassigned", "remediation.status_changed"}

VARIABLES
    campaign,    \* table campaigns: id -> row
    items,       \* table review_items: ids present
    reviewer,    \* review_items.reviewer
    decisions,   \* table decisions
    remediation, \* table remediation_actions
    contexts,    \* table campaign_access_contexts: <<campaign, row>> captured
    audit,       \* table audit_events: <<event, campaign>>
    openings,    \* openings committed so far (source of fresh item ids)
    clock,       \* now_utc(), in seconds
    req          \* actor -> the request it has in flight

vars == <<campaign, items, reviewer, decisions, remediation, contexts, audit,
          openings, clock, req>>

tables == <<campaign, items, reviewer, decisions, remediation, contexts, audit, openings>>

PC == {"idle", "update", "open", "close.read", "close", "remediate", "cancel",
       "delete", "decide", "reassign", "audit"}

Request ==
    [pc : PC,
     campaign : Campaigns \cup {None}, \* the campaign of the request
     row : LiveRow \cup {NoRow},      \* the row the handler will upsert
     items : SUBSET ItemId,           \* review items read
     decisions : SUBSET Decision,     \* decisions read, or the one to insert
     contexts : SUBSET (Campaigns \X Rows),
     actions : SUBSET PendingAction,  \* remediation actions still to insert
     reviewers : [Rows -> People \cup {None}], \* reviewers to write, by row
     event : Event]                   \* audit event still to insert

WellFormed(q) ==
    /\ q.pc \notin {"idle", "reassign", "audit"} => q.campaign \in Campaigns
    /\ q.pc \in {"update", "open", "close.read", "close", "cancel"} => q.row \in LiveRow

NoRequest ==
    [pc |-> "idle", campaign |-> None, row |-> NoRow, items |-> {}, decisions |-> {},
     contexts |-> {}, actions |-> {},
     reviewers |-> [x \in Rows |-> None], event |-> "campaign.created"]

Init ==
    /\ campaign = [c \in Campaigns |-> NoRow]
    /\ items = {}
    /\ reviewer = [i \in ItemId |-> None]
    /\ decisions = {}
    /\ remediation = {}
    /\ contexts = {}
    /\ audit = {}
    /\ openings = [c \in Campaigns |-> 0]
    /\ clock = 0
    /\ req = [a \in People |-> NoRequest]

-----------------------------------------------------------------------------
(* Queries the handlers share.                                             *)

ItemsOf(c) == {i \in items : i.campaign = c}

DecisionsOn(I) == {d \in decisions : d.item \in I}

(* latest_decisions: by created_at, whole seconds; rows of one second come *)
(* out of list_payloads in uuid order, so the greatest uuid wins.          *)
Later(d, e) == \/ d.at > e.at
               \/ d.at = e.at /\ d.uuid >= e.uuid

LatestDecisions(D) ==
    {d \in D : \A e \in D : e.item = d.item => Later(d, e)}

Decided(D) == {d.item : d \in D}

(* Mutant: anything but an approval asks for a revocation.                 *)
RevokeUnlessApproved(D) ==
    {[item |-> d.item, action |-> "revoke"] :
        d \in {e \in LatestDecisions(D) : e.value # "approve"}}

(* remediation_from_decisions                                              *)
RemediationFromDecisions(D) ==
    {[item |-> d.item, action |-> "revoke"] :
        d \in {e \in LatestDecisions(D) : e.value = "revoke"}}
    \cup
    {[item |-> d.item, action |-> "grant"] :
        d \in {e \in LatestDecisions(D) :
                  /\ e.value = "approve"
                  /\ e.item.row \in Expected \ Observed}}

(* _campaign_required_providers: persisted review rows take priority over  *)
(* the rows the scope would select today.                                  *)
EvidenceRows(c, r) ==
    LET persisted == {i.row : i \in ItemsOf(c)} IN
    IF r.status \in {"open", "closed", "cancelled"} /\ persisted # {}
    THEN persisted
    ELSE IF r.status \in {"open", "closed"} THEN {} ELSE ScopeRows[r.scope]

RequiredProviders(c, r) ==
    ScopeProviders[r.scope] \cup UNION {Exposes[x] : x \in EvidenceRows(c, r)}

(* _require_campaign_access: whole campaign or nothing.                    *)
CanManage(m, c, r) ==
    \/ m \in Admins
    \/ RequiredProviders(c, r) # {} /\ RequiredProviders(c, r) \subseteq Domains[m]

CanDelete(m, c, r) ==
    \/ m \in Admins
    \/ CanManage(m, c, r) /\ r.pilot = m

(* _resolve_reviewer: owner, temporary assignment, default reviewer, then  *)
(* the pilot when unresolved reviewers are allowed.                        *)
ResolveReviewer(x, r, given, bypass) ==
    IF Owner[x] # None THEN Owner[x]
    ELSE IF given # None THEN given
    ELSE IF r.default # None THEN r.default
    ELSE IF bypass THEN r.pilot ELSE None

ResolvedReviewers(r, given, bypass) ==
    [x \in Rows |-> ResolveReviewer(x, r, given[x], bypass)]

-----------------------------------------------------------------------------
(* Requests.  Begin puts a handler that has read its rows in flight;       *)
(* Finish ends it; ThenAudit leaves only record_audit to commit.           *)

Begin(a, kind, r) ==
    /\ kind \in Requests
    /\ req[a] = NoRequest
    /\ req' = [req EXCEPT ![a] = r]

Finish(a) == req' = [req EXCEPT ![a] = NoRequest]

ThenAudit(a, event, c) ==
    req' = [req EXCEPT ![a] = [NoRequest EXCEPT !.pc = "audit", !.campaign = c,
                                                !.event = event]]

(* campaign_create: the id is fresh, so its read and upsert are one step.  *)
CampaignCreate(m) ==
    /\ "create" \in Requests
    /\ req[m] = NoRequest
    /\ \E c \in Campaigns, s \in Scopes, p \in Managers, d \in {None} \cup Reviewers :
          LET r == [status |-> "draft", scope |-> s, pilot |-> p, default |-> d] IN
          /\ campaign[c] = NoRow
          /\ CanManage(m, c, r)
          /\ campaign' = [campaign EXCEPT ![c] = r]
          /\ ThenAudit(m, "campaign.created", c)
    /\ UNCHANGED <<items, reviewer, decisions, remediation, contexts, audit, openings, clock>>

(* campaign_update: only a draft; the merged row is upserted whole, with   *)
(* the status that was read.                                               *)
CampaignUpdate(m) ==
    /\ \E c \in Campaigns, s \in Scopes, d \in {None} \cup Reviewers :
          LET r == [campaign[c] EXCEPT !.scope = s, !.default = d] IN
          /\ campaign[c].status = "draft"
          /\ CanManage(m, c, r)
          /\ Begin(m, "update", [NoRequest EXCEPT !.pc = "update", !.campaign = c, !.row = r])
    /\ UNCHANGED <<tables, clock>>

UpdateCommit(m) ==
    /\ req[m].pc = "update"
    /\ campaign' = [campaign EXCEPT ![req[m].campaign] = req[m].row]
    /\ ThenAudit(m, "campaign.updated", req[m].campaign)
    /\ UNCHANGED <<items, reviewer, decisions, remediation, contexts, audit, openings, clock>>

(* campaign_open, the reads: a draft whose rows all resolve to a reviewer. *)
CampaignOpen(m) ==
    /\ \E c \in Campaigns, bypass \in BOOLEAN, given \in [Rows -> Managers \cup {None}] :
          LET r == campaign[c]
              rev == ResolvedReviewers(r, given, bypass)
          IN  /\ r.status = "draft"
              /\ CanManage(m, c, r)
              /\ \A x \in ScopeRows[r.scope] : rev[x] # None
              /\ Begin(m, "open", [NoRequest EXCEPT !.pc = "open", !.campaign = c,
                                       !.row = [r EXCEPT !.status = "open"],
                                       !.reviewers = rev])
    /\ UNCHANGED <<tables, clock>>

(* Mutant: the opening forgets the business contexts.                      *)
NoContexts(c, s) == {}

(* capture_campaign_access_contexts: once per campaign and access.         *)
CapturedContexts(c, s) == {c} \X ScopeRows[s]

(* campaign_open, its one transaction: row, items, contexts, audit event.  *)
OpenCommit(m) ==
    LET c == req[m].campaign
        r == req[m].row
        n == openings[c] + 1
        new == {i \in ItemId : i.campaign = c /\ i.opening = n /\ i.row \in ScopeRows[r.scope]}
    IN  /\ req[m].pc = "open"
        /\ n <= MaxOpenings
        /\ campaign' = [campaign EXCEPT ![c] = r]
        /\ items' = items \cup new
        /\ reviewer' = [i \in ItemId |->
              IF i \in new THEN req[m].reviewers[i.row] ELSE reviewer[i]]
        /\ contexts' = contexts \cup CapturedContexts(c, r.scope)
        /\ audit' = audit \cup {<<"campaign.opened", c>>}
        /\ openings' = [openings EXCEPT ![c] = n]
        /\ Finish(m)
        /\ UNCHANGED <<decisions, remediation, clock>>

(* Mutant: a closed campaign may be closed again.                          *)
CloseAgain(m) ==
    /\ \E c \in Campaigns :
          /\ campaign[c].status \in {"open", "closed"}
          /\ Begin(m, "close",
                   [NoRequest EXCEPT !.pc = "close.read", !.campaign = c,
                                     !.row = [campaign[c] EXCEPT !.status = "closed"]])
    /\ UNCHANGED <<tables, clock>>

(* campaign_close: status check, then the items and decisions are read and *)
(* close_campaign refuses pending items; then one commit for the row, one  *)
(* per remediation action, one for the audit event.                        *)
CampaignClose(m) ==
    /\ \E c \in Campaigns :
          /\ campaign[c].status = "open"
          /\ CanManage(m, c, campaign[c])
          /\ Begin(m, "close",
                   [NoRequest EXCEPT !.pc = "close.read", !.campaign = c,
                                     !.row = [campaign[c] EXCEPT !.status = "closed"]])
    /\ UNCHANGED <<tables, clock>>

(* Mutant: pending items do not stop a close.                              *)
CloseReadIgnoringPending(m) ==
    /\ req[m].pc = "close.read"
    /\ req' = [req EXCEPT ![m] = [@ EXCEPT !.pc = "close",
                  !.actions = RemediationFromDecisions(DecisionsOn(ItemsOf(req[m].campaign)))]]
    /\ UNCHANGED <<tables, clock>>

CloseRead(m) ==
    LET I == ItemsOf(req[m].campaign) IN
    /\ req[m].pc = "close.read"
    /\ IF I \subseteq Decided(DecisionsOn(I))
       THEN req' = [req EXCEPT ![m] = [@ EXCEPT !.pc = "close",
                                    !.actions = RemediationFromDecisions(DecisionsOn(I))]]
       ELSE Finish(m)
    /\ UNCHANGED <<tables, clock>>

CloseCommit(m) ==
    /\ req[m].pc = "close"
    /\ campaign' = [campaign EXCEPT ![req[m].campaign] = req[m].row]
    /\ req' = [req EXCEPT ![m] = [@ EXCEPT !.pc = "remediate"]]
    /\ UNCHANGED <<items, reviewer, decisions, remediation, contexts, audit, openings, clock>>

RemediationInsert(m) ==
    /\ req[m].pc = "remediate"
    /\ \E x \in req[m].actions, n \in ActionIds :
          /\ \A a \in remediation : a.id < n
          /\ \A k \in ActionIds : k < n => \E a \in remediation : a.id = k
          /\ remediation' = remediation \cup
                {[id |-> n, item |-> x.item, action |-> x.action, status |-> "pending"]}
          /\ req' = [req EXCEPT ![m] = [@ EXCEPT !.actions = req[m].actions \ {x}]]
    /\ UNCHANGED <<campaign, items, reviewer, decisions, contexts, audit, openings, clock>>

(* Mutant: the close ends with actions still to insert.                    *)
RemediationAbandoned(m) ==
    /\ req[m].pc = "remediate"
    /\ ThenAudit(m, "campaign.closed", req[m].campaign)
    /\ UNCHANGED <<tables, clock>>

RemediationDone(m) ==
    /\ req[m].pc = "remediate"
    /\ req[m].actions = {}
    /\ ThenAudit(m, "campaign.closed", req[m].campaign)
    /\ UNCHANGED <<tables, clock>>

(* Mutant: an open campaign can be cancelled.                              *)
CancelOpen(m) ==
    /\ \E c \in Campaigns :
          /\ campaign[c].status \in {"draft", "open"}
          /\ Begin(m, "cancel",
                   [NoRequest EXCEPT !.pc = "cancel", !.campaign = c,
                                     !.row = [campaign[c] EXCEPT !.status = "cancelled"]])
    /\ UNCHANGED <<tables, clock>>

(* campaign_cancel: drafts only.                                           *)
CampaignCancel(m) ==
    /\ \E c \in Campaigns :
          /\ campaign[c].status = "draft"
          /\ CanManage(m, c, campaign[c])
          /\ Begin(m, "cancel",
                   [NoRequest EXCEPT !.pc = "cancel", !.campaign = c,
                                     !.row = [campaign[c] EXCEPT !.status = "cancelled"]])
    /\ UNCHANGED <<tables, clock>>

CancelCommit(m) ==
    /\ req[m].pc = "cancel"
    /\ campaign' = [campaign EXCEPT ![req[m].campaign] = req[m].row]
    /\ ThenAudit(m, "campaign.cancelled", req[m].campaign)
    /\ UNCHANGED <<items, reviewer, decisions, remediation, contexts, audit, openings, clock>>

(* campaign_delete: any status.  The ids to delete are read first.  The    *)
(* remediation actions are selected by a campaign_id that RemediationAction*)
(* does not have, so none is.                                              *)
CampaignDelete(m) ==
    /\ \E c \in Campaigns :
          /\ campaign[c].status \notin {"absent", "deleted"}
          /\ CanDelete(m, c, campaign[c])
          /\ Begin(m, "delete",
                   [NoRequest EXCEPT !.pc = "delete", !.campaign = c,
                                     !.items = ItemsOf(c),
                                     !.decisions = DecisionsOn(ItemsOf(c)),
                                     !.contexts = contexts \cap ({c} \X Rows)])
    /\ UNCHANGED <<tables, clock>>

DeleteCommit(m) ==
    /\ req[m].pc = "delete"
    /\ audit' = audit \cup {<<"campaign.deleted", req[m].campaign>>}
    /\ items' = items \ req[m].items
    /\ reviewer' = [i \in ItemId |-> IF i \in req[m].items THEN None ELSE reviewer[i]]
    /\ decisions' = decisions \ req[m].decisions
    /\ contexts' = contexts \ req[m].contexts
    /\ campaign' = [campaign EXCEPT ![req[m].campaign] = DeletedRow]
    /\ Finish(m)
    /\ UNCHANGED <<remediation, openings, clock>>

(* decision: the item exists, its campaign is open, and a GROUP_OWNER is   *)
(* its reviewer; created_at and the uuid are taken before the insert.      *)
ReviewDecision(a) ==
    /\ \E i \in items, v \in DecisionValue, u \in DecisionIds :
          LET c == i.campaign IN
          /\ campaign[c].status = "open"
          /\ IF a \in Managers THEN CanManage(a, c, campaign[c]) ELSE reviewer[i] = a
          /\ \A d \in decisions : d.uuid # u
          /\ \A b \in People : \A d \in req[b].decisions : d.uuid # u
          /\ Begin(a, "decide",
                   [NoRequest EXCEPT !.pc = "decide", !.campaign = c,
                       !.decisions = {[item |-> i, value |-> v, at |-> clock, uuid |-> u]}])
    /\ UNCHANGED <<tables, clock>>

(* Mutant: a new decision replaces the item's earlier ones.                *)
DecisionReplaces(a) ==
    /\ req[a].pc = "decide"
    /\ decisions' = {d \in decisions : d.item \notin Decided(req[a].decisions)}
                        \cup req[a].decisions
    /\ ThenAudit(a, "review.decision_recorded", req[a].campaign)
    /\ UNCHANGED <<campaign, items, reviewer, remediation, contexts, audit, openings, clock>>

DecisionCommit(a) ==
    /\ req[a].pc = "decide"
    /\ decisions' = decisions \cup req[a].decisions
    /\ ThenAudit(a, "review.decision_recorded", req[a].campaign)
    /\ UNCHANGED <<campaign, items, reviewer, remediation, contexts, audit, openings, clock>>

(* system_user_reassign_reviews: the undecided items of one person in open *)
(* campaigns are upserted one by one with the new reviewer.                *)
ReassignReviews(m) ==
    /\ m \in Admins
    /\ \E from \in People, to \in People :
          /\ from # to
          /\ Begin(m, "reassign",
                   [NoRequest EXCEPT !.pc = "reassign", !.reviewers = [x \in Rows |-> to],
                       !.items = {i \in items : /\ reviewer[i] = from
                                                /\ i \notin Decided(decisions)
                                                /\ campaign[i.campaign].status = "open"}])
    /\ UNCHANGED <<tables, clock>>

ReassignItem(m) ==
    /\ req[m].pc = "reassign"
    /\ \E i \in req[m].items :
          /\ items' = items \cup {i}
          /\ reviewer' = [reviewer EXCEPT ![i] = req[m].reviewers[i.row]]
          /\ req' = [req EXCEPT ![m] = [@ EXCEPT !.items = req[m].items \ {i}]]
    /\ UNCHANGED <<campaign, decisions, remediation, contexts, audit, openings, clock>>

ReassignDone(m) ==
    /\ req[m].pc = "reassign"
    /\ req[m].items = {}
    /\ ThenAudit(m, "review.reassigned", None)
    /\ UNCHANGED <<tables, clock>>

(* remediation_status: any status to any other.  Only the status is        *)
(* rewritten, so the read and the upsert are one step.                     *)
RemediationFollowUp(m) ==
    /\ "follow_up" \in Requests
    /\ req[m] = NoRequest
    /\ \E a \in remediation, s \in RemediationStatus :
          /\ remediation' = (remediation \ {a}) \cup {[a EXCEPT !.status = s]}
          /\ ThenAudit(m, "remediation.status_changed", a.item.campaign)
    /\ UNCHANGED <<campaign, items, reviewer, decisions, contexts, audit, openings, clock>>

(* record_audit outside a transaction: a commit of its own.                *)
RecordAudit(a) ==
    /\ req[a].pc = "audit"
    /\ audit' = audit \cup {<<req[a].event, req[a].campaign>>}
    /\ Finish(a)
    /\ UNCHANGED <<campaign, items, reviewer, decisions, remediation, contexts, openings, clock>>

(* A request dies between two commits: a database error, a killed worker,  *)
(* a restart of the process (which kills every request, one Fail each).    *)
Fail(a) ==
    /\ Failures
    /\ req[a] # NoRequest
    /\ Finish(a)
    /\ UNCHANGED <<tables, clock>>

Tick ==
    /\ clock < MaxClock
    /\ clock' = clock + 1
    /\ UNCHANGED <<tables, req>>

ManagerStep(m) ==
    \/ CampaignCreate(m)
    \/ CampaignUpdate(m) \/ UpdateCommit(m)
    \/ CampaignOpen(m) \/ OpenCommit(m)
    \/ CampaignClose(m) \/ CloseRead(m) \/ CloseCommit(m)
    \/ RemediationInsert(m) \/ RemediationDone(m)
    \/ CampaignCancel(m) \/ CancelCommit(m)
    \/ CampaignDelete(m) \/ DeleteCommit(m)
    \/ ReassignReviews(m) \/ ReassignItem(m) \/ ReassignDone(m)
    \/ RemediationFollowUp(m)

ActorStep(a) == ReviewDecision(a) \/ DecisionCommit(a) \/ RecordAudit(a) \/ Fail(a)

Next ==
    \/ \E m \in Managers : ManagerStep(m)
    \/ \E a \in People : ActorStep(a)
    \/ Tick

Spec == Init /\ [][Next]_vars

(* Every request that is not refused goes on to its last commit: the       *)
(* server runs handlers to completion.                                     *)
Continue(a) ==
    \/ RecordAudit(a) \/ DecisionCommit(a)
    \/ a \in Managers /\ (\/ UpdateCommit(a) \/ OpenCommit(a) \/ CloseRead(a)
                          \/ CloseCommit(a) \/ RemediationInsert(a) \/ RemediationDone(a)
                          \/ CancelCommit(a) \/ DeleteCommit(a)
                          \/ ReassignItem(a) \/ ReassignDone(a))

FairSpec == Spec /\ \A a \in People : WF_vars(Continue(a))

-----------------------------------------------------------------------------
(* Properties.                                                             *)

(* Every table and every request in flight has its type, and a request     *)
(* that will write a campaign row names the campaign and holds the row.    *)
TypeOK ==
    /\ campaign \in [Campaigns -> CampaignRow]
    /\ items \subseteq ItemId
    /\ reviewer \in [ItemId -> People \cup {None}]
    /\ decisions \subseteq Decision
    /\ remediation \subseteq RemediationAction
    /\ contexts \subseteq Campaigns \X Rows
    /\ audit \subseteq Event \X (Campaigns \cup {None})
    /\ openings \in [Campaigns -> 0..MaxOpenings]
    /\ clock \in 0..MaxClock
    /\ req \in [People -> Request]
    /\ \A a \in People : WellFormed(req[a])

(* A closed campaign has no pending review: close_campaign's check still   *)
(* holds when its row is committed, whatever reviewers do meanwhile.       *)
ClosedFullyDecided ==
    \A i \in items : campaign[i.campaign].status = "closed" => i \in Decided(decisions)

(* A comparison row is reviewed once per campaign: opening materialises    *)
(* one item per row and is not repeated.                                   *)
OneItemPerRow ==
    \A i, j \in items : i.campaign = j.campaign /\ i.row = j.row => i = j

(* Review evidence exists only for a campaign that was opened and not      *)
(* deleted: no draft, cancelled or deleted campaign has review items.      *)
EvidenceOfOpenedCampaign ==
    \A i \in items : campaign[i.campaign].status \in {"open", "closed"}

(* A decision asks for a (pending or recorded) remediation action.         *)
Justifies(d, a) ==
    /\ d.item = a.item
    /\ IF a.action = "revoke" THEN d.value = "revoke"
       ELSE d.value = "approve" /\ d.item.row \in Expected \ Observed

DeletionAudited(c) == <<"campaign.deleted", c>> \in audit

Supported(a) == (\E d \in decisions : Justifies(d, a)) \/ DeletionAudited(a.item.campaign)

(* Nobody is told to change a system without a decision that says so: each *)
(* remediation action rests on a recorded decision, or its campaign was    *)
(* deleted and the deletion is in the audit trail.                         *)
RemediationJustified == \A a \in remediation : Supported(a)

(* Closing a campaign asks for each change once.                           *)
OneActionPerItem ==
    \A a, b \in remediation : a.item = b.item => a = b

(* However requests are repeated or die between two commits, nobody is     *)
(* asked twice: a row is one review item, and a change one action.         *)
AskedOnce == OneItemPerRow /\ OneActionPerItem

OpeningRecorded(i) ==
    /\ <<"campaign.opened", i.campaign>> \in audit
    /\ <<i.campaign, i.row>> \in contexts \/ DeletionAudited(i.campaign)

(* Opening is all or nothing: a review item comes with its business        *)
(* context and the audit event of the opening, unless it was deleted.      *)
OpenIsAtomic == \A i \in items : OpeningRecorded(i)

(* What the handlers in flight carry from their reads to their writes: the *)
(* actions of a close are supported, the items of a reassignment come from *)
(* a recorded opening, and a deletion removes only its own campaign's      *)
(* decisions and contexts.                                                 *)
InFlightEvidence ==
    \A m \in People :
        /\ \A a \in req[m].actions : Supported(a)
        /\ \A i \in req[m].items : OpeningRecorded(i)
        /\ req[m].pc = "delete" =>
              /\ \A d \in req[m].decisions : d.item.campaign = req[m].campaign
              /\ req[m].contexts \subseteq {req[m].campaign} \X Rows

(* The inductive invariant behind RemediationJustified and OpenIsAtomic.   *)
EvidenceInv == TypeOK /\ RemediationJustified /\ OpenIsAtomic /\ InFlightEvidence

(* Every decision, recorded or about to be, has a uuid of its own.         *)
DecisionsDiffer ==
    /\ \A d, e \in decisions : d.uuid = e.uuid => d = e
    /\ \A a \in People : req[a].pc = "decide" => \A d \in req[a].decisions :
          /\ \A e \in decisions : e.uuid # d.uuid
          /\ \A b \in People : req[b].pc = "decide" =>
                \A e \in req[b].decisions : e.uuid = d.uuid => a = b /\ e = d

(* With one manager: what its handler has read is still so at its commit.  *)
Current(q) ==
    /\ q.pc \in {"update", "open", "cancel"} => campaign[q.campaign].status = "draft"
    /\ q.pc = "update" => q.row.status = "draft"
    /\ q.pc = "open" => q.row.status = "open"
    /\ q.pc = "cancel" => q.row.status = "cancelled"
    /\ q.pc \in {"close.read", "close"} =>
          campaign[q.campaign].status = "open" /\ q.row.status = "closed"
    /\ q.pc = "close" => ItemsOf(q.campaign) \subseteq Decided(decisions)
    /\ q.pc = "remediate" => campaign[q.campaign].status = "closed"
    /\ q.pc = "delete" =>
          /\ ItemsOf(q.campaign) \subseteq q.items
          /\ \A d \in q.decisions : d.item.campaign = q.campaign
    /\ q.pc = "reassign" => q.items \subseteq items

(* With one manager: the actions of a close are of its own campaign, one   *)
(* for each item, and not recorded yet.                                    *)
Asking(q) ==
    q.pc \in {"close", "remediate"} =>
       /\ \A x, y \in q.actions : x.item = y.item => x = y
       /\ \A x \in q.actions : /\ x.item.campaign = q.campaign
                               /\ \A a \in remediation : a.item # x.item

(* With one manager: the inductive invariant behind ClosedFullyDecided,    *)
(* EvidenceOfOpenedCampaign and AskedOnce.                                 *)
SoleManagerInv ==
    /\ \A a \in People : req[a].pc \in {"idle", "decide", "audit"} \/ a \in Managers
    /\ \A m \in Managers : Current(req[m]) /\ Asking(req[m])
    /\ \A a \in remediation : campaign[a.item.campaign].status \in {"closed", "deleted"}
    /\ DecisionsDiffer
    /\ ClosedFullyDecided
    /\ EvidenceOfOpenedCampaign
    /\ AskedOnce

(* Decisions are append-only evidence: one disappears only with its        *)
(* campaign, in the transaction that removes the campaign's row.           *)
DecisionsAppendOnly ==
    [][\A d \in decisions : d \notin decisions' =>
          campaign'[d.item.campaign].status = "deleted"]_vars

(* Every action a close computed is inserted, when no request dies.        *)
RemediationDelivered ==
    \A m \in Managers, x \in PendingAction :
        x \in req[m].actions ~>
            \E a \in remediation : a.item = x.item /\ a.action = x.action

=============================================================================
