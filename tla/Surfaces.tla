------------------------------ MODULE Surfaces ------------------------------
(***************************************************************************)
(* The surfaces: what each page, export, API route, MCP tool and assistant *)
(* tool shows a reader of the tables of ReadAccess.  An item is            *)
(* <<campaign, row>>.  Search, sort and paging narrow a list and are left  *)
(* out.                                                                    *)
(***************************************************************************)
EXTENDS ReadAccess

Operational(p) == p.role \in {"ADMIN", "OPERATOR"}

AllDomains(p) == p.role = "ADMIN" \/ "*" \in p.scopes

(* WebPrincipal.can_access, AuthorizationContext.can_access_provider.      *)
InScope(p, provider) == AllDomains(p) \/ provider \in p.scopes

BothInScope(p, r) == InScope(p, r.access_provider) /\ InScope(p, r.identity_provider)

IsReviewer(p, i) == i[2].reviewer = p.name

-----------------------------------------------------------------------------
(* Who may read a campaign.                                                *)

(* Mutant: the provider of the identity is forgotten.                      *)
AccessProviders(rows) == {r.access_provider : r \in rows}

ProvidersOf(rows) ==
    {r.access_provider : r \in rows} \cup {r.identity_provider : r \in rows}

RequiredProviders(scope, rows, snapshot) ==
    CASE scope.type = "all" -> ProvidersOf(rows) \cup snapshot
      [] scope.type = "providers" -> ProvidersOf(rows) \cup scope.values
      [] scope.type = "accesses" ->
            ProvidersOf(rows) \cup {r.access_provider : r \in {r \in Rows : r.access \in scope.values}}

(* can_access_campaign, can_access_golden: an operator needs every provider*)
(* of a known, non-empty set.                                              *)
Authorized(p, required) ==
    \/ p.role = "ADMIN"
    \/ p.role = "OPERATOR" /\ required # {} /\ ("*" \in p.scopes \/ required \subseteq p.scopes)

(* Mutant: a campaign that is open is judged on its scope alone.           *)
RequiredByScope(c) ==
    LET row == campaign[c]
    IN RequiredProviders(row.scope,
          IF row.status \in {"open", "closed"} THEN {}
          ELSE Prepared(row), Covered)

(* The web: evidence that was materialised, or else what would be.         *)
CampaignRequired(c) ==
    LET row == campaign[c]
    IN RequiredProviders(row.scope,
          IF row.status \in {"open", "closed", "cancelled"} /\ Items(c) # {} THEN Items(c)
          ELSE IF row.status \in {"open", "closed"} THEN {}
          ELSE Prepared(row), Covered)

MayAccess(p, c) ==
    \/ p.role = "ADMIN"
    \/ p.role = "OPERATOR" /\ ("*" \in p.scopes \/ Authorized(p, CampaignRequired(c)))

AuthorizedCampaigns(p) == {c \in Present : MayAccess(p, c)}

-----------------------------------------------------------------------------
(* Tables of the web interface.                                            *)

(* review-items: all of the reader's campaigns, or a reviewer's own.       *)
ReviewTable(p) ==
    CASE Operational(p) -> LET seen == AuthorizedCampaigns(p) IN {i \in AllItems : i[1] \in seen}
      [] p.role = "GROUP_OWNER" -> {i \in AllItems : IsReviewer(p, i)}
      [] OTHER -> {}

(* remediation-actions: the action borrows its item's fields, and an item  *)
(* that is gone lends none.                                                *)
RemediationTable(p) ==
    {a \in actions :
        /\ p.role # "GROUP_OWNER"
        /\ p.role = "OPERATOR" => a \in AllItems /\ a[1] \in AuthorizedCampaigns(p)
        /\ AllDomains(p) \/ (a \in AllItems /\ a[2].access_provider \in p.scopes)}

(* The filter by providers is for a table "assignments"; the list is of    *)
(* "access_assignments".                                                   *)
AssignmentTable(p) == {r \in Observed : Operational(p)}

(* The detail of a campaign, for whoever may open its page.                *)
Detail(p, c) ==
    IF Operational(p) /\ c \in AuthorizedCampaigns(p)
    THEN [items |-> {<<c, r>> : r \in Items(c)}, actions |-> {a \in actions : a[1] = c /\ a \in AllItems}]
    ELSE [items |-> {}, actions |-> {}]

(* Mutant: an approved row that nothing grants yet asks for no change.     *)
ReportedRevocation(i) ==
    [row |-> i[2], decision |-> Latest(i),
     action |-> IF Latest(i) = "revoke" THEN "Revoke access" ELSE "No action"]

(* Report pages and files: one row per item with the decision that stands  *)
(* and the change it asks for.                                             *)
ReportRow(i) ==
    [row |-> i[2], decision |-> Latest(i),
     action |-> CASE Latest(i) = "revoke" -> "Revoke access"
                  [] Latest(i) = "approve" /\ i[2] \notin Observed -> "Grant access"
                  [] OTHER -> "No action"]

ReportRows(p, c) ==
    IF Operational(p) /\ c \in AuthorizedCampaigns(p)
    THEN {ReportRow(<<c, r>>) : r \in Items(c)}
    ELSE {}

RemediationExport(p, c) ==
    IF Operational(p) /\ c \notin AuthorizedCampaigns(p) THEN {}
    ELSE {a \in RemediationTable(p) : a[1] = c /\ a \in AllItems}

(* What an identity holds, and who holds an access: the reader's domains   *)
(* are asked about that identity, or that access, only.                    *)
IdentityAccesses(p) == {r \in Observed : Operational(p) /\ InScope(p, r.identity_provider)}

AccessHolders(p) == {r \in Observed : Operational(p) /\ InScope(p, r.access_provider)}

(* The findings page shows comparison rows, of one campaign if asked.      *)
Findings(p, c) ==
    {r \in Observed : Operational(p) /\ BothInScope(p, r)
        /\ c \in AuthorizedCampaigns(p) /\ r \in Items(c)}

(* What a draft would review, shown to whoever may read all of it.         *)
Preview(p, row) ==
    LET rows == Prepared(row)
    IN IF AllDomains(p) \/ Authorized(p, RequiredProviders(row.scope, rows, Covered))
       THEN {r \in rows : Operational(p)} ELSE {}

(* Accesses a campaign may be narrowed to.                                 *)
ScopeAccesses(p, row) ==
    {r.access : r \in {r \in Observed \cup Expected[row.golden] :
                          Operational(p) /\ InScope(p, r.access_provider)}}

Progress(items) ==
    [total |-> Cardinality(items),
     pending |-> Cardinality({i \in items : Latest(i) = "pending"}),
     revoked |-> Cardinality({i \in items : Latest(i) = "revoke"})]

(* The list of campaigns, each with the progress of its items.             *)
CampaignTable(p) ==
    [c \in IF Operational(p) THEN AuthorizedCampaigns(p) ELSE {} |->
        Progress({<<c, r>> : r \in Items(c)})]

(* The tiles of the dashboard: undecided items count in open campaigns.    *)
Dashboard(p) ==
    LET open == {c \in AuthorizedCampaigns(p) : campaign[c].status = "open"}
    IN [campaigns |-> open,
        pending |-> {i \in AllItems : i[1] \in open /\ Latest(i) = "pending"}]

(* The campaigns its notes say can be closed.                              *)
Closable(p) ==
    LET tiles == Dashboard(p)
    IN IF Operational(p) THEN {c \in tiles.campaigns : \A i \in tiles.pending : i[1] # c} ELSE {}

-----------------------------------------------------------------------------
(* The external v1 API.                                                    *)

ApiCampaigns(p) ==
    [c \in IF Operational(p) THEN AuthorizedCampaigns(p) ELSE {} |->
        Progress({<<c, r>> : r \in Items(c)})]

ApiReviewItems(p, c) ==
    CASE p.role = "OPERATOR" -> {<<c, r>> : r \in IF c \in AuthorizedCampaigns(p) THEN Items(c) ELSE {}}
      [] p.role = "GROUP_OWNER" -> {i \in {<<c, r>> : r \in Items(c)} : IsReviewer(p, i)}
      [] p.role = "ADMIN" -> {<<c, r>> : r \in Items(c)}
      [] OTHER -> {}

ApiReviewItem(p, i) ==
    CASE p.role = "OPERATOR" -> i[1] \in AuthorizedCampaigns(p)
      [] p.role = "GROUP_OWNER" -> IsReviewer(p, i)
      [] OTHER -> p.role = "ADMIN"

(* Every version must be authorised before any is shown.                   *)
ApiGolden(p) ==
    LET versions == {Expected[n] : n \in 1 .. golden}
    IN IF Authorized(p, ProvidersOf(UNION versions)) THEN UNION versions ELSE {}

-----------------------------------------------------------------------------
(* MCP reports and the assistant: items, whatever the status.              *)

StoredRequired(c) == RequiredProviders(campaign[c].scope, Items(c), Covered)

McpReports(p) == {c \in Present : Authorized(p, StoredRequired(c))}

McpRows(p, c) ==
    IF c \in McpReports(p)
    THEN {ReportRow(<<c, r>>) : r \in Items(c)} ELSE {}

(* Only what is to be revoked, not what is to be granted.                  *)
McpRemediation(p, c) == {line \in McpRows(p, c) : line.decision = "revoke"}

(* _visible_campaigns: an operator's, or those a reviewer has an item in.  *)
ChatCampaigns(p) ==
    {c \in Present :
        \/ Operational(p) /\ Authorized(p, StoredRequired(c))
        \/ p.role = "GROUP_OWNER" /\ \E r \in Items(c) : IsReviewer(p, <<c, r>>)}

(* Mutant: a reviewer is shown all items of a campaign.                    *)
ChatCampaignReviews(p) == {i \in AllItems : i[1] \in ChatCampaigns(p)}

ChatReviews(p) ==
    LET seen == ChatCampaigns(p)
    IN {i \in AllItems : i[1] \in seen /\ (p.role = "GROUP_OWNER" => IsReviewer(p, i))}

ChatDashboard(p) ==
    [campaigns |-> {c \in ChatCampaigns(p) : campaign[c].status = "open"},
     pending |-> {i \in ChatReviews(p) : Latest(i) = "pending"}]

ChatProgress(p) == Progress(ChatReviews(p))

ChatSummary(p, c) == Progress({i \in ChatReviews(p) : i[1] = c})

(* campaign_readiness prepares a draft without the perimeter data.         *)
ChatReadiness(p, c) ==
    LET row == campaign[c]
    IN CASE c \notin ChatCampaigns(p) -> "unavailable"
         [] row.status # "draft" -> "launched"
         [] OTHER -> IF Unresolved(Prepared([row EXCEPT !.scope.perimeter = FALSE])) = {}
                     THEN "ready" ELSE "blocked"

ChatFindings(p, c) == {i \in ChatReviews(p) : i[1] = c}

(* The decision get_authorized_review_context calls current.               *)
ChatCurrentDecision(i) == IF review[i[1]][i[2]] = <<>> THEN "pending" ELSE Head(review[i[1]][i[2]])

ChatRemediation(p) ==
    {a \in actions : a \in AllItems
        /\ CASE Operational(p) -> a[1] \in ChatCampaigns(p)
             [] p.role = "GROUP_OWNER" -> FALSE
             [] OTHER -> InScope(p, a[2].access_provider)}

(* Identities with the accesses they hold.                                 *)
ChatAssignments(p) == {r \in Observed : Operational(p) /\ BothInScope(p, r)}

(* build_brief: what a report of the assistant counts.                     *)
Brief(p) ==
    [campaigns |-> Cardinality(ChatDashboard(p).campaigns),
     pending |-> ChatProgress(p).pending,
     reviews |-> Cardinality(ChatReviews(p)),
     remediations |-> Cardinality(ChatRemediation(p))]

(* Only the active version is looked at.                                   *)
ChatGolden(p) ==
    IF Authorized(p, ProvidersOf(Expected[golden])) THEN Expected[golden] ELSE {}

-----------------------------------------------------------------------------

CampaignEvidence(p, c) ==
    UNION {{i[2] : i \in Detail(p, c).items \cup ApiReviewItems(p, c)
                         \cup RemediationExport(p, c) \cup ChatFindings(p, c)},
           {line.row : line \in ReportRows(p, c) \cup McpRows(p, c)},
           Findings(p, c)}

(* Rows of the evidence a scoped operator is shown by any surface.         *)
OperatorEvidence(p) ==
    UNION {ChatAssignments(p), ApiGolden(p), ChatGolden(p),
           {i[2] : i \in ReviewTable(p) \cup ChatReviews(p)},
           {a[2] : a \in RemediationTable(p) \cup ChatRemediation(p)},
           UNION {CampaignEvidence(p, c) : c \in Campaigns},
           UNION {Preview(p, campaign[c]) : c \in Present}}

(* An operator is shown a row only when both its access and its identity   *)
(* belong to authorized providers, on every surface but the assignment     *)
(* list and the two drill-down pages, and whatever happened to the         *)
(* campaign, the Golden Source and the perimeter since; a reviewer sees    *)
(* their own items only.                                                   *)
EvidenceWithinDomains ==
    \A p \in Readers :
        CASE p.role = "OPERATOR" -> \A r \in OperatorEvidence(p) : BothInScope(p, r)
          [] p.role = "GROUP_OWNER" ->
                \A i \in ReviewTable(p) \cup ChatReviews(p) \cup UNION {ApiReviewItems(p, c) : c \in Campaigns} :
                    IsReviewer(p, i)
          [] OTHER -> TRUE

(* The assistant and the MCP reports show no item, remediation action or   *)
(* held access that the web interface would not show the same person.      *)
AssistantWithinWeb ==
    \A p \in Readers :
        /\ ChatReviews(p) \subseteq ReviewTable(p)
        /\ ChatRemediation(p) \subseteq RemediationTable(p)
        /\ ChatAssignments(p) \subseteq AssignmentTable(p)
        /\ ChatGolden(p) # {} => Operational(p)
        /\ \A c \in Campaigns : McpRows(p, c) \subseteq ReportRows(p, c)
        /\ {c \in McpReports(p) : campaign[c].status \in {"open", "closed"}} \subseteq AuthorizedCampaigns(p)

(* What is counted and listed in several places is the same there: what    *)
(* both drill-down pages show is what the assistant counts as held;        *)
(* dashboard, review list, brief and assistant agree on what is pending;   *)
(* the brief counts what review list and remediation list show; page,      *)
(* report, API and MCP agree on the items of a campaign and on their       *)
(* decisions; the changes the reports of a closed campaign ask for are its *)
(* remediation plan; a draft the assistant calls ready opens without a     *)
(* bypass, as its preview says, and what the dashboard says can be closed  *)
(* can be.                                                                 *)
SurfacesAgree ==
    \A p \in Readers :
        /\ Operational(p) => ChatDashboard(p) = Dashboard(p)
        /\ IdentityAccesses(p) \cap AccessHolders(p) = ChatAssignments(p)
        /\ ChatProgress(p) = Progress(ReviewTable(p))
        /\ Brief(p).reviews = Progress(ReviewTable(p)).total
        /\ Brief(p).remediations = Cardinality(RemediationTable(p) \cap AllItems)
        /\ \A c \in Present :
              /\ ChatReadiness(p, c) = "ready" => OpensAsIs(c)
              /\ Unresolved(Preview(p, campaign[c])) # {} => ~OpensAsIs(c)
              /\ ScopeAccesses(p, campaign[c]) \subseteq Known(campaign[c])
        /\ \A c \in Closable(p) : MayClose(c)
        /\ ApiCampaigns(p) = CampaignTable(p)
        /\ \A c \in DOMAIN CampaignTable(p) :
              LET items == {i \in ReviewTable(p) : i[1] = c}
              IN /\ Detail(p, c).items = items
                 /\ ApiReviewItems(p, c) = items
                 /\ \A i \in items : ApiReviewItem(p, i)
                 /\ CampaignTable(p)[c] = Progress(items)
                 /\ items # {} => ChatSummary(p, c) = Progress(items) /\ McpRows(p, c) = ReportRows(p, c)
                 /\ campaign[c].status = "closed" =>
                       LET changes == {line \in ReportRows(p, c) : line.action # "No action"}
                       IN /\ {line.row : line \in changes} = {a[2] : a \in RemediationExport(p, c)}
                          /\ items # {} => McpRemediation(p, c) \subseteq changes

(* Nobody gains or loses the sight of a campaign as it is opened, decided, *)
(* closed or cancelled, or as a Golden version is stored; once it is open, *)
(* not even as its accesses move between perimeters.                       *)
AudienceIsStable ==
    [][\A c \in Present :
          /\ campaign'[c].status # "deleted"
          /\ campaign'[c].scope = campaign[c].scope
          /\ campaign'[c].golden = campaign[c].golden
          /\ linked' = linked \/ campaign[c].status \in {"open", "closed"}
          => \A p \in Readers : MayAccess(p, c) = MayAccess(p, c)']_tables

(* The decision shown as current is the latest one.                        *)
CurrentDecisionIsLatest == \A i \in AllItems : ChatCurrentDecision(i) = Latest(i)
=============================================================================
