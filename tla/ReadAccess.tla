----------------------------- MODULE ReadAccess -----------------------------
(***************************************************************************)
(* Who reads which part of the review data: the web pages, the exports,    *)
(* the v1 API, the MCP reports and the assistant's tools each filter the   *)
(* same tables by the reader's role and authorized providers.  The tables  *)
(* change as in Campaign and GoldenSource, each handler here in one step   *)
(* (its commits are that module's business); a surface is a function of    *)
(* the tables and of the reader.                                           *)
(***************************************************************************)
EXTENDS Naturals, SequencesExt, FiniteSets, Functions

CONSTANTS
    Providers,
    Covered,    \* providers of the snapshot
    Rows,       \* comparison rows: [access, access_provider, identity_provider, reviewer]
    Observed,   \* rows the snapshot assigns
    Expected,   \* version of the Golden Source -> rows it expects
    Scopes,     \* campaign scopes asked for
    Campaigns,
    Linkable,   \* rows whose attachment to the perimeter changes
    Unassigned, \* the reviewer of a row without a known owner
    MaxDecisions, \* bound: decisions of one campaign
    Readers     \* readers the surfaces are compared for: [name, role, scopes]

(* normalize_campaign_scope: an explicit scope names something; perimeter  *)
(* says that organisations or information systems narrow it further.       *)
Scope ==
    [type : {"all"}, values : {{}}, perimeter : BOOLEAN]
    \cup [type : {"providers"}, values : (SUBSET Providers) \ {{}}, perimeter : BOOLEAN]
    \cup [type : {"accesses"}, values : (SUBSET {r.access : r \in Rows}) \ {{}}, perimeter : BOOLEAN]

ASSUME ReadAssumption ==
    /\ Covered \subseteq Providers
    /\ Scopes \subseteq Scope
    /\ Observed \subseteq Rows
    /\ \A r \in Rows : {r.access_provider, r.identity_provider} \subseteq Providers
    /\ Expected \in Seq(SUBSET Rows) /\ Expected # <<>>
    /\ Linkable \subseteq Rows
    /\ MaxDecisions \in Nat
    /\ \A p \in Readers : p.scopes \subseteq Providers \cup {"*"}

VARIABLES
    campaign,   \* campaign -> [status, scope, golden]
    review,     \* campaign -> item (its row) -> decisions, oldest first
    actions,    \* remediation actions: <<campaign, row>> of their review item
    golden,     \* version of the Golden Source stored last
    linked      \* rows with an access or identity attached to the perimeter

tables == <<campaign, review, actions, golden, linked>>

Everything == [type |-> "all", values |-> {}, perimeter |-> FALSE]

Row(status) == [status |-> status, scope |-> Everything, golden |-> 1]

Present == {c \in Campaigns : campaign[c].status \notin {"absent", "deleted"}}

Items(c) == DOMAIN review[c]

AllItems == UNION {{<<c, r>> : r \in Items(c)} : c \in Campaigns}

(* _latest_decisions, latest_decisions: the newest by (created_at, id).    *)
Latest(i) == IF review[i[1]][i[2]] = <<>> THEN "pending" ELSE Last(review[i[1]][i[2]])

-----------------------------------------------------------------------------
(* The rows a campaign prepares: the comparison with its Golden version    *)
(* (what the snapshot or the version has), narrowed by its scope.          *)

Selects(scope, r) ==
    /\ scope.type = "providers" => r.access_provider \in scope.values
    /\ scope.type = "accesses" => r.access \in scope.values
    /\ scope.perimeter => r \in linked

Prepared(row) == {r \in Observed \cup Expected[row.golden] : Selects(row.scope, r)}

Known(row) == {r.access : r \in Observed \cup Expected[row.golden]}

(* A scope by access names accesses of the snapshot or of the comparison.  *)
Preparable(row) ==
    /\ row.golden <= golden
    /\ row.scope.type = "accesses" => row.scope.values \subseteq Known(row)

Unresolved(rows) == {r \in rows : r.reviewer = Unassigned}

(* open_campaign, without a bypass, wants a reviewer for every row.        *)
OpensAsIs(c) ==
    /\ campaign[c].status = "draft"
    /\ Unresolved(Prepared(campaign[c])) = {}

Create(c, row) ==
    /\ campaign[c].status = "absent"
    /\ Preparable(row)
    /\ campaign' = [campaign EXCEPT ![c] = row]
    /\ UNCHANGED <<review, actions, golden, linked>>

Update(c, row) ==
    /\ campaign[c].status = "draft"
    /\ Preparable(row)
    /\ campaign' = [campaign EXCEPT ![c] = row]
    /\ UNCHANGED <<review, actions, golden, linked>>

(* A request may bypass unresolved reviewers: the pilot, an operator or    *)
(* administrator, then reviews those items.                                *)
Open(c) ==
    /\ campaign[c].status = "draft"
    /\ campaign' = [campaign EXCEPT ![c].status = "open"]
    /\ review' = [review EXCEPT ![c] = [r \in Prepared(campaign[c]) |-> <<>>]]
    /\ UNCHANGED <<actions, golden, linked>>

Cancel(c) ==
    /\ campaign[c].status = "draft"
    /\ campaign' = [campaign EXCEPT ![c].status = "cancelled"]
    /\ UNCHANGED <<review, actions, golden, linked>>

Decided(c) == FoldFunction(LAMBDA d, n : n + Len(d), 0, review[c])

(* A decision is appended; an earlier one of the item stays.               *)
Decide(c, r, value) ==
    /\ campaign[c].status = "open"
    /\ Decided(c) < MaxDecisions
    /\ review' = [review EXCEPT ![c][r] = Append(@, value)]
    /\ UNCHANGED <<campaign, actions, golden, linked>>

(* remediation_from_decisions: revoke, or grant what is missing.           *)
ToRemedy(i) ==
    \/ Latest(i) = "revoke"
    \/ Latest(i) = "approve" /\ i[2] \notin Observed

MayClose(c) ==
    /\ campaign[c].status = "open"
    /\ \A r \in Items(c) : Latest(<<c, r>>) # "pending"

Close(c) ==
    /\ MayClose(c)
    /\ campaign' = [campaign EXCEPT ![c].status = "closed"]
    /\ actions' = actions \cup {i \in {<<c, r>> : r \in Items(c)} : ToRemedy(i)}
    /\ UNCHANGED <<review, golden, linked>>

(* The remediation actions of a deleted campaign stay behind.              *)
Delete(c) ==
    /\ c \in Present
    /\ campaign' = [campaign EXCEPT ![c] = Row("deleted")]
    /\ review' = [review EXCEPT ![c] = <<>>]
    /\ UNCHANGED <<actions, golden, linked>>

SaveGolden ==
    /\ golden < Len(Expected)
    /\ golden' = golden + 1
    /\ UNCHANGED <<campaign, review, actions, linked>>

Relink(r) ==
    /\ linked' = (linked \ {r}) \cup ({r} \ linked)
    /\ UNCHANGED <<campaign, review, actions, golden>>

TablesInit ==
    /\ golden = 1
    /\ linked = {}
    /\ campaign = [c \in Campaigns |-> Row("absent")]
    /\ review = [c \in Campaigns |-> <<>>]
    /\ actions = {}

TablesNext ==
    \/ \E c \in Campaigns :
          \/ \E s \in Scopes, g \in DOMAIN Expected :
                LET row == [status |-> "draft", scope |-> s, golden |-> g]
                IN Create(c, row) \/ Update(c, row)
          \/ Open(c) \/ Cancel(c) \/ Close(c) \/ Delete(c)
          \/ \E r \in Items(c), v \in {"approve", "revoke"} : Decide(c, r, v)
    \/ SaveGolden
    \/ \E r \in Linkable : Relink(r)

TablesSpec == TablesInit /\ [][TablesNext]_tables

-----------------------------------------------------------------------------

TablesTypeOK ==
    /\ campaign \in [Campaigns -> [status : {"absent", "draft", "open", "closed", "cancelled", "deleted"},
                                   scope : Scope, golden : DOMAIN Expected]]
    /\ golden \in DOMAIN Expected
    /\ DOMAIN review = Campaigns
    /\ \A c \in Campaigns : \A r \in Items(c) : review[c][r] \in Seq({"approve", "revoke"})
    /\ actions \subseteq Campaigns \X Rows

(* Review items are of rows, of campaigns that are or were open.           *)
ItemsOfOpened ==
    \A c \in Campaigns :
        /\ Items(c) \subseteq Rows
        /\ Items(c) # {} => campaign[c].status \in {"open", "closed"}

(* A closed campaign is decided, and its actions are what its decisions    *)
(* ask for; there are none before, and those of a deleted one stay.        *)
ActionsOfClosed ==
    /\ \A a \in actions : campaign[a[1]].status \in {"closed", "deleted"}
    /\ \A c \in Campaigns : campaign[c].status = "closed" =>
          \A r \in Items(c) : /\ Latest(<<c, r>>) # "pending"
                              /\ <<c, r>> \in actions <=> ToRemedy(<<c, r>>)

TablesInv == TablesTypeOK /\ ItemsOfOpened /\ ActionsOfClosed
=============================================================================
