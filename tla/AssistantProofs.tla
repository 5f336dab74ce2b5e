--------------------------- MODULE AssistantProofs ---------------------------
(***************************************************************************)
(* Every surface shows a reader what the others show, and no more than     *)
(* their role and providers allow: for any rows, scopes, campaigns, Golden *)
(* Source versions and readers, whatever happens to the tables.  The       *)
(* assistant's tools read under an authority the account has had since the *)
(* model's last answer, and conversations stay their owner's.              *)
(***************************************************************************)
EXTENDS Chatbot, TLAPS

(* What a campaign prepares, and what it is typed by.                      *)
LEMMA PreparedAreRows ==
    ASSUME ReadAssumption, NEW row, row.golden \in DOMAIN Expected
    PROVE  Prepared(row) \subseteq Rows
  <1>1. Expected[row.golden] \in SUBSET Rows
    <2>1. ASSUME NEW s \in Seq(SUBSET Rows), NEW n \in DOMAIN s PROVE s[n] \in SUBSET Rows
      OBVIOUS
    <2> QED
      BY <2>1 DEF ReadAssumption
  <1> QED
    BY <1>1 DEF Prepared, ReadAssumption

(* The tables at first: no campaign and no evidence.                       *)
LEMMA TablesStart ==
    ASSUME ReadAssumption, TablesInit
    PROVE  TablesInv
  <1>1. 1 \in DOMAIN Expected
    <2>1. ASSUME NEW s \in Seq(SUBSET Rows), s # <<>> PROVE 1 \in DOMAIN s
      BY <2>1
    <2> QED
      BY <2>1 DEF ReadAssumption
  <1>2. Everything \in Scope
    BY DEF Everything, Scope
  <1>3. /\ \A c \in Campaigns : Items(c) = {} /\ campaign[c].status = "absent"
        /\ DOMAIN review = Campaigns /\ actions = {} /\ golden = 1
    BY DEF TablesInit, Items, Row
  <1>4. TablesTypeOK
    <2>1. campaign \in [Campaigns -> [status : {"absent", "draft", "open", "closed", "cancelled", "deleted"},
                                      scope : Scope, golden : DOMAIN Expected]]
      BY <1>1, <1>2 DEF TablesInit, Row
    <2> QED
      BY <1>1, <1>3, <2>1 DEF TablesTypeOK
  <1>5. ItemsOfOpened
    BY <1>3 DEF ItemsOfOpened
  <1>6. ActionsOfClosed
    BY <1>3 DEF ActionsOfClosed
  <1> QED
    BY <1>4, <1>5, <1>6 DEF TablesInv

(* Steps that change one campaign's row only, not to or from open, closed  *)
(* or deleted.                                                             *)
LEMMA RowPreserves ==
    ASSUME ReadAssumption, TablesInv, NEW c \in Campaigns, NEW row,
           row \in [status : {"draft", "cancelled"}, scope : Scope, golden : DOMAIN Expected],
           campaign[c].status \in {"absent", "draft"},
           campaign' = [campaign EXCEPT ![c] = row],
           UNCHANGED <<review, actions, golden>>
    PROVE  TablesInv'
  <1>1. TablesTypeOK'
    BY DEF TablesInv, TablesTypeOK, Items
  <1>2. \A d \in Campaigns : d # c => campaign'[d] = campaign[d]
    BY DEF TablesInv, TablesTypeOK
  <1>3. campaign'[c] = row
    BY DEF TablesInv, TablesTypeOK
  <1>4. ItemsOfOpened'
    BY <1>2 DEF TablesInv, ItemsOfOpened, Items
  <1>5. ActionsOfClosed'
    <2>1. \A a \in actions : a[1] \in Campaigns
      BY DEF TablesInv, TablesTypeOK
    <2> QED
      BY <1>2, <1>3, <2>1 DEF TablesInv, ActionsOfClosed, Items, Latest, ToRemedy
  <1> QED
    BY <1>1, <1>4, <1>5 DEF TablesInv

(* open_campaign: the items are the prepared rows, undecided.              *)
LEMMA OpenPreserves ==
    ASSUME ReadAssumption, TablesInv, NEW c \in Campaigns, Open(c)
    PROVE  TablesInv'
  <1>0. /\ campaign[c].status = "draft" /\ actions' = actions /\ golden' = golden
        /\ campaign' = [campaign EXCEPT ![c].status = "open"]
        /\ review' = [review EXCEPT ![c] = [r \in Prepared(campaign[c]) |-> <<>>]]
    BY DEF Open
  <1>1. /\ campaign[c] \in [status : {"absent", "draft", "open", "closed", "cancelled", "deleted"},
                            scope : Scope, golden : DOMAIN Expected]
        /\ DOMAIN review = Campaigns
    BY DEF TablesInv, TablesTypeOK
  <1>2. Prepared(campaign[c]) \subseteq Rows
    BY <1>1, PreparedAreRows
  <1>3. /\ \A d \in Campaigns : d # c => campaign'[d] = campaign[d] /\ review'[d] = review[d]
        /\ campaign'[c].status = "open"
        /\ review'[c] = [r \in Prepared(campaign[c]) |-> <<>>]
    BY <1>0, <1>1 DEF TablesInv, TablesTypeOK
  <1>4. TablesTypeOK'
    <2>1. <<>> \in Seq({"approve", "revoke"})
      OBVIOUS
    <2>2. ASSUME NEW d \in Campaigns, NEW r \in DOMAIN review'[d]
          PROVE  review'[d][r] \in Seq({"approve", "revoke"})
      <3>1. CASE d = c
        BY <1>3, <2>1, <3>1
      <3>2. CASE d # c
        BY <1>3, <3>2 DEF TablesInv, TablesTypeOK, Items
      <3> QED
        BY <3>1, <3>2
    <2>3. campaign' \in [Campaigns -> [status : {"absent", "draft", "open", "closed", "cancelled", "deleted"},
                                       scope : Scope, golden : DOMAIN Expected]]
      BY <1>0 DEF TablesInv, TablesTypeOK
    <2>4. DOMAIN review' = Campaigns
      BY <1>0, <1>1
    <2> QED
      BY <1>0, <2>2, <2>3, <2>4 DEF TablesInv, TablesTypeOK, Items
  <1>5. ItemsOfOpened'
    BY <1>2, <1>3 DEF TablesInv, ItemsOfOpened, Items
  <1>6. ActionsOfClosed'
    <2>1. \A a \in actions : a[1] \in Campaigns
      BY DEF TablesInv, TablesTypeOK
    <2> QED
      BY <1>0, <1>3, <2>1 DEF TablesInv, ActionsOfClosed, Items, Latest, ToRemedy
  <1> QED
    BY <1>4, <1>5, <1>6 DEF TablesInv

(* A decision is appended to one item of an open campaign.                 *)
LEMMA DecidePreserves ==
    ASSUME ReadAssumption, TablesInv, NEW c \in Campaigns, NEW r \in Items(c),
           NEW v \in {"approve", "revoke"}, Decide(c, r, v)
    PROVE  TablesInv'
  <1>0. /\ campaign[c].status = "open" /\ campaign' = campaign /\ actions' = actions
        /\ golden' = golden /\ review' = [review EXCEPT ![c][r] = Append(@, v)]
    BY DEF Decide
  <1>1. DOMAIN review = Campaigns
    BY DEF TablesInv, TablesTypeOK
  <1>2. /\ DOMAIN review' = Campaigns
        /\ \A d \in Campaigns : d # c => review'[d] = review[d]
        /\ review'[c] = [review[c] EXCEPT ![r] = Append(review[c][r], v)]
    BY <1>0, <1>1
  <1>3. \A d \in Campaigns : DOMAIN review'[d] = DOMAIN review[d]
    BY <1>2
  <1>4. TablesTypeOK'
    <2>1. ASSUME NEW d \in Campaigns, NEW q \in DOMAIN review'[d]
          PROVE  review'[d][q] \in Seq({"approve", "revoke"})
      <3>1. review[d][q] \in Seq({"approve", "revoke"})
        BY <1>3 DEF TablesInv, TablesTypeOK, Items
      <3>2. Append(review[d][q], v) \in Seq({"approve", "revoke"})
        BY <3>1
      <3>3. review'[d][q] \in {review[d][q], Append(review[d][q], v)}
        BY <1>2, <1>3
      <3> QED
        BY <3>1, <3>2, <3>3
    <2> QED
      BY <1>0, <1>2, <2>1 DEF TablesInv, TablesTypeOK, Items
  <1>5. ItemsOfOpened'
    BY <1>0, <1>3 DEF TablesInv, ItemsOfOpened, Items
  <1>6. ActionsOfClosed'
    <2>1. \A d \in Campaigns : campaign[d].status = "closed" => review'[d] = review[d]
      BY <1>0, <1>2
    <2> QED
      BY <1>0, <2>1 DEF TablesInv, ActionsOfClosed, Items, Latest, ToRemedy
  <1> QED
    BY <1>4, <1>5, <1>6 DEF TablesInv

(* close_campaign: every item is decided, and the actions are made.        *)
LEMMA ClosePreserves ==
    ASSUME ReadAssumption, TablesInv, NEW c \in Campaigns, Close(c)
    PROVE  TablesInv'
  <1>0. /\ campaign[c].status = "open" /\ review' = review /\ golden' = golden
        /\ campaign' = [campaign EXCEPT ![c].status = "closed"]
        /\ actions' = actions \cup {i \in {<<c, r>> : r \in Items(c)} : ToRemedy(i)}
        /\ \A r \in Items(c) : Latest(<<c, r>>) # "pending"
    BY DEF Close, MayClose
  <1>1. /\ \A d \in Campaigns : d # c => campaign'[d] = campaign[d]
        /\ campaign'[c].status = "closed"
    BY <1>0 DEF TablesInv, TablesTypeOK
  <1>2. Items(c) \subseteq Rows
    BY DEF TablesInv, ItemsOfOpened
  <1>3. TablesTypeOK'
    <2>1. campaign' \in [Campaigns -> [status : {"absent", "draft", "open", "closed", "cancelled", "deleted"},
                                       scope : Scope, golden : DOMAIN Expected]]
      BY <1>0 DEF TablesInv, TablesTypeOK
    <2>2. actions' \subseteq Campaigns \X Rows
      BY <1>0, <1>2 DEF TablesInv, TablesTypeOK
    <2> QED
      BY <1>0, <2>1, <2>2 DEF TablesInv, TablesTypeOK, Items
  <1>4. ItemsOfOpened'
    BY <1>0, <1>1 DEF TablesInv, ItemsOfOpened, Items
  <1>5. ActionsOfClosed'
    <2>1. \A a \in actions : a[1] \in Campaigns
      BY DEF TablesInv, TablesTypeOK
    <2>2. \A a \in actions : a[1] # c
      BY <1>0 DEF TablesInv, ActionsOfClosed
    <2>3. ASSUME NEW a \in actions' PROVE campaign'[a[1]].status \in {"closed", "deleted"}
      BY <1>0, <1>1, <2>1 DEF TablesInv, ActionsOfClosed
    <2>4. ASSUME NEW d \in Campaigns, campaign'[d].status = "closed", NEW r \in DOMAIN review[d]
          PROVE  Latest(<<d, r>>) # "pending" /\ (<<d, r>> \in actions' <=> ToRemedy(<<d, r>>))
      <3>1. CASE d = c
        BY <1>0, <2>2, <3>1 DEF Items
      <3>2. CASE d # c
        <4>1. <<d, r>> \in actions' <=> <<d, r>> \in actions
          BY <1>0, <3>2
        <4> QED
          BY <1>1, <2>4, <3>2, <4>1 DEF TablesInv, ActionsOfClosed, Items
      <3> QED
        BY <3>1, <3>2
    <2> QED
      BY <1>0, <2>3, <2>4 DEF ActionsOfClosed, Items, Latest, ToRemedy
  <1> QED
    BY <1>3, <1>4, <1>5 DEF TablesInv

(* Deletion takes the items; actions stay behind.                          *)
LEMMA DeletePreserves ==
    ASSUME ReadAssumption, TablesInv, NEW c \in Campaigns, Delete(c)
    PROVE  TablesInv'
  <1>0. /\ golden' = golden /\ actions' = actions
        /\ campaign' = [campaign EXCEPT ![c] = Row("deleted")]
        /\ review' = [review EXCEPT ![c] = <<>>]
    BY DEF Delete
  <1>1. /\ DOMAIN review = Campaigns /\ 1 \in DOMAIN Expected /\ Everything \in Scope
    <2>1. ASSUME NEW s \in Seq(SUBSET Rows), s # <<>> PROVE 1 \in DOMAIN s
      BY <2>1
    <2> QED
      BY <2>1 DEF ReadAssumption, TablesInv, TablesTypeOK, Everything, Scope
  <1>2. /\ \A d \in Campaigns : d # c => campaign'[d] = campaign[d] /\ review'[d] = review[d]
        /\ campaign'[c].status = "deleted" /\ review'[c] = <<>> /\ DOMAIN review' = Campaigns
        /\ DOMAIN review'[c] = {}
    BY <1>0, <1>1 DEF TablesInv, TablesTypeOK, Row
  <1>3. TablesTypeOK'
    <2>1. campaign' \in [Campaigns -> [status : {"absent", "draft", "open", "closed", "cancelled", "deleted"},
                                       scope : Scope, golden : DOMAIN Expected]]
      BY <1>0, <1>1 DEF TablesInv, TablesTypeOK, Row
    <2> QED
      BY <1>0, <1>2, <2>1 DEF TablesInv, TablesTypeOK, Items
  <1>4. ItemsOfOpened'
    BY <1>2 DEF TablesInv, ItemsOfOpened, Items
  <1>5. ActionsOfClosed'
    <2>1. \A a \in actions : a[1] \in Campaigns
      BY DEF TablesInv, TablesTypeOK
    <2> QED
      BY <1>0, <1>2, <2>1 DEF TablesInv, ActionsOfClosed, Items, Latest, ToRemedy
  <1> QED
    BY <1>3, <1>4, <1>5 DEF TablesInv

(* Every step of the tables, and every step that leaves them alone.        *)
LEMMA TablesStep ==
    ASSUME ReadAssumption, TablesInv, [TablesNext]_tables
    PROVE  TablesInv'
  <1>1. ASSUME NEW c \in Campaigns, NEW s \in Scopes, NEW g \in DOMAIN Expected,
               LET row == [status |-> "draft", scope |-> s, golden |-> g]
               IN Create(c, row) \/ Update(c, row)
        PROVE  TablesInv'
    <2>1. PICK row : row = [status |-> "draft", scope |-> s, golden |-> g]
      OBVIOUS
    <2>2. row \in [status : {"draft", "cancelled"}, scope : Scope, golden : DOMAIN Expected]
      BY <2>1 DEF ReadAssumption
    <2>3. /\ campaign[c].status \in {"absent", "draft"} /\ campaign' = [campaign EXCEPT ![c] = row]
          /\ UNCHANGED <<review, actions, golden>>
      BY <1>1, <2>1 DEF Create, Update
    <2> QED
      BY <2>2, <2>3, RowPreserves
  <1>2. ASSUME NEW c \in Campaigns, Cancel(c) PROVE TablesInv'
    <2>1. PICK row : row = [campaign[c] EXCEPT !.status = "cancelled"]
      OBVIOUS
    <2>2. row \in [status : {"draft", "cancelled"}, scope : Scope, golden : DOMAIN Expected]
      BY <2>1 DEF TablesInv, TablesTypeOK
    <2>3. /\ campaign[c].status \in {"absent", "draft"} /\ campaign' = [campaign EXCEPT ![c] = row]
          /\ UNCHANGED <<review, actions, golden>>
      BY <1>2, <2>1 DEF Cancel
    <2> QED
      BY <2>2, <2>3, RowPreserves
  <1>3. ASSUME NEW c \in Campaigns, Open(c) PROVE TablesInv'
    BY <1>3, OpenPreserves
  <1>4. ASSUME NEW c \in Campaigns, Close(c) PROVE TablesInv'
    BY <1>4, ClosePreserves
  <1>5. ASSUME NEW c \in Campaigns, Delete(c) PROVE TablesInv'
    BY <1>5, DeletePreserves
  <1>6. ASSUME NEW c \in Campaigns, NEW r \in Items(c), NEW v \in {"approve", "revoke"},
               Decide(c, r, v)
        PROVE  TablesInv'
    BY <1>6, DecidePreserves
  <1>7. CASE SaveGolden
    <2>1. golden' \in DOMAIN Expected
      <3>1. ASSUME NEW s \in Seq(SUBSET Rows), NEW n \in DOMAIN s, n < Len(s)
            PROVE  n + 1 \in DOMAIN s
        BY <3>1
      <3> QED
        BY <1>7, <3>1 DEF SaveGolden, ReadAssumption, TablesInv, TablesTypeOK
    <2> QED
      BY <1>7, <2>1 DEF SaveGolden, TablesInv, TablesTypeOK, ItemsOfOpened, ActionsOfClosed, Items,
                        Latest, ToRemedy
  <1>8. ASSUME NEW r \in Linkable, Relink(r) PROVE TablesInv'
    BY <1>8 DEF Relink, TablesInv, TablesTypeOK, ItemsOfOpened, ActionsOfClosed, Items, Latest,
                ToRemedy
  <1>9. CASE UNCHANGED tables
    BY <1>9 DEF tables, TablesInv, TablesTypeOK, ItemsOfOpened, ActionsOfClosed, Items, Latest,
                ToRemedy
  <1> QED
    BY <1>1, <1>2, <1>3, <1>4, <1>5, <1>6, <1>7, <1>8, <1>9 DEF TablesNext

-----------------------------------------------------------------------------
(* Who may read a campaign.                                                *)

(* The providers required are those of the rows at least, and some: an     *)
(* explicit scope names something.                                         *)
LEMMA RequiredAtLeast ==
    ASSUME ReadAssumption, NEW scope \in Scope, NEW rows, NEW snapshot
    PROVE  /\ ProvidersOf(rows) \subseteq RequiredProviders(scope, rows, snapshot)
           /\ snapshot # {} => RequiredProviders(scope, rows, snapshot) # {}
  <1> DEFINE Named == {r.access : r \in Rows}
  <1>0. \/ scope.type = "all"
        \/ scope.type = "providers" /\ scope.values # {}
        \/ scope.type = "accesses" /\ scope.values # {} /\ scope.values \subseteq Named
    <2> HIDE DEF Named
    <2>1. scope \in [type : {"all"}, values : {{}}, perimeter : BOOLEAN]
                    \cup [type : {"providers"}, values : (SUBSET Providers) \ {{}}, perimeter : BOOLEAN]
                    \cup [type : {"accesses"}, values : (SUBSET Named) \ {{}}, perimeter : BOOLEAN]
      BY DEF Scope, Named
    <2> QED
      BY <2>1
  <1>1. CASE scope.type = "all"
    BY <1>1 DEF RequiredProviders
  <1>2. CASE scope.type = "providers"
    BY <1>0, <1>2 DEF RequiredProviders
  <1>3. CASE scope.type = "accesses"
    <2>1. scope.values # {} /\ scope.values \subseteq Named
      BY <1>0, <1>3
    <2>2. PICK r \in Rows : r.access \in scope.values
      BY <2>1
    <2>3. r.access_provider \in RequiredProviders(scope, rows, snapshot)
      BY <1>3, <2>2 DEF RequiredProviders
    <2> QED
      BY <1>3, <2>3 DEF RequiredProviders
  <1> QED
    BY <1>0, <1>1, <1>2, <1>3

(* Items have a campaign that is there, and are of its rows.               *)
LEMMA ItemsArePresent ==
    ASSUME TablesInv, NEW i \in AllItems
    PROVE  /\ i[1] \in Campaigns /\ i[1] \in Present /\ i[2] \in Items(i[1]) /\ i[2] \in Rows
           /\ i = <<i[1], i[2]>> /\ campaign[i[1]].status \in {"open", "closed"}
  <1>1. PICK c \in Campaigns : i \in {<<c, r>> : r \in Items(c)}
    BY DEF AllItems
  <1> PICK r \in Items(c) : i = <<c, r>>
    BY <1>1
  <1>2. campaign[c].status \in {"open", "closed"} /\ r \in Rows
    BY DEF TablesInv, ItemsOfOpened
  <1> QED
    BY <1>1, <1>2 DEF Present

(* Once there is evidence, the web requires what the others require.       *)
LEMMA SameAudience ==
    ASSUME TablesInv, NEW c \in Campaigns, campaign[c].status \in {"open", "closed"}
    PROVE  CampaignRequired(c) = StoredRequired(c)
  BY DEF CampaignRequired, StoredRequired

(* An operator who may read a campaign has the providers of its evidence.  *)
LEMMA EvidenceInScope ==
    ASSUME NEW p, NEW rows, NEW required, ProvidersOf(rows) \subseteq required,
           Authorized(p, required), NEW r \in rows
    PROVE  BothInScope(p, r)
  BY DEF Authorized, ProvidersOf, BothInScope, InScope, AllDomains

(* The web and the stored evidence let the same readers in.                *)
LEMMA SameReaders ==
    ASSUME ReadAssumption, TablesInv, NEW p, NEW c \in Campaigns,
           campaign[c].status \in {"open", "closed"},
           Items(c) # {} \/ Covered # {}
    PROVE  c \in AuthorizedCampaigns(p) <=> Authorized(p, StoredRequired(c))
  <1>1. c \in Present
    BY DEF Present
  <1>2. StoredRequired(c) # {}
    <2>1. campaign[c].scope \in Scope
      BY DEF TablesInv, TablesTypeOK
    <2>2. /\ ProvidersOf(Items(c)) \subseteq StoredRequired(c)
          /\ Covered # {} => StoredRequired(c) # {}
      BY <2>1, RequiredAtLeast DEF StoredRequired
    <2>3. Items(c) # {} => ProvidersOf(Items(c)) # {}
      BY DEF ProvidersOf
    <2> QED
      BY <2>2, <2>3
  <1> QED
    BY <1>1, <1>2, SameAudience DEF AuthorizedCampaigns, MayAccess, Authorized

(* The providers of a campaign's items are in the domains of who reads it. *)
LEMMA ItemsInScope ==
    ASSUME ReadAssumption, TablesInv, NEW p, NEW i \in AllItems,
           i[1] \in AuthorizedCampaigns(p) \/ Authorized(p, StoredRequired(i[1]))
    PROVE  BothInScope(p, i[2]) /\ Authorized(p, StoredRequired(i[1]))
  <1>1. /\ i[1] \in Campaigns /\ i[2] \in Items(i[1])
        /\ campaign[i[1]].status \in {"open", "closed"}
    BY ItemsArePresent
  <1>2. Authorized(p, StoredRequired(i[1]))
    BY <1>1, SameReaders
  <1>3. campaign[i[1]].scope \in Scope
    BY <1>1 DEF TablesInv, TablesTypeOK
  <1>4. ProvidersOf(Items(i[1])) \subseteq StoredRequired(i[1])
    BY <1>3, RequiredAtLeast DEF StoredRequired
  <1> QED
    BY <1>1, <1>2, <1>4, EvidenceInScope

(* The assistant lists the review items the web lists.                     *)
LEMMA ReviewsAgree ==
    ASSUME ReadAssumption, TablesInv, NEW p
    PROVE  ChatReviews(p) = ReviewTable(p)
  <1>1. ASSUME NEW i \in AllItems
        PROVE  i \in ChatReviews(p) <=> i \in ReviewTable(p)
    <2>1. /\ i[1] \in Campaigns /\ i[1] \in Present /\ i[2] \in Items(i[1]) /\ i = <<i[1], i[2]>>
          /\ campaign[i[1]].status \in {"open", "closed"}
      BY ItemsArePresent
    <2>2. i[1] \in AuthorizedCampaigns(p) <=> Authorized(p, StoredRequired(i[1]))
      BY <2>1, SameReaders
    <2>3. CASE Operational(p)
      BY <2>1, <2>2, <2>3 DEF ChatReviews, ChatCampaigns, ReviewTable, Operational
    <2>4. CASE p.role = "GROUP_OWNER"
      BY <2>1, <2>4 DEF ChatReviews, ChatCampaigns, ReviewTable, Operational
    <2>5. CASE ~Operational(p) /\ p.role # "GROUP_OWNER"
      BY <2>5 DEF ChatReviews, ChatCampaigns, ReviewTable
    <2> QED
      BY <2>3, <2>4, <2>5
  <1>2. ChatReviews(p) \subseteq AllItems /\ ReviewTable(p) \subseteq AllItems
    BY DEF ChatReviews, ReviewTable
  <1> QED
    BY <1>1, <1>2

(* It lists the remediation actions the web lists, of items that are there.*)
LEMMA RemediationsAgree ==
    ASSUME ReadAssumption, TablesInv, NEW p
    PROVE  ChatRemediation(p) = RemediationTable(p) \cap AllItems
  <1>1. ASSUME NEW a \in actions, a \in AllItems
        PROVE  a \in ChatRemediation(p) <=> a \in RemediationTable(p)
    <2>1. /\ a[1] \in Campaigns /\ a[1] \in Present /\ a[2] \in Items(a[1])
          /\ campaign[a[1]].status \in {"open", "closed"}
      BY <1>1, ItemsArePresent
    <2>2. a[1] \in AuthorizedCampaigns(p) <=> Authorized(p, StoredRequired(a[1]))
      BY <2>1, SameReaders
    <2>3. Authorized(p, StoredRequired(a[1])) => InScope(p, a[2].access_provider)
      BY <1>1, ItemsInScope DEF BothInScope
    <2>4. a[1] \in ChatCampaigns(p) <=>
             \/ Operational(p) /\ Authorized(p, StoredRequired(a[1]))
             \/ p.role = "GROUP_OWNER" /\ \E r \in Items(a[1]) : IsReviewer(p, <<a[1], r>>)
      BY <2>1 DEF ChatCampaigns
    <2>5. CASE p.role = "ADMIN"
      BY <1>1, <2>4, <2>5 DEF ChatRemediation, RemediationTable, Operational, AllDomains, Authorized
    <2>6. CASE p.role = "OPERATOR"
      BY <1>1, <2>2, <2>3, <2>4, <2>6
         DEF ChatRemediation, RemediationTable, Operational, AllDomains, InScope
    <2>7. CASE p.role \notin {"ADMIN", "OPERATOR"}
      BY <1>1, <2>7 DEF ChatRemediation, RemediationTable, Operational, AllDomains, InScope
    <2> QED
      BY <2>5, <2>6, <2>7
  <1>2. ChatRemediation(p) \subseteq actions \cap AllItems /\ RemediationTable(p) \subseteq actions
    BY DEF ChatRemediation, RemediationTable
  <1> QED
    BY <1>1, <1>2

-----------------------------------------------------------------------------
(* The properties of a state follow from TablesInv.                        *)

LEMMA ItemIsListed ==
    ASSUME NEW c \in Campaigns, NEW r \in Items(c)
    PROVE  <<c, r>> \in AllItems
  BY DEF AllItems

(* What an operator is shown of one campaign.                              *)
LEMMA CampaignInDomains ==
    ASSUME ReadAssumption, TablesInv, NEW p, p.role = "OPERATOR", NEW c \in Campaigns,
           NEW r \in CampaignEvidence(p, c)
    PROVE  BothInScope(p, r)
  <1>1. ASSUME NEW q \in Items(c), c \in AuthorizedCampaigns(p) \/ c \in McpReports(p)
        PROVE  BothInScope(p, q)
    <2>1. <<c, q>> \in AllItems
      BY ItemIsListed
    <2>2. c \in AuthorizedCampaigns(p) \/ Authorized(p, StoredRequired(c))
      BY <1>1 DEF McpReports
    <2> QED
      BY <2>1, <2>2, ItemsInScope
  <1>2. ASSUME NEW i \in AllItems, i[1] \in AuthorizedCampaigns(p)
        PROVE  BothInScope(p, i[2])
    BY <1>2, ItemsInScope
  <1>3. CASE \E i \in Detail(p, c).items : r = i[2]
    BY <1>1, <1>3 DEF Detail
  <1>4. CASE \E i \in ApiReviewItems(p, c) : r = i[2]
    BY <1>1, <1>4 DEF ApiReviewItems
  <1>5. CASE \E i \in RemediationExport(p, c) : r = i[2]
    BY <1>2, <1>5 DEF RemediationExport, RemediationTable
  <1>6. CASE \E i \in ChatFindings(p, c) : r = i[2]
    BY <1>2, <1>6, ReviewsAgree DEF ChatFindings, ReviewTable, Operational
  <1>7. CASE \E line \in ReportRows(p, c) : r = line.row
    <2>1. PICK q \in Items(c) : r = ReportRow(<<c, q>>).row /\ c \in AuthorizedCampaigns(p)
      BY <1>7 DEF ReportRows
    <2>2. r = q
      BY <2>1 DEF ReportRow
    <2> QED
      BY <1>1, <2>1, <2>2
  <1>8. CASE \E line \in McpRows(p, c) : r = line.row
    <2>1. PICK q \in Items(c) : r = ReportRow(<<c, q>>).row /\ c \in McpReports(p)
      BY <1>8 DEF McpRows
    <2>2. r = q
      BY <2>1 DEF ReportRow
    <2> QED
      BY <1>1, <2>1, <2>2
  <1>9. CASE r \in Findings(p, c)
    BY <1>9 DEF Findings
  <1> QED
    BY <1>3, <1>4, <1>5, <1>6, <1>7, <1>8, <1>9 DEF CampaignEvidence

LEMMA OperatorInDomains ==
    ASSUME ReadAssumption, TablesInv, NEW p, p.role = "OPERATOR", NEW r \in OperatorEvidence(p)
    PROVE  BothInScope(p, r)
  <1>1. ASSUME NEW i \in AllItems, i[1] \in AuthorizedCampaigns(p)
        PROVE  BothInScope(p, i[2])
    BY <1>1, ItemsInScope
  <1>2. CASE r \in ChatAssignments(p)
    BY <1>2 DEF ChatAssignments
  <1>3. CASE r \in ApiGolden(p)
    <2>1. PICK rows : r \in rows /\ Authorized(p, ProvidersOf(rows))
      BY <1>3 DEF ApiGolden
    <2> QED
      BY <2>1, EvidenceInScope
  <1>4. CASE r \in ChatGolden(p)
    <2>1. PICK rows : r \in rows /\ Authorized(p, ProvidersOf(rows))
      BY <1>4 DEF ChatGolden
    <2> QED
      BY <2>1, EvidenceInScope
  <1>5. CASE \E i \in ReviewTable(p) \cup ChatReviews(p) : r = i[2]
    BY <1>1, <1>5, ReviewsAgree DEF ReviewTable, Operational
  <1>6. CASE \E a \in RemediationTable(p) \cup ChatRemediation(p) : r = a[2]
    BY <1>1, <1>6, RemediationsAgree DEF RemediationTable
  <1>7. CASE \E c \in Campaigns : r \in CampaignEvidence(p, c)
    BY <1>7, CampaignInDomains
  <1>8. CASE \E c \in Present : r \in Preview(p, campaign[c])
    <2>1. PICK c \in Present : r \in Preview(p, campaign[c])
      BY <1>8
    <2>2. campaign[c].scope \in Scope
      BY DEF Present, TablesInv, TablesTypeOK
    <2>3. PICK required : required = RequiredProviders(campaign[c].scope, Prepared(campaign[c]), Covered)
      OBVIOUS
    <2>4. ProvidersOf(Prepared(campaign[c])) \subseteq required
      BY <2>2, <2>3, RequiredAtLeast
    <2>5. /\ r \in Prepared(campaign[c])
          /\ AllDomains(p) \/ Authorized(p, required)
      BY <2>1, <2>3 DEF Preview
    <2>6. CASE AllDomains(p)
      BY <2>6 DEF BothInScope, InScope
    <2>7. CASE Authorized(p, required)
      BY <2>4, <2>5, <2>7, EvidenceInScope
    <2> QED
      BY <2>5, <2>6, <2>7
  <1> QED
    BY <1>2, <1>3, <1>4, <1>5, <1>6, <1>7, <1>8 DEF OperatorEvidence

LEMMA DomainsHold ==
    ASSUME ReadAssumption, TablesInv
    PROVE  EvidenceWithinDomains
  <1> SUFFICES ASSUME NEW p \in Readers
               PROVE  /\ p.role = "OPERATOR" => \A r \in OperatorEvidence(p) : BothInScope(p, r)
                      /\ p.role = "GROUP_OWNER" =>
                            \A i \in ReviewTable(p) \cup ChatReviews(p)
                                     \cup UNION {ApiReviewItems(p, c) : c \in Campaigns} :
                                IsReviewer(p, i)
    BY DEF EvidenceWithinDomains
  <1>1. p.role = "OPERATOR" => \A r \in OperatorEvidence(p) : BothInScope(p, r)
    BY OperatorInDomains
  <1>2. ASSUME p.role = "GROUP_OWNER",
               NEW i \in ReviewTable(p) \cup ChatReviews(p)
                         \cup UNION {ApiReviewItems(p, c) : c \in Campaigns}
        PROVE  IsReviewer(p, i)
    <2>1. CASE i \in ReviewTable(p)
      BY <1>2, <2>1 DEF ReviewTable, Operational
    <2>2. CASE i \in ChatReviews(p)
      BY <1>2, <2>2 DEF ChatReviews
    <2>3. CASE \E c \in Campaigns : i \in ApiReviewItems(p, c)
      BY <1>2, <2>3 DEF ApiReviewItems
    <2> QED
      BY <2>1, <2>2, <2>3
  <1> QED
    BY <1>1, <1>2

(* The reports of MCP are those of the web where there is an item to show. *)
LEMMA ReportsAgree ==
    ASSUME ReadAssumption, TablesInv, NEW p, NEW c \in Campaigns, Items(c) # {}
    PROVE  McpRows(p, c) = ReportRows(p, c)
  <1>1. campaign[c].status \in {"open", "closed"} /\ c \in Present
    BY DEF TablesInv, ItemsOfOpened, Present
  <1>2. c \in AuthorizedCampaigns(p) <=> Authorized(p, StoredRequired(c))
    BY <1>1, SameReaders
  <1>3. Authorized(p, StoredRequired(c)) => Operational(p)
    BY DEF Authorized, Operational
  <1> QED
    BY <1>1, <1>2, <1>3 DEF McpRows, ReportRows, McpReports

LEMMA WithinWebHolds ==
    ASSUME ReadAssumption, TablesInv
    PROVE  AssistantWithinWeb
  <1> SUFFICES ASSUME NEW p \in Readers
               PROVE  /\ ChatReviews(p) \subseteq ReviewTable(p)
                      /\ ChatRemediation(p) \subseteq RemediationTable(p)
                      /\ ChatAssignments(p) \subseteq AssignmentTable(p)
                      /\ ChatGolden(p) # {} => Operational(p)
                      /\ \A c \in Campaigns : McpRows(p, c) \subseteq ReportRows(p, c)
                      /\ {c \in McpReports(p) : campaign[c].status \in {"open", "closed"}}
                            \subseteq AuthorizedCampaigns(p)
    BY DEF AssistantWithinWeb
  <1>1. ChatReviews(p) \subseteq ReviewTable(p)
    BY ReviewsAgree
  <1>2. ChatRemediation(p) \subseteq RemediationTable(p)
    BY RemediationsAgree
  <1>3. ChatAssignments(p) \subseteq AssignmentTable(p)
    BY DEF ChatAssignments, AssignmentTable
  <1>4. ChatGolden(p) # {} => Operational(p)
    BY DEF ChatGolden, Authorized, Operational
  <1>5. ASSUME NEW c \in Campaigns PROVE McpRows(p, c) \subseteq ReportRows(p, c)
    <2>1. CASE Items(c) = {}
      BY <2>1 DEF McpRows
    <2> QED
      BY <2>1, ReportsAgree
  <1>6. ASSUME NEW c \in McpReports(p), campaign[c].status \in {"open", "closed"}
        PROVE  c \in AuthorizedCampaigns(p)
    <2>1. c \in Present /\ c \in Campaigns /\ Authorized(p, StoredRequired(c))
      BY DEF McpReports, Present
    <2>2. Authorized(p, CampaignRequired(c))
      BY <1>6, <2>1, SameAudience
    <2> QED
      BY <2>1, <2>2 DEF AuthorizedCampaigns, MayAccess, Authorized
  <1> QED
    BY <1>1, <1>2, <1>3, <1>4, <1>5, <1>6

(* The tiles of the dashboard, where the snapshot has a provider: without  *)
(* one, nobody but an administrator could read an open campaign that has   *)
(* no items, and the web lets every wildcard operator.                     *)
LEMMA DashboardsAgree ==
    ASSUME ReadAssumption, TablesInv, Covered # {}, NEW p, Operational(p)
    PROVE  ChatDashboard(p) = Dashboard(p)
  <1> DEFINE open == {c \in AuthorizedCampaigns(p) : campaign[c].status = "open"}
  <1>1. {c \in ChatCampaigns(p) : campaign[c].status = "open"} = open
    <2>1. ASSUME NEW c \in Present, campaign[c].status = "open"
          PROVE  c \in ChatCampaigns(p) <=> c \in AuthorizedCampaigns(p)
      <3>1. c \in Campaigns
        BY DEF Present
      <3>2. c \in AuthorizedCampaigns(p) <=> Authorized(p, StoredRequired(c))
        BY <2>1, <3>1, SameReaders
      <3> QED
        BY <3>2 DEF ChatCampaigns, Operational
    <2> QED
      BY <2>1 DEF ChatCampaigns, AuthorizedCampaigns
  <1>2. {i \in ChatReviews(p) : Latest(i) = "pending"}
          = {i \in AllItems : i[1] \in open /\ Latest(i) = "pending"}
    <2>1. ChatReviews(p) = {i \in AllItems : i[1] \in AuthorizedCampaigns(p)}
      BY ReviewsAgree DEF ReviewTable, Operational
    <2>2. ASSUME NEW i \in AllItems, i[1] \in AuthorizedCampaigns(p), Latest(i) = "pending"
          PROVE  i[1] \in open
      <3>1. /\ i[1] \in Campaigns /\ i[2] \in Items(i[1]) /\ i = <<i[1], i[2]>>
            /\ campaign[i[1]].status \in {"open", "closed"}
        BY ItemsArePresent
      <3>2. campaign[i[1]].status # "closed"
        <4>1. ASSUME NEW c \in Campaigns, NEW r \in Items(c), campaign[c].status = "closed"
              PROVE  Latest(<<c, r>>) # "pending"
          BY <4>1 DEF TablesInv, ActionsOfClosed
        <4> QED
          BY <2>2, <3>1, <4>1
      <3> QED
        BY <2>2, <3>1, <3>2
    <2> QED
      BY <2>1, <2>2
  <1> QED
    BY <1>1, <1>2, Zenon DEF ChatDashboard, Dashboard

(* A draft that is ready opens as it is; what a preview shows as without a *)
(* reviewer stops it.                                                      *)
LEMMA DraftsAgree ==
    ASSUME ReadAssumption, TablesInv, NEW p, NEW c \in Present
    PROVE  /\ ChatReadiness(p, c) = "ready" => OpensAsIs(c)
           /\ Unresolved(Preview(p, campaign[c])) # {} => ~OpensAsIs(c)
           /\ ScopeAccesses(p, campaign[c]) \subseteq Known(campaign[c])
  <1>1. PICK wide : wide = [campaign[c] EXCEPT !.scope.perimeter = FALSE]
    OBVIOUS
  <1>2. Prepared(campaign[c]) \subseteq Prepared(wide)
    <2>1. /\ wide.golden = campaign[c].golden /\ wide.scope.type = campaign[c].scope.type
          /\ wide.scope.values = campaign[c].scope.values
      <3>1. campaign[c] \in [status : {"absent", "draft", "open", "closed", "cancelled", "deleted"},
                             scope : Scope, golden : DOMAIN Expected]
        BY DEF Present, TablesInv, TablesTypeOK
      <3>2. \A s \in Scope : \E t, v, b : s = [type |-> t, values |-> v, perimeter |-> b]
        BY DEF Scope
      <3> QED
        BY <1>1, <3>1, <3>2
    <2>2. wide.scope.perimeter = FALSE
      <3>1. campaign[c] \in [status : {"absent", "draft", "open", "closed", "cancelled", "deleted"},
                             scope : Scope, golden : DOMAIN Expected]
        BY DEF Present, TablesInv, TablesTypeOK
      <3>2. \A s \in Scope : \E t, v, b : s = [type |-> t, values |-> v, perimeter |-> b]
        BY DEF Scope
      <3> QED
        BY <1>1, <3>1, <3>2
    <2> QED
      BY <2>1, <2>2 DEF Prepared, Selects
  <1>3. ChatReadiness(p, c) = "ready" => OpensAsIs(c)
    <2>1. CASE c \notin ChatCampaigns(p)
      BY <2>1 DEF ChatReadiness
    <2>2. CASE c \in ChatCampaigns(p) /\ campaign[c].status # "draft"
      BY <2>2 DEF ChatReadiness
    <2>3. CASE c \in ChatCampaigns(p) /\ campaign[c].status = "draft"
      <3>1. ChatReadiness(p, c) = IF Unresolved(Prepared(wide)) = {} THEN "ready" ELSE "blocked"
        BY <1>1, <2>3 DEF ChatReadiness
      <3>2. Unresolved(Prepared(wide)) = {} => Unresolved(Prepared(campaign[c])) = {}
        BY <1>2 DEF Unresolved
      <3> QED
        BY <2>3, <3>1, <3>2 DEF OpensAsIs
    <2> QED
      BY <2>1, <2>2, <2>3
  <1>4. Unresolved(Preview(p, campaign[c])) # {} => ~OpensAsIs(c)
    <2>1. Preview(p, campaign[c]) \subseteq Prepared(campaign[c])
      BY DEF Preview
    <2> QED
      BY <2>1 DEF Unresolved, OpensAsIs
  <1>5. ScopeAccesses(p, campaign[c]) \subseteq Known(campaign[c])
    BY DEF ScopeAccesses, Known
  <1> QED
    BY <1>3, <1>4, <1>5

(* A report asks for a change of an item exactly when closing does.        *)
LEMMA ReportAsks ==
    ASSUME NEW i
    PROVE  /\ ReportRow(i).row = i[2] /\ ReportRow(i).decision = Latest(i)
           /\ ReportRow(i).action # "No action" <=> ToRemedy(i)
           /\ Latest(i) = "revoke" => ReportRow(i).action # "No action"
  <1>1. CASE Latest(i) = "revoke"
    BY <1>1 DEF ReportRow, ToRemedy
  <1>2. CASE Latest(i) = "approve" /\ i[2] \notin Observed
    BY <1>2 DEF ReportRow, ToRemedy
  <1>3. CASE Latest(i) # "revoke" /\ ~(Latest(i) = "approve" /\ i[2] \notin Observed)
    BY <1>3 DEF ReportRow, ToRemedy
  <1> QED
    BY <1>1, <1>2, <1>3

(* The remediation plan of a closed campaign, for whoever reads it.        *)
LEMMA PlanIsReported ==
    ASSUME ReadAssumption, TablesInv, NEW p, Operational(p), NEW c \in AuthorizedCampaigns(p),
           campaign[c].status = "closed"
    PROVE  /\ {line.row : line \in {line \in ReportRows(p, c) : line.action # "No action"}}
                = {a[2] : a \in RemediationExport(p, c)}
           /\ Items(c) # {} =>
                 McpRemediation(p, c) \subseteq {line \in ReportRows(p, c) : line.action # "No action"}
  <1>1. c \in Campaigns
    BY DEF AuthorizedCampaigns, Present
  <1>2. ReportRows(p, c) = {ReportRow(<<c, r>>) : r \in Items(c)}
    BY DEF ReportRows
  <1>3. ASSUME NEW a PROVE a \in RemediationExport(p, c)
                             <=> \E r \in Items(c) : a = <<c, r>> /\ ToRemedy(<<c, r>>)
    <2>1. a \in RemediationExport(p, c) <=> a \in RemediationTable(p) /\ a[1] = c /\ a \in AllItems
      BY DEF RemediationExport
    <2>2. ASSUME a \in AllItems, a[1] = c
          PROVE  a \in RemediationTable(p) <=> a \in actions
      <3>1. InScope(p, a[2].access_provider)
        BY <2>2, ItemsInScope DEF BothInScope
      <3> QED
        BY <2>2, <3>1 DEF RemediationTable, Operational, InScope
    <2>3. a \in AllItems /\ a[1] = c <=> \E r \in Items(c) : a = <<c, r>>
      BY <1>1, ItemsArePresent, ItemIsListed
    <2>4. \A r \in Items(c) : <<c, r>> \in actions <=> ToRemedy(<<c, r>>)
      BY <1>1 DEF TablesInv, ActionsOfClosed
    <2> QED
      BY <2>1, <2>2, <2>3, <2>4
  <1>4. {line.row : line \in {line \in ReportRows(p, c) : line.action # "No action"}}
          = {a[2] : a \in RemediationExport(p, c)}
    <2>1. ASSUME NEW line \in ReportRows(p, c), line.action # "No action"
          PROVE  \E a \in RemediationExport(p, c) : line.row = a[2]
      <3>1. PICK r \in Items(c) : line = ReportRow(<<c, r>>)
        BY <1>2
      <3>2. ToRemedy(<<c, r>>) /\ line.row = r
        BY <2>1, <3>1, ReportAsks
      <3> QED
        BY <1>3, <3>2
    <2>2. ASSUME NEW a \in RemediationExport(p, c)
          PROVE  \E line \in ReportRows(p, c) : line.action # "No action" /\ a[2] = line.row
      <3>1. PICK r \in Items(c) : a = <<c, r>> /\ ToRemedy(<<c, r>>)
        BY <1>3
      <3> QED
        BY <1>2, <3>1, ReportAsks
    <2> QED
      BY <2>1, <2>2
  <1>5. ASSUME Items(c) # {}, NEW line \in McpRemediation(p, c)
        PROVE  line \in ReportRows(p, c) /\ line.action # "No action"
    <2>1. line \in ReportRows(p, c) /\ line.decision = "revoke"
      BY <1>1, <1>5, ReportsAgree DEF McpRemediation
    <2>2. PICK r \in Items(c) : line = ReportRow(<<c, r>>)
      BY <1>2, <2>1
    <2> QED
      BY <2>1, <2>2, ReportAsks
  <1> QED
    BY <1>4, <1>5

(* One campaign on its page, in the API, in its reports and for the        *)
(* assistant.                                                              *)
LEMMA CampaignViewsAgree ==
    ASSUME ReadAssumption, TablesInv, NEW p, NEW c \in DOMAIN CampaignTable(p), NEW items,
           items = {i \in ReviewTable(p) : i[1] = c}
    PROVE  /\ Detail(p, c).items = items
           /\ ApiReviewItems(p, c) = items
           /\ \A i \in items : ApiReviewItem(p, i)
           /\ CampaignTable(p)[c] = Progress(items)
           /\ items # {} => ChatSummary(p, c) = Progress(items) /\ McpRows(p, c) = ReportRows(p, c)
           /\ campaign[c].status = "closed" =>
                 LET changes == {line \in ReportRows(p, c) : line.action # "No action"}
                 IN /\ {line.row : line \in changes} = {a[2] : a \in RemediationExport(p, c)}
                    /\ items # {} => McpRemediation(p, c) \subseteq changes
  <1>1. Operational(p) /\ c \in AuthorizedCampaigns(p) /\ c \in Campaigns
    BY DEF CampaignTable, AuthorizedCampaigns, Present
  <1>2. items = {<<c, r>> : r \in Items(c)}
    <2>1. ReviewTable(p) = {i \in AllItems : i[1] \in AuthorizedCampaigns(p)}
      BY <1>1 DEF ReviewTable, Operational
    <2>2. \A i \in AllItems : i[1] = c => \E r \in Items(c) : i = <<c, r>>
      BY ItemsArePresent
    <2>3. \A r \in Items(c) : <<c, r>> \in AllItems
      BY <1>1, ItemIsListed
    <2> QED
      BY <1>1, <2>1, <2>2, <2>3
  <1>3. Detail(p, c).items = items
    BY <1>1, <1>2 DEF Detail
  <1>4. ApiReviewItems(p, c) = items
    BY <1>1, <1>2 DEF ApiReviewItems, Operational
  <1>5. \A i \in items : ApiReviewItem(p, i)
    BY <1>1, <1>2 DEF ApiReviewItem, Operational
  <1>6. CampaignTable(p)[c] = Progress(items)
    BY <1>1, <1>2 DEF CampaignTable
  <1>7. items # {} => ChatSummary(p, c) = Progress(items) /\ McpRows(p, c) = ReportRows(p, c)
    <2>1. ChatSummary(p, c) = Progress(items)
      BY ReviewsAgree DEF ChatSummary
    <2>2. items # {} => Items(c) # {}
      BY <1>2
    <2> QED
      BY <1>1, <2>1, <2>2, ReportsAgree
  <1>8. campaign[c].status = "closed" =>
           LET changes == {line \in ReportRows(p, c) : line.action # "No action"}
           IN /\ {line.row : line \in changes} = {a[2] : a \in RemediationExport(p, c)}
              /\ items # {} => McpRemediation(p, c) \subseteq changes
    <2>1. items # {} => Items(c) # {}
      BY <1>2
    <2> QED
      BY <1>1, <2>1, PlanIsReported
  <1> QED
    BY <1>3, <1>4, <1>5, <1>6, <1>7, <1>8

LEMMA SurfacesAgreeHolds ==
    ASSUME ReadAssumption, TablesInv, Covered # {}
    PROVE  SurfacesAgree
  <1> SUFFICES ASSUME NEW p \in Readers
               PROVE  /\ Operational(p) => ChatDashboard(p) = Dashboard(p)
                      /\ IdentityAccesses(p) \cap AccessHolders(p) = ChatAssignments(p)
                      /\ ChatProgress(p) = Progress(ReviewTable(p))
                      /\ Brief(p).reviews = Progress(ReviewTable(p)).total
                      /\ Brief(p).remediations = Cardinality(RemediationTable(p) \cap AllItems)
                      /\ \A c \in Present :
                            /\ ChatReadiness(p, c) = "ready" => OpensAsIs(c)
                            /\ Unresolved(Preview(p, campaign[c])) # {} => ~OpensAsIs(c)
                            /\ ScopeAccesses(p, campaign[c]) \subseteq Known(campaign[c])
                      /\ \A c \in Closable(p) : MayClose(c)
                      /\ ApiCampaigns(p) = CampaignTable(p)
                      /\ \A c \in DOMAIN CampaignTable(p) : \A items :
                            items = {i \in ReviewTable(p) : i[1] = c} =>
                            /\ Detail(p, c).items = items
                            /\ ApiReviewItems(p, c) = items
                            /\ \A i \in items : ApiReviewItem(p, i)
                            /\ CampaignTable(p)[c] = Progress(items)
                            /\ items # {} => ChatSummary(p, c) = Progress(items)
                                             /\ McpRows(p, c) = ReportRows(p, c)
                            /\ campaign[c].status = "closed" =>
                                  LET changes == {line \in ReportRows(p, c) : line.action # "No action"}
                                  IN /\ {line.row : line \in changes} = {a[2] : a \in RemediationExport(p, c)}
                                     /\ items # {} => McpRemediation(p, c) \subseteq changes
    BY Zenon DEF SurfacesAgree
  <1>1. Operational(p) => ChatDashboard(p) = Dashboard(p)
    BY DashboardsAgree
  <1>2. IdentityAccesses(p) \cap AccessHolders(p) = ChatAssignments(p)
    BY DEF IdentityAccesses, AccessHolders, ChatAssignments, BothInScope
  <1>3. ChatProgress(p) = Progress(ReviewTable(p))
    BY ReviewsAgree DEF ChatProgress
  <1>4. Brief(p).reviews = Progress(ReviewTable(p)).total
    BY ReviewsAgree DEF Brief, Progress
  <1>5. Brief(p).remediations = Cardinality(RemediationTable(p) \cap AllItems)
    BY RemediationsAgree DEF Brief
  <1>6. \A c \in Present :
           /\ ChatReadiness(p, c) = "ready" => OpensAsIs(c)
           /\ Unresolved(Preview(p, campaign[c])) # {} => ~OpensAsIs(c)
           /\ ScopeAccesses(p, campaign[c]) \subseteq Known(campaign[c])
    BY DraftsAgree
  <1>7. ASSUME NEW c \in Closable(p) PROVE MayClose(c)
    <2>1. /\ c \in AuthorizedCampaigns(p) /\ campaign[c].status = "open"
          /\ \A i \in AllItems : i[1] = c => Latest(i) # "pending"
      BY DEF Closable, Dashboard
    <2>2. c \in Campaigns
      BY <2>1 DEF AuthorizedCampaigns, Present
    <2>3. ASSUME NEW r \in Items(c) PROVE Latest(<<c, r>>) # "pending"
      BY <2>1, <2>2, ItemIsListed
    <2> QED
      BY <2>1, <2>3 DEF MayClose
  <1>8. ApiCampaigns(p) = CampaignTable(p)
    BY DEF ApiCampaigns, CampaignTable
  <1>9. \A c \in DOMAIN CampaignTable(p) : \A items :
           items = {i \in ReviewTable(p) : i[1] = c} =>
           /\ Detail(p, c).items = items
           /\ ApiReviewItems(p, c) = items
           /\ \A i \in items : ApiReviewItem(p, i)
           /\ CampaignTable(p)[c] = Progress(items)
           /\ items # {} => ChatSummary(p, c) = Progress(items)
                            /\ McpRows(p, c) = ReportRows(p, c)
           /\ campaign[c].status = "closed" =>
                 LET changes == {line \in ReportRows(p, c) : line.action # "No action"}
                 IN /\ {line.row : line \in changes} = {a[2] : a \in RemediationExport(p, c)}
                    /\ items # {} => McpRemediation(p, c) \subseteq changes
    BY Zenon, CampaignViewsAgree
  <1> QED
    BY <1>1, <1>2, <1>3, <1>4, <1>5, <1>6, <1>7, <1>8, <1>9

-----------------------------------------------------------------------------
(* A step keeps the audience of a campaign.                                *)

(* What a step does to the items of a campaign that stays: its opening     *)
(* gives it the rows it prepared, and no other step adds or takes one.     *)
LEMMA StepOfCampaign ==
    ASSUME ReadAssumption, TablesInv, TablesNext, NEW c \in Present,
           campaign'[c].status # "deleted"
    PROVE  \/ Items(c)' = Items(c) /\ campaign'[c].status = campaign[c].status
           \/ Items(c)' = Items(c) /\ {campaign[c].status, campaign'[c].status} \subseteq {"open", "closed"}
           \/ Items(c)' = {} /\ Items(c) = {} /\ campaign[c].status = "draft"
              /\ campaign'[c].status \in {"draft", "cancelled"}
           \/ /\ Items(c) = {} /\ Items(c)' = Prepared(campaign[c]) /\ linked' = linked
              /\ campaign[c].status = "draft" /\ campaign'[c].status = "open"
  <1>0. /\ c \in Campaigns /\ campaign[c].status \notin {"absent", "deleted"}
        /\ campaign[c].status = "draft" => Items(c) = {}
        /\ \A d \in Campaigns : campaign[d] \in
              [status : {"absent", "draft", "open", "closed", "cancelled", "deleted"},
               scope : Scope, golden : DOMAIN Expected]
        /\ DOMAIN campaign = Campaigns /\ DOMAIN review = Campaigns
    BY DEF Present, TablesInv, TablesTypeOK, ItemsOfOpened
  <1>1. ASSUME NEW d \in Campaigns, NEW s \in Scopes, NEW g \in DOMAIN Expected,
               LET row == [status |-> "draft", scope |-> s, golden |-> g]
               IN Create(d, row) \/ Update(d, row)
        PROVE  /\ Items(c)' = Items(c)
               /\ \/ campaign'[c].status = campaign[c].status
                  \/ campaign[c].status = "draft" /\ campaign'[c].status = "draft"
    <2>1. PICK row : row = [status |-> "draft", scope |-> s, golden |-> g]
      OBVIOUS
    <2>2. /\ campaign[d].status \in {"absent", "draft"}
          /\ campaign' = [campaign EXCEPT ![d] = row] /\ review' = review
      BY <1>1, <2>1 DEF Create, Update
    <2>3. row.status = "draft"
      BY <2>1
    <2> QED
      BY <1>0, <2>2, <2>3 DEF Items
  <1>2. ASSUME NEW d \in Campaigns, Open(d)
        PROVE  \/ Items(c)' = Items(c) /\ campaign'[c].status = campaign[c].status
               \/ /\ Items(c) = {} /\ Items(c)' = Prepared(campaign[c]) /\ linked' = linked
                  /\ campaign[c].status = "draft" /\ campaign'[c].status = "open"
    <2>1. CASE c = d
      BY <1>0, <1>2, <2>1 DEF Open, Items
    <2>2. CASE c # d
      BY <1>0, <1>2, <2>2 DEF Open, Items
    <2> QED
      BY <2>1, <2>2
  <1>3. ASSUME NEW d \in Campaigns, Cancel(d)
        PROVE  /\ Items(c)' = Items(c)
               /\ \/ campaign'[c].status = campaign[c].status
                  \/ campaign[c].status = "draft" /\ campaign'[c].status = "cancelled"
    BY <1>0, <1>3 DEF Cancel, Items
  <1>4. ASSUME NEW d \in Campaigns, Close(d)
        PROVE  /\ Items(c)' = Items(c)
               /\ \/ campaign'[c].status = campaign[c].status
                  \/ campaign[c].status = "open" /\ campaign'[c].status = "closed"
    BY <1>0, <1>4 DEF Close, MayClose, Items
  <1>5. ASSUME NEW d \in Campaigns, Delete(d)
        PROVE  Items(c)' = Items(c) /\ campaign'[c].status = campaign[c].status
    <2>1. campaign' = [campaign EXCEPT ![d] = Row("deleted")] /\ review' = [review EXCEPT ![d] = <<>>]
      BY <1>5 DEF Delete
    <2>2. c # d
      BY <1>0, <2>1 DEF Row
    <2> QED
      BY <1>0, <2>1, <2>2 DEF Items
  <1>6. ASSUME NEW d \in Campaigns, NEW r \in Items(d), NEW v \in {"approve", "revoke"},
               Decide(d, r, v)
        PROVE  Items(c)' = Items(c) /\ campaign'[c].status = campaign[c].status
    BY <1>0, <1>6 DEF Decide, Items
  <1>7. CASE SaveGolden
    BY <1>7 DEF SaveGolden, Items
  <1>8. ASSUME NEW r \in Linkable, Relink(r)
        PROVE  Items(c)' = Items(c) /\ campaign'[c].status = campaign[c].status
    BY <1>8 DEF Relink, Items
  <1> QED
    <2>1. PICK d \in Campaigns :
            \/ \E s \in Scopes, g \in DOMAIN Expected :
                  LET row == [status |-> "draft", scope |-> s, golden |-> g]
                  IN Create(d, row) \/ Update(d, row)
            \/ Open(d) \/ Cancel(d) \/ Close(d) \/ Delete(d)
            \/ \E r \in Items(d), v \in {"approve", "revoke"} : Decide(d, r, v)
            \/ SaveGolden
            \/ \E r \in Linkable : Relink(r)
      BY <1>0 DEF TablesNext
    <2>2. CASE \E s \in Scopes, g \in DOMAIN Expected :
                  LET row == [status |-> "draft", scope |-> s, golden |-> g]
                  IN Create(d, row) \/ Update(d, row)
      BY <1>0, <1>1, <2>2
    <2>3. CASE Cancel(d) \/ Close(d)
      BY <1>0, <1>3, <1>4, <2>3
    <2>4. CASE Open(d) \/ Delete(d)
      BY <1>2, <1>5, <2>4
    <2>5. CASE \E r \in Items(d), v \in {"approve", "revoke"} : Decide(d, r, v)
      BY <1>6, <2>5
    <2>6. CASE SaveGolden \/ \E r \in Linkable : Relink(r)
      BY <1>7, <1>8, <2>6 DEF SaveGolden, Items
    <2> QED
      BY <2>1, <2>2, <2>3, <2>4, <2>5, <2>6

LEMMA AudienceStep ==
    ASSUME ReadAssumption, TablesInv, TablesNext, NEW c \in Present,
           campaign'[c].status # "deleted",
           campaign'[c].scope = campaign[c].scope,
           campaign'[c].golden = campaign[c].golden,
           linked' = linked \/ campaign[c].status \in {"open", "closed"},
           NEW p
    PROVE  MayAccess(p, c) = MayAccess(p, c)'
  <1>1. c \in Campaigns
    BY DEF Present
  <1>2. linked' = linked => Prepared(campaign[c])' = Prepared(campaign[c])
    BY DEF Prepared, Selects
  <1>3. CampaignRequired(c) = CampaignRequired(c)'
    <2> DEFINE Evidence(status, items, rows) ==
                  IF status \in {"open", "closed", "cancelled"} /\ items # {} THEN items
                  ELSE IF status \in {"open", "closed"} THEN {} ELSE rows
    <2>1. PICK s, s1, i, i1, r, r1 :
            /\ s = campaign[c].status /\ s1 = campaign'[c].status
            /\ i = Items(c) /\ i1 = Items(c)'
            /\ r = Prepared(campaign[c]) /\ r1 = Prepared(campaign[c])'
      OBVIOUS
    <2>2. \/ i1 = i /\ s1 = s
          \/ i1 = i /\ {s, s1} \subseteq {"open", "closed"}
          \/ i1 = {} /\ i = {} /\ s = "draft" /\ s1 \in {"draft", "cancelled"}
          \/ i = {} /\ i1 = r /\ linked' = linked /\ s = "draft" /\ s1 = "open"
      BY <2>1, StepOfCampaign
    <2>3. linked' = linked \/ s \in {"open", "closed"}
      BY <2>1
    <2>4. linked' = linked => r1 = r
      BY <1>2, <2>1
    <2>5. Evidence(s, i, r) = Evidence(s1, i1, r1)
      BY <2>2, <2>3, <2>4
    <2>6. CampaignRequired(c) = RequiredProviders(campaign[c].scope, Evidence(s, i, r), Covered)
      BY <2>1 DEF CampaignRequired
    <2>7. CampaignRequired(c)' = RequiredProviders(campaign'[c].scope, Evidence(s1, i1, r1), Covered)
      BY <2>1 DEF CampaignRequired
    <2> HIDE DEF Evidence
    <2> QED
      BY <2>5, <2>6, <2>7
  <1> QED
    BY <1>3 DEF MayAccess

-----------------------------------------------------------------------------
(* The request: whose conversation, under which authority.                 *)

(* Every account that may answer for the person goes by their name.        *)
LEMMA OneName ==
    ASSUME ChatbotAssumption, NEW k, NEW a \in Accounts, NEW b \in Accounts, Belongs(k, a.name)
    PROVE  Belongs(k, b.name) /\ a.name # None
  BY DEF ChatbotAssumption, Belongs

LEMMA ChatStart ==
    ASSUME ChatbotAssumption, Init
    PROVE  ChatInv
  <1>1. /\ account \in Accounts /\ owner = Others /\ req = Idle
        /\ messages = {<<k, Others[k]>> : k \in {k \in Conversations : Others[k] # None}}
    BY DEF Init
  <1>2. ChatTypeOK
    BY <1>1 DEF ChatTypeOK, Idle, ChatbotAssumption
  <1>3. AuthorityInv
    BY <1>1 DEF AuthorityInv, Idle
  <1>4. ConversationsInv
    BY <1>1 DEF ConversationsInv, Belongs, Idle
  <1> QED
    BY <1>2, <1>3, <1>4 DEF ChatInv

(* What a step of the request itself does, when it touches no conversation.*)
LEMMA RequestMoves ==
    ASSUME ChatInv, UNCHANGED <<account, owner, messages>>, ChatTypeOK', AuthorityInv',
           req'.pc \in {"append", "ask", "call", "read", "reply"} =>
              req'.conv \in Conversations /\ Belongs(req'.conv, req'.ctx.name)
    PROVE  ChatInv'
  BY DEF ChatInv, ConversationsInv

LEMMA ReceivePreserves ==
    ASSUME ChatbotAssumption, ChatInv, Receive
    PROVE  ChatInv'
  <1>1. PICK k \in Conversations \cup {None} : req' = [Idle EXCEPT !.pc = "own", !.conv = k, !.ctx = account]
    BY DEF Receive
  <1>2. /\ account \in Accounts /\ UNCHANGED <<account, owner, messages>>
    BY DEF Receive, ChatInv, ChatTypeOK
  <1>3. ChatTypeOK'
    BY <1>1, <1>2 DEF ChatInv, ChatTypeOK, Idle
  <1>4. req'.pc = "own" /\ req'.ctx = account
    BY <1>1 DEF Idle
  <1>5. AuthorityInv'
    BY <1>2, <1>4 DEF AuthorityInv
  <1> QED
    BY <1>2, <1>3, <1>4, <1>5, RequestMoves

LEMMA OwnPreserves ==
    ASSUME ChatbotAssumption, ChatInv, Own
    PROVE  ChatInv'
  <1>1. req.pc = "own" /\ req.ctx \in Accounts /\ UNCHANGED <<account, messages>>
    BY DEF Own, ChatInv, AuthorityInv
  <1>2. CASE req.conv = None
    <2>1. PICK k \in Conversations :
            /\ Fresh(k) /\ owner' = [owner EXCEPT ![k] = req.ctx.name]
            /\ req' = [req EXCEPT !.pc = "append", !.conv = k]
      BY <1>2 DEF Own
    <2>2. ChatTypeOK'
      BY <1>1, <2>1 DEF ChatInv, ChatTypeOK
    <2>3. req'.pc = "append" /\ req'.conv = k /\ req'.ctx = req.ctx
      BY <2>1 DEF ChatInv, ChatTypeOK
    <2>4. AuthorityInv'
      BY <1>1, <2>3 DEF AuthorityInv
    <2>5. Belongs(k, req.ctx.name)
      BY <1>1, <2>1 DEF Belongs, Fresh
    <2>6. \A d \in Conversations : owner'[d] = IF d = k THEN req.ctx.name ELSE owner[d]
      BY <2>1 DEF ChatInv, ChatTypeOK
    <2>7. ConversationsInv'
      BY <1>1, <2>3, <2>5, <2>6 DEF ChatInv, ConversationsInv
    <2> QED
      BY <2>2, <2>4, <2>7 DEF ChatInv
  <1>3. CASE req.conv # None /\ OwnedBy(req.conv, req.ctx.name)
    <2>1. req' = [req EXCEPT !.pc = "append"] /\ owner' = owner
      BY <1>3 DEF Own
    <2>2. ChatTypeOK'
      BY <1>1, <2>1 DEF ChatInv, ChatTypeOK
    <2>3. req'.pc = "append" /\ req'.conv = req.conv /\ req'.ctx = req.ctx
      BY <2>1 DEF ChatInv, ChatTypeOK
    <2>4. AuthorityInv'
      BY <1>1, <2>3 DEF AuthorityInv
    <2>5. req.conv \in Conversations /\ Belongs(req.conv, req.ctx.name)
      <3>1. req.conv \in Conversations /\ owner[req.conv] = req.ctx.name
        BY <1>3 DEF ChatInv, ChatTypeOK, OwnedBy
      <3>2. req.ctx.name # None
        BY <1>1 DEF ChatbotAssumption
      <3> QED
        BY <3>1, <3>2 DEF ChatInv, ConversationsInv
    <2> QED
      BY <1>1, <2>1, <2>2, <2>3, <2>4, <2>5, RequestMoves
  <1>4. CASE req.conv # None /\ ~OwnedBy(req.conv, req.ctx.name)
    <2>1. req' = Idle /\ owner' = owner
      BY <1>4 DEF Own
    <2>2. ChatTypeOK'
      BY <1>1, <2>1 DEF ChatInv, ChatTypeOK, Idle
    <2>3. AuthorityInv' /\ req'.pc = "idle"
      BY <2>1 DEF AuthorityInv, Idle
    <2> QED
      BY <1>1, <2>1, <2>2, <2>3, RequestMoves
  <1> QED
    BY <1>2, <1>3, <1>4

(* A message is stored, and the request goes on or is over.                *)
LEMMA AppendPreserves ==
    ASSUME ChatbotAssumption, ChatInv, req.pc \in {"append", "reply"}, NEW next,
           next = Idle \/ next = [req EXCEPT !.pc = "ask"], AppendThen(next)
    PROVE  ChatInv'
  <1>1. /\ messages' = messages \cup {<<req.conv, req.ctx.name>>}
        /\ req' = Idle \/ req' = [req EXCEPT !.pc = "ask"]
        /\ account' = account /\ owner' = owner
    BY DEF AppendThen
  <1>2. req.conv \in Conversations /\ Belongs(req.conv, req.ctx.name) /\ req.ctx \in Accounts
    BY DEF ChatInv, ConversationsInv, AuthorityInv
  <1>3. ChatTypeOK'
    BY <1>1 DEF ChatInv, ChatTypeOK, Idle
  <1>4. \/ req'.pc = "idle"
        \/ req'.pc = "ask" /\ req'.conv = req.conv /\ req'.ctx = req.ctx
    BY <1>1 DEF ChatInv, ChatTypeOK, Idle
  <1>5. AuthorityInv'
    BY <1>2, <1>4 DEF AuthorityInv
  <1>6. ConversationsInv'
    BY <1>1, <1>2, <1>4 DEF ChatInv, ConversationsInv
  <1> QED
    BY <1>3, <1>5, <1>6 DEF ChatInv

(* The model answers or is given up.                                       *)
LEMMA ModelPreserves ==
    ASSUME ChatbotAssumption, ChatInv, GiveUp \/ ModelAnswers
    PROVE  ChatInv'
  <1>1. /\ req.pc = "ask" /\ UNCHANGED <<account, owner, messages>>
        /\ req.ctx \in Accounts
        /\ req.conv \in Conversations /\ Belongs(req.conv, req.ctx.name)
    BY DEF GiveUp, ModelAnswers, ChatInv, AuthorityInv, ConversationsInv
  <1>2. CASE GiveUp
    <2>1. req' = [req EXCEPT !.pc = "reply"]
      BY <1>2 DEF GiveUp
    <2>2. ChatTypeOK'
      BY <1>1, <2>1 DEF ChatInv, ChatTypeOK
    <2>3. req'.pc = "reply" /\ req'.conv = req.conv /\ req'.ctx = req.ctx
      BY <2>1 DEF ChatInv, ChatTypeOK
    <2>4. AuthorityInv'
      BY <1>1, <2>3 DEF AuthorityInv
    <2> QED
      BY <1>1, <2>2, <2>3, <2>4, RequestMoves
  <1>3. CASE ModelAnswers
    <2>1. PICK n \in 0 .. MaxCalls :
            req' = [req EXCEPT !.pc = IF n = 0 THEN "reply" ELSE "call",
                               !.rounds = req.rounds + 1, !.todo = n,
                               !.held = {account} \ {None}]
      BY <1>3 DEF ModelAnswers
    <2>2. PICK pc : pc = IF n = 0 THEN "reply" ELSE "call"
      OBVIOUS
    <2>3. PICK held \in SUBSET Accounts : held = {account} \ {None}
      BY DEF ChatInv, ChatTypeOK
    <2>4. PICK rounds \in Nat : rounds = req.rounds + 1
      BY DEF ChatInv, ChatTypeOK
    <2>5. /\ n \in Nat /\ pc \in {"reply", "call"}
          /\ pc = "call" => n > 0
      BY <2>2 DEF ChatbotAssumption
    <2>6. req' = [req EXCEPT !.pc = pc, !.rounds = rounds, !.todo = n, !.held = held]
      BY <2>1, <2>2, <2>3, <2>4
    <2>7. ChatTypeOK'
      BY <1>1, <2>5, <2>6 DEF ChatInv, ChatTypeOK
    <2>8. /\ req'.pc = pc /\ req'.conv = req.conv /\ req'.ctx = req.ctx /\ req'.todo = n
          /\ req'.held = held
      BY <2>6 DEF ChatInv, ChatTypeOK
    <2>9. AuthorityInv'
      BY <1>1, <2>3, <2>5, <2>8 DEF AuthorityInv
    <2> QED
      BY <1>1, <2>5, <2>7, <2>8, <2>9, RequestMoves
  <1> QED
    BY <1>2, <1>3

(* The answer to one tool counts it and leaves the rest to do.             *)
LEMMA AnsweredMoves ==
    ASSUME ChatInv, req.pc \in {"call", "read"}, NEW next,
           next \in [pc : {"call", "read"}, conv : Conversations, ctx : Accounts,
                     rounds : Nat, calls : Nat, todo : Nat, tool : Tools \cup {None},
                     held : SUBSET Accounts],
           next.todo = req.todo, next.held = req.held
    PROVE  /\ Answered(next) \in [pc : {"ask", "call"}, conv : Conversations,
                                  ctx : Accounts, rounds : Nat, calls : Nat, todo : Nat,
                                  tool : Tools \cup {None}, held : SUBSET Accounts]
           /\ Answered(next).conv = next.conv /\ Answered(next).ctx = next.ctx
           /\ Answered(next).pc = "call" => Answered(next).todo > 0 /\ Answered(next).held = req.held
  <1>1. req.todo \in Nat /\ req.todo > 0 /\ req.held \in SUBSET Accounts
    BY DEF ChatInv, ChatTypeOK, AuthorityInv
  <1>2. CASE req.todo = 1
    <2>1. Answered(next) = [next EXCEPT !.todo = 0, !.tool = None, !.pc = "ask", !.held = {}]
      BY <1>1, <1>2 DEF Answered
    <2>2. Answered(next) = [pc |-> "ask", conv |-> next.conv, ctx |-> next.ctx,
                            rounds |-> next.rounds, calls |-> next.calls, todo |-> 0,
                            tool |-> None, held |-> {}]
      BY <2>1
    <2> QED
      BY <2>2
  <1>3. CASE req.todo # 1
    <2>1. PICK left \in Nat : left = next.todo - 1 /\ left > 0
      BY <1>1, <1>3
    <2>2. Answered(next) = [next EXCEPT !.todo = left, !.tool = None, !.pc = "call", !.held = next.held]
      BY <1>1, <1>3, <2>1 DEF Answered
    <2> QED
      BY <1>1, <2>1, <2>2
  <1> QED
    BY <1>2, <1>3

LEMMA CallPreserves ==
    ASSUME ChatbotAssumption, ChatInv, Call
    PROVE  ChatInv'
  <1>1. /\ req.pc = "call" /\ UNCHANGED <<account, owner, messages>>
        /\ req.ctx \in Accounts /\ account \in req.held \cup {None}
        /\ req.conv \in Conversations /\ Belongs(req.conv, req.ctx.name)
        /\ req.todo > 0
    BY DEF Call, ChatInv, AuthorityInv, ConversationsInv
  <1>2. CASE req' = [req EXCEPT !.pc = "reply", !.held = {}, !.todo = 0]
    <2>1. ChatTypeOK'
      BY <1>1, <1>2 DEF ChatInv, ChatTypeOK
    <2>2. req'.pc = "reply" /\ req'.conv = req.conv /\ req'.ctx = req.ctx
      BY <1>2 DEF ChatInv, ChatTypeOK
    <2>3. AuthorityInv'
      BY <1>1, <2>2 DEF AuthorityInv
    <2> QED
      BY <1>1, <2>1, <2>2, <2>3, RequestMoves
  <1>3. ASSUME account # None, NEW called, called = [req EXCEPT !.calls = req.calls + 1, !.ctx = account],
               \/ req' = Answered(called)
               \/ \E t \in Tools : req' = [called EXCEPT !.pc = "read", !.tool = t]
        PROVE  ChatInv'
    <2>1. PICK calls \in Nat : calls = req.calls + 1
      BY DEF ChatInv, ChatTypeOK
    <2>2. account \in Accounts /\ account \in req.held
      BY <1>1, <1>3 DEF ChatInv, ChatTypeOK
    <2>3. called = [pc |-> "call", conv |-> req.conv, ctx |-> account, rounds |-> req.rounds,
                    calls |-> calls, todo |-> req.todo, tool |-> req.tool, held |-> req.held]
      BY <1>1, <1>3, <2>1 DEF ChatInv, ChatTypeOK
    <2>4. called \in [pc : {"call", "read"}, conv : Conversations, ctx : Accounts,
                      rounds : Nat, calls : Nat, todo : Nat, tool : Tools \cup {None},
                      held : SUBSET Accounts]
      BY <1>1, <2>2, <2>3 DEF ChatInv, ChatTypeOK
    <2>5. called.todo = req.todo /\ called.held = req.held /\ called.conv = req.conv /\ called.ctx = account
      BY <2>3
    <2>6. Belongs(req.conv, account.name)
      BY <1>1, <2>2, OneName
    <2>7. CASE req' = Answered(called)
      <3>1. /\ req' \in [pc : {"ask", "call"}, conv : Conversations, ctx : Accounts,
                         rounds : Nat, calls : Nat, todo : Nat, tool : Tools \cup {None},
                         held : SUBSET Accounts]
            /\ req'.conv = req.conv /\ req'.ctx = account
            /\ req'.pc = "call" => req'.todo > 0 /\ req'.held = req.held
        BY <1>1, <2>4, <2>5, <2>7, AnsweredMoves
      <3>2. ChatTypeOK'
        BY <1>1, <3>1 DEF ChatInv, ChatTypeOK
      <3>3. AuthorityInv'
        BY <1>1, <2>2, <3>1 DEF AuthorityInv
      <3> QED
        BY <1>1, <2>6, <3>1, <3>2, <3>3, RequestMoves
    <2>8. CASE \E t \in Tools : req' = [called EXCEPT !.pc = "read", !.tool = t]
      <3>1. PICK t \in Tools : req' = [called EXCEPT !.pc = "read", !.tool = t]
        BY <2>8
      <3>2. /\ req'.pc = "read" /\ req'.tool = t /\ req'.conv = req.conv /\ req'.ctx = account
            /\ req'.todo = req.todo /\ req'.held = req.held
        BY <2>3, <3>1
      <3>3. ChatTypeOK'
        BY <1>1, <2>4, <3>1 DEF ChatInv, ChatTypeOK
      <3>4. AuthorityInv'
        BY <1>1, <2>2, <3>2 DEF AuthorityInv
      <3> QED
        BY <1>1, <2>6, <3>2, <3>3, <3>4, RequestMoves
    <2> QED
      BY <1>3, <2>7, <2>8
  <1>4. \/ req' = [req EXCEPT !.pc = "reply", !.held = {}, !.todo = 0]
        \/ /\ account # None
           /\ \E called : /\ called = [req EXCEPT !.calls = req.calls + 1, !.ctx = account]
                          /\ \/ req' = Answered(called)
                             \/ \E t \in Tools : req' = [called EXCEPT !.pc = "read", !.tool = t]
    <2>1. PICK called : called = [req EXCEPT !.calls = req.calls + 1, !.ctx = account]
      OBVIOUS
    <2>2. req' \in {[req EXCEPT !.pc = "reply", !.held = {}, !.todo = 0]} \cup
                   (IF req.calls = MaxToolCalls \/ account = None THEN {}
                    ELSE {Answered(called)} \cup {[called EXCEPT !.pc = "read", !.tool = t] : t \in Tools})
      BY <2>1 DEF Call, Resolved
    <2> QED
      BY <2>1, <2>2
  <1> QED
    BY <1>2, <1>3, <1>4

LEMMA ReadPreserves ==
    ASSUME ChatbotAssumption, ChatInv, Read
    PROVE  ChatInv'
  <1>1. /\ req.pc = "read" /\ UNCHANGED <<account, owner, messages>> /\ req' = Answered(req)
        /\ req.ctx \in Accounts /\ account \in req.held \cup {None}
        /\ req.conv \in Conversations /\ Belongs(req.conv, req.ctx.name)
    BY DEF Read, ChatInv, AuthorityInv, ConversationsInv
  <1>2. req \in [pc : {"call", "read"}, conv : Conversations, ctx : Accounts,
                 rounds : Nat, calls : Nat, todo : Nat, tool : Tools \cup {None},
                 held : SUBSET Accounts]
    BY <1>1 DEF ChatInv, ChatTypeOK
  <1>3. /\ req' \in [pc : {"ask", "call"}, conv : Conversations, ctx : Accounts,
                     rounds : Nat, calls : Nat, todo : Nat, tool : Tools \cup {None},
                     held : SUBSET Accounts]
        /\ req'.conv = req.conv /\ req'.ctx = req.ctx
        /\ req'.pc = "call" => req'.todo > 0 /\ req'.held = req.held
    BY <1>1, <1>2, AnsweredMoves
  <1>4. ChatTypeOK'
    BY <1>1, <1>3 DEF ChatInv, ChatTypeOK
  <1>5. AuthorityInv'
    BY <1>1, <1>3 DEF AuthorityInv
  <1> QED
    BY <1>1, <1>3, <1>4, <1>5, RequestMoves

LEMMA AccountPreserves ==
    ASSUME ChatbotAssumption, ChatInv, AccountChanges
    PROVE  ChatInv'
  <1>1. /\ account' \in Accounts \cup {None} /\ owner' = owner /\ messages' = messages
        /\ req' = IF req.pc \in {"call", "read"} THEN [req EXCEPT !.held = req.held \cup ({account'} \ {None})]
                  ELSE req
    BY DEF AccountChanges
  <1>2. CASE req.pc \notin {"call", "read"}
    <2>1. req' = req
      BY <1>1, <1>2
    <2>2. ChatTypeOK'
      BY <1>1, <2>1 DEF ChatInv, ChatTypeOK
    <2>3. AuthorityInv'
      BY <1>2, <2>1 DEF ChatInv, AuthorityInv
    <2>4. ConversationsInv'
      BY <1>1, <2>1 DEF ChatInv, ConversationsInv
    <2> QED
      BY <2>2, <2>3, <2>4 DEF ChatInv
  <1>3. CASE req.pc \in {"call", "read"}
    <2>1. PICK held \in SUBSET Accounts : held = req.held \cup ({account'} \ {None})
      BY <1>1 DEF ChatInv, ChatTypeOK
    <2>2. req' = [req EXCEPT !.held = held]
      BY <1>1, <1>3, <2>1
    <2>3. ChatTypeOK'
      BY <1>1, <2>2 DEF ChatInv, ChatTypeOK
    <2>4. /\ req'.pc = req.pc /\ req'.ctx = req.ctx /\ req'.conv = req.conv /\ req'.todo = req.todo
          /\ req'.tool = req.tool /\ req'.held = held
      BY <2>2 DEF ChatInv, ChatTypeOK
    <2>5. account' \in held \cup {None} /\ req.held \subseteq held
      BY <2>1
    <2>6. AuthorityInv'
      BY <2>4, <2>5 DEF ChatInv, AuthorityInv
    <2>7. ConversationsInv'
      BY <1>1, <2>4 DEF ChatInv, ConversationsInv
    <2> QED
      BY <2>3, <2>6, <2>7 DEF ChatInv
  <1> QED
    BY <1>2, <1>3

LEMMA CleanupPreserves ==
    ASSUME ChatbotAssumption, ChatInv, NEW k \in Conversations, Cleanup(k)
    PROVE  ChatInv'
  <1>1. /\ messages' \subseteq messages /\ owner' = [owner EXCEPT ![k] = None]
        /\ account' = account /\ req' = req
    BY DEF Cleanup
  <1>2. ChatTypeOK'
    BY <1>1 DEF ChatInv, ChatTypeOK
  <1>3. AuthorityInv'
    BY <1>1 DEF ChatInv, AuthorityInv
  <1>4. \A d \in Conversations : owner'[d] \in {None, owner[d]}
    BY <1>1 DEF ChatInv, ChatTypeOK
  <1>5. ConversationsInv'
    BY <1>1, <1>4 DEF ChatInv, ConversationsInv
  <1> QED
    BY <1>2, <1>3, <1>5 DEF ChatInv

LEMMA ChatStep ==
    ASSUME ChatbotAssumption, ChatInv, [Next]_vars
    PROVE  ChatInv'
  <1>1. CASE UNCHANGED chat
    BY <1>1 DEF chat, ChatInv, ChatTypeOK, AuthorityInv, ConversationsInv
  <1>2. CASE AppendQuestion
    <2>1. req.pc = "append"
      BY <1>2 DEF AppendQuestion
    <2>2. AppendThen(Idle) \/ AppendThen([req EXCEPT !.pc = "ask"])
      BY <1>2 DEF AppendQuestion
    <2> QED
      BY <2>1, <2>2, AppendPreserves
  <1>3. CASE Reply
    <2>1. req.pc = "reply" /\ AppendThen(Idle)
      BY <1>3 DEF Reply
    <2> QED
      BY <2>1, AppendPreserves
  <1> QED
    <2>1. \/ UNCHANGED chat \/ Handle \/ AccountChanges \/ \E k \in Conversations : Cleanup(k)
      BY DEF Next, vars, chat
    <2> QED
      BY <1>1, <1>2, <1>3, <2>1, ReceivePreserves, OwnPreserves, ModelPreserves, CallPreserves,
         ReadPreserves, AccountPreserves, CleanupPreserves
         DEF Handle

LEMMA AuthorityHolds ==
    ASSUME ReadAssumption, TablesInv, ChatInv
    PROVE  ReadsWithinAuthority
  <1> SUFFICES ASSUME req.pc = "read"
               PROVE  ToolRows(req.tool, req.ctx) \subseteq UNION {WebRows(req.tool, a) : a \in req.held}
    BY DEF ReadsWithinAuthority
  <1>1. req.ctx \in req.held
    BY DEF ChatInv, AuthorityInv
  <1>2. ToolRows(req.tool, req.ctx) \subseteq WebRows(req.tool, req.ctx)
    BY ReviewsAgree, RemediationsAgree DEF ToolRows, WebRows
  <1> QED
    BY <1>1, <1>2

LEMMA OwnershipHolds ==
    ASSUME ChatbotAssumption, ChatInv
    PROVE  ConversationsAreOwned
  <1> SUFFICES ASSUME NEW m \in messages, owner[m[1]] # None
               PROVE  owner[m[1]] = m[2]
    BY DEF ConversationsAreOwned
  <1>1. Belongs(m[1], m[2]) /\ Belongs(m[1], owner[m[1]])
    BY DEF ChatInv, ConversationsInv
  <1> QED
    BY <1>1 DEF Belongs, ChatbotAssumption

-----------------------------------------------------------------------------

(* The tables stay well-typed and consistent: items are of campaigns that  *)
(* were opened, and a closed campaign is decided, with the remediation     *)
(* actions its decisions ask for.                                          *)
THEOREM TablesInvariant ==
    ASSUME ReadAssumption
    PROVE  TablesSpec => []TablesInv
  <1>1. TablesInit => TablesInv
    BY TablesStart
  <1>2. TablesInv /\ [TablesNext]_tables => TablesInv'
    BY TablesStep
  <1> QED
    BY <1>1, <1>2, PTL DEF TablesSpec

(* The assistant only reads: beside it, the tables behave as they would    *)
(* without, so all that holds of the tables alone holds of both.           *)
THEOREM AssistantOnlyReads == Spec => TablesSpec
  <1>1. Init => TablesInit
    BY DEF Init
  <1>2. [Next]_vars => [TablesNext]_tables
    BY DEF Next, vars, tables, Handle, Receive, Own, AppendQuestion, AppendThen, GiveUp,
           ModelAnswers, Call, Read, Reply, AccountChanges, Cleanup
  <1> QED
    BY <1>1, <1>2, PTL DEF Spec, TablesSpec

(* Whatever happened to the campaigns, the Golden Source and the perimeter *)
(* since, no surface but the assignment list and the drill-down pages      *)
(* shows an operator a row of a provider that is not theirs; a reviewer is *)
(* shown their own items only.                                             *)
THEOREM EvidenceStaysWithinDomains ==
    ASSUME ReadAssumption
    PROVE  TablesSpec => []EvidenceWithinDomains
  <1>1. TablesInv => EvidenceWithinDomains
    BY DomainsHold
  <1> QED
    BY <1>1, TablesInvariant, PTL

(* The assistant and the MCP reports show nothing the web would not show   *)
(* the same person.                                                        *)
THEOREM AssistantStaysWithinWeb ==
    ASSUME ReadAssumption
    PROVE  TablesSpec => []AssistantWithinWeb
  <1>1. TablesInv => AssistantWithinWeb
    BY WithinWebHolds
  <1> QED
    BY <1>1, TablesInvariant, PTL

(* Lists, counts, reports and plans agree wherever they show the same      *)
(* thing, when the snapshot has a provider at all.                         *)
THEOREM SurfacesStayInAgreement ==
    ASSUME ReadAssumption, Covered # {}
    PROVE  TablesSpec => []SurfacesAgree
  <1>1. TablesInv => SurfacesAgree
    BY SurfacesAgreeHolds
  <1> QED
    BY <1>1, TablesInvariant, PTL

(* Opening, deciding, closing or cancelling a campaign, or storing a       *)
(* version, takes nobody the sight of it and gives it to nobody.           *)
THEOREM AudiencesStay ==
    ASSUME ReadAssumption
    PROVE  TablesSpec => AudienceIsStable
  <1>1. TablesInv /\ [TablesNext]_tables =>
          [\A c \in Present :
              /\ campaign'[c].status # "deleted"
              /\ campaign'[c].scope = campaign[c].scope
              /\ campaign'[c].golden = campaign[c].golden
              /\ linked' = linked \/ campaign[c].status \in {"open", "closed"}
              => \A p \in Readers : MayAccess(p, c) = MayAccess(p, c)']_tables
    <2>1. ASSUME TablesInv, TablesNext, NEW c \in Present,
                 campaign'[c].status # "deleted",
                 campaign'[c].scope = campaign[c].scope,
                 campaign'[c].golden = campaign[c].golden,
                 linked' = linked \/ campaign[c].status \in {"open", "closed"},
                 NEW p \in Readers
          PROVE  MayAccess(p, c) = MayAccess(p, c)'
      BY <2>1, AudienceStep
    <2> QED
      BY <2>1
  <1> QED
    BY <1>1, TablesInvariant, PTL DEF TablesSpec, AudienceIsStable

(* The request is under an authority the account has had since the model's *)
(* last answer, and writes into a conversation of its person.              *)
THEOREM ChatInvariant ==
    ASSUME ChatbotAssumption
    PROVE  Spec => []ChatInv
  <1>1. Init => ChatInv
    BY ChatStart
  <1>2. ChatInv /\ [Next]_vars => ChatInv'
    BY ChatStep
  <1> QED
    BY <1>1, <1>2, PTL DEF Spec

(* What a tool reads, the web would show the person under an authority     *)
(* they have had since the model's last answer.                            *)
THEOREM ToolsReadWithinAuthority ==
    ASSUME ReadAssumption, ChatbotAssumption
    PROVE  Spec => []ReadsWithinAuthority
  <1>1. TablesInv /\ ChatInv => ReadsWithinAuthority
    BY AuthorityHolds
  <1> QED
    BY <1>1, AssistantOnlyReads, TablesInvariant, ChatInvariant, PTL

(* Whatever clean-ups and new conversations come between, a message is     *)
(* only ever stored in a conversation of its author.                       *)
THEOREM ConversationsStayOwned ==
    ASSUME ChatbotAssumption
    PROVE  Spec => []ConversationsAreOwned
  <1>1. ChatInv => ConversationsAreOwned
    BY OwnershipHolds
  <1> QED
    BY <1>1, ChatInvariant, PTL
=============================================================================
