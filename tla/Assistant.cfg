SPECIFICATION Spec
CONSTANTS
    Providers = {"p1", "p2"}
    Covered = {"p1"}
    Rows <- AllRows
    Observed <- ObservedRows
    Expected <- Versions
    Scopes <- AskedScopes
    Campaigns = {c1}
    Linkable <- OneRow
    MaxDecisions = 1
    Unassigned = "nobody"
    Readers <- SomeReaders
    Accounts <- SomeAccounts
    Conversations = {"k1", "k2"}
    Others <- SomeoneElse
    MaxToolRounds = 2
    MaxToolCalls = 2
    MaxCalls = 1
    None = None
CHECK_DEADLOCK FALSE
INVARIANT EvidenceWithinDomains
 
 
PROPERTY AudienceIsStable
INVARIANT ConversationsAreOwned
INVARIANT ReadsWithinAuthority
