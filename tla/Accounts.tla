------------------------------ MODULE Accounts ------------------------------
(***************************************************************************)
(* EARE's own accounts: the system_users rows, the browser sessions, the   *)
(* personal tokens of the external API and of the MCP server, the switches *)
(* of both, and the directories people may sign in with.                   *)
(*                                                                         *)
(* A session is a signed cookie that the server does not store: it names   *)
(* the account and its session_version, and every request checks both      *)
(* against the row.  Each handler reads, then commits one statement at a   *)
(* time; a client (a browser tab, a script, or the operator's shell) has   *)
(* one request in flight.  Refused requests change nothing and are no step.*)
(* Provider scopes, display names and the chatbot switch are left out, and *)
(* so are the audit events that end each handler: nothing here reads them. *)
(***************************************************************************)
EXTENDS Naturals, Sequences

CONSTANTS
    Users,          \* usernames, which are also the row ids
    Clients,        \* who sends requests
    Shells,         \* the clients that are a shell on the server
    Directories,    \* names of identity providers
    Local,          \* auth_source of an account with a password of its own
    Passwords,      \* passwords of at least 12 characters
    Forms,          \* user forms administrators submit
    TokenIds,       \* bound: tokens ever issued
    None,           \* SQL NULL, an absent field, no cookie
    Initial,        \* the rows at the start
    SwitchedOn,     \* whether both switches and the directories are on at the start
    FixedSecret,    \* whether EARE_SESSION_SECRET is set
    Failures,       \* whether a request may die between two commits
    MaxRequests     \* bound: requests ever sent

Kinds == {"api", "mcp"}
Roles == {"ADMIN", "OPERATOR"}
Sources == Directories \cup {Local}

(* One row of system_users.  byForm is history: the stored password was    *)
(* last set with the user form.                                            *)
UserRow == [role : Roles, enabled : BOOLEAN, source : Sources,
            password : Passwords \cup {None}, must : BOOLEAN,
            access : [Kinds -> BOOLEAN], version : Nat, byForm : BOOLEAN]

(* What a cookie says, with the credential it was opened with, and one row *)
(* of api_tokens or mcp_tokens.                                            *)
SessionType == [user : Users, version : Nat, source : Sources,
                password : Passwords \cup {None}]
TokenType == [user : Users, kind : Kinds, revoked : BOOLEAN, expired : BOOLEAN]

(* What a form carries; None is a field it leaves out.                     *)
FormType == [role : Roles, enabled : BOOLEAN, source : Sources,
             password : Passwords \cup {None}, must : BOOLEAN \cup {None},
             access : [Kinds -> BOOLEAN \cup {None}]]

ASSUME AccountsAssumption ==
    /\ Shells \subseteq Clients
    /\ None \notin Passwords \cup Sources \cup BOOLEAN \cup UserRow \cup TokenType \cup SessionType
    /\ Local \notin Directories
    /\ Forms \subseteq FormType
    /\ Initial \in [Users -> UserRow \cup {None}]
    /\ \E u \in Users : /\ Initial[u] # None
                        /\ Initial[u].role = "ADMIN"
                        /\ Initial[u].enabled
    /\ FixedSecret \in BOOLEAN
    /\ SwitchedOn \in BOOLEAN
    /\ Failures \in BOOLEAN
    /\ MaxRequests \in Nat

VARIABLES
    users,      \* system_users: user -> row, or None
    tokens,     \* api_tokens and mcp_tokens: id -> row, or None
    settings,   \* system_settings: external_user_api_enabled, mcp_enabled
    directory,  \* identity_provider_configs: directory -> enabled
    cookie,     \* client -> the session it holds, or None
    req,        \* client -> its request in flight
    requests,   \* bound counter: requests sent
    overlap,    \* history: two removals of an administrator were in flight
    retired     \* history: tokens that a finished suspension had to end

vars == <<users, tokens, settings, directory, cookie, req, requests,
          overlap, retired>>

Idle == [op |-> "idle"]

(* _decode_session and current_user: the cookie's account exists, is       *)
(* enabled and still has the cookie's session_version.                     *)
SignedIn(c) ==
    /\ cookie[c] # None
    /\ users[cookie[c].user] # None
    /\ users[cookie[c].user].enabled
    /\ users[cookie[c].user].version = cookie[c].version

(* _require, without and with the ADMIN role: a pending password change    *)
(* allows nothing else.                                                    *)
Require(c) == SignedIn(c) /\ ~users[cookie[c].user].must
RequireAdmin(c) == Require(c) /\ users[cookie[c].user].role = "ADMIN"

(* authenticate_api_token, with the password check of current_api_user.    *)
ApiTokenAccepted(t) ==
    LET row == users[tokens[t].user] IN
    /\ tokens[t].kind = "api"
    /\ ~tokens[t].revoked /\ ~tokens[t].expired
    /\ row.enabled /\ row.access["api"] /\ ~row.must
    /\ settings["api"]

(* authenticate_mcp_token.                                                 *)
McpTokenAccepted(t) ==
    LET row == users[tokens[t].user] IN
    /\ tokens[t].kind = "mcp"
    /\ ~tokens[t].revoked /\ ~tokens[t].expired
    /\ row.enabled /\ row.access["mcp"]
    /\ settings["mcp"]

TokensOf(u, k) ==
    {t \in TokenIds : tokens[t] # None /\ tokens[t].user = u /\ tokens[t].kind = k}

IsEnabledAdmin(u) == users[u] # None /\ users[u].role = "ADMIN" /\ users[u].enabled

(* enabled_admins counts rows; the guard only asks whether there is one.   *)
EnabledAdmins(excluding) == {u \in Users \ {excluding} : IsEnabledAdmin(u)}

(* Mutant: the guard counts the account it is about to remove.             *)
GuardCountsTarget(c, u, role, enabled) ==
    (users[u] # None /\ users[u].role = "ADMIN" /\ ~(enabled /\ role = "ADMIN"))
    => EnabledAdmins(None) # {}

(* _guard_admin_access: a change that takes an administrator's access away *)
(* is refused to themselves, and for the last enabled administrator.       *)
GuardAdminAccess(c, u, role, enabled) ==
    (users[u] # None /\ users[u].role = "ADMIN" /\ ~(enabled /\ role = "ADMIN"))
    => u # cookie[c].user /\ EnabledAdmins(u) # {}

(* History: requests that may take an administrator's access away.         *)
Removal(r) ==
    \/ r.op = "disable"
    \/ r.op = "upsert" /\ (r.form.role # "ADMIN" \/ ~r.form.enabled)

Count == requests < MaxRequests /\ requests' = requests + 1

Begin(c, r) ==
    /\ req[c] = Idle
    /\ req' = [req EXCEPT ![c] = r]
    /\ overlap' = (overlap \/ (Removal(r) /\ \E d \in Clients : Removal(req[d])))
    /\ Count
    /\ UNCHANGED <<users, tokens, settings, directory, cookie, retired>>

(* Mutant: suspending an account ends its API tokens only.                 *)
RevokeStageApiOnly(u, kinds, old) ==
    [op |-> "revoke", user |-> u, kinds |-> SelectSeq(kinds, LAMBDA k : k = "api"),
     old |-> old]

(* The stage after a suspension: revoke the tokens of kinds, a commit for  *)
(* each kind in turn; the request is then over.                            *)
RevokeStage(u, kinds, old) ==
    [op |-> "revoke", user |-> u, kinds |-> kinds, old |-> old]

Off(access) ==
    (IF access["api"] THEN <<>> ELSE <<"api">>) \o (IF access["mcp"] THEN <<>> ELSE <<"mcp">>)

(* system_user_create up to its first commit, with the access flags that   *)
(* upsert_user reads from the row for the ones the form leaves out.        *)
UpsertBegin(c, u, f) ==
    LET access == [k \in Kinds |-> IF f.access[k] # None THEN f.access[k]
                                   ELSE users[u] # None /\ users[u].access[k]]
    IN /\ RequireAdmin(c)
       /\ f.source # Local => directory[f.source] /\ f.password = None
       /\ GuardAdminAccess(c, u, f.role, f.enabled)
       /\ Begin(c, [op |-> "upsert", user |-> u, form |-> f, access |-> access,
                    old |-> UNION {TokensOf(u, k) : k \in {k \in Kinds : ~access[k]}}])

(* Mutant: a change of sign-in source leaves the sessions alone.           *)
UpsertedKeepsSessions(u, f, access) ==
    [role |-> f.role, enabled |-> f.enabled, source |-> f.source,
     password |-> IF f.source # Local THEN None ELSE f.password,
     must |-> FALSE, access |-> access,
     version |-> IF users[u] = None THEN 1 ELSE users[u].version,
     byForm |-> TRUE]

(* The INSERT ... ON CONFLICT of upsert_user.                              *)
Upserted(u, f, access) ==
    LET must == IF f.must = None THEN None ELSE f.must /\ f.source = Local
    IN IF users[u] = None
       THEN [role |-> f.role, enabled |-> f.enabled, source |-> f.source,
             password |-> f.password, must |-> IF must = None THEN FALSE ELSE must,
             access |-> access, version |-> 1, byForm |-> TRUE]
       ELSE [role |-> f.role, enabled |-> f.enabled, source |-> f.source,
             password |-> IF f.source # Local THEN None
                          ELSE IF f.password # None THEN f.password ELSE users[u].password,
             must |-> IF must = None THEN users[u].must ELSE must,
             access |-> access,
             version |-> users[u].version + (IF f.source # users[u].source THEN 1 ELSE 0),
             byForm |-> IF f.password # None THEN TRUE ELSE users[u].byForm]

UpsertCommit(c) ==
    LET r == req[c] IN
    /\ r.op = "upsert"
    /\ users' = [users EXCEPT ![r.user] = Upserted(r.user, r.form, r.access)]
    /\ req' = [req EXCEPT ![c] = RevokeStage(r.user, Off(r.access), r.old)]
    /\ UNCHANGED <<tokens, settings, directory, cookie, requests, overlap, retired>>

(* system_user_disable and set_enabled(False).                             *)
DisableBegin(c, u) ==
    /\ RequireAdmin(c)
    /\ users[u] # None
    /\ GuardAdminAccess(c, u, users[u].role, FALSE)
    /\ Begin(c, [op |-> "disable", user |-> u,
                 old |-> TokensOf(u, "api") \cup TokensOf(u, "mcp")])

DisableCommit(c) ==
    LET r == req[c] IN
    /\ r.op = "disable"
    /\ users' = [users EXCEPT ![r.user] = [users[r.user] EXCEPT !.enabled = FALSE]]
    /\ req' = [req EXCEPT ![c] = RevokeStage(r.user, <<"api", "mcp">>, r.old)]
    /\ UNCHANGED <<tokens, settings, directory, cookie, requests, overlap, retired>>

(* revoke_api_tokens and revoke_mcp_tokens.                                *)
RevokeTokens(c) ==
    LET r == req[c] IN
    /\ r.op = "revoke"
    /\ r.kinds # <<>>
    /\ tokens' = [t \in TokenIds |->
                    IF t \in TokensOf(r.user, Head(r.kinds))
                    THEN [tokens[t] EXCEPT !.revoked = TRUE] ELSE tokens[t]]
    /\ req' = [req EXCEPT ![c].kinds = Tail(r.kinds)]
    /\ UNCHANGED <<users, settings, directory, cookie, requests, overlap, retired>>

RevokeDone(c) ==
    LET r == req[c] IN
    /\ r.op = "revoke"
    /\ r.kinds = <<>>
    /\ retired' = retired \cup r.old
    /\ req' = [req EXCEPT ![c] = Idle]
    /\ UNCHANGED <<users, tokens, settings, directory, cookie, requests, overlap>>

(* system_user_enable.                                                     *)
EnableBegin(c, u) ==
    /\ RequireAdmin(c)
    /\ users[u] # None
    /\ Begin(c, [op |-> "enable", user |-> u])

EnableCommit(c) ==
    /\ req[c].op = "enable"
    /\ users' = [users EXCEPT ![req[c].user] = [users[req[c].user] EXCEPT !.enabled = TRUE]]
    /\ req' = [req EXCEPT ![c] = Idle]
    /\ UNCHANGED <<tokens, settings, directory, cookie, requests, overlap, retired>>

(* system_user_reset_password, and the system reset-password command, which*)
(* needs no session and writes no event.                                   *)
ResetBegin(c, u, p) ==
    /\ c \in Shells \/ RequireAdmin(c)
    /\ users[u] # None
    /\ users[u].source = Local
    /\ Begin(c, [op |-> "reset", user |-> u, password |-> p])

(* The UPDATE of reset_password.                                           *)
WithReset(row, p) ==
    [row EXCEPT !.password = p, !.must = TRUE, !.version = @ + 1, !.byForm = FALSE]

ResetCommit(c) ==
    LET r == req[c] IN
    /\ r.op = "reset"
    /\ users' = [users EXCEPT ![r.user] = WithReset(users[r.user], r.password)]
    /\ req' = [req EXCEPT ![c] = Idle]
    /\ UNCHANGED <<tokens, settings, directory, cookie, requests, overlap, retired>>

(* system_external_api_toggle and system_mcp_toggle.                       *)
SystemToggle(c, k, enabled) ==
    /\ req[c] = Idle
    /\ RequireAdmin(c)
    /\ settings[k] # enabled
    /\ Count
    /\ settings' = [settings EXCEPT ![k] = enabled]
    /\ UNCHANGED <<users, tokens, directory, cookie, req, overlap, retired>>

(* system_idp_create and upsert_idp, for a valid configuration.            *)
SystemIdpCreate(c, d, enabled) ==
    /\ req[c] = Idle
    /\ RequireAdmin(c)
    /\ Count
    /\ directory' = [directory EXCEPT ![d] = enabled]
    /\ UNCHANGED <<users, tokens, settings, cookie, req, overlap, retired>>

(* me_api_token_create up to the commit, with create_api_token's check.    *)
IssueApiBegin(c) ==
    /\ Require(c)
    /\ users[cookie[c].user].access["api"]
    /\ settings["api"]
    /\ Begin(c, [op |-> "issue", user |-> cookie[c].user, kind |-> "api"])

(* me_mcp_token_create up to the commit, with create_mcp_token's checks.   *)
IssueMcpBegin(c) ==
    /\ Require(c)
    /\ settings["mcp"]
    /\ users[cookie[c].user].access["mcp"]
    /\ Begin(c, [op |-> "issue", user |-> cookie[c].user, kind |-> "mcp"])

(* The UPDATE and the INSERT of create_*_token, one transaction.           *)
Issued(u, k, t) ==
    [s \in TokenIds |->
        IF s = t THEN [user |-> u, kind |-> k, revoked |-> FALSE, expired |-> FALSE]
        ELSE IF s \in TokensOf(u, k) THEN [tokens[s] EXCEPT !.revoked = TRUE]
        ELSE tokens[s]]

IssueCommit(c) ==
    LET r == req[c] IN
    /\ r.op = "issue"
    /\ \E t \in TokenIds :
         /\ tokens[t] = None
         /\ tokens' = Issued(r.user, r.kind, t)
    /\ req' = [req EXCEPT ![c] = Idle]
    /\ UNCHANGED <<users, settings, directory, cookie, requests, overlap, retired>>

(* me_api_token_revoke and me_mcp_token_revoke.                            *)
RevokeOwn(c, k) ==
    /\ Require(c)
    /\ Begin(c, RevokeStage(cookie[c].user, <<k>>, {}))

(* system_user_api_token_revoke and system_user_mcp_token_revoke.          *)
RevokeByAdmin(c, u, k) ==
    /\ RequireAdmin(c)
    /\ users[u] # None
    /\ Begin(c, RevokeStage(u, <<k>>, {}))

TokenExpires(t) ==
    /\ tokens[t] # None
    /\ ~tokens[t].expired
    /\ tokens' = [tokens EXCEPT ![t].expired = TRUE]
    /\ UNCHANGED <<users, settings, directory, cookie, req, requests, overlap, retired>>

(* _directory_login: the directory must still be enabled; whether it then  *)
(* accepts the password is up to it, and here it may.                      *)
DirectoryLogin(source) == directory[source]

(* authenticate_user.                                                      *)
Authenticates(u, p) ==
    /\ users[u] # None
    /\ users[u].enabled
    /\ IF users[u].source = Local THEN users[u].password = p
       ELSE DirectoryLogin(users[u].source)

SessionOf(u) == [user |-> u, version |-> users[u].version, source |-> users[u].source,
                 password |-> users[u].password]

(* login past the password check.                                          *)
LoginVerify(c, u, p) ==
    /\ c \notin Shells
    /\ Authenticates(u, p)
    /\ Begin(c, [op |-> "login", session |-> SessionOf(u)])

LoginFinish(c) ==
    /\ req[c].op = "login"
    /\ cookie' = [cookie EXCEPT ![c] = req[c].session]
    /\ req' = [req EXCEPT ![c] = Idle]
    /\ UNCHANGED <<users, tokens, settings, directory, requests, overlap, retired>>

(* change_password, which a pending change does not forbid.                *)
ChangeBegin(c, p) ==
    /\ SignedIn(c)
    /\ users[cookie[c].user].source = Local
    /\ Begin(c, [op |-> "change", user |-> cookie[c].user, password |-> p])

WithChanged(row, p) ==
    [row EXCEPT !.password = p, !.must = FALSE, !.version = @ + 1, !.byForm = FALSE]

ChangeCommit(c) ==
    LET r == req[c] IN
    /\ r.op = "change"
    /\ users' = [users EXCEPT ![r.user] = WithChanged(users[r.user], r.password)]
    /\ req' = [req EXCEPT ![c].op = "reissue"]
    /\ UNCHANGED <<tokens, settings, directory, cookie, requests, overlap, retired>>

(* Signing in again with the new password for the new cookie; when the row *)
(* changed meanwhile the request ends in an error and the cookie stays.    *)
ChangeReissue(c) ==
    LET u == req[c].user IN
    /\ req[c].op = "reissue"
    /\ cookie' = IF users[u].source = Local /\ Authenticates(u, req[c].password)
                 THEN [cookie EXCEPT ![c] = SessionOf(u)] ELSE cookie
    /\ req' = [req EXCEPT ![c] = Idle]
    /\ UNCHANGED <<users, tokens, settings, directory, requests, overlap, retired>>

(* logout, or eight hours pass: the cookie is gone from the browser.       *)
CookieGone(c) ==
    /\ req[c] = Idle
    /\ cookie[c] # None
    /\ cookie' = [cookie EXCEPT ![c] = None]
    /\ UNCHANGED <<users, tokens, settings, directory, req, requests, overlap, retired>>

(* A request dies; its transaction in progress is rolled back.             *)
Fail(c) ==
    /\ Failures
    /\ req[c] # Idle
    /\ req' = [req EXCEPT ![c] = Idle]
    /\ UNCHANGED <<users, tokens, settings, directory, cookie, requests, overlap, retired>>

(* A restart ends every request, and every session when the secret that    *)
(* signs the cookies is drawn at start-up.                                 *)
Restart ==
    /\ Failures
    /\ req' = [c \in Clients |-> Idle]
    /\ cookie' = IF FixedSecret THEN cookie ELSE [c \in Clients |-> None]
    /\ UNCHANGED <<users, tokens, settings, directory, requests, overlap, retired>>

Init ==
    /\ users = Initial
    /\ tokens = [t \in TokenIds |-> None]
    /\ settings = [k \in Kinds |-> SwitchedOn]
    /\ directory = [d \in Directories |-> SwitchedOn]
    /\ cookie = [c \in Clients |-> None]
    /\ req = [c \in Clients |-> Idle]
    /\ requests = 0
    /\ overlap = FALSE
    /\ retired = {}

Request(c) ==
    \/ \E u \in Users :
         \/ \E f \in Forms : UpsertBegin(c, u, f)
         \/ DisableBegin(c, u)
         \/ EnableBegin(c, u)
         \/ \E p \in Passwords : ResetBegin(c, u, p) \/ LoginVerify(c, u, p)
         \/ \E k \in Kinds : RevokeByAdmin(c, u, k)
    \/ \E k \in Kinds : RevokeOwn(c, k) \/ \E b \in BOOLEAN : SystemToggle(c, k, b)
    \/ IssueApiBegin(c) \/ IssueMcpBegin(c)
    \/ \E d \in Directories, b \in BOOLEAN : SystemIdpCreate(c, d, b)
    \/ \E p \in Passwords : ChangeBegin(c, p)
    \/ CookieGone(c)

Continue(c) ==
    \/ UpsertCommit(c) \/ DisableCommit(c) \/ EnableCommit(c) \/ ResetCommit(c)
    \/ RevokeTokens(c) \/ RevokeDone(c) \/ IssueCommit(c)
    \/ LoginFinish(c) \/ ChangeCommit(c) \/ ChangeReissue(c)

Next ==
    \/ \E c \in Clients : Request(c) \/ Continue(c) \/ Fail(c)
    \/ \E t \in TokenIds : TokenExpires(t)
    \/ Restart

Spec == Init /\ [][Next]_vars

-----------------------------------------------------------------------------

RequestType ==
    {Idle}
    \cup [op : {"upsert"}, user : Users, form : Forms, access : [Kinds -> BOOLEAN],
          old : SUBSET TokenIds]
    \cup [op : {"disable"}, user : Users, old : SUBSET TokenIds]
    \cup [op : {"revoke"}, user : Users, kinds : Seq(Kinds),
          old : SUBSET TokenIds]
    \cup [op : {"enable"}, user : Users]
    \cup [op : {"reset", "change", "reissue"}, user : Users, password : Passwords]
    \cup [op : {"issue"}, user : Users, kind : Kinds]
    \cup [op : {"login"}, session : SessionType]

(* The types of the tables, the cookies and the requests in flight; a      *)
(* request only ever works on an account that exists, once it wrote to it. *)
TypeOK ==
    /\ users \in [Users -> UserRow \cup {None}]
    /\ tokens \in [TokenIds -> TokenType \cup {None}]
    /\ settings \in [Kinds -> BOOLEAN]
    /\ directory \in [Directories -> BOOLEAN]
    /\ cookie \in [Clients -> SessionType \cup {None}]
    /\ req \in [Clients -> RequestType]
    /\ requests \in 0 .. MaxRequests
    /\ overlap \in BOOLEAN
    /\ retired \subseteq TokenIds

(* What a request will write to, and what a session names, exists: no      *)
(* handler removes a row of system_users.                                  *)
AccountsExist ==
    /\ \A c \in Clients :
          req[c].op \in {"disable", "enable", "reset", "change", "reissue"} => users[req[c].user] # None
    /\ \A c \in Clients : cookie[c] # None => users[cookie[c].user] # None
    /\ \A c \in Clients : req[c].op = "login" => users[req[c].session.user] # None

(* Unless two removals were in flight together, some enabled administrator *)
(* remains, whoever disables, demotes or converts whom: what               *)
(* _guard_admin_access and enabled_admins are for.                         *)
AdministratorRemains == overlap \/ \E u \in Users : IsEnabledAdmin(u)

(* A removal in flight leaves another administrator, and is the only one.  *)
AdminInv ==
    overlap \/ /\ \E u \in Users : IsEnabledAdmin(u)
               /\ \A c \in Clients : Removal(req[c]) =>
                     /\ \E u \in Users \ {req[c].user} : IsEnabledAdmin(u)
                     /\ \A d \in Clients : Removal(req[d]) => d = c

(* A session that is accepted was opened with the source and the password  *)
(* the account has now: a reset, a change of password or of source ends    *)
(* the older sessions, also one whose sign-in was under way.  A password   *)
(* set with the user form is the exception: it keeps session_version.      *)
SessionFollowsCredential ==
    \A c \in Clients : SignedIn(c) =>
        LET row == users[cookie[c].user] IN
        /\ cookie[c].source = row.source
        /\ row.source = Local /\ ~row.byForm => cookie[c].password = row.password

(* A session, stored or about to be, is of the past or of the present: an  *)
(* older session_version, or the source and the password of now.           *)
Dated(s) ==
    LET row == users[s.user] IN
    /\ s.version <= row.version
    /\ s.version = row.version =>
          s.source = row.source /\ (row.source = Local /\ ~row.byForm => s.password = row.password)

SessionInv ==
    /\ \A c \in Clients : cookie[c] # None => Dated(cookie[c])
    /\ \A c \in Clients : req[c].op = "login" => Dated(req[c].session)

(* The kinds of token a suspension has still to revoke.                    *)
Pending(r) ==
    CASE r.op = "upsert" -> {k \in Kinds : ~r.access[k]}
      [] r.op = "disable" -> Kinds
      [] r.op = "revoke" -> {k \in Kinds : \E i \in 1 .. Len(r.kinds) : r.kinds[i] = k}

(* The tokens a suspension has to end are revoked, or of a kind it will    *)
(* still revoke for the account.                                           *)
TokenInv ==
    /\ \A t \in retired : tokens[t] # None /\ tokens[t].revoked
    /\ \A c \in Clients : req[c].op \in {"upsert", "disable", "revoke"} =>
          \A t \in req[c].old :
             /\ tokens[t] # None
             /\ tokens[t].revoked \/ (tokens[t].user = req[c].user /\ tokens[t].kind \in Pending(req[c]))

(* A token that existed when its account was disabled, or lost the access  *)
(* it is for, is never accepted again once that request was answered, also *)
(* when the account is enabled and given the access again.                 *)
SuspensionRetiresTokens ==
    \A t \in retired : ~ApiTokenAccepted(t) /\ ~McpTokenAccepted(t)

=============================================================================
